---------------------------- MODULE ChatRunProofs ----------------------------
(***************************************************************************)
(* A chat session keeps its types, and no tool call runs twice or after    *)
(* the user declined it -- for every user, any number of requests at the   *)
(* same time, and any bounds.  For users who do one thing at a time,       *)
(* moreover, every run begins with each call answered in place, only open  *)
(* calls run, a stop holds, no conversation is left in the middle, and     *)
(* what was approved runs.                                                 *)
(***************************************************************************)
EXTENDS ChatRun, FiniteSetTheorems, SequenceTheorems, WellFoundedInduction, TLAPS

-----------------------------------------------------------------------------
(* Sequences, and the last turn of a transcript.                           *)

\* What is left of a sequence after its head.
LEMMA TailLeaves ==
    ASSUME NEW S, NEW s \in Seq(S), s # <<>>
    PROVE  /\ Head(s) \in S /\ Tail(s) \in Seq(S)
           /\ Head(s) \in Range(s)
           /\ Range(Tail(s)) \subseteq Range(s)
           /\ IsInjective(s) => IsInjective(Tail(s)) /\ Head(s) \notin Range(Tail(s))
  <1>1. /\ Len(s) \in Nat /\ DOMAIN s = 1 .. Len(s) /\ Len(s) > 0
        /\ Len(Tail(s)) = Len(s) - 1
        /\ Tail(s) \in Seq(S) /\ DOMAIN Tail(s) = 1 .. Len(s) - 1
        /\ \A i \in 1 .. Len(s) - 1 : Tail(s)[i] = s[i + 1]
        /\ Head(s) = s[1] /\ Head(s) \in S
    OBVIOUS
  <1>2. Head(s) \in Range(s) /\ Range(Tail(s)) \subseteq Range(s)
    BY <1>1 DEF Range
  <1>3. ASSUME IsInjective(s)
        PROVE  IsInjective(Tail(s)) /\ Head(s) \notin Range(Tail(s))
    BY <1>1, <1>3 DEF IsInjective, Range
  <1> QED BY <1>1, <1>2, <1>3

\* What appending adds.
LEMMA AppendAdds ==
    ASSUME NEW S, NEW s \in Seq(S), NEW e \in S
    PROVE  /\ Append(s, e) \in Seq(S)
           /\ Range(Append(s, e)) = Range(s) \cup {e}
           /\ IsInjective(s) /\ e \notin Range(s) => IsInjective(Append(s, e))
  <1>1. /\ Len(s) \in Nat /\ DOMAIN s = 1 .. Len(s)
        /\ Append(s, e) \in Seq(S)
        /\ DOMAIN Append(s, e) = 1 .. Len(s) + 1
        /\ \A i \in 1 .. Len(s) : Append(s, e)[i] = s[i]
        /\ Append(s, e)[Len(s) + 1] = e
    OBVIOUS
  <1>2. Range(Append(s, e)) = Range(s) \cup {e}
    BY <1>1 DEF Range
  <1>3. ASSUME IsInjective(s), e \notin Range(s)
        PROVE  IsInjective(Append(s, e))
    BY <1>1, <1>3 DEF IsInjective, Range
  <1> QED BY <1>1, <1>2, <1>3

\* A set of positions that is not empty has a last one.
LEMMA LastPosition ==
    ASSUME NEW n \in Nat, NEW T \in SUBSET (1 .. n), T # {}
    PROVE  \E i \in T : \A j \in T : j <= i
  <1> DEFINE D == {n - i : i \in T}
  <1>0. \A i \in T : i \in 1 .. n /\ n - i \in Nat
    OBVIOUS
  <1>1. D \subseteq Nat /\ D # {}
    BY <1>0
  <1>2. PICK d \in D : \A e \in D : ~(<<e, d>> \in OpToRel(<, Nat))
    BY <1>1, NatLessThanWellFounded, WFMin
  <1>3. PICK i \in T : d = n - i
    BY <1>2
  <1>4. ASSUME NEW j \in T PROVE j <= i
    <2>1. n - j \in D /\ ~(n - j < d)
      BY <1>1, <1>2 DEF OpToRel
    <2> QED BY <1>0, <1>3, <2>1
  <1> QED BY <1>4

\* The elements of a finite set can be put in a sequence.
LEMMA InSomeOrder ==
    ASSUME NEW S, IsFiniteSet(S)
    PROVE  SetToSeq(S) \in Seq(S) /\ Range(SetToSeq(S)) = S /\ IsInjective(SetToSeq(S))
  <1> DEFINE n == Cardinality(S)
             f == SetToSeq(S)
  <1>1. n \in Nat /\ ExistsBijection(1 .. n, S)
    BY FS_CardinalityType
  <1>2. PICK g \in [1 .. n -> S] : IsInjective(g)
    BY <1>1 DEF ExistsBijection, Bijection, Injection, Surjection
  <1>3. f \in [1 .. n -> S] /\ IsInjective(f)
    BY <1>2 DEF SetToSeq
  <1>4. IsFiniteSet(1 .. n) /\ Cardinality(1 .. n) = n
    BY <1>1, FS_Interval
  <1>5. f \in Surjection(1 .. n, S)
    BY <1>3, <1>4, FS_Injection DEF Injection
  <1> HIDE DEF f, n
  <1>6. f \in Seq(S)
    BY <1>1, <1>3
  <1>7. Range(f) = S
    BY <1>3, <1>5 DEF Surjection, Range
  <1> QED BY <1>3, <1>6, <1>7 DEF f

\* The last turn is one of the turns.
LEMMA LastTurnIsTurn ==
    ASSUME NEW s \in Seq(Message), TurnsIn(s) # {}
    PROVE  LastTurn(s) \in TurnsIn(s) /\ \A j \in TurnsIn(s) : j <= LastTurn(s)
  <1>1. Len(s) \in Nat /\ TurnsIn(s) \subseteq 1 .. Len(s)
    BY DEF TurnsIn
  <1>2. \E i \in TurnsIn(s) : \A j \in TurnsIn(s) : j <= i
    BY <1>1, LastPosition
  <1> QED BY <1>2 DEF LastTurn

\* The open calls of a transcript are finitely many calls.
LEMMA OpenIsCalls ==
    ASSUME NEW s \in Seq(Message)
    PROVE  Open(s) \subseteq Calls /\ IsFiniteSet(Open(s))
  <1>1. Open(s) \subseteq Calls
    <2>1. CASE TurnsIn(s) = {}
      BY <2>1 DEF Open
    <2>2. CASE TurnsIn(s) # {}
      <3>1. LastTurn(s) \in DOMAIN s
        BY <2>2, LastTurnIsTurn DEF TurnsIn
      <3>2. s[LastTurn(s)].calls \in Seq(Calls)
        <4>1. s[LastTurn(s)] \in Message
          BY <3>1
        <4> QED BY <4>1 DEF Message
      <3>3. Range(s[LastTurn(s)].calls) \subseteq Calls
        BY <3>2 DEF Range
      <3> QED BY <2>2, <3>3 DEF Open
    <2> QED BY <2>1, <2>2
  <1>2. IsFiniteSet(Calls)
    BY ChatRunAssumption, FS_Interval DEF Calls
  <1> QED BY <1>1, <1>2, FS_Subset

\* Results are messages, and so are turns.
LEMMA Messages ==
    /\ \A c \in Calls : Result(c) \in Message
    /\ \A calls \in Seq(Calls) : Turn(calls) \in Message
    /\ User \in Message
  <1>1. \A c \in Calls : <<c>> \in Seq(Calls)
    OBVIOUS
  <1> QED BY <1>1 DEF Message, Result, Turn, User

LEMMA CompletedIsTranscript ==
    ASSUME NEW s \in Seq(Message)
    PROVE  Completed(s) \in Seq(Message)
  <1> DEFINE missing == SetToSeq(Open(s))
             results == [i \in DOMAIN missing |-> Result(missing[i])]
  <1>1. missing \in Seq(Calls)
    <2>1. missing \in Seq(Open(s))
      BY OpenIsCalls, InSomeOrder
    <2> QED BY <2>1, OpenIsCalls, SeqMonotonic
  <1> HIDE DEF missing
  <1>2. Len(missing) \in Nat /\ DOMAIN missing = 1 .. Len(missing)
        /\ \A i \in DOMAIN missing : missing[i] \in Calls
    BY <1>1
  <1>3. \A i \in DOMAIN missing : Result(missing[i]) \in Message
    BY <1>2, Messages
  <1>4. results \in Seq(Message)
    BY <1>2, <1>3
  <1> HIDE DEF results
  <1>5. s \o results \in Seq(Message)
    BY <1>4
  <1> QED BY <1>5 DEF Completed, missing, results

-----------------------------------------------------------------------------
(* Types.                                                                  *)

\* A thread in the midst of a batch has a current call; a call of its own leaves
\* no batch beside it, and the run has none.
Sound(t, r) ==
    /\ t = Run => r.own = NoCall
    /\ r.own # NoCall => r.todo = <<>> /\ r.at \notin {"append", "next", "check", "pause"}
    /\ r.at \in {"check", "pause"} => r.todo # <<>>
    /\ r.at \in {"execute", "tool", "result"} => r.own # NoCall \/ r.todo # <<>>
    /\ r.at \in {"interrupt", "launch", "group", "broken", "deliver"} => r.own # NoCall

Typed == TypeOK /\ \A t \in Threads : Sound(t, thread[t])

\* One thread moves.
LEMMA OneMoves ==
    ASSUME Typed, NEW t \in Threads, NEW v \in Thread, Sound(t, v), Become(t, v)
    PROVE  /\ thread' \in [Threads -> Thread]
           /\ \A u \in Threads : Sound(u, thread'[u])
           /\ t # Run => thread'[Run] = thread[Run]
           /\ thread'[t] = v
  BY DEF Typed, TypeOK, Become, Threads

\* It may only go on to another step.
LEMMA OneGoesOn ==
    ASSUME Typed, NEW t \in Threads, NEW step \in Steps, Go(t, step),
           thread[t].own # NoCall => step \notin {"append", "next", "check", "pause"},
           step \in {"check", "pause"} => thread[t].todo # <<>>,
           step \in {"execute", "tool", "result"} =>
             thread[t].own # NoCall \/ thread[t].todo # <<>>,
           step \in {"interrupt", "launch", "group", "broken", "deliver"} =>
             thread[t].own # NoCall
    PROVE  /\ thread' \in [Threads -> Thread]
           /\ \A u \in Threads : Sound(u, thread'[u])
           /\ t # Run => thread'[Run] = thread[Run]
           /\ thread'[t] = [thread[t] EXCEPT !.at = step]
  <1> DEFINE v == [thread[t] EXCEPT !.at = step]
  <1>1. thread[t] \in Thread /\ Sound(t, thread[t]) /\ thread \in [Threads -> Thread]
    BY DEF Typed, TypeOK
  <1>2. v \in Thread /\ v.at = step /\ v.todo = thread[t].todo /\ v.own = thread[t].own
    BY <1>1 DEF Thread
  <1>3. Become(t, v)
    BY <1>1 DEF Go, Become
  <1> HIDE DEF v
  <1>4. Sound(t, v)
    BY <1>1, <1>2 DEF Sound
  <1> QED BY <1>2, <1>3, <1>4, OneMoves DEF v

\* The run is on while its thread is at work.
LEMMA OnWhileAtWork == Typed /\ thread[Run].at # "idle" => running
  BY DEF Typed, TypeOK, Idle

LEMMA ThreadsApart ==
    /\ Run \in Threads /\ Job \in Threads /\ Run # Job
    /\ \A h \in Requests : h \in Threads /\ h # Run /\ h # Job
  BY ChatRunAssumption DEF Threads

LEMMA IdleIsSound == Idle \in Thread /\ \A t \in Threads : Sound(t, Idle)
  <1>1. <<>> \in Seq(Calls)
    OBVIOUS
  <1> QED BY <1>1 DEF Idle, Thread, Steps, Sound

\* A thread that was set to a step, with a call of its own or without.
LEMMA AnewIsSound ==
    ASSUME NEW step \in Steps \ {"check", "pause", "execute", "tool", "result", "interrupt", "launch",
                                 "group", "broken", "deliver"}
    PROVE  /\ [Idle EXCEPT !.at = step] \in Thread
           /\ \A t \in Threads : Sound(t, [Idle EXCEPT !.at = step])
  <1>1. <<>> \in Seq(Calls)
    OBVIOUS
  <1> QED BY <1>1 DEF Idle, Thread, Sound

LEMMA AnewWithCallIsSound ==
    ASSUME NEW step \in Steps \ {"append", "next", "check", "pause"}, NEW c \in Calls,
           NEW t \in Threads \ {Run}
    PROVE  /\ [Idle EXCEPT !.at = step, !.own = c] \in Thread
           /\ Sound(t, [Idle EXCEPT !.at = step, !.own = c])
  <1>1. <<>> \in Seq(Calls)
    OBVIOUS
  <1>2. c # NoCall
    BY ChatRunAssumption DEF Calls, NoCall
  <1> QED BY <1>1, <1>2 DEF Idle, Thread, Sound

LEMMA TypedInit == Init => Typed
  <1> SUFFICES ASSUME Init PROVE Typed
    OBVIOUS
  <1>1. thread \in [Threads -> Thread] /\ \A t \in Threads : thread[t] = Idle
    BY IdleIsSound DEF Init
  <1>2. /\ <<>> \in Seq(Message) /\ <<>> \in Seq(Calls)
        /\ groups \in [Calls -> Groups]
    BY DEF Init, Groups
  <1>3. thread[Run] = Idle
    BY <1>1, ThreadsApart
  <1>4. 0 \in 0 .. MaxRounds
    BY ChatRunAssumption
  <1> QED BY <1>1, <1>2, <1>3, <1>4, IdleIsSound DEF Init, Typed, TypeOK

\* The steps of the run's own loop keep the types.
LEMMA TypedConversation ==
    ASSUME Typed, Conversation
    PROVE  Typed'
  <1>0. /\ Run \in Threads /\ thread[Run] \in Thread /\ Sound(Run, thread[Run])
        /\ transcript \in Seq(Message)
        /\ thread[Run].at # "idle" => running
    BY ThreadsApart, OnWhileAtWork DEF Typed, TypeOK
  <1>1. CASE Loop
    <2>1. \E step \in {"exit", "begin"} : Go(Run, step)
      BY <1>1 DEF Loop
    <2>2. thread' \in [Threads -> Thread] /\ \A u \in Threads : Sound(u, thread'[u])
      BY <1>0, <2>1, OneGoesOn DEF Sound, Steps
    <2>3. transcript' \in Seq(Message) /\ sent' \in Seq(Message)
      BY <1>0, <1>1, CompletedIsTranscript DEF Loop, Typed, TypeOK
    <2> QED BY <1>0, <1>1, <2>2, <2>3
            DEF Loop, At, Typed, TypeOK, work, flags, history, counts
  <1>2. CASE BeginLLMCall
    <2>1. \E step \in {"exit", "stream"} : Go(Run, step)
      BY <1>2 DEF BeginLLMCall
    <2>2. thread' \in [Threads -> Thread] /\ \A u \in Threads : Sound(u, thread'[u])
      BY <1>0, <2>1, OneGoesOn DEF Sound, Steps
    <2> QED BY <1>0, <1>2, <2>2
            DEF BeginLLMCall, At, Typed, TypeOK, work, session, flags, history, counts
  <1>3. CASE StreamChat
    <2>1. CASE Go(Run, "exit") /\ UNCHANGED <<issued, turns>> /\ failed' \in {failed, TRUE}
      <3>1. thread' \in [Threads -> Thread] /\ \A u \in Threads : Sound(u, thread'[u])
        BY <1>0, <2>1, OneGoesOn DEF Sound, Steps
      <3>2. failed' \in BOOLEAN /\ issued' \in Nat /\ turns' \in Nat
        BY <2>1 DEF Typed, TypeOK
      <3> QED BY <1>0, <1>3, <3>1, <3>2
              DEF StreamChat, At, Typed, TypeOK, work, session, flags
    <2>2. CASE \E n \in 0 .. MaxBatch :
                 /\ issued + n <= MaxCalls
                 /\ issued' = issued + n /\ turns' = turns + 1 /\ UNCHANGED failed
                 /\ Become(Run, [at |-> "append", own |-> NoCall,
                                 todo |-> [i \in 1 .. n |-> issued + i]])
      <3>1. PICK n \in 0 .. MaxBatch :
                 /\ issued + n <= MaxCalls
                 /\ issued' = issued + n /\ turns' = turns + 1 /\ UNCHANGED failed
                 /\ Become(Run, [at |-> "append", own |-> NoCall,
                                 todo |-> [i \in 1 .. n |-> issued + i]])
        BY <2>2
      <3> DEFINE todo == [i \in 1 .. n |-> issued + i]
                 v == [at |-> "append", own |-> NoCall, todo |-> todo]
      <3>2. n \in Nat /\ issued \in Nat /\ issued' \in Nat /\ turns' \in Nat
        BY <3>1, ChatRunAssumption DEF Typed, TypeOK
      <3>3. \A i \in 1 .. n : issued + i \in Calls
        BY <3>1, <3>2, ChatRunAssumption DEF Calls
      <3>4. todo \in Seq(Calls)
        BY <3>2, <3>3
      <3> HIDE DEF todo
      <3>5. v \in Thread /\ Sound(Run, v)
        BY <3>4 DEF Thread, Steps, Sound
      <3>6. Become(Run, v)
        BY <3>1 DEF todo
      <3>7. thread' \in [Threads -> Thread] /\ \A u \in Threads : Sound(u, thread'[u])
        BY <1>0, <3>5, <3>6, OneMoves
      <3> QED BY <1>0, <1>3, <3>1, <3>2, <3>7
              DEF StreamChat, At, Typed, TypeOK, work, session, flags
    <2> QED BY <1>3, <2>1, <2>2 DEF StreamChat, Failure
  <1>4. CASE AppendTurn
    <2>1. \E step \in {"exit", "next"} : Go(Run, step)
      BY <1>4 DEF AppendTurn
    <2>2. thread' \in [Threads -> Thread] /\ \A u \in Threads : Sound(u, thread'[u])
      BY <1>0, <2>1, OneGoesOn DEF Sound, Steps
    <2>3. transcript' \in Seq(Message)
      <3>1. Turn(thread[Run].todo) \in Message
        BY <1>0, Messages DEF Thread
      <3> QED BY <1>0, <1>4, <3>1 DEF AppendTurn, Say
    <2> QED BY <1>0, <1>4, <2>2, <2>3
            DEF AppendTurn, At, Typed, TypeOK, work, flags, history, counts
  <1>5. CASE Exit
    <2>1. thread' \in [Threads -> Thread] /\ (\A u \in Threads : Sound(u, thread'[u]))
          /\ thread'[Run] = Idle
      BY <1>0, <1>5, IdleIsSound, OneMoves DEF Exit
    <2> QED BY <1>5, <2>1 DEF Exit, Typed, TypeOK, work, session, history, counts
  <1> QED BY <1>1, <1>2, <1>3, <1>4, <1>5 DEF Conversation

\* The current call of a thread that has one.
LEMMA CurrentIsCall ==
    ASSUME Typed, NEW t \in Threads, thread[t].own # NoCall \/ thread[t].todo # <<>>
    PROVE  Current(t) \in Calls
  BY DEF Typed, TypeOK, Thread, Current

\* And the steps that go through a batch.
LEMMA TypedBatch ==
    ASSUME Typed, NEW t \in Requests \cup {Run}, Batch(t)
    PROVE  Typed'
  <1>0. /\ t \in Threads /\ Run \in Threads
        /\ thread[t] \in Thread /\ Sound(t, thread[t])
        /\ thread[Run].at # "idle" => running
        /\ t # Run \/ thread[Run] = thread[t]
    BY ThreadsApart, OnWhileAtWork DEF Typed, TypeOK, Threads
  <1>1. thread[t].at # "idle"
    BY DEF Batch, Drained, PrepareTool, ExecuteTool, ToolReturns, AppendResult, CheckStop, Pause, At
  <1>2. t = Run => running
    BY <1>0, <1>1
  <1>3. CASE Drained(t)
    <2>1. \E step \in {"loop", "start"} : Go(t, step)
      BY <1>3 DEF Drained, GoingOn
    <2>2. /\ thread' \in [Threads -> Thread] /\ \A u \in Threads : Sound(u, thread'[u])
          /\ t # Run => thread'[Run] = thread[Run]
      BY <1>0, <2>1, OneGoesOn DEF Sound, Steps
    <2> QED BY <1>2, <1>3, <2>2 DEF Drained, Typed, TypeOK, work, flags, history, counts
  <1>4. CASE PrepareTool(t)
    <2>1. \E step \in {"result", "execute", "pause"} : Go(t, step)
      BY <1>4 DEF PrepareTool
    <2>2. /\ thread' \in [Threads -> Thread] /\ \A u \in Threads : Sound(u, thread'[u])
          /\ t # Run => thread'[Run] = thread[Run]
      BY <1>0, <1>4, <2>1, OneGoesOn DEF Sound, Steps, PrepareTool, At
    <2>3. Current(t) \in Calls
      BY <1>0, <1>4, CurrentIsCall DEF PrepareTool
    <2>4. approvals' \subseteq Calls /\ questions' \subseteq Calls
      BY <1>4, <2>3 DEF PrepareTool, Typed, TypeOK
    <2> QED BY <1>2, <1>4, <2>2, <2>4 DEF PrepareTool, Typed, TypeOK, work, flags, history, counts
  <1>5. CASE ExecuteTool(t)
    <2>1. Current(t) \in Calls
      BY <1>0, <1>5, CurrentIsCall DEF ExecuteTool, At, Sound
    <2>2. Go(t, "tool") \/ Go(t, After(t))
      BY <1>5 DEF ExecuteTool
    <2>3. /\ thread' \in [Threads -> Thread] /\ \A u \in Threads : Sound(u, thread'[u])
          /\ t # Run => thread'[Run] = thread[Run]
      BY <1>0, <1>5, <2>2, OneGoesOn DEF Sound, Steps, ExecuteTool, At, After
    <2>4. runningTool' \in Calls \cup {NoCall} /\ ran' \in Seq(Calls)
      BY SMTT(30), <1>5, <2>1 DEF ExecuteTool, Typed, TypeOK
    <2> QED BY <1>2, <1>5, <2>3, <2>4 DEF ExecuteTool, Typed, TypeOK, work, session, counts
  <1>6. CASE ToolReturns(t)
    <2>1. Go(t, "result") \/ Go(t, After(t))
      BY <1>6 DEF ToolReturns
    <2>2. /\ thread' \in [Threads -> Thread] /\ \A u \in Threads : Sound(u, thread'[u])
          /\ t # Run => thread'[Run] = thread[Run]
      BY <1>0, <1>6, <2>1, OneGoesOn DEF Sound, Steps, ToolReturns, At, After
    <2> QED BY <1>2, <1>6, <2>2 DEF ToolReturns, Typed, TypeOK, work, session, history, counts
  <1>7. CASE AppendResult(t)
    <2>1. Current(t) \in Calls
      BY <1>0, <1>7, CurrentIsCall DEF AppendResult, At, Sound
    <2>2. Go(t, After(t))
      BY <1>7 DEF AppendResult
    <2>3. /\ thread' \in [Threads -> Thread] /\ \A u \in Threads : Sound(u, thread'[u])
          /\ t # Run => thread'[Run] = thread[Run]
      BY <1>0, <1>7, <2>2, OneGoesOn DEF Sound, Steps, AppendResult, At, After
    <2>4. transcript' \in Seq(Message)
      BY <1>7, <2>1, Messages DEF AppendResult, Say, Typed, TypeOK
    <2> QED BY <1>2, <1>7, <2>3, <2>4 DEF AppendResult, Typed, TypeOK, work, flags, history, counts
  <1>8. CASE CheckStop(t)
    <2>1. thread[t].todo # <<>> /\ thread[t].own = NoCall
      BY <1>0, <1>8 DEF CheckStop, At, Sound
    <2>2. Tail(thread[t].todo) \in Seq(Calls) /\ thread[t].todo \in Seq(Calls)
      BY <1>0, <2>1, TailLeaves DEF Thread
    <2>3. /\ [thread[t] EXCEPT !.at = "pause"] \in Thread
          /\ [thread[t] EXCEPT !.at = "next", !.todo = Tail(@)] \in Thread
          /\ Sound(t, [thread[t] EXCEPT !.at = "pause"])
          /\ Sound(t, [thread[t] EXCEPT !.at = "next", !.todo = Tail(@)])
      BY <1>0, <2>1, <2>2 DEF Thread, Steps, Sound
    <2>4. /\ thread' \in [Threads -> Thread] /\ \A u \in Threads : Sound(u, thread'[u])
          /\ t # Run => thread'[Run] = thread[Run]
      BY <1>0, <1>8, <2>3, OneMoves DEF CheckStop
    <2> QED BY <1>2, <1>8, <2>4 DEF CheckStop, Typed, TypeOK, work, session, flags, history, counts
  <1>9. CASE Pause(t)
    <2>1. queued' \in Seq(Calls)
      BY <1>0, <1>9, TailLeaves DEF Pause, At, Sound, Thread, Behind
    <2>2. /\ [Idle EXCEPT !.at = Pausing(t)] \in Thread
          /\ Sound(t, [Idle EXCEPT !.at = Pausing(t)])
      <3>1. Pausing(t) \in Steps /\ Pausing(t) \in {"exit", "start"}
        BY DEF Pausing, Steps
      <3> QED BY <1>0, <3>1, AnewIsSound
    <2>3. /\ thread' \in [Threads -> Thread] /\ \A u \in Threads : Sound(u, thread'[u])
          /\ t # Run => thread'[Run] = thread[Run]
      BY <1>0, <1>9, <2>2, OneMoves DEF Pause
    <2> QED BY <1>2, <1>9, <2>1, <2>3 DEF Pause, Typed, TypeOK, work, flags, history, counts
  <1> QED BY <1>3, <1>4, <1>5, <1>6, <1>7, <1>8, <1>9 DEF Batch

\* Where nothing but the thread of a request or of the workflow is set, the types
\* of threads are kept.
LEMMA OtherMoves ==
    ASSUME Typed, NEW t \in Threads \ {Run}, NEW v \in Thread, Sound(t, v), Become(t, v),
           running' = running
    PROVE  /\ thread' \in [Threads -> Thread]
           /\ \A u \in Threads : Sound(u, thread'[u])
           /\ ~running' => thread'[Run] = Idle
  BY OneMoves, ThreadsApart DEF Typed, TypeOK

\* startRun, of a request and of the workflow.
LEMMA TypedStartRun ==
    ASSUME Typed, NEW t \in Threads \ {Run}, StartRun(t)
    PROVE  Typed'
  <1>0. Idle \in Thread /\ \A u \in Threads : Sound(u, Idle)
    BY IdleIsSound
  <1>1. CASE running
    <2>1. /\ thread' \in [Threads -> Thread] /\ \A u \in Threads : Sound(u, thread'[u])
          /\ ~running' => thread'[Run] = Idle
      BY <1>0, <1>1, OtherMoves DEF StartRun
    <2> QED BY <1>1, <2>1 DEF StartRun, Typed, TypeOK, work, session, counts
  <1>2. CASE ~running
    <2>1. [Idle EXCEPT !.at = "loop"] \in Thread /\ Sound(Run, [Idle EXCEPT !.at = "loop"])
      BY ThreadsApart, AnewIsSound DEF Steps
    <2>2. thread' = [thread EXCEPT ![t] = Idle, ![Run] = [Idle EXCEPT !.at = "loop"]] /\ running'
          /\ stopRequested' = FALSE /\ failed' = FALSE
      BY <1>2 DEF StartRun
    <2>3. thread' \in [Threads -> Thread] /\ \A u \in Threads : Sound(u, thread'[u])
      BY <1>0, <2>1, <2>2 DEF Typed, TypeOK
    <2> QED BY <2>2, <2>3 DEF StartRun, Typed, TypeOK, work, session, counts
  <1> QED BY <1>1, <1>2

LEMMA TypedServe ==
    ASSUME Typed, NEW h \in Requests, Serve(h)
    PROVE  Typed'
  <1>0. /\ h \in Threads \ {Run} /\ thread[h] \in Thread /\ Sound(h, thread[h])
        /\ Idle \in Thread /\ Sound(h, Idle)
        /\ [Idle EXCEPT !.at = "start"] \in Thread /\ Sound(h, [Idle EXCEPT !.at = "start"])
    BY ThreadsApart, IdleIsSound, AnewIsSound DEF Typed, TypeOK, Steps
  <1>1. CASE Resend(h)
    <2>1. transcript' \in Seq(Message)
      <3>1. transcript' = transcript \/ transcript' = Append(transcript, User)
        BY <1>1 DEF Resend, Sent, Say
      <3>2. User \in Message /\ transcript \in Seq(Message)
        BY Messages DEF Typed, TypeOK
      <3> QED BY <3>1, <3>2
    <2>2. Become(h, Idle) \/ Become(h, [Idle EXCEPT !.at = "start"])
      BY <1>1 DEF Resend, Sent
    <2>3. /\ thread' \in [Threads -> Thread] /\ \A u \in Threads : Sound(u, thread'[u])
          /\ ~running' => thread'[Run] = Idle
      BY <1>0, <1>1, <2>2, OtherMoves DEF Resend, flags
    <2> QED BY <1>1, <2>1, <2>3 DEF Resend, Typed, TypeOK, work, flags, history, counts
  <1>2. CASE TakeQueued(h)
    <2> DEFINE v == [at |-> "next", todo |-> queued, own |-> NoCall]
    <2>1. v \in Thread /\ Sound(h, v)
      BY DEF Typed, TypeOK, Thread, Steps, Sound
    <2>2. /\ thread' \in [Threads -> Thread] /\ \A u \in Threads : Sound(u, thread'[u])
          /\ ~running' => thread'[Run] = Idle
      BY <1>0, <1>2, <2>1, OtherMoves DEF TakeQueued, flags
    <2> QED BY <1>2, <2>2 DEF TakeQueued, Typed, TypeOK, work, flags, history, counts
  <1>3. CASE InterruptTool(h)
    <2>1. Result(thread[h].own) \in Message
      BY <1>0, <1>3, Messages DEF InterruptTool, At, Sound, Thread
    <2>2. /\ thread' \in [Threads -> Thread] /\ \A u \in Threads : Sound(u, thread'[u])
          /\ ~running' => thread'[Run] = Idle
      BY <1>0, <1>3, OtherMoves DEF InterruptTool, flags
    <2> QED BY <1>3, <2>1, <2>2
            DEF InterruptTool, Say, Typed, TypeOK, work, flags, history, counts
  <1>4. CASE StartRun(h)
    BY <1>0, <1>4, TypedStartRun
  <1> QED BY <1>1, <1>2, <1>3, <1>4 DEF Serve

\* A round of a workflow: its call, its group and its goroutine.
LEMMA TypedRound ==
    ASSUME Typed, Round
    PROVE  /\ thread' \in [Threads -> Thread] /\ \A u \in Threads : Sound(u, thread'[u])
           /\ thread'[Run] = thread[Run]
           /\ transcript' \in Seq(Message) /\ groups' \in [Calls -> Groups] /\ issued' \in Nat
  <1>1. issued' \in Calls /\ issued' \in Nat
    BY SMTT(30), ChatRunAssumption DEF Round, Typed, TypeOK, Calls
  <1>2. "launch" \in Steps \ {"append", "next", "check", "pause"} /\ Job \in Threads \ {Run}
    BY ThreadsApart DEF Steps
  <1>3. /\ thread' \in [Threads -> Thread] /\ \A u \in Threads : Sound(u, thread'[u])
        /\ thread'[Run] = thread[Run]
    BY <1>1, <1>2, AnewWithCallIsSound, OneMoves DEF Round
  <1>4. transcript' \in Seq(Message)
    <2>1. <<issued'>> \in Seq(Calls)
      BY <1>1
    <2>2. User \in Message /\ Turn(<<issued'>>) \in Message /\ transcript \in Seq(Message)
      BY <2>1, Messages DEF Typed, TypeOK
    <2>3. <<User, Turn(<<issued'>>)>> \in Seq(Message)
      BY <2>2
    <2> QED BY <2>2, <2>3 DEF Round, ForcedCall
  <1>5. groups' \in [Calls -> Groups]
    BY <1>1 DEF Round, Groups, Typed, TypeOK
  <1> QED BY <1>1, <1>3, <1>4, <1>5

\* What the user does keeps the types.
LEMMA TypedUserActs ==
    ASSUME Typed, NEW h \in Requests, UserActs(h)
    PROVE  Typed'
  <1>0. h \in Threads \ {Run} /\ Job \in Threads \ {Run} /\ h # Job
    BY ThreadsApart
  <1>1. CASE Send(h)
    <2>1. transcript' \in Seq(Message)
      <3>1. User \in Message /\ transcript \in Seq(Message)
        BY Messages DEF Typed, TypeOK
      <3> QED BY <1>1, <3>1 DEF Send, Sent, Say
    <2>2. [Idle EXCEPT !.at = "start"] \in Thread /\ Sound(h, [Idle EXCEPT !.at = "start"])
      BY <1>0, AnewIsSound DEF Steps
    <2>3. /\ thread' \in [Threads -> Thread] /\ \A u \in Threads : Sound(u, thread'[u])
          /\ ~running' => thread'[Run] = Idle
      BY <1>0, <1>1, <2>2, OtherMoves DEF Send, Sent, flags
    <2>4. sends' \in Nat
      BY <1>1 DEF Send, Typed, TypeOK
    <2> QED BY <1>1, <2>1, <2>3, <2>4 DEF Send, Typed, TypeOK, work, flags
  <1>2. CASE Rewind(h)
    <2>1. transcript' \in Seq(Message)
      BY <1>2 DEF Rewind, Typed, TypeOK
    <2>2. groups' \in [Calls -> Groups]
      BY <1>2 DEF Rewind, Typed, TypeOK, Groups
    <2>3. [Idle EXCEPT !.at = "send"] \in Thread /\ Sound(h, [Idle EXCEPT !.at = "send"])
      BY <1>0, AnewIsSound DEF Steps
    <2>4. /\ thread' \in [Threads -> Thread] /\ \A u \in Threads : Sound(u, thread'[u])
          /\ ~running' => thread'[Run] = Idle
      BY <1>0, <1>2, <2>3, OtherMoves DEF Rewind, flags
    <2>5. sends' \in Nat
      BY <1>2 DEF Rewind, Typed, TypeOK
    <2> QED BY <1>2, <2>1, <2>2, <2>4, <2>5 DEF Rewind, Typed, TypeOK, flags
  <1>3. CASE ResolveApproval(h)
    <2>1. PICK c \in approvals, yes \in BOOLEAN :
            /\ approvals' = Resolved(c)
            /\ Become(h, [Idle EXCEPT !.at = IF yes THEN "execute" ELSE "result", !.own = c])
            /\ IF yes THEN approved' = approved \cup {c} /\ UNCHANGED declined
                      ELSE declined' = declined \cup {c} /\ UNCHANGED approved
      BY <1>3 DEF ResolveApproval
    <2> DEFINE step == IF yes THEN "execute" ELSE "result"
               v == [Idle EXCEPT !.at = step, !.own = c]
    <2>2. c \in Calls
      BY DEF Typed, TypeOK
    <2>3. step \in Steps \ {"append", "next", "check", "pause"}
      BY DEF Steps
    <2>4. Become(h, v)
      BY <2>1
    <2> HIDE DEF step
    <2>5. /\ thread' \in [Threads -> Thread] /\ \A u \in Threads : Sound(u, thread'[u])
          /\ ~running' => thread'[Run] = Idle
      BY <1>0, <1>3, <2>2, <2>3, <2>4, AnewWithCallIsSound, OtherMoves DEF ResolveApproval, flags
    <2>6. approvals' \subseteq Calls /\ approved' \subseteq Calls /\ declined' \subseteq Calls
      BY <2>1, <2>2 DEF Typed, TypeOK, Resolved
    <2> QED BY <1>3, <2>5, <2>6 DEF ResolveApproval, Typed, TypeOK, work, flags, counts
  <1>4. CASE AnswerQuestion(h)
    <2>1. PICK c \in questions :
            /\ questions' = questions \ {c}
            /\ Become(h, [Idle EXCEPT !.at = "result", !.own = c])
      BY <1>4 DEF AnswerQuestion
    <2>2. c \in Calls
      BY DEF Typed, TypeOK
    <2>3. "result" \in Steps \ {"append", "next", "check", "pause"}
      BY DEF Steps
    <2>4. /\ thread' \in [Threads -> Thread] /\ \A u \in Threads : Sound(u, thread'[u])
          /\ ~running' => thread'[Run] = Idle
      BY <1>0, <1>4, <2>1, <2>2, <2>3, AnewWithCallIsSound, OtherMoves DEF AnswerQuestion, flags
    <2> QED BY <1>4, <2>1, <2>4 DEF AnswerQuestion, Typed, TypeOK, work, flags, counts
  <1>5. CASE StopSession(h)
    <2>1. Interrupting \in Thread /\ Sound(h, Interrupting)
      <3>1. CASE runningTool \in {NoCall} \cup interrupted
        BY <1>0, <3>1, IdleIsSound DEF Interrupting
      <3>2. CASE runningTool \notin {NoCall} \cup interrupted
        <4>1. runningTool \in Calls /\ "interrupt" \in Steps \ {"append", "next", "check", "pause"}
          BY <3>2 DEF Typed, TypeOK, Steps
        <4> QED BY <1>0, <3>2, <4>1, AnewWithCallIsSound DEF Interrupting
      <3> QED BY <3>1, <3>2
    <2>2. Broken \in Thread /\ Sound(Job, Broken)
      <3>1. thread[Job] \in Thread /\ Sound(Job, thread[Job])
        BY <1>0 DEF Typed, TypeOK
      <3> QED BY <1>0, <3>1 DEF Broken, At, Thread, Sound, Steps
    <2>3. thread' = [thread EXCEPT ![h] = Interrupting, ![Job] = Broken] /\ running' = running
      BY <1>5 DEF StopSession
    <2>4. /\ thread' \in [Threads -> Thread] /\ \A u \in Threads : Sound(u, thread'[u])
          /\ ~running' => thread'[Run] = Idle
      BY <1>0, <2>1, <2>2, <2>3, ThreadsApart DEF Typed, TypeOK
    <2>5. interrupted' \subseteq Calls
      BY <1>5 DEF StopSession, Typed, TypeOK
    <2>6. stops' \in Nat /\ halted' \in BOOLEAN
      BY <1>5 DEF StopSession, Typed, TypeOK
    <2> QED BY <1>5, <2>4, <2>5, <2>6 DEF StopSession, Typed, TypeOK, work, session
  <1>6. CASE StartForcedWorkflow(h)
    <2>1. /\ thread' \in [Threads -> Thread] /\ \A u \in Threads : Sound(u, thread'[u])
          /\ thread'[Run] = thread[Run]
          /\ transcript' \in Seq(Message) /\ groups' \in [Calls -> Groups] /\ issued' \in Nat
      BY <1>6, TypedRound DEF StartForcedWorkflow
    <2>2. 1 \in 0 .. MaxRounds
      BY ChatRunAssumption
    <2>3. sends' \in Nat
      BY <1>6 DEF StartForcedWorkflow, Typed, TypeOK
    <2> QED BY <1>6, <2>1, <2>2, <2>3 DEF StartForcedWorkflow, Typed, TypeOK, flags
  <1>7. CASE ResumeTaskGroup(h)
    <2>1. PICK c \in Calls, step \in {"deliver", "launch"} :
            Become(Job, [Idle EXCEPT !.at = step, !.own = c])
      BY <1>7 DEF ResumeTaskGroup
    <2>2. step \in Steps \ {"append", "next", "check", "pause"}
      BY DEF Steps
    <2>3. /\ thread' \in [Threads -> Thread] /\ \A u \in Threads : Sound(u, thread'[u])
          /\ ~running' => thread'[Run] = Idle
      BY <1>0, <1>7, <2>1, <2>2, AnewWithCallIsSound, OtherMoves DEF ResumeTaskGroup, flags
    <2>4. 0 \in 0 .. MaxRounds
      BY ChatRunAssumption
    <2> QED BY <1>7, <2>3, <2>4 DEF ResumeTaskGroup, Typed, TypeOK, session, flags, counts
  <1> QED BY <1>1, <1>2, <1>3, <1>4, <1>5, <1>6, <1>7 DEF UserActs

\* So does what a workflow does, and a restart.
LEMMA TypedWorkflow ==
    ASSUME Typed, Workflow
    PROVE  Typed'
  <1>0. /\ Job \in Threads \ {Run} /\ Job # Run /\ thread[Job] \in Thread /\ Sound(Job, thread[Job])
        /\ Idle \in Thread /\ Sound(Job, Idle)
        /\ ~running => thread[Run] = Idle
    BY ThreadsApart, IdleIsSound DEF Typed, TypeOK
  <1>1. \A step \in {"start", "round"} : LET v == [Idle EXCEPT !.at = step]
                                         IN  v \in Thread /\ Sound(Job, v)
    BY <1>0, AnewIsSound DEF Steps
  <1>2. thread[Job].at \in {"group", "deliver"} => Current(Job) \in Calls
    BY <1>0, CurrentIsCall DEF Sound
  <1>3. CASE Launch
    <2>1. /\ thread' \in [Threads -> Thread] /\ \A u \in Threads : Sound(u, thread'[u])
          /\ thread'[Run] = thread[Run]
      BY <1>0, <1>3, OneGoesOn DEF Launch, At, Sound, Steps
    <2> QED BY <1>0, <1>3, <2>1 DEF Launch, Typed, TypeOK, work, session, flags, history, counts
  <1>4. CASE GroupEnds
    <2>1. /\ thread' \in [Threads -> Thread] /\ \A u \in Threads : Sound(u, thread'[u])
          /\ thread'[Run] = thread[Run]
      BY <1>0, <1>4, OneGoesOn DEF GroupEnds, At, Sound, Steps
    <2>2. groups' \in [Calls -> Groups]
      BY <1>2, <1>4 DEF GroupEnds, At, Groups, Typed, TypeOK
    <2> QED BY <1>0, <1>4, <2>1, <2>2 DEF GroupEnds, Typed, TypeOK, session, flags, history, counts
  <1>5. CASE GroupInterrupted
    <2>1. Become(Job, Idle) \/ Become(Job, [Idle EXCEPT !.at = "start"])
      BY <1>5 DEF GroupInterrupted
    <2>2. /\ thread' \in [Threads -> Thread] /\ \A u \in Threads : Sound(u, thread'[u])
          /\ thread'[Run] = thread[Run]
      BY <1>0, <1>1, <2>1, OneMoves
    <2> QED BY <1>0, <1>5, <2>2
            DEF GroupInterrupted, Typed, TypeOK, work, session, flags, history, counts
  <1>6. CASE Deliver
    <2>1. Current(Job) \in Calls
      BY <1>2, <1>6 DEF Deliver, At
    <2>2. transcript' \in Seq(Message)
      <3>1. Result(Current(Job)) \in Message /\ transcript \in Seq(Message)
        BY <2>1, Messages DEF Typed, TypeOK
      <3> QED BY <1>6, <3>1 DEF Deliver, Say
    <2>3. groups' \in [Calls -> Groups]
      BY <1>6, <2>1 DEF Deliver, Groups, Typed, TypeOK
    <2>4. /\ thread' \in [Threads -> Thread] /\ \A u \in Threads : Sound(u, thread'[u])
          /\ thread'[Run] = thread[Run]
      BY <1>0, <1>1, <1>6, OneMoves DEF Deliver
    <2> QED BY <1>0, <1>6, <2>2, <2>3, <2>4 DEF Deliver, Typed, TypeOK, flags, history, counts
  <1>7. CASE FollowUp
    <2>1. CASE Round /\ rounds \in 1 .. MaxRounds - 1 /\ rounds' = rounds + 1
      <3>1. rounds' \in 0 .. MaxRounds
        BY <2>1, ChatRunAssumption
      <3> QED BY <1>0, <1>7, <2>1, <3>1, TypedRound DEF FollowUp, Typed, TypeOK, flags, history
    <2>2. CASE Become(Job, [Idle EXCEPT !.at = "start"]) /\ UNCHANGED <<work, transcript, issued>>
      <3>1. /\ thread' \in [Threads -> Thread] /\ \A u \in Threads : Sound(u, thread'[u])
            /\ thread'[Run] = thread[Run]
        BY <1>0, <1>1, <2>2, OneMoves
      <3> QED BY <1>0, <1>7, <2>2, <3>1 DEF FollowUp, Typed, TypeOK, work, flags, history
    <2> QED BY <1>7, <2>1, <2>2 DEF FollowUp
  <1>8. CASE StartRun(Job)
    BY <1>0, <1>8, TypedStartRun
  <1> QED BY <1>3, <1>4, <1>5, <1>6, <1>7, <1>8 DEF Workflow

LEMMA TypedRestart == Typed /\ Restart => Typed'
  <1> SUFFICES ASSUME Typed, Restart PROVE Typed'
    OBVIOUS
  <1>1. thread' \in [Threads -> Thread] /\ \A u \in Threads : thread'[u] = Idle /\ Sound(u, thread'[u])
    BY IdleIsSound DEF Restart
  <1>2. thread'[Run] = Idle
    BY <1>1, ThreadsApart
  <1>3. 0 \in 0 .. MaxRounds
    BY ChatRunAssumption
  <1>4. stops' \in Nat /\ approved' \subseteq Calls
    BY DEF Restart, Typed, TypeOK
  <1> QED BY <1>1, <1>2, <1>3, <1>4 DEF Restart, Typed, TypeOK, session

LEMMA TypedStep == Typed /\ [Next]_vars => Typed'
  <1> SUFFICES ASSUME Typed, [Next]_vars PROVE Typed'
    OBVIOUS
  <1>1. CASE Next
    BY <1>1, TypedConversation, TypedBatch, TypedServe, TypedUserActs, TypedWorkflow, TypedRestart
    DEF Next
  <1>2. CASE UNCHANGED vars
    BY <1>2 DEF vars, session, work, flags, history, counts, Typed, TypeOK
  <1> QED BY <1>1, <1>2

\* A session keeps its types (session.go, run_loop.go, task_runner.go), whoever the
\* user is and whatever the bounds.
THEOREM TypeCorrect == Spec => []TypeOK
  <1>1. Spec => []Typed
    BY TypedInit, TypedStep, PTL DEF Spec
  <1>2. Typed => TypeOK
    BY DEF Typed
  <1> QED BY <1>1, <1>2, PTL

-----------------------------------------------------------------------------
(* No call runs twice, nor after it was declined.                          *)

\* The calls a thread in state r may still start.
Claims(r) ==
    IF r.own # NoCall THEN IF r.at = "execute" THEN {r.own} ELSE {}
    ELSE IF r.at \in {"append", "next", "execute"} THEN Range(r.todo)
    ELSE IF r.at \in {"tool", "result", "check", "pause"} THEN Range(Tail(r.todo))
    ELSE {}

Claimed == UNION {Claims(thread[t]) : t \in Threads}

\* A call that may still be started waits in one place, at one position.
OnePlace ==
    /\ \A t \in Threads : IsInjective(thread[t].todo)
    /\ IsInjective(queued)
    /\ \A t, u \in Threads : t # u => Claims(thread[t]) \cap Claims(thread[u]) = {}
    /\ \A t \in Threads : Claims(thread[t]) \cap (approvals \cup Range(queued)) = {}
    /\ approvals \cap Range(queued) = {}

\* And has neither run nor been declined.
Unstarted ==
    (approvals \cup Range(queued) \cup Claimed) \cap (Range(ran) \cup declined) = {}

\* All of them were issued: what the model says next is new.
AllIssued ==
    approvals \cup Range(queued) \cup Claimed \cup Range(ran) \cup declined \subseteq 1 .. issued

Ledger == OnePlace /\ Unstarted /\ AllIssued /\ RanOnce

\* What one thread and the session may pass on to each other.
Pool(t) == Claims(thread[t]) \cup approvals \cup Range(queued)

\* A step of one thread keeps the ledger if it puts every call in one place, takes
\* new ones only from what was never issued, and lets go of what it starts or what
\* is declined.
LEMMA PassedOn ==
    ASSUME Typed, Ledger, NEW t \in Threads, NEW v, Become(t, v),
           IsInjective(v.todo), IsInjective(queued'),
           Claims(v) \cap (approvals' \cup Range(queued')) = {},
           approvals' \cap Range(queued') = {},
           issued' \in Nat, issued <= issued',
           Claims(v) \cup approvals' \cup Range(queued')
             \subseteq Pool(t) \cup ((1 .. issued') \ (1 .. issued)),
           Range(ran') \cup declined' \subseteq Range(ran) \cup declined \cup Pool(t),
           (Claims(v) \cup approvals' \cup Range(queued')) \cap (Range(ran') \cup declined') = {},
           RanOnce'
    PROVE  Ledger'
  <1>0. /\ thread'[t] = v
        /\ \A u \in Threads \ {t} : thread'[u] = thread[u]
        /\ issued \in Nat
    BY DEF Typed, TypeOK, Become
  <1>1. ASSUME NEW u \in Threads \ {t}
        PROVE  /\ Claims(thread[u]) \cap Pool(t) = {}
               /\ Claims(thread[u]) \subseteq 1 .. issued
               /\ Claims(thread[u]) \cap (Range(ran) \cup declined) = {}
    <2>1. Claims(thread[u]) \subseteq Claimed
      BY DEF Claimed
    <2> QED BY <2>1 DEF Ledger, OnePlace, Unstarted, AllIssued, Pool
  <1>2. OnePlace'
    <2>1. \A u \in Threads : IsInjective(thread'[u].todo)
      BY <1>0 DEF Ledger, OnePlace
    <2>2. ASSUME NEW u \in Threads \ {t}
          PROVE  /\ Claims(thread'[u]) \cap Claims(v) = {}
                 /\ Claims(thread'[u]) \cap (approvals' \cup Range(queued')) = {}
      BY <1>0, <1>1
    <2>3. \A u, w \in Threads : u # w => Claims(thread'[u]) \cap Claims(thread'[w]) = {}
      BY <1>0, <2>2 DEF Ledger, OnePlace
    <2>4. \A u \in Threads : Claims(thread'[u]) \cap (approvals' \cup Range(queued')) = {}
      BY <1>0, <2>2
    <2> QED BY <2>1, <2>3, <2>4 DEF OnePlace
  <1>3. \A c \in Claimed' : c \in Claims(v) \/ \E u \in Threads \ {t} : c \in Claims(thread[u])
    BY <1>0 DEF Claimed
  <1>4. Pool(t) \subseteq 1 .. issued
    BY DEF Pool, Claimed, Ledger, AllIssued
  <1>5. Unstarted'
    BY <1>1, <1>3 DEF Unstarted
  <1>6. AllIssued'
    <2>1. 1 .. issued \subseteq 1 .. issued'
      BY <1>0
    <2> QED BY <1>1, <1>3, <1>4, <2>1 DEF AllIssued, Ledger
  <1> QED BY <1>2, <1>5, <1>6 DEF Ledger

\* So does a step that claims nothing, whichever threads it sets.
LEMMA LetGo ==
    ASSUME Typed, Ledger,
           \A t \in Threads : /\ Claims(thread'[t]) \subseteq Claims(thread[t])
                              /\ IsInjective(thread'[t].todo),
           approvals' \subseteq approvals,
           UNCHANGED <<queued, ran, declined>>,
           issued' \in Nat, issued <= issued'
    PROVE  Ledger'
  <1>1. Claimed' \subseteq Claimed
    BY DEF Claimed
  <1>2. OnePlace'
    BY DEF Ledger, OnePlace
  <1>3. Unstarted'
    BY <1>1 DEF Ledger, Unstarted
  <1>4. 1 .. issued \subseteq 1 .. issued' /\ issued \in Nat
    BY DEF Typed, TypeOK
  <1>5. AllIssued'
    BY <1>1, <1>4 DEF Ledger, AllIssued
  <1>6. RanOnce'
    BY DEF Ledger, RanOnce
  <1> QED BY <1>2, <1>3, <1>5, <1>6 DEF Ledger

\* For instance of a thread that lets all go.
LEMMA OneLetsGo ==
    ASSUME Typed, Ledger, NEW t \in Threads, NEW v, Become(t, v),
           Claims(v) \subseteq Claims(thread[t]), IsInjective(v.todo),
           approvals' \subseteq approvals,
           UNCHANGED <<queued, ran, declined>>,
           issued' \in Nat, issued <= issued'
    PROVE  Ledger'
  <1>1. \A u \in Threads : thread'[u] = IF u = t THEN v ELSE thread[u]
    BY DEF Typed, TypeOK, Become
  <1>2. \A u \in Threads : /\ Claims(thread'[u]) \subseteq Claims(thread[u])
                           /\ IsInjective(thread'[u].todo)
    BY <1>1 DEF Ledger, OnePlace
  <1> QED BY <1>2, LetGo

\* Or that goes on to a step at which it claims nothing more.
LEMMA OneGoesOnLettingGo ==
    ASSUME Typed, Ledger, NEW t \in Threads, NEW step, Go(t, step),
           Claims([thread[t] EXCEPT !.at = step]) \subseteq Claims(thread[t]),
           approvals' \subseteq approvals,
           UNCHANGED <<queued, ran, declined, issued>>
    PROVE  Ledger'
  <1> DEFINE v == [thread[t] EXCEPT !.at = step]
  <1>1. Become(t, v) /\ thread[t] \in Thread
    BY DEF Go, Become, Typed, TypeOK
  <1>2. v.todo = thread[t].todo
    BY <1>1 DEF Thread
  <1>3. IsInjective(v.todo)
    BY <1>2 DEF Ledger, OnePlace
  <1>4. Claims(v) \subseteq Claims(thread[t])
    OBVIOUS
  <1>5. issued' \in Nat /\ issued <= issued'
    BY DEF Typed, TypeOK
  <1> HIDE DEF v
  <1> QED BY <1>1, <1>3, <1>4, <1>5, OneLetsGo

\* And one that neither runs a call nor has one declined.
LEMMA HandedOver ==
    ASSUME Typed, Ledger, NEW t \in Threads, NEW v, Become(t, v),
           IsInjective(v.todo), IsInjective(queued'),
           Claims(v) \cap (approvals' \cup Range(queued')) = {},
           approvals' \cap Range(queued') = {},
           issued' \in Nat, issued <= issued',
           Claims(v) \cup approvals' \cup Range(queued')
             \subseteq Pool(t) \cup ((1 .. issued') \ (1 .. issued)),
           UNCHANGED <<ran, declined>>
    PROVE  Ledger'
  <1>1. Pool(t) \cap (Range(ran) \cup declined) = {}
    BY DEF Pool, Claimed, Ledger, Unstarted
  <1>2. Range(ran) \cup declined \subseteq 1 .. issued
    BY DEF Ledger, AllIssued
  <1>3. (Claims(v) \cup approvals' \cup Range(queued')) \cap (Range(ran') \cup declined') = {}
    BY <1>1, <1>2
  <1>4. RanOnce'
    BY DEF Ledger, RanOnce
  <1>5. Range(ran') \cup declined' \subseteq Range(ran) \cup declined \cup Pool(t)
    OBVIOUS
  <1> QED BY <1>3, <1>4, <1>5, PassedOn

\* What is claimed on the way through a batch: at the current call, it and those
\* behind it; past it, only those.
LEMMA PastCurrent ==
    ASSUME Typed, Ledger, NEW t \in Threads,
           thread[t].at = "execute" \/ (thread[t].at = "next" /\ thread[t].todo # <<>>),
           NEW step \in {"tool", "result", "check", "pause", "take"}
    PROVE  /\ Current(t) \in Claims(thread[t])
           /\ Claims([thread[t] EXCEPT !.at = step]) \subseteq Claims(thread[t]) \ {Current(t)}
  <1> DEFINE r == thread[t]
             v == [r EXCEPT !.at = step]
  <1>1. r \in Thread /\ Sound(t, r) /\ IsInjective(r.todo)
    BY DEF Typed, TypeOK, Ledger, OnePlace
  <1>2. v.at = step /\ v.todo = r.todo /\ v.own = r.own /\ r.todo \in Seq(Calls)
    BY <1>1 DEF Thread
  <1> HIDE DEF v
  <1>3. CASE r.own # NoCall
    <2>1. Current(t) = r.own /\ Claims(r) = {r.own}
      BY <1>1, <1>3 DEF Current, Claims, Sound
    <2>2. Claims(v) = {}
      BY <1>2, <1>3 DEF Claims
    <2> QED BY <2>1, <2>2 DEF v
  <1>4. CASE r.own = NoCall
    <2>1. r.todo # <<>>
      BY <1>1, <1>4 DEF Sound
    <2>2. Current(t) = Head(r.todo) /\ Claims(r) = Range(r.todo)
      BY <1>4 DEF Current, Claims
    <2>3. Claims(v) \subseteq Range(Tail(r.todo))
      BY <1>2, <1>4 DEF Claims
    <2>4. /\ Head(r.todo) \in Range(r.todo) /\ Range(Tail(r.todo)) \subseteq Range(r.todo)
          /\ Head(r.todo) \notin Range(Tail(r.todo))
      BY <1>1, <1>2, <2>1, TailLeaves
    <2> QED BY <2>2, <2>3, <2>4 DEF v
  <1> QED BY <1>3, <1>4

LEMMA GoneOn ==
    ASSUME Typed, NEW t \in Threads, NEW step
    PROVE  LET v == [thread[t] EXCEPT !.at = step]
           IN  v.at = step /\ v.todo = thread[t].todo /\ v.own = thread[t].own
  BY DEF Typed, TypeOK, Thread

LEMMA LedgerInit == Init => Ledger
  <1> SUFFICES ASSUME Init PROVE Ledger
    OBVIOUS
  <1>1. \A t \in Threads : thread[t] = Idle /\ Claims(thread[t]) = {} /\ thread[t].todo = <<>>
    BY DEF Init, Idle, Claims
  <1>2. IsInjective(<<>>) /\ Range(<<>>) = {}
    BY DEF IsInjective, Range
  <1>3. Claimed = {}
    BY <1>1 DEF Claimed
  <1>4. queued = <<>> /\ ran = <<>> /\ approvals = {} /\ declined = {}
    BY DEF Init
  <1> QED BY <1>1, <1>2, <1>3, <1>4 DEF Ledger, OnePlace, Unstarted, AllIssued, RanOnce

\* New calls come from the model, with numbers never used.
LEMMA LedgerConversation ==
    ASSUME Typed, Ledger, Conversation
    PROVE  Ledger'
  <1>0. Run \in Threads /\ issued \in Nat
    BY ThreadsApart DEF Typed, TypeOK
  <1>1. \A step \in {"exit", "loop", "begin", "stream"} :
          Claims([thread[Run] EXCEPT !.at = step]) = {}
    BY <1>0, GoneOn DEF Claims, Typed, Sound
  <1>2. CASE Loop
    <2>1. \E step \in {"exit", "begin"} : Go(Run, step)
      BY <1>2 DEF Loop
    <2> QED BY <1>0, <1>1, <1>2, <2>1, OneGoesOnLettingGo DEF Loop, history, counts
  <1>3. CASE BeginLLMCall
    <2>1. \E step \in {"exit", "stream"} : Go(Run, step)
      BY <1>3 DEF BeginLLMCall
    <2> QED BY <1>0, <1>1, <1>3, <2>1, OneGoesOnLettingGo DEF BeginLLMCall, session, history, counts
  <1>4. CASE StreamChat
    <2>1. CASE Go(Run, "exit") /\ UNCHANGED issued
      BY <1>0, <1>1, <1>4, <2>1, OneGoesOnLettingGo DEF StreamChat, session
    <2>2. CASE \E n \in 0 .. MaxBatch :
                 /\ issued' = issued + n
                 /\ Become(Run, [at |-> "append", own |-> NoCall,
                                 todo |-> [i \in 1 .. n |-> issued + i]])
      <3>1. PICK n \in 0 .. MaxBatch :
                 /\ issued' = issued + n
                 /\ Become(Run, [at |-> "append", own |-> NoCall,
                                 todo |-> [i \in 1 .. n |-> issued + i]])
        BY <2>2
      <3> DEFINE todo == [i \in 1 .. n |-> issued + i]
                 v == [at |-> "append", own |-> NoCall, todo |-> todo]
      <3>2. n \in Nat /\ issued' \in Nat /\ issued <= issued'
        BY <1>0, <3>1, ChatRunAssumption
      <3>3. IsInjective(todo)
        BY <1>0, <3>2 DEF IsInjective
      <3>4. Range(todo) \subseteq (1 .. issued') \ (1 .. issued)
        BY <1>0, <3>1, <3>2 DEF Range
      <3> HIDE DEF todo
      <3>5. Claims(v) = Range(todo) /\ v.todo = todo
        BY DEF Claims
      <3>6. Become(Run, v)
        BY <3>1 DEF todo
      <3> HIDE DEF v
      <3>7. Pool(Run) \subseteq 1 .. issued /\ approvals \cup Range(queued) \subseteq Pool(Run)
        BY <1>0 DEF Pool, Claimed, Ledger, AllIssued
      <3>8. UNCHANGED <<approvals, queued, ran, declined>>
        BY <1>4 DEF StreamChat, session
      <3>9. IsInjective(queued) /\ approvals \cap Range(queued) = {}
        BY DEF Ledger, OnePlace
      <3>10. Claims(v) \cap (approvals \cup Range(queued)) = {}
        BY <3>4, <3>5, <3>7
      <3> QED BY <1>0, <3>2, <3>3, <3>4, <3>5, <3>6, <3>7, <3>8, <3>9, <3>10, HandedOver
    <2> QED BY <1>4, <2>1, <2>2 DEF StreamChat, Failure
  <1>5. CASE AppendTurn
    <2>1. \E step \in {"exit", "next"} : Go(Run, step)
      BY <1>5 DEF AppendTurn
    <2>2. Claims([thread[Run] EXCEPT !.at = "next"]) \subseteq Claims(thread[Run])
      BY <1>0, <1>5, GoneOn DEF AppendTurn, At, Claims, Typed, Sound
    <2> QED BY <1>0, <1>1, <1>5, <2>1, <2>2, OneGoesOnLettingGo DEF AppendTurn, history, counts
  <1>6. CASE Exit
    <2>1. Claims(Idle) = {} /\ Idle.todo = <<>> /\ IsInjective(<<>>)
      BY DEF Claims, Idle, IsInjective
    <2>2. /\ Become(Run, Idle) /\ approvals' = approvals /\ UNCHANGED <<queued, ran, declined, issued>>
      BY <1>6 DEF Exit, session, history, counts
    <2> QED BY <1>0, <2>1, <2>2, OneLetsGo
  <1> QED BY <1>2, <1>3, <1>4, <1>5, <1>6 DEF Conversation

\* A batch works through its calls: each starts at most once, or waits for the user,
\* or waits in the queue with those behind it.
LEMMA LedgerBatch ==
    ASSUME Typed, Ledger, NEW t \in Requests \cup {Run}, Batch(t)
    PROVE  Ledger'
  <1>0. /\ t \in Threads /\ issued \in Nat
        /\ thread[t] \in Thread /\ Sound(t, thread[t])
        /\ IsInjective(thread[t].todo) /\ IsInjective(queued)
        /\ Claims(thread[t]) \cap (approvals \cup Range(queued)) = {}
        /\ approvals \cap Range(queued) = {}
    BY DEF Typed, TypeOK, Threads, Ledger, OnePlace
  <1>1. IsInjective(<<>>) /\ Range(<<>>) = {}
    BY DEF IsInjective, Range
  <1>2. CASE Drained(t)
    <2> DEFINE v == [thread[t] EXCEPT !.at = GoingOn(t)]
    <2>1. Become(t, v)
      BY <1>2 DEF Drained, Go, Become, Typed, TypeOK
    <2>2. v.todo = <<>> /\ v.at \in {"loop", "start"}
      BY <1>0, <1>2, GoneOn DEF Drained, GoingOn
    <2>3. Claims(v) = {}
      BY <2>2 DEF Claims
    <2> HIDE DEF v
    <2>4. queued' = <<>> /\ approvals' = approvals /\ UNCHANGED <<ran, declined, issued>>
      BY <1>2 DEF Drained, history, counts
    <2>5. approvals \subseteq Pool(t)
      BY DEF Pool
    <2> QED BY <1>0, <1>1, <2>1, <2>2, <2>3, <2>4, <2>5, HandedOver
  <1>3. CASE PrepareTool(t)
    <2>0. /\ thread[t].at = "next" /\ thread[t].todo # <<>>
          /\ UNCHANGED <<queued, ran, declined, issued>>
      BY <1>3 DEF PrepareTool, At, history, counts
    <2>1. \A step \in {"result", "pause"} :
            /\ Current(t) \in Claims(thread[t])
            /\ Claims([thread[t] EXCEPT !.at = step]) \subseteq Claims(thread[t]) \ {Current(t)}
      BY <1>0, <2>0, PastCurrent
    <2>2. Claims([thread[t] EXCEPT !.at = "execute"]) \subseteq Claims(thread[t])
      BY <1>0, <2>0, GoneOn DEF Claims, Sound
    <2>3. CASE approvals' = approvals
      <3>1. \E step \in {"result", "pause", "execute"} : Go(t, step)
        BY <1>3 DEF PrepareTool
      <3> QED BY <1>0, <2>0, <2>1, <2>2, <2>3, <3>1, OneGoesOnLettingGo
    <2>4. CASE approvals' = approvals \cup {Current(t)} /\ Go(t, "pause")
      <3> DEFINE v == [thread[t] EXCEPT !.at = "pause"]
      <3>1. Become(t, v)
        BY <2>4 DEF Go, Become, Typed, TypeOK
      <3>2. v.todo = thread[t].todo
        BY <1>0, GoneOn
      <3>3. Claims(v) \subseteq Claims(thread[t]) \ {Current(t)}
        BY <2>1
      <3> HIDE DEF v
      <3>4. Current(t) \in Claims(thread[t])
        BY <2>1
      <3>5. Claims(v) \cup approvals' \cup Range(queued) \subseteq Pool(t)
        BY <2>4, <3>3, <3>4 DEF Pool
      <3>6. /\ Claims(v) \cap (approvals' \cup Range(queued)) = {}
            /\ approvals' \cap Range(queued) = {}
        BY <1>0, <2>4, <3>3, <3>4
      <3> QED BY <1>0, <2>0, <3>1, <3>2, <3>5, <3>6, HandedOver
    <2> QED BY <1>3, <2>3, <2>4 DEF PrepareTool
  <1>4. CASE ExecuteTool(t)
    <2>0. /\ thread[t].at = "execute" /\ UNCHANGED <<approvals, queued, declined, issued>>
      BY <1>4 DEF ExecuteTool, At, session, counts
    <2>1. \A step \in {"tool", "check", "take"} :
            /\ Current(t) \in Claims(thread[t])
            /\ Claims([thread[t] EXCEPT !.at = step]) \subseteq Claims(thread[t]) \ {Current(t)}
      BY <1>0, <2>0, PastCurrent
    <2>2. CASE ran' = ran
      <3>1. \E step \in {"tool", "check", "take"} : Go(t, step)
        BY <1>4 DEF ExecuteTool, After
      <3> QED BY <1>0, <2>0, <2>1, <2>2, <3>1, OneGoesOnLettingGo
    <2>3. CASE ran' = Append(ran, Current(t)) /\ Go(t, "tool")
      <3> DEFINE v == [thread[t] EXCEPT !.at = "tool"]
                 c == Current(t)
      <3>1. Become(t, v)
        BY <2>3 DEF Go, Become, Typed, TypeOK
      <3>2. v.todo = thread[t].todo
        BY <1>0, GoneOn
      <3>3. Claims(v) \subseteq Claims(thread[t]) \ {c} /\ c \in Claims(thread[t])
        BY <2>1
      <3>4. c \in Calls /\ ran \in Seq(Calls)
        BY <1>0, <2>0, CurrentIsCall DEF Sound, Typed, TypeOK
      <3> HIDE DEF v, c
      <3>5. /\ Pool(t) \cap (Range(ran) \cup declined) = {}
            /\ Claims(thread[t]) \subseteq Pool(t)
            /\ approvals \cup Range(queued) \subseteq Pool(t)
        BY <1>0 DEF Pool, Claimed, Ledger, Unstarted
      <3>6. c \notin Range(ran) \cup declined
        BY <3>3, <3>5
      <3>7. /\ Range(ran') = Range(ran) \cup {c}
            /\ IsInjective(ran) => IsInjective(ran')
        BY <2>3, <3>4, <3>6, AppendAdds DEF c
      <3>8. RanOnce'
        BY <2>0, <3>6, <3>7 DEF Ledger, RanOnce
      <3>9. (Claims(v) \cup approvals' \cup Range(queued')) \cap (Range(ran') \cup declined') = {}
        BY <1>0, <2>0, <3>3, <3>5, <3>7
      <3>10. Range(ran') \cup declined' \subseteq Range(ran) \cup declined \cup Pool(t)
        BY <2>0, <3>3, <3>5, <3>7
      <3>11. Claims(v) \cap (approvals' \cup Range(queued')) = {}
        BY <1>0, <2>0, <3>3
      <3>12. Claims(v) \cup approvals' \cup Range(queued') \subseteq Pool(t)
        BY <2>0, <3>3, <3>5
      <3> QED BY <1>0, <2>0, <3>1, <3>2, <3>8, <3>9, <3>10, <3>11, <3>12, PassedOn
    <2> QED BY <1>4, <2>2, <2>3 DEF ExecuteTool
  <1>5. CASE ToolReturns(t)
    <2>0. /\ thread[t].at = "tool"
          /\ UNCHANGED <<approvals, queued, ran, declined, issued>>
      BY <1>5 DEF ToolReturns, At, session, history, counts
    <2>1. \E step \in {"result", "check", "take"} : Go(t, step)
      BY <1>5 DEF ToolReturns, After
    <2>2. \A step \in {"result", "check", "take"} :
            Claims([thread[t] EXCEPT !.at = step]) \subseteq Claims(thread[t])
      BY <1>0, <2>0, GoneOn DEF Claims
    <2> QED BY <1>0, <2>0, <2>1, <2>2, OneGoesOnLettingGo
  <1>6. CASE AppendResult(t)
    <2>0. /\ thread[t].at = "result"
          /\ UNCHANGED <<approvals, queued, ran, declined, issued>>
      BY <1>6 DEF AppendResult, At, history, counts
    <2>1. \E step \in {"check", "take"} : Go(t, step)
      BY <1>6 DEF AppendResult, After
    <2>2. \A step \in {"check", "take"} :
            Claims([thread[t] EXCEPT !.at = step]) \subseteq Claims(thread[t])
      BY <1>0, <2>0, GoneOn DEF Claims
    <2> QED BY <1>0, <2>0, <2>1, <2>2, OneGoesOnLettingGo
  <1>7. CASE CheckStop(t)
    <2>0. /\ thread[t].at = "check" /\ thread[t].own = NoCall /\ thread[t].todo # <<>>
          /\ thread[t].todo \in Seq(Calls)
          /\ UNCHANGED <<approvals, queued, ran, declined, issued>>
      BY <1>0, <1>7 DEF CheckStop, At, session, history, counts, Sound, Thread
    <2>1. CASE Go(t, "pause")
      <3>1. Claims([thread[t] EXCEPT !.at = "pause"]) \subseteq Claims(thread[t])
        BY <1>0, <2>0, GoneOn DEF Claims
      <3> QED BY <1>0, <2>0, <2>1, <3>1, OneGoesOnLettingGo
    <2>2. CASE Become(t, [thread[t] EXCEPT !.at = "next", !.todo = Tail(@)])
      <3> DEFINE v == [thread[t] EXCEPT !.at = "next", !.todo = Tail(@)]
      <3>1. v.at = "next" /\ v.own = NoCall /\ v.todo = Tail(thread[t].todo)
        BY <1>0, <2>0 DEF Thread
      <3>2. IsInjective(v.todo)
        BY <1>0, <2>0, <3>1, TailLeaves
      <3>3. Claims(v) \subseteq Claims(thread[t])
        BY <2>0, <3>1 DEF Claims
      <3>4. Become(t, v)
        BY <2>2
      <3> HIDE DEF v
      <3> QED BY <1>0, <2>0, <3>2, <3>3, <3>4, OneLetsGo
    <2> QED BY <1>7, <2>1, <2>2 DEF CheckStop, Go, Become, Typed, TypeOK
  <1>8. CASE Pause(t)
    <2>0. /\ thread[t].at = "pause" /\ thread[t].own = NoCall /\ thread[t].todo # <<>>
          /\ thread[t].todo \in Seq(Calls)
          /\ queued' = Tail(thread[t].todo)
          /\ UNCHANGED <<approvals, ran, declined, issued>>
      BY <1>0, <1>8 DEF Pause, Behind, At, session, history, counts, Sound, Thread
    <2> DEFINE v == [Idle EXCEPT !.at = Pausing(t)]
    <2>1. Become(t, v)
      BY <1>8 DEF Pause
    <2>2. v.todo = <<>> /\ Claims(v) = {}
      BY DEF Idle, Pausing, Claims
    <2> HIDE DEF v
    <2>3. IsInjective(queued') /\ Range(queued') = Claims(thread[t])
      BY <1>0, <2>0, TailLeaves DEF Claims
    <2>4. approvals \cap Range(queued') = {} /\ approvals \cup Range(queued') \subseteq Pool(t)
      BY <1>0, <2>3 DEF Pool
    <2> QED BY <1>0, <1>1, <2>0, <2>1, <2>2, <2>3, <2>4, HandedOver
  <1> QED BY <1>2, <1>3, <1>4, <1>5, <1>6, <1>7, <1>8 DEF Batch

\* A thread that lets go of what it claimed, and has no batch.
Free(v) == Claims(v) = {} /\ v.todo = <<>>

LEMMA FreeThreads ==
    /\ Free(Idle)
    /\ \A step \in {"loop", "start", "send", "round"} : Free([Idle EXCEPT !.at = step])
    /\ \A c : c # NoCall => \A step \in {"result", "interrupt", "launch", "deliver"} :
         Free([Idle EXCEPT !.at = step, !.own = c])
  <1>1. \A c : \A step : LET v == [Idle EXCEPT !.at = step, !.own = c]
                        IN  v.at = step /\ v.own = c /\ v.todo = <<>>
    BY DEF Idle
  <1>2. \A c : c # NoCall => \A step \in {"result", "interrupt", "launch", "deliver"} :
          Free([Idle EXCEPT !.at = step, !.own = c])
    BY <1>1 DEF Claims, Free
  <1> QED BY <1>2 DEF Claims, Free, Idle

LEMMA OneIsFree ==
    ASSUME Typed, Ledger, NEW t \in Threads, \E v : Become(t, v) /\ Free(v),
           approvals' \subseteq approvals, UNCHANGED <<queued, ran, declined, issued>>
    PROVE  Ledger'
  <1>1. PICK v : Become(t, v) /\ Free(v)
    OBVIOUS
  <1>2. issued' \in Nat /\ issued <= issued' /\ IsInjective(<<>>)
    BY DEF Typed, TypeOK, IsInjective
  <1> QED BY <1>1, <1>2, OneLetsGo DEF Free

\* A request, or the workflow, starts the run or finds it on.
LEMMA LedgerStartRun ==
    ASSUME Typed, Ledger, NEW t \in Threads, StartRun(t)
    PROVE  Ledger'
  <1>0. IsInjective(<<>>)
    BY DEF IsInjective
  <1>1. Free(Idle) /\ Free([Idle EXCEPT !.at = "loop"])
    BY FreeThreads
  <1>2. /\ UNCHANGED <<approvals, queued, ran, declined, issued>>
        /\ issued \in Nat /\ Run \in Threads /\ thread \in [Threads -> Thread]
    BY ThreadsApart DEF StartRun, session, counts, Typed, TypeOK
  <1>3. CASE Become(t, Idle)
    BY <1>1, <1>2, <1>3, OneIsFree
  <1>4. CASE thread' = [thread EXCEPT ![t] = Idle, ![Run] = [Idle EXCEPT !.at = "loop"]]
    <2>1. \A u \in Threads : \/ thread'[u] = thread[u]
                             \/ thread'[u] = Idle
                             \/ thread'[u] = [Idle EXCEPT !.at = "loop"]
      BY <1>2, <1>4
    <2>2. \A u \in Threads : /\ Claims(thread'[u]) \subseteq Claims(thread[u])
                             /\ IsInjective(thread'[u].todo)
      BY <1>0, <1>1, <2>1 DEF Ledger, OnePlace, Free
    <2> QED BY <1>2, <2>2, LetGo
  <1> QED BY <1>3, <1>4 DEF StartRun

\* The next round of a workflow writes a new call, which its group answers.
LEMMA LedgerRound ==
    ASSUME Typed, Ledger, Round, UNCHANGED <<approvals, queued, ran, declined>>
    PROVE  Ledger'
  <1> DEFINE v == [Idle EXCEPT !.at = "launch", !.own = issued']
  <1>1. Become(Job, v) /\ Job \in Threads /\ issued' \in Nat /\ issued <= issued'
    BY ThreadsApart DEF Round, Typed, TypeOK
  <1>2. Claims(v) = {} /\ v.todo = <<>> /\ IsInjective(<<>>)
    BY DEF Idle, Claims, IsInjective
  <1> HIDE DEF v
  <1> QED BY <1>1, <1>2, OneLetsGo

\* A handler that was let through: the queue goes back to one batch.
LEMMA LedgerServe ==
    ASSUME Typed, Ledger, NEW h \in Requests, Serve(h)
    PROVE  Ledger'
  <1>0. /\ h \in Threads /\ issued \in Nat /\ IsInjective(<<>>) /\ Range(<<>>) = {}
        /\ IsInjective(queued) /\ approvals \cap Range(queued) = {}
    BY DEF Threads, Typed, TypeOK, Ledger, OnePlace, IsInjective, Range
  <1>2. CASE Resend(h) \/ InterruptTool(h)
    <2>1. /\ Become(h, Idle) \/ Become(h, [Idle EXCEPT !.at = "start"])
          /\ UNCHANGED <<approvals, queued, ran, declined, issued>>
      BY <1>2 DEF Resend, InterruptTool, Sent, history, counts
    <2>2. \E v : Become(h, v) /\ Free(v)
      BY <2>1, FreeThreads
    <2> QED BY <1>0, <2>1, <2>2, OneIsFree
  <1>3. CASE TakeQueued(h)
    <2> DEFINE v == [at |-> "next", todo |-> queued, own |-> NoCall]
    <2>1. Become(h, v) /\ queued' = <<>> /\ UNCHANGED <<approvals, ran, declined, issued>>
      BY <1>3 DEF TakeQueued, history, counts
    <2>2. Claims(v) = Range(queued) /\ v.todo = queued
      BY DEF Claims
    <2> HIDE DEF v
    <2>3. Claims(v) \cup approvals' \cup Range(queued') \subseteq Pool(h)
      BY <1>0, <2>1, <2>2 DEF Pool
    <2>4. /\ Claims(v) \cap (approvals' \cup Range(queued')) = {}
          /\ approvals' \cap Range(queued') = {}
      BY <1>0, <2>1, <2>2
    <2> QED BY <1>0, <2>1, <2>2, <2>3, <2>4, HandedOver
  <1>4. CASE StartRun(h)
    BY <1>0, <1>4, LedgerStartRun
  <1> QED BY <1>2, <1>3, <1>4 DEF Serve

\* What the user asks for: a call that is approved or declined no longer waits.
LEMMA LedgerUserActs ==
    ASSUME Typed, Ledger, NEW h \in Requests, UserActs(h)
    PROVE  Ledger'
  <1>0. /\ h \in Threads /\ Job \in Threads /\ issued \in Nat /\ thread \in [Threads -> Thread]
        /\ IsInjective(<<>>)
        /\ IsInjective(queued) /\ approvals \cap Range(queued) = {}
    BY ThreadsApart DEF Threads, Typed, TypeOK, Ledger, OnePlace, IsInjective
  <1>2. CASE Send(h) \/ Rewind(h)
    <2>1. /\ \E step \in {"start", "send"} : Become(h, [Idle EXCEPT !.at = step])
          /\ approvals' \subseteq approvals /\ UNCHANGED <<queued, ran, declined, issued>>
      BY <1>2 DEF Send, Sent, Rewind
    <2>2. \E v : Become(h, v) /\ Free(v)
      BY <2>1, FreeThreads
    <2> QED BY <1>0, <2>1, <2>2, OneIsFree
  <1>3. CASE ResolveApproval(h)
    <2>1. PICK c \in approvals, yes \in BOOLEAN :
            /\ approvals' = Resolved(c)
            /\ Become(h, [Idle EXCEPT !.at = IF yes THEN "execute" ELSE "result", !.own = c])
            /\ IF yes THEN UNCHANGED declined ELSE declined' = declined \cup {c}
      BY <1>3 DEF ResolveApproval
    <2>2. c # NoCall /\ approvals' = approvals \ {c} /\ UNCHANGED <<queued, ran, issued>>
      BY SMTT(30), <1>3, <2>1, ChatRunAssumption
      DEF ResolveApproval, Resolved, Typed, TypeOK, Calls, NoCall, counts
    <2>3. approvals \cup Range(queued) \subseteq Pool(h)
      BY DEF Pool
    <2>4. CASE yes
      <3> DEFINE v == [Idle EXCEPT !.at = "execute", !.own = c]
      <3>1. Become(h, v) /\ UNCHANGED declined
        BY <2>1, <2>4
      <3>2. v.todo = <<>> /\ Claims(v) = {c}
        BY <2>2 DEF Idle, Claims
      <3> HIDE DEF v
      <3>3. Claims(v) \cup approvals' \cup Range(queued') \subseteq Pool(h)
        BY <2>1, <2>2, <2>3, <3>2
      <3>4. /\ Claims(v) \cap (approvals' \cup Range(queued')) = {}
            /\ approvals' \cap Range(queued') = {}
        BY <1>0, <2>1, <2>2, <3>2
      <3> QED BY <1>0, <2>2, <3>1, <3>2, <3>3, <3>4, HandedOver
    <2>5. CASE ~yes
      <3> DEFINE v == [Idle EXCEPT !.at = "result", !.own = c]
      <3>1. Become(h, v) /\ declined' = declined \cup {c}
        BY <2>1, <2>5
      <3>2. v.todo = <<>> /\ Claims(v) = {}
        BY <2>2, FreeThreads DEF Free
      <3> HIDE DEF v
      <3>3. c \notin Range(ran)
        BY <2>1 DEF Ledger, Unstarted
      <3>4. RanOnce'
        BY <2>2, <3>1, <3>3 DEF Ledger, RanOnce
      <3>5. (approvals \cup Range(queued)) \cap (Range(ran) \cup declined) = {}
        BY DEF Ledger, Unstarted
      <3>6. (Claims(v) \cup approvals' \cup Range(queued')) \cap (Range(ran') \cup declined') = {}
        BY <1>0, <2>1, <2>2, <3>1, <3>2, <3>5
      <3>7. Range(ran') \cup declined' \subseteq Range(ran) \cup declined \cup Pool(h)
        BY <2>1, <2>2, <2>3, <3>1
      <3>8. /\ Claims(v) \cup approvals' \cup Range(queued') \subseteq Pool(h)
            /\ Claims(v) \cap (approvals' \cup Range(queued')) = {}
            /\ approvals' \cap Range(queued') = {}
        BY <1>0, <2>2, <2>3, <3>2
      <3> QED BY <1>0, <2>2, <3>1, <3>2, <3>4, <3>6, <3>7, <3>8, PassedOn
    <2> QED BY <2>4, <2>5
  <1>4. CASE AnswerQuestion(h)
    <2>1. PICK c \in questions : Become(h, [Idle EXCEPT !.at = "result", !.own = c])
      BY <1>4 DEF AnswerQuestion
    <2>2. c # NoCall /\ UNCHANGED <<approvals, queued, ran, declined, issued>>
      BY <1>4, <2>1, ChatRunAssumption DEF AnswerQuestion, Typed, TypeOK, Calls, NoCall, counts
    <2>3. \E v : Become(h, v) /\ Free(v)
      BY <2>1, <2>2, FreeThreads
    <2> QED BY <1>0, <2>2, <2>3, OneIsFree
  <1>5. CASE StopSession(h)
    <2>1. /\ thread' = [thread EXCEPT ![h] = Interrupting, ![Job] = Broken]
          /\ UNCHANGED <<approvals, queued, ran, declined, issued>>
      BY <1>5 DEF StopSession, session
    <2>2. Claims(Interrupting) = {} /\ Interrupting.todo = <<>>
      BY FreeThreads DEF Interrupting, Free
    <2>3. Claims(Broken) \subseteq Claims(thread[Job]) /\ Broken.todo = thread[Job].todo
      BY <1>0, GoneOn DEF Broken, Claims
    <2>4. \A u \in Threads : /\ Claims(thread'[u]) \subseteq Claims(thread[u])
                             /\ IsInjective(thread'[u].todo)
      BY <1>0, <2>1, <2>2, <2>3 DEF Ledger, OnePlace
    <2> QED BY <1>0, <2>1, <2>4, LetGo
  <1>6. CASE StartForcedWorkflow(h)
    BY <1>6, LedgerRound DEF StartForcedWorkflow
  <1>7. CASE ResumeTaskGroup(h)
    <2>1. PICK c \in Calls : \E step \in {"deliver", "launch"} :
            Become(Job, [Idle EXCEPT !.at = step, !.own = c])
      BY <1>7 DEF ResumeTaskGroup
    <2>2. c # NoCall /\ UNCHANGED <<approvals, queued, ran, declined, issued>>
      BY <1>7, <2>1, ChatRunAssumption DEF ResumeTaskGroup, session, counts, Calls, NoCall
    <2>3. \E v : Become(Job, v) /\ Free(v)
      BY <2>1, <2>2, FreeThreads
    <2> QED BY <1>0, <2>2, <2>3, OneIsFree
  <1> QED BY <1>2, <1>3, <1>4, <1>5, <1>6, <1>7 DEF UserActs

LEMMA LedgerWorkflow ==
    ASSUME Typed, Ledger, Workflow
    PROVE  Ledger'
  <1>0. Job \in Threads
    BY ThreadsApart
  <1>2. CASE Launch \/ GroupEnds
    <2>1. /\ \E step \in {"group", "deliver"} : Go(Job, step)
          /\ UNCHANGED <<approvals, queued, ran, declined, issued>>
      BY <1>2 DEF Launch, GroupEnds, session, history, counts
    <2>2. \A step \in {"group", "deliver"} :
            Claims([thread[Job] EXCEPT !.at = step]) \subseteq Claims(thread[Job])
      BY <1>0, GoneOn DEF Claims
    <2> QED BY <1>0, <2>1, <2>2, OneGoesOnLettingGo
  <1>3. CASE GroupInterrupted \/ Deliver
    <2>1. /\ Become(Job, Idle) \/ \E step \in {"start", "round"} : Become(Job, [Idle EXCEPT !.at = step])
          /\ UNCHANGED <<approvals, queued, ran, declined, issued>>
      BY <1>3 DEF GroupInterrupted, Deliver, session, history, counts
    <2>2. \E v : Become(Job, v) /\ Free(v)
      BY <2>1, FreeThreads
    <2> QED BY <1>0, <2>1, <2>2, OneIsFree
  <1>4. CASE FollowUp
    <2>1. UNCHANGED <<approvals, queued, ran, declined>>
      BY <1>4 DEF FollowUp, history
    <2>2. CASE Round
      BY <2>1, <2>2, LedgerRound
    <2>3. CASE Become(Job, [Idle EXCEPT !.at = "start"]) /\ UNCHANGED issued
      BY <1>0, <2>1, <2>3, FreeThreads, OneIsFree
    <2> QED BY <1>4, <2>2, <2>3 DEF FollowUp
  <1>5. CASE StartRun(Job)
    BY <1>0, <1>5, LedgerStartRun
  <1> QED BY <1>2, <1>3, <1>4, <1>5 DEF Workflow

\* A restart forgets where every thread was, and what it claimed.
LEMMA LedgerRestart == Typed /\ Ledger /\ Restart => Ledger'
  <1> SUFFICES ASSUME Typed, Ledger, Restart PROVE Ledger'
    OBVIOUS
  <1>1. \A t \in Threads : thread'[t] = Idle
    BY DEF Restart
  <1>2. Claims(Idle) = {} /\ IsInjective(Idle.todo)
    BY DEF Claims, Idle, IsInjective
  <1>3. UNCHANGED <<approvals, queued, ran, declined, issued>> /\ issued \in Nat
    BY DEF Restart, session, Typed, TypeOK
  <1>4. \A t \in Threads : /\ Claims(thread'[t]) \subseteq Claims(thread[t])
                           /\ IsInjective(thread'[t].todo)
    BY <1>1, <1>2
  <1> QED BY <1>3, <1>4, LetGo

LEMMA LedgerStep == Typed /\ Ledger /\ [Next]_vars => Ledger'
  <1> SUFFICES ASSUME Typed, Ledger, [Next]_vars PROVE Ledger'
    OBVIOUS
  <1>1. CASE Next
    BY <1>1, LedgerConversation, LedgerBatch, LedgerServe, LedgerUserActs, LedgerWorkflow,
       LedgerRestart
    DEF Next
  <1>2. CASE UNCHANGED vars
    BY <1>2 DEF vars, session, work, flags, history, counts, Ledger, OnePlace, Unstarted, AllIssued,
                RanOnce, Claimed
  <1> QED BY <1>1, <1>2

\* No tool call runs twice, and none the user declined runs at all (ResolveApproval,
\* setPendingToolCalls, takePendingToolCalls): of every user, also one whose requests
\* overlap, who stops, rewinds and goes on in the midst of it.
THEOREM EachCallOnce == Spec => []RanOnce
  <1>1. Spec => [](Typed /\ Ledger)
    BY TypedInit, TypedStep, LedgerInit, LedgerStep, PTL DEF Spec
  <1>2. Ledger => RanOnce
    BY DEF Ledger
  <1> QED BY <1>1, <1>2, PTL

-----------------------------------------------------------------------------
(* Transcripts in which every turn is answered in place.                   *)

\* Where the results of the turn at i are, and the call the one at j answers.
Inside(s, i) == {j \in i + 1 .. Len(s) : j <= i + Len(s[i].calls)}
Answer(s, j) == s[j].calls[1]
Answers(s, i) == {Answer(s, j) : j \in Inside(s, i)}

\* After a turn come results of its calls, each once, before anything else is said;
\* and there are no other results.  The last turn may lack some.
Proper(s) ==
    /\ \A i \in TurnsIn(s) : IsInjective(s[i].calls)
    /\ \A i \in TurnsIn(s) : \A j \in Inside(s, i) :
         s[j].role = "tool" /\ Answer(s, j) \in Range(s[i].calls)
    /\ \A i \in TurnsIn(s) : \A j, k \in Inside(s, i) : Answer(s, j) = Answer(s, k) => j = k
    /\ \A j \in DOMAIN s : s[j].role = "tool" => \E i \in TurnsIn(s) : j \in Inside(s, i)

\* What the positions of a transcript hold.
LEMMA Positions ==
    ASSUME NEW s \in Seq(Message)
    PROVE  /\ Len(s) \in Nat /\ DOMAIN s = 1 .. Len(s)
           /\ \A i \in 1 .. Len(s) : s[i] \in Message /\ s[i].calls \in Seq(Calls)
                                     /\ Len(s[i].calls) \in Nat
           /\ \A i \in TurnsIn(s) : /\ i \in 1 .. Len(s) /\ i \in Nat
                                    /\ s[i].role = "assistant" /\ s[i].calls # <<>>
                                    /\ s[i].calls \in Seq(Calls)
                                    /\ Len(s[i].calls) \in Nat /\ Len(s[i].calls) > 0
  <1>1. Len(s) \in Nat /\ DOMAIN s = 1 .. Len(s)
    OBVIOUS
  <1>2. \A i \in 1 .. Len(s) : s[i] \in Message
    BY <1>1
  <1>3. \A m \in Message : m.calls \in Seq(Calls)
    BY DEF Message
  <1>4. \A q \in Seq(Calls) : Len(q) \in Nat /\ (q # <<>> => Len(q) > 0)
    OBVIOUS
  <1>5. \A i \in 1 .. Len(s) : s[i] \in Message /\ s[i].calls \in Seq(Calls)
                               /\ Len(s[i].calls) \in Nat
    BY <1>2, <1>3, <1>4
  <1>6. \A i \in TurnsIn(s) : i \in 1 .. Len(s) /\ s[i].role = "assistant" /\ s[i].calls # <<>>
    BY <1>1 DEF TurnsIn
  <1>7. \A i \in TurnsIn(s) : i \in Nat
    BY <1>1, <1>6
  <1>8. \A i \in TurnsIn(s) : Len(s[i].calls) > 0
    BY <1>4, <1>5, <1>6
  <1> QED BY <1>1, <1>5, <1>6, <1>7, <1>8

\* The numbers up to n are n.
LEMMA UpToIsThatMany ==
    ASSUME NEW n \in Nat
    PROVE  IsFiniteSet(1 .. n) /\ Cardinality(1 .. n) = n
  <1>1. 1 \in Int /\ n \in Int
    OBVIOUS
  <1>2. /\ IsFiniteSet(1 .. n)
        /\ Cardinality(1 .. n) = IF 1 > n THEN 0 ELSE n - 1 + 1
    BY ONLY <1>1, FS_Interval
  <1> QED BY ONLY <1>1, <1>2, n \in Nat

\* Each once: as many answers as calls are all of them, and fewer are not.
LEMMA AsManyAnswers ==
    ASSUME NEW calls \in Seq(Calls), IsInjective(calls), NEW m \in Nat,
           NEW f \in [1 .. m -> Range(calls)], \A j, k \in 1 .. m : f[j] = f[k] => j = k
    PROVE  /\ m <= Len(calls)
           /\ {f[j] : j \in 1 .. m} = Range(calls) <=> m = Len(calls)
  <1> DEFINE n == Len(calls)
             R == Range(calls)
  <1>1. n \in Nat /\ DOMAIN calls = 1 .. n
    OBVIOUS
  <1>2. calls \in [1 .. n -> R]
    BY <1>1 DEF Range
  <1>3. calls \in Bijection(1 .. n, R)
    <2>1. calls \in Injection(1 .. n, R)
      BY <1>1, <1>2 DEF Injection, IsInjective
    <2>2. calls \in Surjection(1 .. n, R)
      BY <1>1, <1>2 DEF Surjection, Range
    <2> QED BY <2>1, <2>2 DEF Bijection
  <1>4. IsFiniteSet(1 .. n) /\ Cardinality(1 .. n) = n /\ IsFiniteSet(1 .. m) /\ Cardinality(1 .. m) = m
    BY <1>1, UpToIsThatMany
  <1>5. IsFiniteSet(R) /\ Cardinality(R) = n
    BY <1>3, <1>4, FS_Bijection DEF ExistsBijection
  <1>6. f \in Injection(1 .. m, R)
    BY DEF Injection, IsInjective
  <1>7. m <= n /\ (m = n <=> f \in Surjection(1 .. m, R))
    BY <1>4, <1>5, <1>6, FS_Injection
  <1>8. f \in Surjection(1 .. m, R) <=> {f[j] : j \in 1 .. m} = R
    <2>1. \A j \in 1 .. m : f[j] \in R
      OBVIOUS
    <2> QED BY <2>1 DEF Surjection
  <1> QED BY <1>7, <1>8

\* The results of a turn are all there if and only if every call has been answered.
LEMMA AllThere ==
    ASSUME NEW s \in Seq(Message), Proper(s), NEW i \in TurnsIn(s)
    PROVE  /\ Answers(s, i) \subseteq Range(s[i].calls)
           /\ Answers(s, i) = Range(s[i].calls) <=> i + Len(s[i].calls) <= Len(s)
  <1> DEFINE n == Len(s[i].calls)
             m == IF i + n <= Len(s) THEN n ELSE Len(s) - i
             f == [k \in 1 .. m |-> Answer(s, i + k)]
  <1>1. /\ Len(s) \in Nat /\ i \in 1 .. Len(s) /\ i \in Nat /\ n \in Nat
        /\ s[i].calls \in Seq(Calls) /\ IsInjective(s[i].calls)
    BY Positions DEF Proper
  <1>2. m \in Nat /\ m <= n /\ (m = n <=> i + n <= Len(s))
    BY <1>1
  <1>3. Inside(s, i) = {i + k : k \in 1 .. m}
    <2>1. \A k \in 1 .. m : i + k \in i + 1 .. Len(s) /\ i + k <= i + n
      BY <1>1, <1>2
    <2>2. \A j \in i + 1 .. Len(s) : j <= i + n => j - i \in 1 .. m /\ j = i + (j - i)
      BY <1>1, <1>2
    <2> HIDE DEF m, n
    <2>3. \A k \in 1 .. m : i + k \in Inside(s, i)
      BY <2>1 DEF Inside, n
    <2>4. \A j \in Inside(s, i) : \E k \in 1 .. m : j = i + k
      BY <2>2 DEF Inside, n
    <2> QED BY <2>3, <2>4
  <1> HIDE DEF m, n
  <1>4. Answers(s, i) = {f[k] : k \in 1 .. m}
    <2>1. \A k \in 1 .. m : f[k] = Answer(s, i + k)
      OBVIOUS
    <2> QED BY <1>3, <2>1 DEF Answers
  <1>5. \A k \in 1 .. m : f[k] \in Range(s[i].calls)
    BY <1>3 DEF Proper
  <1>6. \A j, k \in 1 .. m : f[j] = f[k] => j = k
    <2> SUFFICES ASSUME NEW j \in 1 .. m, NEW k \in 1 .. m, f[j] = f[k] PROVE j = k
      OBVIOUS
    <2>1. i + j = i + k
      BY <1>3 DEF Proper
    <2> QED BY <1>1, <1>2, <2>1
  <1>7. f \in [1 .. m -> Range(s[i].calls)]
    BY <1>5
  <1> HIDE DEF f
  <1>8. {f[k] : k \in 1 .. m} = Range(s[i].calls) <=> m = n
    BY <1>1, <1>2, <1>6, <1>7, AsManyAnswers DEF n
  <1>9. Answers(s, i) \subseteq Range(s[i].calls)
    BY <1>4, <1>5
  <1> QED BY <1>2, <1>4, <1>8, <1>9 DEF n
\* The block of a turn ends before the next turn.
LEMMA BlocksApart ==
    ASSUME NEW s \in Seq(Message), Proper(s), NEW i \in TurnsIn(s), NEW k \in DOMAIN s, i < k,
           s[k].role # "tool"
    PROVE  i + Len(s[i].calls) < k
  <1>1. Len(s) \in Nat /\ k \in 1 .. Len(s) /\ i \in Nat /\ Len(s[i].calls) \in Nat
    BY Positions
  <1>2. k \in i + 1 .. Len(s)
    BY <1>1
  <1>3. k \notin Inside(s, i)
    BY DEF Proper
  <1>4. ~(k <= i + Len(s[i].calls))
    BY <1>2, <1>3 DEF Inside
  <1> QED BY <1>1, <1>4

\* What is open is what the last turn lacks.
LEMMA OpenIsLacking ==
    ASSUME NEW s \in Seq(Message), Proper(s), TurnsIn(s) # {}
    PROVE  /\ Open(s) = Range(s[LastTurn(s)].calls) \ Answers(s, LastTurn(s))
           /\ Open(s) = {} <=> LastTurn(s) + Len(s[LastTurn(s)].calls) <= Len(s)
  <1> DEFINE L == LastTurn(s)
             T == {k \in L + 1 .. Len(s) : s[k].role = "tool"}
  <1>1. L \in TurnsIn(s) /\ \A j \in TurnsIn(s) : j <= L
    BY LastTurnIsTurn
  <1>2. /\ Len(s) \in Nat /\ DOMAIN s = 1 .. Len(s) /\ L \in 1 .. Len(s) /\ L \in Nat
        /\ s[L].role = "assistant" /\ Len(s[L].calls) \in Nat
    BY <1>1, Positions
  <1> HIDE DEF L
  <1>3. Inside(s, L) \subseteq T
    BY <1>1 DEF Proper, Inside
  <1>4. T \subseteq Inside(s, L)
    <2> SUFFICES ASSUME NEW j \in T PROVE j \in Inside(s, L)
      OBVIOUS
    <2>1. j \in DOMAIN s /\ L < j /\ s[j].role = "tool"
      BY <1>2
    <2>2. PICK i \in TurnsIn(s) : j \in Inside(s, i)
      BY <2>1 DEF Proper
    <2>3. CASE i = L
      BY <2>2, <2>3
    <2>4. CASE i # L
      <3>1. i \in Nat /\ Len(s[i].calls) \in Nat
        BY Positions
      <3>2. i < L
        BY <1>1, <1>2, <2>4, <3>1
      <3>3. i + Len(s[i].calls) < L
        BY <1>2, <3>2, BlocksApart
      <3>4. j <= i + Len(s[i].calls)
        BY <2>2 DEF Inside
      <3> QED BY <1>2, <2>1, <3>1, <3>3, <3>4
    <2> QED BY <2>3, <2>4
  <1>5. ResultsAfter(s, L) = Answers(s, L)
    <2>1. T = Inside(s, L)
      BY <1>3, <1>4
    <2> QED BY <2>1 DEF ResultsAfter, Answers, Answer
  <1>6. Open(s) = Range(s[L].calls) \ Answers(s, L)
    BY <1>5 DEF Open, L
  <1>7. /\ Answers(s, L) \subseteq Range(s[L].calls)
        /\ Answers(s, L) = Range(s[L].calls) <=> L + Len(s[L].calls) <= Len(s)
    BY <1>1, AllThere
  <1>8. Open(s) = {} <=> L + Len(s[L].calls) <= Len(s)
    BY <1>6, <1>7
  <1> QED BY <1>6, <1>8 DEF L

\* Where nothing is open, every turn has all of its results.
LEMMA AllAnswered ==
    ASSUME NEW s \in Seq(Message), Proper(s), Open(s) = {}, NEW i \in TurnsIn(s)
    PROVE  i + Len(s[i].calls) <= Len(s)
  <1> DEFINE L == LastTurn(s)
  <1>1. L \in TurnsIn(s) /\ i <= L
    BY LastTurnIsTurn
  <1>2. L + Len(s[L].calls) <= Len(s)
    BY OpenIsLacking
  <1>3. /\ Len(s) \in Nat /\ DOMAIN s = 1 .. Len(s) /\ L \in 1 .. Len(s) /\ s[L].role = "assistant"
        /\ i \in Nat /\ Len(s[i].calls) \in Nat
    BY <1>1, Positions
  <1> HIDE DEF L
  <1>4. CASE i = L
    BY <1>2, <1>4
  <1>5. CASE i # L
    <2>1. i < L
      BY <1>1, <1>3, <1>5
    <2>2. i + Len(s[i].calls) < L
      BY <1>3, <2>1, BlocksApart
    <2> QED BY <1>3, <2>2
  <1> QED BY <1>4, <1>5

\* Such a transcript obeys the provider's rule.
LEMMA ProperIsWellformed ==
    ASSUME NEW s \in Seq(Message), Proper(s), Open(s) = {}
    PROVE  Wellformed(s)
  <1>1. ASSUME NEW i \in TurnsIn(s)
        PROVE  LET n == Len(s[i].calls)
               IN  /\ i + n <= Len(s)
                   /\ \A j \in i + 1 .. i + n : s[j].role = "tool"
                   /\ {s[j].calls[1] : j \in i + 1 .. i + n} = Range(s[i].calls)
    <2> DEFINE n == Len(s[i].calls)
    <2>1. i + n <= Len(s) /\ i \in Nat /\ n \in Nat /\ Len(s) \in Nat
      BY AllAnswered, Positions
    <2>2. Answers(s, i) = Range(s[i].calls)
      BY <2>1, AllThere
    <2>3. Inside(s, i) = i + 1 .. i + n
      <3>1. \A j \in i + 1 .. i + n : j \in i + 1 .. Len(s) /\ j <= i + n
        BY <2>1
      <3>2. \A j \in i + 1 .. Len(s) : j <= i + n => j \in i + 1 .. i + n
        BY <2>1
      <3> QED BY <3>1, <3>2 DEF Inside
    <2>4. \A j \in i + 1 .. i + n : s[j].role = "tool"
      BY <2>3 DEF Proper
    <2>5. {s[j].calls[1] : j \in i + 1 .. i + n} = Range(s[i].calls)
      BY <2>2, <2>3 DEF Answers, Answer
    <2> QED BY <2>1, <2>4, <2>5
  <1>2. ASSUME NEW j \in DOMAIN s, s[j].role = "tool"
        PROVE  \E i \in TurnsIn(s) : i < j /\ j <= i + Len(s[i].calls)
    <2>1. PICK i \in TurnsIn(s) : j \in Inside(s, i)
      BY <1>2 DEF Proper
    <2>2. i \in Nat /\ Len(s) \in Nat
      BY Positions
    <2>3. i < j /\ j <= i + Len(s[i].calls)
      BY <2>1, <2>2 DEF Inside
    <2> QED BY <2>3
  <1> QED BY <1>1, <1>2 DEF Wellformed

\* A call is open only in a transcript with a turn that lacks its result.
LEMMA OpenNeedsATurn ==
    ASSUME NEW s \in Seq(Message), Open(s) # {}
    PROVE  TurnsIn(s) # {}
  BY DEF Open

\* What more is said leaves the rest of the transcript as it was.
LEMMA SayingMore ==
    ASSUME NEW s \in Seq(Message), NEW m \in Message
    PROVE  /\ Append(s, m) \in Seq(Message) /\ Len(Append(s, m)) = Len(s) + 1
           /\ \A i \in 1 .. Len(s) : Append(s, m)[i] = s[i]
           /\ Append(s, m)[Len(s) + 1] = m
           /\ TurnsIn(Append(s, m)) = IF m.role = "assistant" /\ m.calls # <<>>
                                      THEN TurnsIn(s) \cup {Len(s) + 1} ELSE TurnsIn(s)
           /\ \A i \in TurnsIn(s) :
                Inside(Append(s, m), i) = IF Len(s) + 1 <= i + Len(s[i].calls)
                                          THEN Inside(s, i) \cup {Len(s) + 1} ELSE Inside(s, i)
  <1> DEFINE k == Len(s) + 1
  <1>1. PICK t : t = Append(s, m)
    OBVIOUS
  <1>2. /\ Len(s) \in Nat /\ DOMAIN s = 1 .. Len(s) /\ t \in Seq(Message)
        /\ Len(t) = k /\ DOMAIN t = 1 .. k
        /\ \A i \in 1 .. Len(s) : t[i] = s[i]
        /\ t[k] = m
    BY <1>1
  <1>3. TurnsIn(s) \subseteq 1 .. Len(s)
    BY <1>2 DEF TurnsIn
  <1>4. \A i \in 1 .. k : i \in TurnsIn(t) <=>
          \/ i \in TurnsIn(s)
          \/ i = k /\ m.role = "assistant" /\ m.calls # <<>>
    BY <1>2 DEF TurnsIn
  <1>5. TurnsIn(t) \subseteq 1 .. k
    BY <1>2 DEF TurnsIn
  <1>6. TurnsIn(t) = IF m.role = "assistant" /\ m.calls # <<>> THEN TurnsIn(s) \cup {k} ELSE TurnsIn(s)
    <2>1. k \in 1 .. k /\ TurnsIn(s) \subseteq 1 .. k
      BY <1>2, <1>3
    <2>2. k \notin TurnsIn(s)
      BY <1>2, <1>3
    <2> HIDE DEF k
    <2> QED BY <1>4, <1>5, <2>1, <2>2
  <1>7. ASSUME NEW i \in TurnsIn(s)
        PROVE  Inside(t, i) = IF k <= i + Len(s[i].calls) THEN Inside(s, i) \cup {k} ELSE Inside(s, i)
    <2>1. i \in 1 .. Len(s) /\ i \in Nat /\ Len(s[i].calls) \in Nat /\ t[i] = s[i]
      BY <1>2, Positions
    <2>2. \A j : j \in i + 1 .. k <=> j \in i + 1 .. Len(s) \/ j = k
      BY <1>2, <2>1
    <2>3. Inside(t, i) = {j \in i + 1 .. k : j <= i + Len(s[i].calls)}
      BY <1>2, <2>1 DEF Inside
    <2>4. \A j : j \in Inside(t, i) <=> j \in Inside(s, i) \/ (j = k /\ k <= i + Len(s[i].calls))
      BY <2>2, <2>3 DEF Inside
    <2> QED BY <2>4
  <1> QED BY <1>1, <1>2, <1>6, <1>7

\* Where nothing is open, a user may speak and the model may take a turn.
LEMMA SayFirst ==
    ASSUME NEW s \in Seq(Message), Proper(s), Open(s) = {},
           NEW m \in Message, m.role # "tool", m.role = "user" => m.calls = <<>>,
           IsInjective(m.calls)
    PROVE  Proper(Append(s, m)) /\ Open(Append(s, m)) = Range(m.calls)
  <1> DEFINE k == Len(s) + 1
  <1>1. PICK t : t = Append(s, m)
    OBVIOUS
  <1>2. /\ Len(s) \in Nat /\ DOMAIN s = 1 .. Len(s) /\ t \in Seq(Message)
        /\ Len(t) = k /\ DOMAIN t = 1 .. k
        /\ \A i \in 1 .. Len(s) : t[i] = s[i]
        /\ t[k] = m /\ m.role \in {"user", "assistant"}
        /\ m.calls \in Seq(Calls) /\ Len(m.calls) \in Nat
    <2>1. m.role \in {"user", "assistant"} /\ m.calls \in Seq(Calls)
      BY DEF Message
    <2> QED BY <1>1, <2>1, SayingMore
  <1>3. ASSUME NEW i \in TurnsIn(s)
        PROVE  i \in 1 .. Len(s) /\ t[i] = s[i] /\ Inside(t, i) = Inside(s, i)
               /\ i + Len(s[i].calls) <= Len(s) /\ Inside(s, i) \subseteq 1 .. Len(s)
    <2>1. i \in 1 .. Len(s) /\ i \in Nat /\ Len(s[i].calls) \in Nat
      BY Positions
    <2>2. i + Len(s[i].calls) <= Len(s)
      BY AllAnswered
    <2>3. ~(Len(s) + 1 <= i + Len(s[i].calls))
      BY <1>2, <2>1, <2>2
    <2>4. Inside(t, i) = Inside(s, i)
      BY <1>1, <2>3, SayingMore
    <2>5. Inside(s, i) \subseteq 1 .. Len(s)
      BY <1>2, <2>1 DEF Inside
    <2> QED BY <1>2, <2>1, <2>2, <2>4, <2>5
  <1>4. ASSUME m.calls # <<>>
        PROVE  /\ TurnsIn(t) = TurnsIn(s) \cup {k}
               /\ Inside(t, k) = {}
    <2>1. m.role = "assistant"
      BY <1>2, <1>4
    <2>2. TurnsIn(t) = TurnsIn(s) \cup {k}
      BY <1>1, <1>4, <2>1, SayingMore
    <2>3. Inside(t, k) = {}
      <3>1. \A j \in k + 1 .. k : FALSE
        BY <1>2
      <3> QED BY <1>2, <3>1 DEF Inside
    <2> QED BY <2>2, <2>3
  <1>5. m.calls = <<>> => TurnsIn(t) = TurnsIn(s)
    BY <1>1, SayingMore
  <1>6. \A i \in TurnsIn(t) : i \in TurnsIn(s) \/ (i = k /\ Inside(t, i) = {})
    BY <1>4, <1>5
  <1>7. Proper(t)
    <2>1. \A i \in TurnsIn(t) : IsInjective(t[i].calls)
      BY <1>2, <1>3, <1>6 DEF Proper
    <2>2. \A i \in TurnsIn(t) : \A j \in Inside(t, i) :
            t[j].role = "tool" /\ Answer(t, j) \in Range(t[i].calls)
      BY <1>2, <1>3, <1>6 DEF Proper, Answer
    <2>3. \A i \in TurnsIn(t) : \A j, j2 \in Inside(t, i) : Answer(t, j) = Answer(t, j2) => j = j2
      BY <1>2, <1>3, <1>6 DEF Proper, Answer
    <2>4. \A j \in DOMAIN t : t[j].role = "tool" => \E i \in TurnsIn(t) : j \in Inside(t, i)
      <3> SUFFICES ASSUME NEW j \in DOMAIN t, t[j].role = "tool"
                   PROVE  \E i \in TurnsIn(t) : j \in Inside(t, i)
        OBVIOUS
      <3>1. j \in DOMAIN s /\ s[j].role = "tool"
        BY <1>2
      <3>2. PICK i \in TurnsIn(s) : j \in Inside(s, i)
        BY <3>1 DEF Proper
      <3>3. i \in TurnsIn(t)
        BY <1>4, <1>5
      <3> QED BY <1>3, <3>2, <3>3
    <2> QED BY <2>1, <2>2, <2>3, <2>4 DEF Proper
  <1>8. ASSUME m.calls = <<>> PROVE Open(t) = Range(m.calls)
    <2>1. Range(m.calls) = {}
      BY <1>8 DEF Range
    <2>2. CASE TurnsIn(s) = {}
      BY <1>5, <1>8, <2>1, <2>2 DEF Open
    <2>3. CASE TurnsIn(s) # {}
      <3>1. LastTurn(t) = LastTurn(s) /\ LastTurn(s) \in TurnsIn(s)
        BY <1>5, <1>8, <2>3, LastTurnIsTurn DEF LastTurn
      <3> DEFINE L == LastTurn(s)
      <3>2. L + Len(t[L].calls) <= Len(s) /\ L \in Nat /\ Len(t[L].calls) \in Nat
        BY <1>3, <3>1, Positions
      <3>3. L + Len(t[L].calls) <= Len(t)
        BY <1>2, <3>2
      <3>4. TurnsIn(t) # {}
        BY <1>5, <1>8, <2>3
      <3> QED BY <1>2, <1>7, <2>1, <3>1, <3>3, <3>4, OpenIsLacking
    <2> QED BY <2>2, <2>3
  <1>9. ASSUME m.calls # <<>> PROVE Open(t) = Range(m.calls)
    <2>1. TurnsIn(t) # {} /\ k \in TurnsIn(t) /\ Inside(t, k) = {}
      BY <1>4, <1>9
    <2>2. LastTurn(t) \in TurnsIn(t) /\ k <= LastTurn(t)
      BY <1>2, <2>1, LastTurnIsTurn
    <2>3. LastTurn(t) = k
      BY <1>2, <2>2, <2>1 DEF TurnsIn
    <2>4. Answers(t, k) = {}
      BY <2>1 DEF Answers
    <2> QED BY <1>2, <1>7, <2>1, <2>3, <2>4, OpenIsLacking
  <1> QED BY <1>1, <1>7, <1>8, <1>9

\* An open call may be answered, and is then not open any more.
LEMMA SayResult ==
    ASSUME NEW s \in Seq(Message), Proper(s), NEW c \in Open(s)
    PROVE  Proper(Append(s, Result(c))) /\ Open(Append(s, Result(c))) = Open(s) \ {c}
  <1> DEFINE k == Len(s) + 1
             L == LastTurn(s)
  <1>0. PICK m : m = Result(c)
    OBVIOUS
  <1>1. PICK t : t = Append(s, m)
    OBVIOUS
  <1>2. c \in Calls /\ m \in Message /\ m.role = "tool" /\ m.calls = <<c>>
    BY <1>0, OpenIsCalls, Messages DEF Result
  <1>3. /\ Len(s) \in Nat /\ DOMAIN s = 1 .. Len(s) /\ t \in Seq(Message)
        /\ Len(t) = k /\ DOMAIN t = 1 .. k
        /\ \A i \in 1 .. Len(s) : t[i] = s[i]
        /\ t[k] = m /\ TurnsIn(t) = TurnsIn(s)
    BY <1>1, <1>2, SayingMore
  <1>4. TurnsIn(s) # {} /\ L \in TurnsIn(s) /\ \A i \in TurnsIn(s) : i <= L
    BY OpenNeedsATurn, LastTurnIsTurn
  <1>5. /\ Open(s) = Range(s[L].calls) \ Answers(s, L)
        /\ ~(L + Len(s[L].calls) <= Len(s))
    BY <1>4, OpenIsLacking
  <1>6. /\ L \in 1 .. Len(s) /\ L \in Nat /\ Len(s[L].calls) \in Nat
        /\ s[L].role = "assistant" /\ t[L] = s[L]
    BY <1>3, <1>4, Positions
  <1>7. LastTurn(t) = L
    BY <1>3 DEF LastTurn
  <1> HIDE DEF L
  <1>8. Inside(t, L) = Inside(s, L) \cup {k}
    <2>1. Len(s) + 1 <= L + Len(s[L].calls)
      BY <1>3, <1>5, <1>6
    <2> QED BY <1>1, <1>2, <1>4, <2>1, SayingMore
  <1>9. ASSUME NEW i \in TurnsIn(s), i # L
        PROVE  Inside(t, i) = Inside(s, i)
    <2>0. i \in Nat /\ Len(s[i].calls) \in Nat
      BY Positions
    <2>1. i < L
      BY <1>4, <1>6, <1>9, <2>0
    <2>2. i + Len(s[i].calls) < L
      BY <1>3, <1>6, <1>9, <2>1, BlocksApart
    <2>3. ~(Len(s) + 1 <= i + Len(s[i].calls))
      BY <1>3, <1>6, <2>0, <2>1, <2>2
    <2> QED BY <1>1, <1>2, <2>3, SayingMore
  <1>10. \A i \in TurnsIn(s) : i \in 1 .. Len(s) /\ t[i] = s[i] /\ Inside(s, i) \subseteq 1 .. Len(s)
    <2>1. \A i \in TurnsIn(s) : i \in 1 .. Len(s) /\ t[i] = s[i] /\ i \in Nat
      BY <1>3, Positions
    <2>2. \A i \in TurnsIn(s) : i + 1 .. Len(s) \subseteq 1 .. Len(s)
      BY <1>3, <2>1
    <2> QED BY <2>1, <2>2 DEF Inside
  <1>11. Answer(t, k) = c /\ \A j \in 1 .. Len(s) : Answer(t, j) = Answer(s, j)
    BY <1>2, <1>3 DEF Answer
  <1>12. k \notin 1 .. Len(s)
    BY <1>3
  <1>13. c \in Range(s[L].calls) /\ c \notin Answers(s, L)
    BY <1>5
  <1> HIDE DEF k
  <1>14. Answers(t, L) = Answers(s, L) \cup {c}
    <2>1. Inside(s, L) \subseteq 1 .. Len(s)
      BY <1>4, <1>10
    <2> QED BY <1>8, <1>11, <2>1 DEF Answers
  <1>15. Proper(t)
    <2>1. \A i \in TurnsIn(t) : IsInjective(t[i].calls)
      BY <1>3, <1>10 DEF Proper
    <2>2. ASSUME NEW i \in TurnsIn(s), NEW j \in Inside(t, i)
          PROVE  t[j].role = "tool" /\ Answer(t, j) \in Range(t[i].calls)
      <3>1. CASE j \in Inside(s, i)
        <4>1. j \in 1 .. Len(s) /\ t[i] = s[i]
          BY <1>10, <3>1
        <4>2. s[j].role = "tool" /\ Answer(s, j) \in Range(s[i].calls)
          BY <3>1 DEF Proper
        <4> QED BY <1>3, <1>11, <4>1, <4>2
      <3>2. CASE j \notin Inside(s, i)
        <4>1. i = L /\ j = k
          BY <1>8, <1>9, <2>2, <3>2
        <4> QED BY <1>2, <1>3, <1>6, <1>11, <1>13, <4>1
      <3> QED BY <3>1, <3>2
    <2>3. ASSUME NEW i \in TurnsIn(s), NEW j \in Inside(t, i), NEW j2 \in Inside(t, i),
                 Answer(t, j) = Answer(t, j2)
          PROVE  j = j2
      <3>1. \A q \in Inside(t, i) : q \in Inside(s, i) \/ (q = k /\ i = L)
        BY <1>8, <1>9
      <3>2. \A q \in Inside(s, i) : Answer(t, q) = Answer(s, q) /\ Answer(s, q) \in Answers(s, i)
        BY <1>10, <1>11 DEF Answers
      <3>3. CASE j \in Inside(s, i) /\ j2 \in Inside(s, i)
        BY <2>3, <3>2, <3>3 DEF Proper
      <3>4. CASE j = k /\ j2 = k
        BY <3>4
      <3>5. CASE j \in Inside(s, i) /\ j2 = k /\ i = L
        BY <1>11, <1>13, <2>3, <3>2, <3>5
      <3>6. CASE j2 \in Inside(s, i) /\ j = k /\ i = L
        BY <1>11, <1>13, <2>3, <3>2, <3>6
      <3> QED BY <3>1, <3>3, <3>4, <3>5, <3>6
    <2>4. ASSUME NEW j \in DOMAIN t, t[j].role = "tool"
          PROVE  \E i \in TurnsIn(t) : j \in Inside(t, i)
      <3>1. CASE j = k
        BY <1>3, <1>4, <1>8, <3>1
      <3>2. CASE j # k
        <4>1. j \in DOMAIN s /\ s[j].role = "tool"
          BY <1>3, <2>4, <3>2 DEF k
        <4>2. PICK i \in TurnsIn(s) : j \in Inside(s, i)
          BY <4>1 DEF Proper
        <4>3. j \in Inside(t, i)
          BY <1>8, <1>9, <4>2
        <4> QED BY <1>3, <4>3
      <3> QED BY <3>1, <3>2
    <2> QED BY <1>3, <2>1, <2>2, <2>3, <2>4 DEF Proper
  <1>16. Open(t) = Open(s) \ {c}
    <2>1. Open(t) = Range(t[L].calls) \ Answers(t, L)
      BY <1>3, <1>4, <1>7, <1>15, OpenIsLacking
    <2> QED BY <1>5, <1>6, <1>14, <2>1
  <1> QED BY <1>0, <1>1, <1>15, <1>16

\* Cut before a message that is no result, and nothing is open.
LEMMA Cut ==
    ASSUME NEW s \in Seq(Message), Proper(s), NEW e \in DOMAIN s, s[e].role # "tool"
    PROVE  /\ SubSeq(s, 1, e - 1) \in Seq(Message)
           /\ Proper(SubSeq(s, 1, e - 1)) /\ Open(SubSeq(s, 1, e - 1)) = {}
  <1>1. PICK t : t = SubSeq(s, 1, e - 1)
    OBVIOUS
  <1>2. /\ Len(s) \in Nat /\ DOMAIN s = 1 .. Len(s) /\ e \in 1 .. Len(s) /\ e \in Nat /\ e - 1 \in Nat
        /\ e - 1 <= Len(s)
    OBVIOUS
  <1>3. /\ t \in Seq(Message) /\ Len(t) = e - 1 /\ DOMAIN t = 1 .. e - 1
        /\ \A i \in 1 .. e - 1 : t[i] = s[i]
    BY <1>1, <1>2
  <1>4. \A i \in 1 .. e - 1 : i \in 1 .. Len(s) /\ i < e
    BY <1>2
  <1>5. TurnsIn(t) \subseteq TurnsIn(s) \cap 1 .. e - 1
    BY <1>2, <1>3, <1>4 DEF TurnsIn
  <1>6. ASSUME NEW i \in TurnsIn(t)
        PROVE  /\ i \in TurnsIn(s) /\ t[i] = s[i] /\ i + Len(s[i].calls) <= e - 1
               /\ Inside(t, i) = Inside(s, i) /\ Inside(s, i) \subseteq 1 .. e - 1
    <2>1. i \in TurnsIn(s) /\ i \in 1 .. e - 1 /\ t[i] = s[i] /\ i < e
      BY <1>3, <1>4, <1>5
    <2>2. i \in Nat /\ Len(s[i].calls) \in Nat
      BY <2>1, Positions
    <2>3. i + Len(s[i].calls) < e
      BY <2>1, BlocksApart
    <2>4. i + Len(s[i].calls) <= e - 1
      BY <1>2, <2>2, <2>3
    <2>5. \A j : j <= i + Len(s[i].calls) => (j \in i + 1 .. e - 1 <=> j \in i + 1 .. Len(s))
      BY <1>2, <2>2, <2>4
    <2>6. Inside(t, i) = Inside(s, i)
      BY <1>3, <2>1, <2>5 DEF Inside
    <2>7. i + 1 .. e - 1 \subseteq 1 .. e - 1
      BY <1>2, <2>2
    <2> QED BY <1>3, <2>1, <2>4, <2>6, <2>7 DEF Inside
  <1>7. Proper(t)
    <2>1. \A i \in TurnsIn(t) : IsInjective(t[i].calls)
      BY <1>6 DEF Proper
    <2>2. \A i \in TurnsIn(t) : \A j \in Inside(t, i) :
            t[j].role = "tool" /\ Answer(t, j) \in Range(t[i].calls)
      BY <1>3, <1>6 DEF Proper, Answer
    <2>3. \A i \in TurnsIn(t) : \A j, j2 \in Inside(t, i) : Answer(t, j) = Answer(t, j2) => j = j2
      BY <1>3, <1>6 DEF Proper, Answer
    <2>4. ASSUME NEW j \in DOMAIN t, t[j].role = "tool"
          PROVE  \E i \in TurnsIn(t) : j \in Inside(t, i)
      <3>1. j \in DOMAIN s /\ s[j].role = "tool" /\ j \in 1 .. e - 1
        BY <1>2, <1>3, <1>4, <2>4
      <3>2. PICK i \in TurnsIn(s) : j \in Inside(s, i)
        BY <3>1 DEF Proper
      <3>3. i \in 1 .. Len(s) /\ i \in Nat /\ s[i].role = "assistant" /\ s[i].calls # <<>>
        BY <3>2, Positions
      <3>4. i < j
        BY <1>2, <3>2, <3>3 DEF Inside
      <3>5. i \in 1 .. e - 1
        BY <1>2, <3>1, <3>3, <3>4
      <3>6. i \in TurnsIn(t)
        BY <1>3, <3>3, <3>5 DEF TurnsIn
      <3> QED BY <1>6, <3>2, <3>6
    <2> QED BY <2>1, <2>2, <2>3, <2>4 DEF Proper
  <1>8. Open(t) = {}
    <2>1. CASE TurnsIn(t) = {}
      BY <2>1 DEF Open
    <2>2. CASE TurnsIn(t) # {}
      <3>1. LastTurn(t) \in TurnsIn(t)
        BY <1>3, <2>2, LastTurnIsTurn
      <3>2. LastTurn(t) + Len(t[LastTurn(t)].calls) <= Len(t)
        BY <1>3, <1>6, <3>1
      <3> QED BY <1>3, <1>7, <2>2, <3>2, OpenIsLacking
    <2> QED BY <2>1, <2>2
  <1> QED BY <1>1, <1>3, <1>7, <1>8

\* The parts of two sequences put together.
LEMMA SideBySide ==
    ASSUME NEW S, NEW s \in Seq(S), NEW r \in Seq(S)
    PROVE  /\ s \o r \in Seq(S) /\ Len(s \o r) = Len(s) + Len(r)
           /\ \A i \in 1 .. Len(s) : (s \o r)[i] = s[i]
           /\ \A i \in Len(s) + 1 .. Len(s) + Len(r) : (s \o r)[i] = r[i - Len(s)]
  <1>1. s \o r \in Seq(S) /\ Len(s \o r) = Len(s) + Len(r)
    OBVIOUS
  <1>2. \A i \in 1 .. Len(s) : (s \o r)[i] = s[i]
    OBVIOUS
  <1>3. \A i \in Len(s) + 1 .. Len(s) + Len(r) : (s \o r)[i] = r[i - Len(s)]
    OBVIOUS
  <1> QED BY <1>1, <1>2, <1>3

\* The open calls are put in order, each once.
LEMMA OpenInOrder ==
    ASSUME NEW s \in Seq(Message)
    PROVE  /\ SetToSeq(Open(s)) \in Seq(Calls) /\ Range(SetToSeq(Open(s))) = Open(s)
           /\ IsInjective(SetToSeq(Open(s)))
  <1>1. IsFiniteSet(Open(s)) /\ Open(s) \subseteq Calls
    BY OpenIsCalls
  <1>2. SetToSeq(Open(s)) \in Seq(Open(s)) /\ Range(SetToSeq(Open(s))) = Open(s)
        /\ IsInjective(SetToSeq(Open(s)))
    BY <1>1, InSomeOrder
  <1> QED BY <1>1, <1>2, SeqMonotonic

\* What is completed lacks nothing.
LEMMA Complete ==
    ASSUME NEW s \in Seq(Message), Proper(s)
    PROVE  Proper(Completed(s)) /\ Open(Completed(s)) = {}
  <1>0. PICK missing : missing = SetToSeq(Open(s))
    OBVIOUS
  <1>1. /\ missing \in Seq(Calls) /\ Range(missing) = Open(s) /\ IsInjective(missing)
    BY <1>0, OpenInOrder
  <1> DEFINE p == Len(missing)
             q == Len(s)
             L == LastTurn(s)
             n == Len(s[L].calls)
  <1>2. PICK results : results = [i \in DOMAIN missing |-> Result(missing[i])]
    OBVIOUS
  <1>3. PICK t : t = s \o results
    OBVIOUS
  <1>4. CASE Open(s) = {}
    <2>1. missing = <<>>
      <3>1. \A i \in DOMAIN missing : FALSE
        BY <1>1, <1>4 DEF Range
      <3>2. Len(missing) \in Nat /\ DOMAIN missing = 1 .. Len(missing)
        BY <1>1
      <3>3. Len(missing) = 0
        <4>1. 1 \notin 1 .. Len(missing)
          BY <3>1, <3>2
        <4> QED BY <3>2, <4>1
      <3> QED BY <1>1, <3>3
    <2>2. results = <<>>
      BY <1>2, <2>1
    <2>3. t = s
      BY <1>3, <2>2
    <2>4. Completed(s) = s
      BY <1>0, <1>2, <1>3, <2>3 DEF Completed
    <2> QED BY <1>4, <2>4
  <1>5. CASE Open(s) # {}
    <2>1. TurnsIn(s) # {} /\ L \in TurnsIn(s) /\ \A i \in TurnsIn(s) : i <= L
      BY <1>5, OpenNeedsATurn, LastTurnIsTurn
    <2>2. /\ Open(s) = Range(s[L].calls) \ Answers(s, L)
          /\ ~(L + n <= q)
      BY <1>5, <2>1, OpenIsLacking
    <2>3. /\ q \in Nat /\ DOMAIN s = 1 .. q
          /\ L \in 1 .. q /\ L \in Nat /\ n \in Nat /\ s[L].role = "assistant" /\ s[L].calls # <<>>
          /\ s[L].calls \in Seq(Calls) /\ IsInjective(s[L].calls)
      BY <2>1, Positions DEF Proper
    <2> HIDE DEF L
    <2>4. /\ p \in Nat /\ DOMAIN missing = 1 .. p
          /\ \A i \in 1 .. p : missing[i] \in Open(s) /\ missing[i] \in Calls
      BY <1>1 DEF Range
    <2>5. /\ results \in Seq(Message) /\ Len(results) = p
          /\ \A i \in 1 .. p : results[i] = Result(missing[i])
      <3>1. \A i \in 1 .. p : Result(missing[i]) \in Message
        BY <2>4, Messages
      <3> HIDE DEF p
      <3> QED BY <1>2, <2>4, <3>1
    <2>6. /\ t \in Seq(Message) /\ Len(t) = q + p /\ DOMAIN t = 1 .. q + p
          /\ \A i \in 1 .. q : t[i] = s[i]
          /\ \A i \in q + 1 .. q + p : t[i] = results[i - q]
      <3>1. /\ t \in Seq(Message) /\ Len(t) = Len(s) + Len(results)
            /\ \A i \in 1 .. Len(s) : t[i] = s[i]
            /\ \A i \in Len(s) + 1 .. Len(s) + Len(results) : t[i] = results[i - Len(s)]
        <4>1. PICK r : r = results
          OBVIOUS
        <4>2. t = s \o r /\ r \in Seq(Message) /\ s \in Seq(Message)
          BY <1>3, <2>5, <4>1
        <4> QED BY ONLY <4>1, <4>2, SideBySide
      <3>2. DOMAIN t = 1 .. Len(t)
        BY <3>1
      <3> QED BY <2>5, <3>1, <3>2
    <2>7. \A i \in q + 1 .. q + p : /\ i - q \in 1 .. p
                                    /\ t[i].role = "tool" /\ Answer(t, i) = missing[i - q]
      <3>1. \A i \in q + 1 .. q + p : i - q \in 1 .. p
        BY <2>3, <2>4
      <3>2. \A c : Result(c).role = "tool" /\ Result(c).calls[1] = c
        BY DEF Result
      <3> QED BY <2>5, <2>6, <3>1, <3>2 DEF Answer
    <2>8. Inside(s, L) = L + 1 .. q
      <3>1. \A j \in L + 1 .. q : j <= L + n
        BY <2>2, <2>3
      <3> QED BY <3>1 DEF Inside
    <2>9. Completed(s) = t
      <3>1. \A j \in L + 1 .. q : s[j].role = "tool"
        BY <2>1, <2>8 DEF Proper
      <3> QED BY <1>0, <1>2, <1>3, <2>1, <3>1 DEF Completed, L
    <2>10. TurnsIn(t) = TurnsIn(s)
      <3>1. \A i : i \in 1 .. q + p <=> i \in 1 .. q \/ i \in q + 1 .. q + p
        BY <2>3, <2>4
      <3>2. TurnsIn(t) = {i \in 1 .. q + p : t[i].role = "assistant" /\ t[i].calls # <<>>}
        BY <2>6 DEF TurnsIn
      <3>3. TurnsIn(s) = {i \in 1 .. q : s[i].role = "assistant" /\ s[i].calls # <<>>}
        BY <2>3 DEF TurnsIn
      <3>4. \A i : i \in TurnsIn(t) <=> i \in TurnsIn(s)
        BY <2>6, <2>7, <3>1, <3>2, <3>3
      <3> QED BY <3>4
    <2>11. LastTurn(t) = L
      BY <2>10 DEF LastTurn, L
    \* The results of the turn, the old ones and the new ones, are all its calls, each once.
    <2> DEFINE m == q + p - L
               f == [k \in 1 .. m |-> Answer(t, L + k)]
    <2>12. m \in Nat
      BY <2>3, <2>4
    <2>13. \A j \in L + 1 .. q + p : j \in L + 1 .. q \/ j \in q + 1 .. q + p
      BY <2>3, <2>4
    <2>14. \A j \in L + 1 .. q : t[j].role = "tool" /\ Answer(t, j) = Answer(s, j) /\ Answer(t, j) \in Answers(s, L)
      <3>1. \A j \in L + 1 .. q : j \in 1 .. q
        BY <2>3
      <3>2. \A j \in L + 1 .. q : s[j].role = "tool" /\ Answer(s, j) \in Answers(s, L)
        BY <2>1, <2>8 DEF Answers, Proper
      <3> QED BY <2>6, <3>1, <3>2 DEF Answer
    <2>15. \A j \in q + 1 .. q + p : Answer(t, j) \in Open(s)
      BY <2>4, <2>7
    <2>16. Answers(s, L) \subseteq Range(s[L].calls)
      BY <2>1, AllThere
    <2>17. \A j \in L + 1 .. q + p : t[j].role = "tool" /\ Answer(t, j) \in Range(s[L].calls)
      BY <2>2, <2>7, <2>13, <2>14, <2>15, <2>16
    <2>18. ASSUME NEW j \in L + 1 .. q + p, NEW k \in L + 1 .. q + p, Answer(t, j) = Answer(t, k)
           PROVE  j = k
      <3>1. CASE j \in L + 1 .. q /\ k \in L + 1 .. q
        BY <2>1, <2>8, <2>14, <2>18, <3>1 DEF Proper
      <3>2. CASE j \in q + 1 .. q + p /\ k \in q + 1 .. q + p
        <4>1. missing[j - q] = missing[k - q] /\ j - q \in 1 .. p /\ k - q \in 1 .. p
          BY <2>7, <2>18, <3>2
        <4>2. j - q = k - q
          BY <1>1, <2>4, <4>1 DEF IsInjective
        <4> QED BY <2>3, <2>4, <3>2, <4>2
      <3>3. CASE j \in L + 1 .. q /\ k \in q + 1 .. q + p
        BY <2>2, <2>14, <2>15, <2>18, <3>3
      <3>4. CASE k \in L + 1 .. q /\ j \in q + 1 .. q + p
        BY <2>2, <2>14, <2>15, <2>18, <3>4
      <3> QED BY <2>13, <3>1, <3>2, <3>3, <3>4
    <2>19. \A c \in Range(s[L].calls) : \E j \in L + 1 .. q + p : Answer(t, j) = c
      <3> SUFFICES ASSUME NEW c \in Range(s[L].calls) PROVE \E j \in L + 1 .. q + p : Answer(t, j) = c
        OBVIOUS
      <3>1. CASE c \in Answers(s, L)
        <4>1. PICK j \in L + 1 .. q : c = Answer(s, j)
          BY <2>8, <3>1 DEF Answers
        <4>2. j \in L + 1 .. q + p
          BY <2>3, <2>4
        <4> QED BY <2>14, <4>1, <4>2
      <3>2. CASE c \notin Answers(s, L)
        <4>1. PICK i \in 1 .. p : c = missing[i]
          BY <1>1, <2>2, <2>4, <3>2 DEF Range
        <4>2. q + i \in q + 1 .. q + p /\ q + i \in L + 1 .. q + p /\ (q + i) - q = i
          BY <2>3, <2>4
        <4> QED BY <2>7, <4>1, <4>2
      <3> QED BY <3>1, <3>2
    <2>20. \A k \in 1 .. m : L + k \in L + 1 .. q + p
      BY <2>3, <2>4, <2>12
    <2>21. \A j \in L + 1 .. q + p : j - L \in 1 .. m /\ L + (j - L) = j
      BY <2>3, <2>4, <2>12
    <2>22. f \in [1 .. m -> Range(s[L].calls)]
      <3> HIDE DEF m
      <3> QED BY <2>17, <2>20
    <2>23. ASSUME NEW j \in 1 .. m, NEW k \in 1 .. m, f[j] = f[k]
           PROVE  j = k
      <3>1. L + j = L + k
        <4> HIDE DEF m
        <4> QED BY <2>18, <2>20, <2>23
      <3> QED BY <2>3, <2>12, <3>1
    <2>24. {f[k] : k \in 1 .. m} = Range(s[L].calls)
      <3> HIDE DEF m
      <3>1. \A k \in 1 .. m : f[k] \in Range(s[L].calls)
        BY <2>17, <2>20
      <3>2. \A c \in Range(s[L].calls) : \E k \in 1 .. m : f[k] = c
        <4> SUFFICES ASSUME NEW c \in Range(s[L].calls) PROVE \E k \in 1 .. m : f[k] = c
          OBVIOUS
        <4>1. PICK j \in L + 1 .. q + p : Answer(t, j) = c
          BY <2>19
        <4>2. f[j - L] = c /\ j - L \in 1 .. m
          BY <2>21, <4>1
        <4> QED BY <4>2
      <3> QED BY <3>1, <3>2
    <2>25. m = n
      <3> HIDE DEF m, f
      <3> QED BY <2>3, <2>12, <2>22, <2>23, <2>24, AsManyAnswers
    <2>26. L + n = q + p
      BY <2>3, <2>4, <2>25
    <2> HIDE DEF m, f, n
    <2>27. Inside(t, L) = L + 1 .. q + p
      <3>1. t[L] = s[L]
        BY <2>3, <2>6
      <3>2. \A j \in L + 1 .. q + p : j <= L + n
        BY <2>3, <2>4, <2>26
      <3> QED BY <2>6, <3>1, <3>2 DEF Inside, n
    <2>28. ASSUME NEW i \in TurnsIn(s), i # L
           PROVE  /\ Inside(t, i) = Inside(s, i) /\ Inside(s, i) \subseteq 1 .. q
      <3>1. i \in Nat /\ Len(s[i].calls) \in Nat /\ i \in 1 .. q
        BY Positions
      <3>2. i < L
        BY <2>1, <2>3, <2>28, <3>1
      <3>3. i + Len(s[i].calls) < L
        BY <2>3, <3>2, BlocksApart
      <3>4. \A j : j <= i + Len(s[i].calls) => (j \in i + 1 .. q + p <=> j \in i + 1 .. q)
        BY <2>3, <2>4, <3>1, <3>3
      <3>5. t[i] = s[i]
        BY <2>6, <3>1
      <3>6. i + 1 .. q \subseteq 1 .. q
        BY <2>3, <3>1
      <3> QED BY <2>6, <3>4, <3>5, <3>6 DEF Inside
    <2>29. \A i \in TurnsIn(s) : i \in 1 .. q /\ t[i] = s[i]
      BY <2>3, <2>6 DEF TurnsIn
    <2>30. Proper(t)
      <3>1. \A i \in TurnsIn(t) : IsInjective(t[i].calls)
        BY <2>10, <2>29 DEF Proper
      <3>2. ASSUME NEW i \in TurnsIn(s), NEW j \in Inside(t, i)
            PROVE  t[j].role = "tool" /\ Answer(t, j) \in Range(t[i].calls)
        <4>1. CASE i = L
          BY <2>17, <2>27, <2>29, <3>2, <4>1
        <4>2. CASE i # L
          BY <2>6, <2>28, <2>29, <3>2, <4>2 DEF Proper, Answer
        <4> QED BY <4>1, <4>2
      <3>3. ASSUME NEW i \in TurnsIn(s), NEW j \in Inside(t, i), NEW k \in Inside(t, i),
                   Answer(t, j) = Answer(t, k)
            PROVE  j = k
        <4>1. CASE i = L
          BY <2>18, <2>27, <3>3, <4>1
        <4>2. CASE i # L
          BY <2>6, <2>28, <3>3, <4>2 DEF Proper, Answer
        <4> QED BY <4>1, <4>2
      <3>4. ASSUME NEW j \in DOMAIN t, t[j].role = "tool"
            PROVE  \E i \in TurnsIn(t) : j \in Inside(t, i)
        <4>1. CASE j \in L + 1 .. q + p
          BY <2>1, <2>10, <2>27, <4>1
        <4>2. CASE j \notin L + 1 .. q + p
          <5>1. j \in 1 .. q /\ j \in DOMAIN s /\ s[j].role = "tool"
            BY <2>3, <2>4, <2>6, <3>4, <4>2
          <5>2. PICK i \in TurnsIn(s) : j \in Inside(s, i)
            BY <5>1 DEF Proper
          <5>3. i # L
            <6>1. j \notin L + 1 .. q
              BY <2>13, <2>3, <2>4, <4>2
            <6> QED BY <2>8, <5>2, <6>1
          <5> QED BY <2>10, <2>28, <5>2, <5>3
        <4> QED BY <4>1, <4>2
      <3> QED BY <2>10, <3>1, <3>2, <3>3, <3>4 DEF Proper
    <2>31. Open(t) = {}
      <3>1. t[L] = s[L]
        BY <2>3, <2>6
      <3>2. L + Len(t[L].calls) <= Len(t)
        BY <2>3, <2>4, <2>6, <2>26, <3>1 DEF n
      <3> QED BY <2>1, <2>6, <2>10, <2>11, <2>30, <3>2, OpenIsLacking
    <2> QED BY <2>9, <2>30, <2>31
  <1> QED BY <1>4, <1>5

-----------------------------------------------------------------------------
(* Users who do one thing at a time.                                       *)

\* One who waits for what was asked, and stops only what is on.  Who rewinds does
\* nothing else but stop, and who lets a workflow go on to another round never stops.
Polite(u) ==
    /\ u \subseteq {"stop", "rewind", "restart", "workflow", "rounds"}
    /\ "rewind" \in u => u \subseteq {"stop", "rewind"}
    /\ "stop" \in u => "rounds" \notin u

Workers == Requests \cup {Run}
Working(t) == thread[t].at # "idle"
Pending == approvals \cup questions
Unanswered == Open(transcript)
BatchSteps == {"next", "execute", "tool", "result", "check", "pause"}
HandSteps == {"take"} \cup BatchSteps
Interrupts(h) == At(h, "interrupt")

\* Where a thread may be.
StepsOf(t) ==
    IF t = Run THEN {"idle", "loop", "begin", "stream", "append", "exit"} \cup BatchSteps
    ELSE IF t = Job THEN {"idle", "launch", "group", "broken", "deliver", "round", "start"}
    ELSE {"idle", "start", "send", "take", "interrupt"} \cup BatchSteps

\* At most one thread is at work, but that a request may write the result of the tool
\* it interrupts while the run comes to its end.  Only a tool can be interrupted.
Beside(t, u) == t = Run /\ Interrupts(u)
Alone ==
    /\ \A t \in Threads : thread[t].at \in StepsOf(t)
    /\ \A t, u \in Threads : Working(t) /\ Working(u) /\ t # u => Beside(t, u) \/ Beside(u, t)
    /\ running <=> Working(Run)
    /\ \A t \in Threads : At(t, "tool") => runningTool = Current(t)
    /\ runningTool # NoCall => \E t \in Threads : At(t, "tool")

\* After a stop, what is on comes to its end and nothing is begun.
Stopping ==
    /\ running /\ stopRequested => halted
    /\ \A h \in Requests : Interrupts(h) =>
         /\ halted
         /\ Working(Run) => /\ thread[Run].at \in {"tool", "check", "pause", "exit"}
                            /\ At(Run, "tool") => Current(Run) \in interrupted
    /\ At(Job, "broken") => halted /\ "stop" \in user
    /\ "rounds" \notin user => rounds <= 1
    /\ halted => /\ \A h \in Requests : Working(h) => Interrupts(h)
                 /\ Working(Job) => At(Job, "broken")
                 /\ Working(Run) => stopRequested
    /\ interrupted # {} => At(Run, "tool") /\ interrupted = {Current(Run)} /\ halted

\* The calls a thread is going to answer.
Ahead(r) ==
    IF r.own # NoCall THEN IF r.at \in {"execute", "tool", "result", "interrupt"} THEN {r.own} ELSE {}
    ELSE IF r.at \in {"next", "execute", "tool", "result"} THEN Range(r.todo)
    ELSE IF r.at \in {"check", "pause"} THEN Range(Tail(r.todo))
    ELSE {}
Answering(t) == IF Interrupts(t) THEN Ahead(thread[t]) ELSE Ahead(thread[t]) \ interrupted

\* The user is asked about one call at most; that one, and what a thread is going to
\* answer, has no result yet.
Asked ==
    /\ \A c \in approvals : approvals = {c} /\ questions = {}
    /\ \A c \in questions : questions = {c} /\ approvals = {}
    /\ Pending \subseteq Unanswered
    /\ \A t \in Workers : Answering(t) \subseteq Unanswered \ Pending
    /\ \A h \in Requests : Interrupts(h) => thread[h].own \notin Answering(Run)
    /\ \A t \in Workers : thread[t].at \in HandSteps \ {"pause"} => Pending = {}
    /\ \A t \in Workers : At(t, "pause") => Pending # {} \/ stopRequested
    /\ thread[Run].at \in {"begin", "stream", "append"} => Unanswered = {}
    /\ \A h \in Requests : At(h, "send") => Unanswered = {}
    /\ \A h \in Requests : At(h, "take") => thread[h].own # NoCall
    /\ stopRequested => \A h \in Requests : thread[h].at \notin HandSteps
    /\ stopRequested /\ ~running => Pending = {}

\* What is queued has no result yet, and waits for one who takes it.  A rewind leaves
\* the queue as it is, so then it counts only behind a call the user is asked about.
Fresh ==
    /\ Range(queued) \subseteq Unanswered \ Pending
    /\ \A t \in Workers : Range(queued) \cap Answering(t) = {}
Resolving(h) == thread[h].own # NoCall /\ thread[h].at \in HandSteps
Counts == \/ "rewind" \notin user
          \/ Pending # {} /\ \A t \in Workers : ~At(t, "pause")
          \/ \E h \in Requests : Resolving(h)
Queued ==
    /\ Counts => Fresh
    /\ "rewind" \notin user /\ Pending = {} =>
         /\ At(Run, "loop") /\ ~stopRequested => queued = <<>>
         /\ \A t \in Requests \cup {Job} : At(t, "start") => queued = <<>>

\* While the call of a group has no result, it is the only one.
Afoot(c) == groups[c] \in {"open", "done"}
Grouped ==
    /\ \A c \in Calls : Afoot(c) => /\ Unanswered = {c} /\ Pending = {} /\ queued = <<>>
                                    /\ \A t \in Workers : ~Working(t)
    /\ thread[Job].at \in {"launch", "group", "broken"} => groups[thread[Job].own] = "open"
    /\ At(Job, "deliver") => groups[thread[Job].own] = "done"
    /\ thread[Job].at \in {"round", "start"} => Unanswered = {}
    /\ "rewind" \in user => ~Working(Job) /\ \A c \in Calls : groups[c] = "none"

Core == Proper(transcript) /\ ProviderInvariant /\ Asked /\ Queued /\ Grouped

\* How a run may end.
Final(s) == s # <<>> /\ Last(s).role = "assistant" /\ Last(s).calls = <<>>
Ending ==
    /\ At(Run, "exit") => failed \/ Pending # {} \/ stopRequested \/ Final(transcript)
    /\ NotStuck

\* What the user approved has run, or a handler is about to run it.
Approving == \A c \in approved : c \in Range(ran) \/ \E h \in Requests : At(h, "execute") /\ thread[h].own = c

\* One thread moves, and the others stay where they are.
Moves(t, r) == thread'[t] = r /\ \A u \in Threads : u # t => thread'[u] = thread[u]

\* Who becomes something else moves alone;
LEMMA BecomeMoves ==
    ASSUME Typed, NEW t \in Threads, NEW r, Become(t, r)
    PROVE  Moves(t, r)
  BY DEF Become, Moves, Typed, TypeOK

\* and so does who goes on to another step.
LEMMA GoMoves ==
    ASSUME Typed, NEW t \in Threads, NEW step, Go(t, step)
    PROVE  /\ \E r : Moves(t, r)
           /\ thread'[t].at = step /\ thread'[t].own = thread[t].own
           /\ thread'[t].todo = thread[t].todo
  <1>1. thread \in [Threads -> Thread] /\ thread[t] \in Thread
    BY DEF Typed, TypeOK
  <1>2. thread' = [thread EXCEPT ![t] = [thread[t] EXCEPT !.at = step]]
    BY DEF Go
  <1>3. thread'[t] = [thread[t] EXCEPT !.at = step] /\ \A u \in Threads : u # t => thread'[u] = thread[u]
    BY <1>1, <1>2
  <1>4. thread'[t].at = step /\ thread'[t].own = thread[t].own /\ thread'[t].todo = thread[t].todo
    BY <1>1, <1>3 DEF Thread
  <1> QED BY <1>3, <1>4 DEF Moves

\* A record that starts from an idle one.
LEMMA Anew ==
    /\ Idle.at = "idle" /\ Idle.own = NoCall /\ Idle.todo = <<>>
    /\ \A step : LET r == [Idle EXCEPT !.at = step]
                 IN  r.at = step /\ r.own = NoCall /\ r.todo = <<>>
    /\ \A step, c : LET r == [Idle EXCEPT !.at = step, !.own = c]
                    IN  r.at = step /\ r.own = c /\ r.todo = <<>>
  BY DEF Idle

\* Users of whom these theorems speak.
LEMMA PoliteUser ==
    ASSUME \A u \in Users : Polite(u), Typed
    PROVE  /\ Polite(user)
           /\ {"send_open", "early", "overlap", "stop_waiting"} \cap user = {}
  BY DEF Typed, TypeOK, Polite

\* A thread goes from one step to the next: nobody else is disturbed.
LEMMA AloneGoesOn ==
    ASSUME Typed, Alone, NEW t \in Threads, NEW r, Moves(t, r), Working(t), ~Interrupts(t),
           thread[t].at # "tool", r.at \notin {"idle", "tool"}, r.at \in StepsOf(t),
           UNCHANGED <<running, runningTool>>
    PROVE  Alone'
  <1>1. \A u \in Threads : thread'[u] = IF u = t THEN r ELSE thread[u]
    BY DEF Moves
  <1>2. \A u \in Threads : Working(u)' <=> Working(u)
    BY <1>1 DEF Working
  <1>3. \A u \in Threads : At(u, "tool")' <=> At(u, "tool")
    BY <1>1 DEF At
  <1>4. \A u \in Threads : At(u, "tool") => Current(u)' = Current(u)
    BY <1>1 DEF At, Current
  <1>5. \A u \in Threads : Interrupts(u) => Interrupts(u)'
    BY <1>1 DEF Interrupts, At
  <1>6. \A u \in Threads : (thread[u].at \in StepsOf(u))'
    BY <1>1 DEF Alone, StepsOf
  <1>7. \A u, v \in Threads : Working(u)' /\ Working(v)' /\ u # v => Beside(u, v)' \/ Beside(v, u)'
    BY <1>2, <1>5 DEF Alone, Beside
  <1>8. (running <=> Working(Run))'
    BY <1>2, ThreadsApart DEF Alone
  <1>9. \A u \in Threads : At(u, "tool")' => runningTool' = Current(u)'
    BY <1>3, <1>4 DEF Alone
  <1>10. runningTool' # NoCall => \E u \in Threads : At(u, "tool")'
    BY <1>3 DEF Alone
  <1> QED BY <1>6, <1>7, <1>8, <1>9, <1>10 DEF Alone

\* Or it comes to rest.
LEMMA AloneRests ==
    ASSUME Typed, Alone, NEW t \in Threads \ {Run}, Moves(t, Idle),
           thread[t].at # "tool", UNCHANGED <<running, runningTool>>
    PROVE  Alone'
  <1>1. \A u \in Threads : thread'[u] = IF u = t THEN Idle ELSE thread[u]
    BY DEF Moves
  <1>2. \A u \in Threads : Working(u)' => Working(u) /\ thread'[u] = thread[u]
    BY <1>1, Anew DEF Working
  <1>3. \A u \in Threads : At(u, "tool")' <=> At(u, "tool")
    BY <1>1, Anew DEF At
  <1>4. \A u \in Threads : At(u, "tool") => Current(u)' = Current(u)
    BY <1>1 DEF At, Current
  <1>6. \A u \in Threads : (thread[u].at \in StepsOf(u))'
    BY <1>1, Anew DEF Alone, StepsOf
  <1>7. \A u, v \in Threads : Working(u)' /\ Working(v)' /\ u # v => Beside(u, v)' \/ Beside(v, u)'
    BY <1>2 DEF Alone, Beside, Interrupts, At
  <1>8. (running <=> Working(Run))'
    BY <1>1, ThreadsApart DEF Alone, Working
  <1>9. \A u \in Threads : At(u, "tool")' => runningTool' = Current(u)'
    BY <1>3, <1>4 DEF Alone
  <1>10. runningTool' # NoCall => \E u \in Threads : At(u, "tool")'
    BY <1>3 DEF Alone
  <1> QED BY <1>6, <1>7, <1>8, <1>9, <1>10 DEF Alone

\* Nobody is at work, and one begins.
LEMMA AloneBegins ==
    ASSUME Typed, Alone, NEW t \in Threads \ {Run}, NEW r, Moves(t, r), r.at # "tool",
           r.at \in StepsOf(t), \A u \in Threads : ~Working(u), UNCHANGED <<running, runningTool>>
    PROVE  Alone'
  <1>1. \A u \in Threads : thread'[u] = IF u = t THEN r ELSE thread[u]
    BY DEF Moves
  <1>2. \A u \in Threads : Working(u)' => u = t
    BY <1>1 DEF Working
  <1>3. \A u \in Threads : ~At(u, "tool") /\ ~At(u, "tool")'
    BY <1>1 DEF At, Working
  <1>6. \A u \in Threads : (thread[u].at \in StepsOf(u))'
    BY <1>1 DEF Alone, StepsOf
  <1>8. (running <=> Working(Run))'
    BY <1>1, ThreadsApart DEF Alone, Working
  <1>10. runningTool' = NoCall
    BY <1>3 DEF Alone
  <1> QED BY <1>2, <1>3, <1>6, <1>8, <1>10 DEF Alone

\* Beside a thread at work nobody is, but a request that interrupts the run.
LEMMA Others ==
    ASSUME Alone, NEW t \in Threads, Working(t), ~Interrupts(t)
    PROVE  \A u \in Threads : u # t /\ Working(u) => t = Run /\ u \in Requests /\ Interrupts(u)
  <1>1. \A u \in Threads : u # t /\ Working(u) => t = Run /\ Interrupts(u)
    BY DEF Alone, Beside
  <1>2. \A u \in Threads : Interrupts(u) => u \in Requests
    BY ThreadsApart DEF Alone, Interrupts, At, StepsOf, BatchSteps, Threads
  <1> QED BY <1>1, <1>2

\* Whom the user may ask, and what a polite one then knows.
LEMMA AsksAlone ==
    ASSUME \A u \in Users : Polite(u), Typed, Alone, NEW h \in Requests, Asks(h)
    PROVE  \A g \in Requests : ~Working(g)
  <1>1. "overlap" \notin user
    BY PoliteUser
  <1> QED BY <1>1, Anew DEF Asks, Working

\* While the user is asked about a call, no workflow is at work.
LEMMA AskedWithoutJob ==
    ASSUME Typed, Alone, Asked, Grouped, Pending # {}
    PROVE  ~Working(Job)
  <1>1. Job \in Threads /\ thread[Job] \in Thread /\ Sound(Job, thread[Job])
    BY ThreadsApart DEF Typed, TypeOK
  <1>2. Unanswered # {}
    BY DEF Asked
  <1>3. thread[Job].at \in {"idle", "launch", "group", "broken", "deliver", "round", "start"}
    BY <1>1, ThreadsApart DEF Alone, StepsOf
  <1>4. thread[Job].at \in {"launch", "group", "broken", "deliver"} =>
          thread[Job].own \in Calls /\ Afoot(thread[Job].own)
    BY <1>1 DEF Sound, Thread, Grouped, Afoot, At
  <1>5. thread[Job].at \notin {"launch", "group", "broken", "deliver"}
    BY <1>4 DEF Grouped
  <1> QED BY <1>2, <1>3, <1>5 DEF Grouped, Working

\* A step of the run's loop leaves it alone.
LEMMA AloneConversation ==
    ASSUME Typed, Alone, Conversation
    PROVE  Alone'
  <1>0. Run \in Threads /\ Run \notin Requests
    BY ThreadsApart
  <1>1. CASE Loop \/ BeginLLMCall \/ AppendTurn
    <2>1. /\ \E step \in {"exit", "begin", "stream", "next"} : Go(Run, step)
          /\ thread[Run].at \in {"loop", "begin", "append"}
          /\ UNCHANGED <<running, runningTool>>
      BY <1>1 DEF Loop, BeginLLMCall, AppendTurn, At, flags
    <2>2. PICK r : Moves(Run, r)
      BY <1>0, <2>1, GoMoves
    <2>3. r.at \in {"exit", "begin", "stream", "next"}
      BY <1>0, <2>1, <2>2, GoMoves DEF Moves
    <2>4. Working(Run) /\ ~Interrupts(Run) /\ r.at \in StepsOf(Run)
      BY <2>1, <2>3 DEF Working, Interrupts, At, StepsOf, BatchSteps
    <2> QED BY <1>0, <2>1, <2>2, <2>3, <2>4, AloneGoesOn
  <1>2. CASE StreamChat
    <2>1. /\ thread[Run].at = "stream" /\ UNCHANGED <<running, runningTool>>
          /\ \/ Go(Run, "exit")
             \/ \E r : Become(Run, r) /\ r.at = "append"
      <3>1. thread[Run].at = "stream" /\ UNCHANGED <<running, runningTool>>
        BY <1>2 DEF StreamChat, At, flags
      <3>2. \/ Go(Run, "exit")
            \/ \E n \in 0 .. MaxBatch : Become(Run, [at |-> "append", own |-> NoCall,
                                                   todo |-> [i \in 1 .. n |-> issued + i]])
        BY ZenonT(60), <1>2 DEF StreamChat, Failure
      <3>3. ASSUME NEW n \in 0 .. MaxBatch,
                   Become(Run, [at |-> "append", own |-> NoCall,
                                todo |-> [i \in 1 .. n |-> issued + i]])
            PROVE  \E r : Become(Run, r) /\ r.at = "append"
        <4>1. PICK q : q = [i \in 1 .. n |-> issued + i]
          OBVIOUS
        <4>2. PICK r : r = [at |-> "append", own |-> NoCall, todo |-> q]
          OBVIOUS
        <4>3. r.at = "append"
          BY <4>2
        <4>4. Become(Run, r)
          BY <3>3, <4>1, <4>2
        <4> QED BY <4>3, <4>4
      <3> QED BY <3>1, <3>2, <3>3
    <2>2. \E r : Moves(Run, r) /\ r.at \in {"exit", "append"}
      <3>1. CASE Go(Run, "exit")
        BY <1>0, <3>1, GoMoves DEF Moves
      <3>2. CASE \E r : Become(Run, r) /\ r.at = "append"
        BY <1>0, <3>2, BecomeMoves
      <3> QED BY <2>1, <3>1, <3>2
    <2>3. PICK r : Moves(Run, r) /\ r.at \in {"exit", "append"}
      BY <2>2
    <2>4. Working(Run) /\ ~Interrupts(Run) /\ r.at \in StepsOf(Run)
      BY <2>1, <2>3 DEF Working, Interrupts, At, StepsOf, BatchSteps
    <2> QED BY <1>0, <2>1, <2>3, <2>4, AloneGoesOn
  <1>3. CASE Exit
    <2>1. /\ thread[Run].at = "exit" /\ Moves(Run, Idle) /\ running' = FALSE /\ runningTool' = NoCall
      BY <1>0, <1>3, BecomeMoves DEF Exit, At
    <2>2. \A u \in Threads : thread'[u] = IF u = Run THEN Idle ELSE thread[u]
      BY <2>1 DEF Moves
    <2>3. \A u \in Threads : u # Run /\ Working(u) => Interrupts(u)
      BY <1>0, <2>1, Others DEF Working, Interrupts, At
    <2>4. \A u \in Threads : Working(u)' => u # Run /\ Working(u) /\ Interrupts(u)
      BY <2>2, <2>3, Anew DEF Working
    <2>5. \A u \in Threads : ~At(u, "tool")'
      BY <2>2, <2>4, Anew DEF At, Working, Interrupts
    <2>6. \A u \in Threads : (thread[u].at \in StepsOf(u))'
      BY <2>2, Anew DEF Alone, StepsOf
    <2>7. \A u, v \in Threads : Working(u)' /\ Working(v)' /\ u # v => Beside(u, v)' \/ Beside(v, u)'
      <3> SUFFICES ASSUME NEW u \in Threads, NEW v \in Threads, Working(u)', Working(v)', u # v
                   PROVE  FALSE
        OBVIOUS
      <3>1. Working(u) /\ Working(v) /\ u # Run /\ v # Run
        BY <2>4
      <3> QED BY <3>1 DEF Alone, Beside
    <2>8. (running <=> Working(Run))'
      BY <1>0, <2>1, <2>2, Anew DEF Working
    <2> QED BY <2>1, <2>5, <2>6, <2>7, <2>8 DEF Alone
  <1> QED BY <1>1, <1>2, <1>3 DEF Conversation

\* Nor does a step of a batch set anyone else to work.
LEMMA AloneBatch ==
    ASSUME Typed, Alone, NEW t \in Workers, Batch(t)
    PROVE  Alone'
  <1>0. /\ t \in Threads /\ t # Job /\ thread[t] \in Thread /\ Sound(t, thread[t])
    BY ThreadsApart DEF Workers, Threads, Typed, TypeOK
  <1>1. CASE Drained(t) \/ PrepareTool(t) \/ AppendResult(t)
    <2>1. /\ \E step \in {"loop", "start", "result", "execute", "pause", "take", "check"} :
               Go(t, step) /\ step \in StepsOf(t)
          /\ thread[t].at \in {"next", "result"}
          /\ UNCHANGED <<running, runningTool>>
      <3>1. CASE Drained(t)
        BY <1>0, <3>1 DEF Drained, GoingOn, At, flags, StepsOf
      <3>2. CASE PrepareTool(t)
        BY <1>0, <3>2 DEF PrepareTool, At, flags, StepsOf, BatchSteps
      <3>3. CASE AppendResult(t)
        <4>1. t = Run => thread[t].own = NoCall
          BY <1>0 DEF Sound
        <4> QED BY <1>0, <3>3, <4>1 DEF AppendResult, At, After, flags, StepsOf, BatchSteps
      <3> QED BY <1>1, <3>1, <3>2, <3>3
    <2>2. \E r : Moves(t, r) /\ r.at \notin {"idle", "tool"} /\ r.at \in StepsOf(t)
      BY <1>0, <2>1, GoMoves DEF Moves
    <2>3. Working(t) /\ ~Interrupts(t)
      BY <2>1 DEF Working, Interrupts, At
    <2> QED BY <1>0, <2>1, <2>2, <2>3, AloneGoesOn
  <1>2. CASE CheckStop(t) \/ Pause(t)
    <2>1. /\ \E r : Become(t, r) /\ r.at \in {"pause", "next", "exit", "start"} /\ r.at \in StepsOf(t)
          /\ thread[t].at \in {"check", "pause"}
          /\ UNCHANGED <<running, runningTool>>
      <3>1. CASE CheckStop(t)
        <4>1. thread[t].at = "check" /\ UNCHANGED <<running, runningTool>>
          BY <3>1 DEF CheckStop, At, flags
        <4>2. \/ Become(t, [thread[t] EXCEPT !.at = "pause"])
              \/ Become(t, [thread[t] EXCEPT !.at = "next", !.todo = Tail(@)])
          BY <3>1 DEF CheckStop
        <4>3. CASE Become(t, [thread[t] EXCEPT !.at = "pause"])
          <5>1. PICK r : r = [thread[t] EXCEPT !.at = "pause"]
            OBVIOUS
          <5>2. r.at = "pause" /\ r.at \in StepsOf(t)
            BY <1>0, <5>1 DEF Thread, StepsOf, BatchSteps
          <5> QED BY <4>1, <4>3, <5>1, <5>2
        <4>4. CASE Become(t, [thread[t] EXCEPT !.at = "next", !.todo = Tail(@)])
          <5>1. PICK r : r = [thread[t] EXCEPT !.at = "next", !.todo = Tail(@)]
            OBVIOUS
          <5>2. r.at = "next" /\ r.at \in StepsOf(t)
            BY <1>0, <5>1 DEF Thread, StepsOf, BatchSteps
          <5> QED BY <4>1, <4>4, <5>1, <5>2
        <4> QED BY <4>2, <4>3, <4>4
      <3>2. CASE Pause(t)
        <4>1. PICK r : r = [Idle EXCEPT !.at = Pausing(t)]
          OBVIOUS
        <4>2. r.at \in {"exit", "start"} /\ r.at \in StepsOf(t)
          BY <1>0, <4>1, Anew DEF Pausing, StepsOf
        <4>3. Become(t, r) /\ thread[t].at = "pause" /\ UNCHANGED <<running, runningTool>>
          BY <3>2, <4>1 DEF Pause, At, flags
        <4> QED BY <4>2, <4>3
      <3> QED BY <1>2, <3>1, <3>2
    <2>2. \E r : Moves(t, r) /\ r.at \notin {"idle", "tool"} /\ r.at \in StepsOf(t)
      BY <1>0, <2>1, BecomeMoves
    <2>3. Working(t) /\ ~Interrupts(t)
      BY <2>1 DEF Working, Interrupts, At
    <2> QED BY <1>0, <2>1, <2>2, <2>3, AloneGoesOn
  <1>3. CASE ExecuteTool(t)
    <2>1. thread[t].at = "execute" /\ UNCHANGED running /\ Working(t) /\ ~Interrupts(t)
      BY <1>3 DEF ExecuteTool, At, Working, Interrupts
    <2>2. t = Run => thread[t].own = NoCall
      BY <1>0 DEF Sound
    <2>3. CASE stopRequested
      <3>1. Go(t, After(t)) /\ UNCHANGED runningTool
        BY <1>3, <2>3 DEF ExecuteTool
      <3>2. After(t) \in {"take", "check"} /\ After(t) \in StepsOf(t)
        BY <1>0, <2>2 DEF After, StepsOf, BatchSteps
      <3>3. \E r : Moves(t, r) /\ r.at = After(t)
        BY <1>0, <3>1, GoMoves DEF Moves
      <3> QED BY <1>0, <2>1, <3>1, <3>2, <3>3, AloneGoesOn
    <2>4. CASE ~stopRequested
      <3>1. Go(t, "tool") /\ runningTool' = Current(t)
        BY <1>3, <2>4 DEF ExecuteTool
      <3>2. PICK r : Moves(t, r) /\ r.at = "tool" /\ r.own = thread[t].own /\ r.todo = thread[t].todo
        BY <1>0, <3>1, GoMoves DEF Moves
      <3>3. \A u \in Threads : thread'[u] = IF u = t THEN r ELSE thread[u]
        BY <3>2 DEF Moves
      <3>4. Current(t)' = Current(t)
        BY <1>0, <3>2, <3>3 DEF Current
      <3>5. \A u \in Threads : u # t => ~At(u, "tool")
        BY <1>0, <2>1, Others DEF Working, Interrupts, At
      <3>6. \A u \in Threads : At(u, "tool")' <=> u = t
        BY <1>0, <3>2, <3>3, <3>5 DEF At
      <3>7. \A u \in Threads : (thread[u].at \in StepsOf(u))'
        BY <1>0, <3>2, <3>3 DEF Alone, StepsOf, BatchSteps
      <3>8. \A u \in Threads : (Working(u)' <=> Working(u)) /\ (Interrupts(u)' <=> Interrupts(u))
        BY <1>0, <2>1, <3>2, <3>3 DEF Working, Interrupts, At
      <3>9. \A u, v \in Threads : Working(u)' /\ Working(v)' /\ u # v => Beside(u, v)' \/ Beside(v, u)'
        BY <3>8 DEF Alone, Beside
      <3>10. (running <=> Working(Run))'
        BY <2>1, <3>8, ThreadsApart DEF Alone
      <3> QED BY <1>0, <3>1, <3>4, <3>6, <3>7, <3>9, <3>10 DEF Alone
    <2> QED BY <2>3, <2>4
  <1>4. CASE ToolReturns(t)
    <2>1. thread[t].at = "tool" /\ UNCHANGED running /\ Working(t) /\ ~Interrupts(t) /\ runningTool = Current(t)
      BY <1>0, <1>4 DEF ToolReturns, At, Working, Interrupts, Alone
    <2>2. runningTool' = NoCall
      BY <1>4, <2>1 DEF ToolReturns
    <2>3. t = Run => thread[t].own = NoCall
      BY <1>0 DEF Sound
    <2>4. \E step \in {"take", "check", "result"} : Go(t, step) /\ step \in StepsOf(t)
      BY <1>0, <1>4, <2>3 DEF ToolReturns, After, StepsOf, BatchSteps
    <2>5. PICK r : Moves(t, r) /\ r.at \in {"take", "check", "result"} /\ r.at \in StepsOf(t)
      BY <1>0, <2>4, GoMoves DEF Moves
    <2>6. \A u \in Threads : thread'[u] = IF u = t THEN r ELSE thread[u]
      BY <2>5 DEF Moves
    <2>7. \A u \in Threads : u # t => ~At(u, "tool")
      BY <1>0, <2>1, Others DEF Working, Interrupts, At
    <2>8. \A u \in Threads : ~At(u, "tool")'
      BY <1>0, <2>5, <2>6, <2>7 DEF At
    <2>9. \A u \in Threads : (thread[u].at \in StepsOf(u))'
      BY <1>0, <2>5, <2>6 DEF Alone, StepsOf
    <2>10. \A u \in Threads : (Working(u)' <=> Working(u)) /\ (Interrupts(u)' <=> Interrupts(u))
      BY <1>0, <2>1, <2>5, <2>6 DEF Working, Interrupts, At
    <2>11. \A u, v \in Threads : Working(u)' /\ Working(v)' /\ u # v => Beside(u, v)' \/ Beside(v, u)'
      BY <2>10 DEF Alone, Beside
    <2>12. (running <=> Working(Run))'
      BY <2>1, <2>10, ThreadsApart DEF Alone
    <2> QED BY <2>2, <2>8, <2>9, <2>11, <2>12 DEF Alone
  <1> QED BY <1>1, <1>2, <1>3, <1>4 DEF Batch

\* A request or the workflow starts the run, which is not on.
LEMMA StartsAlone ==
    ASSUME Typed, Alone, NEW t \in Requests \cup {Job}, StartRun(t)
    PROVE  /\ ~running /\ thread[t].at = "start" /\ \A u \in Threads : u # t => ~Working(u)
           /\ t \in Threads /\ t # Run
           /\ running' = TRUE /\ stopRequested' = FALSE /\ failed' = FALSE
           /\ \A u \in Threads : thread'[u] = IF u = Run THEN [Idle EXCEPT !.at = "loop"]
                                              ELSE IF u = t THEN Idle ELSE thread[u]
           /\ Alone'
  <1>0. t \in Threads /\ t # Run /\ Run \in Threads /\ thread \in [Threads -> Thread]
    BY ThreadsApart DEF Typed, TypeOK
  <1>1. thread[t].at = "start" /\ UNCHANGED runningTool
    BY DEF StartRun, At
  <1>2. Working(t) /\ ~Interrupts(t)
    BY <1>1 DEF Working, Interrupts, At
  <1>3. \A u \in Threads : u # t => ~Working(u)
    BY <1>0, <1>2, Others
  <1>4. ~running
    BY <1>0, <1>3 DEF Alone
  <1>5. /\ running' = TRUE /\ stopRequested' = FALSE /\ failed' = FALSE
        /\ thread' = [thread EXCEPT ![t] = Idle, ![Run] = [Idle EXCEPT !.at = "loop"]]
    BY <1>4 DEF StartRun
  <1>6. \A u \in Threads : thread'[u] = IF u = Run THEN [Idle EXCEPT !.at = "loop"]
                                        ELSE IF u = t THEN Idle ELSE thread[u]
    BY <1>0, <1>5
  <1> DEFINE top == [Idle EXCEPT !.at = "loop"]
  <1>61. top.at = "loop"
    BY Anew
  <1>62. \A u \in Threads : thread'[u] = IF u = Run THEN top ELSE IF u = t THEN Idle ELSE thread[u]
    BY <1>6
  <1> HIDE DEF top
  <1>7. \A u \in Threads : Working(u)' <=> u = Run
    BY <1>0, <1>3, <1>61, <1>62, Anew DEF Working
  <1>8. \A u \in Threads : ~At(u, "tool") /\ ~At(u, "tool")'
    <2>1. \A u \in Threads : ~At(u, "tool")
      BY <1>1, <1>3 DEF At, Working
    <2> QED BY <1>61, <1>62, <2>1, Anew DEF At
  <1>9. \A u \in Threads : (thread[u].at \in StepsOf(u))'
    BY <1>0, <1>61, <1>62, Anew DEF Alone, StepsOf
  <1>10. runningTool' = NoCall
    BY <1>1, <1>8 DEF Alone
  <1>11. Alone'
    BY <1>0, <1>5, <1>7, <1>8, <1>9, <1>10 DEF Alone
  <1> QED BY <1>0, <1>1, <1>3, <1>4, <1>5, <1>6, <1>11

\* A handler at work starts the run only as it leaves.
LEMMA AloneServe ==
    ASSUME Typed, Alone, NEW h \in Requests, Serve(h)
    PROVE  Alone'
  <1>0. h \in Threads /\ h # Run /\ h # Job
    BY ThreadsApart
  <1>1. CASE Resend(h)
    <2>1. thread[h].at = "send" /\ UNCHANGED <<running, runningTool>>
      BY <1>1 DEF Resend, At, flags
    <2>2. Working(h) /\ ~Interrupts(h)
      BY <2>1 DEF Working, Interrupts, At
    <2>3. CASE Become(h, Idle)
      BY <1>0, <2>1, <2>3, BecomeMoves, AloneRests
    <2>4. CASE Become(h, [Idle EXCEPT !.at = "start"])
      <3>1. PICK r : r = [Idle EXCEPT !.at = "start"]
        OBVIOUS
      <3>2. Moves(h, r) /\ r.at = "start" /\ r.at \in StepsOf(h)
        BY <1>0, <2>4, <3>1, BecomeMoves, Anew DEF StepsOf
      <3> QED BY <1>0, <2>1, <2>2, <3>2, AloneGoesOn
    <2> QED BY <1>1, <2>3, <2>4 DEF Resend, Sent
  <1>2. CASE TakeQueued(h)
    <2>1. thread[h].at = "take" /\ UNCHANGED <<running, runningTool>>
          /\ \E r : Become(h, r) /\ r.at = "next"
      BY <1>2 DEF TakeQueued, At, flags
    <2>2. Working(h) /\ ~Interrupts(h)
      BY <2>1 DEF Working, Interrupts, At
    <2>3. \E r : Moves(h, r) /\ r.at = "next" /\ r.at \in StepsOf(h)
      BY <1>0, <2>1, BecomeMoves DEF StepsOf, BatchSteps
    <2> QED BY <1>0, <2>1, <2>2, <2>3, AloneGoesOn
  <1>3. CASE StartRun(h)
    BY <1>3, StartsAlone
  <1>4. CASE InterruptTool(h)
    <2>1. thread[h].at = "interrupt" /\ UNCHANGED <<running, runningTool>> /\ Become(h, Idle)
      BY <1>4 DEF InterruptTool, At, flags
    <2> QED BY <1>0, <2>1, BecomeMoves, AloneRests
  <1> QED BY <1>1, <1>2, <1>3, <1>4 DEF Serve

\* A stop: what becomes of the one who asks for it, and of a group.
LEMMA StopsAlone ==
    ASSUME \A u \in Users : Polite(u), Typed, Alone, NEW h \in Requests, StopSession(h)
    PROVE  /\ \A g \in Requests : ~Working(g)
           /\ \A u \in Threads : thread'[u] = IF u = h THEN Interrupting
                                              ELSE IF u = Job THEN Broken ELSE thread[u]
           /\ runningTool # NoCall => At(Run, "tool") /\ runningTool = Current(Run) /\ ~Working(Job)
           /\ running \/ At(Job, "group")
           /\ Broken.at = IF At(Job, "group") THEN "broken" ELSE thread[Job].at
           /\ Broken.own = thread[Job].own
           /\ runningTool \in interrupted \cup {NoCall} => Interrupting = Idle
           /\ runningTool \notin interrupted \cup {NoCall} => /\ Interrupting.at = "interrupt"
                                                              /\ Interrupting.own = runningTool
           /\ Alone'
  <1>0. /\ h \in Threads /\ h # Run /\ h # Job /\ thread \in [Threads -> Thread]
        /\ Run \in Threads /\ Job \in Threads /\ Run # Job /\ thread[Job] \in Thread
    BY ThreadsApart DEF Typed, TypeOK
  <1>1. \A g \in Requests : ~Working(g)
    BY AsksAlone DEF StopSession
  <1>2. /\ \A u \in Threads : thread'[u] = IF u = h THEN Interrupting
                                           ELSE IF u = Job THEN Broken ELSE thread[u]
        /\ UNCHANGED <<running, runningTool>>
    BY <1>0 DEF StopSession
  <1>3. runningTool # NoCall => At(Run, "tool") /\ runningTool = Current(Run) /\ ~Working(Job)
    <2> SUFFICES ASSUME runningTool # NoCall
                 PROVE  At(Run, "tool") /\ runningTool = Current(Run) /\ ~Working(Job)
      OBVIOUS
    <2>1. PICK t \in Threads : At(t, "tool")
      BY DEF Alone
    <2>2. t \notin Requests /\ t # Job
      BY <1>0, <1>1, <2>1 DEF At, Working, Alone, StepsOf
    <2>3. t = Run
      BY <2>2 DEF Threads
    <2>4. ~Working(Job)
      BY <1>0, <2>1, <2>3, Others, ThreadsApart DEF At, Working, Interrupts
    <2> QED BY <2>1, <2>3, <2>4 DEF Alone
  <1>4. running \/ At(Job, "group")
    BY PoliteUser DEF StopSession
  <1>5. /\ Broken.at = IF At(Job, "group") THEN "broken" ELSE thread[Job].at
        /\ Broken.own = thread[Job].own
    BY <1>0 DEF Broken, Thread
  <1>6. /\ runningTool \in interrupted \cup {NoCall} => Interrupting = Idle
        /\ runningTool \notin interrupted \cup {NoCall} => /\ Interrupting.at = "interrupt"
                                                           /\ Interrupting.own = runningTool
    <2>1. runningTool \in {NoCall} \cup interrupted <=> runningTool \in interrupted \cup {NoCall}
      OBVIOUS
    <2> QED BY <2>1, Anew DEF Interrupting
  <1>7. Interrupting.at \in {"idle", "interrupt"} /\ (Interrupting.at = "interrupt" => At(Run, "tool") /\ ~Working(Job))
    BY <1>3, <1>6, Anew
  <1>8. \A u \in Threads : u # h => (Working(u)' <=> Working(u)) /\ (At(u, "tool")' <=> At(u, "tool"))
    BY <1>0, <1>2, <1>5 DEF Working, At
  <1>9. \A u \in Threads : (thread[u].at \in StepsOf(u))'
    <2>1. Interrupting.at \in StepsOf(h)
      BY <1>0, <1>7 DEF StepsOf
    <2>2. Broken.at \in StepsOf(Job)
      BY <1>0, <1>5 DEF StepsOf, Alone
    <2> QED BY <1>0, <1>2, <2>1, <2>2 DEF Alone, StepsOf
  <1>10. \A u \in Threads : At(u, "tool")' <=> At(u, "tool")
    <2>1. ~At(h, "tool") /\ ~At(h, "tool")'
      BY <1>0, <1>1, <1>2, <1>7 DEF At, Working
    <2> QED BY <1>8, <2>1
  <1>11. \A u \in Threads : At(u, "tool") => Current(u)' = Current(u)
    <2>1. \A u \in Threads : At(u, "tool") => u # h /\ u # Job
      BY <1>0, <1>1 DEF At, Working, Alone, StepsOf
    <2> QED BY <1>2, <2>1 DEF Current
  <1>12. \A u, v \in Threads : Working(u)' /\ Working(v)' /\ u # v => Beside(u, v)' \/ Beside(v, u)'
    <2> SUFFICES ASSUME NEW u \in Threads, NEW v \in Threads, Working(u)', Working(v)', u # v
                 PROVE  Beside(u, v)' \/ Beside(v, u)'
      OBVIOUS
    <2>1. \A w \in Threads : w # h /\ Working(w)' => w \in {Run, Job}
      BY <1>1, <1>8 DEF Threads
    <2>2. ~(Working(Run) /\ Working(Job))
      BY <1>0, Others, ThreadsApart DEF Alone, StepsOf, BatchSteps, Interrupts, At
    <2>3. u = h \/ v = h
      BY <1>0, <1>8, <2>1, <2>2
    <2>4. ASSUME NEW w \in Threads, w # h, Working(w)', Working(h)' PROVE Beside(w, h)'
      <3>1. Interrupting.at = "interrupt" /\ At(Run, "tool") /\ ~Working(Job) /\ thread'[h] = Interrupting
        BY <1>0, <1>2, <1>7, <2>4 DEF Working
      <3>2. w = Run
        BY <1>0, <1>8, <2>1, <2>4, <3>1
      <3> QED BY <3>1, <3>2 DEF Beside, Interrupts, At
    <2> QED BY <1>0, <2>3, <2>4
  <1>13. (running <=> Working(Run))'
    BY <1>0, <1>2, <1>8 DEF Alone
  <1>14. Alone'
    <2>1. \A u \in Threads : At(u, "tool")' => runningTool' = Current(u)'
      BY <1>2, <1>10, <1>11 DEF Alone
    <2>2. runningTool' # NoCall => \E u \in Threads : At(u, "tool")'
      BY <1>2, <1>10 DEF Alone
    <2> QED BY <1>9, <1>12, <1>13, <2>1, <2>2 DEF Alone
  <1> QED BY <1>1, <1>2, <1>3, <1>4, <1>5, <1>6, <1>14

\* A polite user asks for something, other than to stop, when nobody is at work.
LEMMA NobodyAtWork ==
    ASSUME \A u \in Users : Polite(u), Typed, Alone, Asked, Grouped, NEW h \in Requests,
           \/ Send(h) \/ Rewind(h) \/ ResolveApproval(h) \/ AnswerQuestion(h)
           \/ StartForcedWorkflow(h) \/ ResumeTaskGroup(h)
    PROVE  ~running /\ \A u \in Threads : ~Working(u)
  <1>1. Asks(h)
    BY DEF Send, Rewind, ResolveApproval, AnswerQuestion, StartForcedWorkflow, ResumeTaskGroup
  <1>2. ~running
    BY PoliteUser DEF Send, Rewind, ResolveApproval, AnswerQuestion, StartForcedWorkflow,
                      ResumeTaskGroup
  <1>3. ~Working(Job)
    <2>1. CASE Send(h) \/ Rewind(h)
      BY <2>1, PoliteUser, Anew DEF Send, Rewind, NoJob, Working
    <2>2. CASE ResolveApproval(h) \/ AnswerQuestion(h)
      <3>1. Pending # {}
        BY <2>2 DEF ResolveApproval, AnswerQuestion, Pending
      <3> QED BY <3>1, AskedWithoutJob
    <2>3. CASE StartForcedWorkflow(h) \/ ResumeTaskGroup(h)
      BY <2>3, Anew DEF StartForcedWorkflow, ResumeTaskGroup, Working
    <2> QED BY <2>1, <2>2, <2>3
  <1>4. \A g \in Requests : ~Working(g)
    BY <1>1, AsksAlone
  <1>5. ~Working(Run)
    BY <1>2 DEF Alone
  <1> QED BY <1>2, <1>3, <1>4, <1>5 DEF Threads

\* The user sets one thread to work, when nobody is; a stop sets only one to work that
\* interrupts.
LEMMA AloneUserActs ==
    ASSUME \A u \in Users : Polite(u), Typed, Alone, Asked, Grouped, NEW h \in Requests,
           UserActs(h)
    PROVE  Alone'
  <1>0. h \in Threads \ {Run} /\ Job \in Threads \ {Run} /\ h # Job
    BY ThreadsApart
  <1>1. CASE Send(h) \/ Rewind(h)
    <2>1. /\ \E step \in {"start", "send"} : Become(h, [Idle EXCEPT !.at = step])
          /\ UNCHANGED <<running, runningTool>>
      BY <1>1 DEF Send, Sent, Rewind, flags
    <2>2. PICK step \in {"start", "send"} : Become(h, [Idle EXCEPT !.at = step])
      BY <2>1
    <2>3. PICK r : r = [Idle EXCEPT !.at = step]
      OBVIOUS
    <2>4. Moves(h, r) /\ r.at # "tool" /\ r.at \in StepsOf(h)
      BY <1>0, <2>2, <2>3, BecomeMoves, Anew DEF StepsOf
    <2> QED BY <1>0, <1>1, <2>1, <2>4, NobodyAtWork, AloneBegins
  <1>2. CASE ResolveApproval(h) \/ AnswerQuestion(h)
    <2>1. /\ \E step \in {"execute", "result"}, c \in Pending :
               Become(h, [Idle EXCEPT !.at = step, !.own = c])
          /\ UNCHANGED <<running, runningTool>>
      BY <1>2 DEF ResolveApproval, AnswerQuestion, flags, Pending
    <2>2. PICK step \in {"execute", "result"}, c \in Pending :
               Become(h, [Idle EXCEPT !.at = step, !.own = c])
      BY <2>1
    <2>3. PICK r : r = [Idle EXCEPT !.at = step, !.own = c]
      OBVIOUS
    <2>4. Moves(h, r) /\ r.at # "tool" /\ r.at \in StepsOf(h)
      BY <1>0, <2>2, <2>3, BecomeMoves, Anew DEF StepsOf, BatchSteps
    <2> QED BY <1>0, <1>2, <2>1, <2>4, NobodyAtWork, AloneBegins
  <1>3. CASE StartForcedWorkflow(h) \/ ResumeTaskGroup(h)
    <2>1. /\ \E step \in {"launch", "deliver"}, c \in Nat :
               Become(Job, [Idle EXCEPT !.at = step, !.own = c])
          /\ UNCHANGED <<running, runningTool>>
      <3>1. CASE StartForcedWorkflow(h)
        <4>1. issued' \in Nat /\ Become(Job, [Idle EXCEPT !.at = "launch", !.own = issued'])
              /\ UNCHANGED <<running, runningTool>>
          BY <3>1 DEF StartForcedWorkflow, Round, flags, Typed, TypeOK
        <4> QED BY <4>1
      <3>2. CASE ResumeTaskGroup(h)
        <4>1. PICK c \in Calls :
                Become(Job, [Idle EXCEPT !.at = IF groups[c] = "done" THEN "deliver" ELSE "launch",
                                         !.own = c])
          BY <3>2 DEF ResumeTaskGroup
        <4>2. c \in Nat /\ UNCHANGED <<running, runningTool>>
          BY <3>2 DEF ResumeTaskGroup, flags, Calls
        <4> QED BY <4>1, <4>2
      <3> QED BY <1>3, <3>1, <3>2
    <2>2. PICK step \in {"launch", "deliver"}, c \in Nat :
               Become(Job, [Idle EXCEPT !.at = step, !.own = c])
      BY <2>1
    <2>3. PICK r : r = [Idle EXCEPT !.at = step, !.own = c]
      OBVIOUS
    <2>4. Moves(Job, r) /\ r.at # "tool" /\ r.at \in StepsOf(Job)
      BY <1>0, <2>2, <2>3, BecomeMoves, Anew, ThreadsApart DEF StepsOf
    <2> QED BY <1>0, <1>3, <2>1, <2>4, NobodyAtWork, AloneBegins
  <1>4. CASE StopSession(h)
    BY <1>4, StopsAlone
  <1> QED BY <1>1, <1>2, <1>3, <1>4 DEF UserActs

\* A workflow starts the run only as it leaves.
LEMMA AloneWorkflow ==
    ASSUME Typed, Alone, Workflow
    PROVE  Alone'
  <1>0. Job \in Threads \ {Run}
    BY ThreadsApart
  <1>1. CASE Launch \/ GroupEnds
    <2>1. /\ \E step \in {"group", "deliver"} : Go(Job, step)
          /\ thread[Job].at \in {"launch", "group"}
          /\ UNCHANGED <<running, runningTool>>
      BY <1>1 DEF Launch, GroupEnds, At, flags
    <2>2. \E r : Moves(Job, r) /\ r.at \notin {"idle", "tool"} /\ r.at \in StepsOf(Job)
      <3>1. \E r : Moves(Job, r) /\ r.at \in {"group", "deliver"}
        BY <1>0, <2>1, GoMoves DEF Moves
      <3> QED BY <1>0, <3>1 DEF StepsOf
    <2>3. Working(Job) /\ ~Interrupts(Job)
      BY <2>1 DEF Working, Interrupts, At
    <2> QED BY <1>0, <2>1, <2>2, <2>3, AloneGoesOn
  <1>2. ASSUME NEW step \in {"launch", "start", "round"}, NEW c, NEW r,
               r = [Idle EXCEPT !.at = step] \/ r = [Idle EXCEPT !.at = step, !.own = c],
               Become(Job, r), thread[Job].at \in {"broken", "deliver", "round"},
               UNCHANGED <<running, runningTool>>
        PROVE  Alone'
    <2>0. r.at = step
      <3>1. CASE r = [Idle EXCEPT !.at = step]
        BY <3>1, Anew
      <3>2. CASE r = [Idle EXCEPT !.at = step, !.own = c]
        BY <3>2, Anew
      <3> QED BY <1>2, <3>1, <3>2
    <2>1. Moves(Job, r) /\ r.at = step
      BY <1>0, <1>2, <2>0, BecomeMoves
    <2>2. r.at \notin {"idle", "tool"} /\ r.at \in StepsOf(Job)
      BY <1>0, <2>1 DEF StepsOf
    <2>3. Working(Job) /\ ~Interrupts(Job) /\ thread[Job].at # "tool"
      BY <1>2 DEF Working, Interrupts, At
    <2> QED BY <1>0, <1>2, <2>1, <2>2, <2>3, AloneGoesOn
  <1>3. CASE GroupInterrupted
    <2>1. thread[Job].at = "broken" /\ UNCHANGED <<running, runningTool>>
      BY <1>3 DEF GroupInterrupted, At, flags
    <2>2. CASE Become(Job, Idle)
      BY <1>0, <2>1, <2>2, BecomeMoves, AloneRests
    <2>3. CASE Become(Job, [Idle EXCEPT !.at = "start"])
      BY <1>2, <2>1, <2>3
    <2> QED BY <1>3, <2>2, <2>3 DEF GroupInterrupted
  <1>4. CASE Deliver
    BY <1>2, <1>4 DEF Deliver, At, flags
  <1>5. CASE FollowUp
    <2>1. thread[Job].at = "round" /\ UNCHANGED <<running, runningTool>>
      BY <1>5 DEF FollowUp, At, flags
    <2>2. CASE Round
      BY <1>2, <2>1, <2>2 DEF Round
    <2>3. CASE Become(Job, [Idle EXCEPT !.at = "start"])
      BY <1>2, <2>1, <2>3
    <2> QED BY <1>5, <2>2, <2>3 DEF FollowUp
  <1>6. CASE StartRun(Job)
    BY <1>6, StartsAlone
  <1> QED BY <1>1, <1>3, <1>4, <1>5, <1>6 DEF Workflow

\* After a restart nobody is at work.
LEMMA AllRest ==
    ASSUME Restart
    PROVE  /\ \A t \in Threads : (thread[t] = Idle)' /\ ~Working(t)' /\ ~Interrupts(t)'
                                 /\ (\A step : At(t, step)' => step = "idle")
           /\ running' = FALSE /\ stopRequested' = FALSE /\ runningTool' = NoCall
           /\ interrupted' = {} /\ rounds' = 0 /\ halted' = TRUE
           /\ UNCHANGED <<user, groups, session, sent, ran>>
  <1>1. \A t \in Threads : thread'[t] = Idle
    BY DEF Restart
  <1> QED BY <1>1, Anew DEF Restart, Working, Interrupts, At

\* At most one is at work.
LEMMA AloneStep ==
    ASSUME \A u \in Users : Polite(u), Typed, Alone, Asked, Grouped, [Next]_vars
    PROVE  Alone'
  <1>1. CASE Restart
    BY <1>1, AllRest, ThreadsApart DEF Alone, Working, StepsOf
  <1>2. CASE UNCHANGED vars
    BY <1>2 DEF vars, flags, Alone, Working, StepsOf, Beside, Interrupts, At, Current
  <1> QED BY <1>1, <1>2, AloneConversation, AloneBatch, AloneServe, AloneUserActs, AloneWorkflow
          DEF Next, Workers

-----------------------------------------------------------------------------
(* Stops.                                                                  *)

\* What holds while the user has not stopped anything, and is enough.
LEMMA WhileUnhalted ==
    ASSUME Stopping, ~halted
    PROVE  /\ ~(running /\ stopRequested) /\ \A h \in Requests : ~Interrupts(h)
           /\ ~At(Job, "broken") /\ interrupted = {}
  BY DEF Stopping

\* and what is then enough.
LEMMA Unhalted ==
    ASSUME ~halted', user' = user, ~(running' /\ stopRequested'), \A h \in Requests : ~Interrupts(h)',
           ~At(Job, "broken")', "rounds" \notin user => rounds' <= 1, interrupted' = {}
    PROVE  Stopping'
  BY DEF Stopping

\* A step that is not the user's stops nothing.
Unstopped ==
    /\ UNCHANGED <<user, halted>>
    /\ stopRequested' => stopRequested
    /\ running' /\ stopRequested' => running /\ stopRequested
    /\ interrupted' \subseteq interrupted
    /\ \A h \in Requests : Interrupts(h)' => Interrupts(h)
    /\ At(Job, "broken")' => At(Job, "broken")
    /\ "rounds" \notin user => rounds' = rounds

\* Such is one who moves on, unless to interrupt or to break a group off;
LEMMA OneStopsNobody ==
    ASSUME Typed, NEW t \in Threads, NEW r, Moves(t, r), r.at \notin {"interrupt", "broken"}
    PROVE  /\ \A h \in Requests : Interrupts(h)' => Interrupts(h)
           /\ At(Job, "broken")' => At(Job, "broken")
  BY ThreadsApart DEF Moves, Interrupts, At

\* with what is in hand,
LEMMA GoingStopsNobody ==
    ASSUME Typed, NEW t \in Threads, NEW step, Go(t, step), step \notin {"interrupt", "broken"}
    PROVE  /\ \A h \in Requests : Interrupts(h)' => Interrupts(h)
           /\ At(Job, "broken")' => At(Job, "broken")
  <1>1. PICK r : Moves(t, r)
    BY GoMoves
  <1>2. r.at = step
    BY <1>1, GoMoves DEF Moves
  <1> QED BY <1>1, <1>2, OneStopsNobody

\* or with something else.
LEMMA BecomingStopsNobody ==
    ASSUME Typed, NEW t \in Threads, NEW r, Become(t, r), r.at \notin {"interrupt", "broken"}
    PROVE  /\ \A h \in Requests : Interrupts(h)' => Interrupts(h)
           /\ At(Job, "broken")' => At(Job, "broken")
  BY BecomeMoves, OneStopsNobody

\* The run stops nobody;
LEMMA UnstoppedConversation ==
    ASSUME Typed, Conversation
    PROVE  Unstopped
  <1>0. Run \in Threads /\ rounds \in Nat
    BY ThreadsApart, ChatRunAssumption DEF Typed, TypeOK
  <1>1. CASE Loop \/ BeginLLMCall \/ AppendTurn
    <2>1. /\ \E step \in {"exit", "begin", "stream", "next"} : Go(Run, step)
          /\ UNCHANGED <<user, work, flags, history>>
      BY <1>1 DEF Loop, BeginLLMCall, AppendTurn
    <2> QED BY <1>0, <2>1, GoingStopsNobody DEF Unstopped, work, flags, history
  <1>2. CASE StreamChat
    <2>1. UNCHANGED <<user, work, flags, halted>>
      BY <1>2 DEF StreamChat
    <2>2. \/ Go(Run, "exit")
          \/ \E n \in 0 .. MaxBatch : Become(Run, [at |-> "append", own |-> NoCall,
                                                 todo |-> [i \in 1 .. n |-> issued + i]])
      BY ZenonT(60), <1>2 DEF StreamChat, Failure
    <2>3. ASSUME NEW n \in 0 .. MaxBatch,
                 Become(Run, [at |-> "append", own |-> NoCall,
                              todo |-> [i \in 1 .. n |-> issued + i]])
          PROVE  \E r : Become(Run, r) /\ r.at = "append"
      <3>1. PICK q : q = [i \in 1 .. n |-> issued + i]
        OBVIOUS
      <3>2. PICK r : r = [at |-> "append", own |-> NoCall, todo |-> q]
        OBVIOUS
      <3>3. r.at = "append"
        BY <3>2
      <3>4. Become(Run, r)
        BY <2>3, <3>1, <3>2
      <3> QED BY <3>3, <3>4
    <2>4. (\A h \in Requests : Interrupts(h)' => Interrupts(h)) /\ (At(Job, "broken")' => At(Job, "broken"))
      BY <1>0, <2>2, <2>3, GoingStopsNobody, BecomingStopsNobody
    <2> QED BY <1>0, <2>1, <2>4 DEF Unstopped, work, flags
  <1>3. CASE Exit
    <2>1. /\ Become(Run, Idle) /\ running' = FALSE /\ stopRequested' = FALSE
          /\ UNCHANGED <<user, work, interrupted, history>>
      BY <1>3 DEF Exit
    <2>2. (\A h \in Requests : Interrupts(h)' => Interrupts(h)) /\ (At(Job, "broken")' => At(Job, "broken"))
      BY <1>0, <2>1, BecomingStopsNobody, Anew
    <2> QED BY <1>0, <2>1, <2>2 DEF Unstopped, work, history
  <1> QED BY <1>1, <1>2, <1>3 DEF Conversation

\* nor does a batch,
LEMMA UnstoppedBatch ==
    ASSUME Typed, NEW t \in Workers, Batch(t)
    PROVE  Unstopped
  <1>0. t \in Threads /\ rounds \in Nat /\ thread[t] \in Thread
    BY ThreadsApart, ChatRunAssumption DEF Workers, Threads, Typed, TypeOK
  <1>1. UNCHANGED <<user, work, stopRequested, running, halted>> /\ interrupted' \subseteq interrupted
    BY DEF Batch, Drained, PrepareTool, ExecuteTool, ToolReturns, AppendResult, CheckStop, Pause,
           flags, history
  <1>2. (\A h \in Requests : Interrupts(h)' => Interrupts(h)) /\ (At(Job, "broken")' => At(Job, "broken"))
    <2>1. CASE \E step \in {"loop", "start", "result", "execute", "pause", "take", "check", "tool"} :
                 Go(t, step)
      BY <1>0, <2>1, GoingStopsNobody
    <2>2. CASE CheckStop(t)
      <3>1. CASE Become(t, [thread[t] EXCEPT !.at = "pause"])
        <4>1. PICK r : r = [thread[t] EXCEPT !.at = "pause"]
          OBVIOUS
        <4>2. r.at = "pause"
          BY <1>0, <4>1 DEF Thread
        <4> QED BY <1>0, <3>1, <4>1, <4>2, BecomingStopsNobody
      <3>2. CASE Become(t, [thread[t] EXCEPT !.at = "next", !.todo = Tail(@)])
        <4>1. PICK r : r = [thread[t] EXCEPT !.at = "next", !.todo = Tail(@)]
          OBVIOUS
        <4>2. r.at = "next"
          BY <1>0, <4>1 DEF Thread
        <4> QED BY <1>0, <3>2, <4>1, <4>2, BecomingStopsNobody
      <3> QED BY <2>2, <3>1, <3>2 DEF CheckStop
    <2>3. CASE Pause(t)
      <3>1. PICK r : r = [Idle EXCEPT !.at = Pausing(t)]
        OBVIOUS
      <3>2. r.at \in {"exit", "start"}
        BY <3>1, Anew DEF Pausing
      <3> QED BY <1>0, <2>3, <3>1, <3>2, BecomingStopsNobody DEF Pause
    <2>4. \/ \E step \in {"loop", "start", "result", "execute", "pause", "take", "check", "tool"} :
               Go(t, step)
          \/ CheckStop(t) \/ Pause(t)
      BY DEF Batch, Drained, GoingOn, PrepareTool, ExecuteTool, ToolReturns, AppendResult, After
    <2> QED BY <2>1, <2>2, <2>3, <2>4
  <1> QED BY <1>0, <1>1, <1>2 DEF Unstopped, work

\* nor one who starts the run where nothing was stopped,
LEMMA UnstoppedStart ==
    ASSUME Typed, Alone, NEW t \in Requests \cup {Job}, StartRun(t)
    PROVE  Unstopped
  <1>1. /\ \A u \in Threads : thread'[u] = IF u = Run THEN [Idle EXCEPT !.at = "loop"]
                                           ELSE IF u = t THEN Idle ELSE thread[u]
        /\ stopRequested' = FALSE
    BY StartsAlone
  <1>2. UNCHANGED <<user, work, interrupted, halted>> /\ rounds \in Nat
    BY ChatRunAssumption DEF StartRun, Typed, TypeOK
  <1>3. (\A h \in Requests : Interrupts(h)' => Interrupts(h)) /\ (At(Job, "broken")' => At(Job, "broken"))
    BY <1>1, Anew, ThreadsApart DEF Interrupts, At
  <1> QED BY <1>1, <1>2, <1>3 DEF Unstopped, work

\* nor a handler at work,
LEMMA UnstoppedServe ==
    ASSUME Typed, Alone, NEW h \in Requests, Serve(h)
    PROVE  Unstopped
  <1>0. h \in Threads /\ rounds \in Nat
    BY ThreadsApart, ChatRunAssumption DEF Typed, TypeOK
  <1>1. CASE StartRun(h)
    BY <1>1, UnstoppedStart
  <1>2. CASE Resend(h) \/ TakeQueued(h) \/ InterruptTool(h)
    <2>1. \/ Become(h, Idle) \/ Become(h, [Idle EXCEPT !.at = "start"])
          \/ Become(h, [at |-> "next", todo |-> queued, own |-> NoCall])
      BY <1>2 DEF Resend, Sent, TakeQueued, InterruptTool
    <2>2. \E r : Become(h, r) /\ r.at \in {"idle", "start", "next"}
      <3>1. CASE Become(h, [Idle EXCEPT !.at = "start"])
        <4>1. PICK r : r = [Idle EXCEPT !.at = "start"]
          OBVIOUS
        <4> QED BY <3>1, <4>1, Anew
      <3> QED BY <2>1, <3>1, Anew
    <2>3. (\A g \in Requests : Interrupts(g)' => Interrupts(g)) /\ (At(Job, "broken")' => At(Job, "broken"))
      BY <1>0, <2>2, BecomingStopsNobody
    <2>4. UNCHANGED <<user, work, flags, history>>
      BY <1>2 DEF Resend, TakeQueued, InterruptTool
    <2> QED BY <1>0, <2>3, <2>4 DEF Unstopped, work, flags, history
  <1> QED BY <1>1, <1>2 DEF Serve

\* nor a workflow whose group goes on.
LEMMA UnstoppedWorkflow ==
    ASSUME Typed, Alone, Workflow
    PROVE  Unstopped
  <1>0. Job \in Threads /\ rounds \in Nat
    BY ThreadsApart, ChatRunAssumption DEF Typed, TypeOK
  <1>1. CASE StartRun(Job)
    BY <1>1, UnstoppedStart
  <1>2. CASE Launch \/ GroupEnds \/ GroupInterrupted \/ Deliver \/ FollowUp
    <2>1. /\ UNCHANGED <<user, flags, history>>
          /\ "rounds" \notin user => rounds' = rounds
      BY <1>2 DEF Launch, GroupEnds, GroupInterrupted, Deliver, FollowUp, work
    <2>2. \/ \E step \in {"group", "deliver"} : Go(Job, step)
          \/ Become(Job, Idle)
          \/ \E step \in {"start", "round"} : Become(Job, [Idle EXCEPT !.at = step])
          \/ Become(Job, [Idle EXCEPT !.at = "launch", !.own = issued'])
      BY <1>2 DEF Launch, GroupEnds, GroupInterrupted, Deliver, FollowUp, Round
    <2>3. (\A g \in Requests : Interrupts(g)' => Interrupts(g)) /\ (At(Job, "broken")' => At(Job, "broken"))
      <3>1. CASE \E step \in {"group", "deliver"} : Go(Job, step)
        BY <1>0, <3>1, GoingStopsNobody
      <3>2. CASE Become(Job, Idle)
        BY <1>0, <3>2, BecomingStopsNobody, Anew
      <3>3. ASSUME NEW step \in {"start", "round"}, Become(Job, [Idle EXCEPT !.at = step])
            PROVE  \E r : Become(Job, r) /\ r.at = step
        <4>1. PICK r : r = [Idle EXCEPT !.at = step]
          OBVIOUS
        <4> QED BY <3>3, <4>1, Anew
      <3>4. CASE Become(Job, [Idle EXCEPT !.at = "launch", !.own = issued'])
        <4>1. PICK r : r = [Idle EXCEPT !.at = "launch", !.own = issued']
          OBVIOUS
        <4>2. r.at = "launch"
          BY <4>1, Anew
        <4> QED BY <1>0, <3>4, <4>1, <4>2, BecomingStopsNobody
      <3> QED BY <1>0, <2>2, <3>1, <3>2, <3>3, <3>4, BecomingStopsNobody
    <2> QED BY <1>0, <2>1, <2>3 DEF Unstopped, flags, history
  <1> QED BY <1>1, <1>2 DEF Workflow

\* As long as nothing was stopped.
LEMMA StaysUnhalted ==
    ASSUME Stopping, Typed, Unstopped, ~halted
    PROVE  Stopping'
  <1>1. "rounds" \notin user => rounds' <= 1
    BY DEF Stopping, Unstopped
  <1> QED BY <1>1, WhileUnhalted, Unhalted DEF Unstopped

\* While what was stopped comes to its end, the run does no more than that.
LEMMA StopsRun ==
    ASSUME Typed, Alone, Stopping, halted, NEW r, Moves(Run, r), UNCHANGED <<user, halted, rounds>>,
           r.at \in {"exit", "next", "loop", "result", "execute", "pause", "check", "idle"},
           r.at \notin {"exit", "check", "pause", "idle"} => \A h \in Requests : ~Interrupts(h),
           r.at = "idle" => running' = FALSE,
           r.at # "idle" => stopRequested' = TRUE,
           interrupted' = {}
    PROVE  Stopping'
  <1>1. \A u \in Threads : thread'[u] = IF u = Run THEN r ELSE thread[u]
    BY DEF Moves
  <1>2. \A h \in Requests : thread'[h] = thread[h]
    BY <1>1, ThreadsApart
  <1>3. thread'[Job] = thread[Job] /\ thread'[Run] = r
    BY <1>1, ThreadsApart
  <1>4. \A h \in Requests : Interrupts(h)' =>
          /\ halted'
          /\ Working(Run)' => /\ thread'[Run].at \in {"tool", "check", "pause", "exit"}
                              /\ At(Run, "tool")' => Current(Run)' \in interrupted'
    BY <1>2, <1>3 DEF Interrupts, At, Working
  <1>5. At(Job, "broken")' => halted' /\ "stop" \in user'
    BY <1>3 DEF Stopping, At
  <1>6. \A h \in Requests : Working(h)' => Interrupts(h)'
    BY <1>2 DEF Stopping, Working, Interrupts, At
  <1>7. Working(Job)' => At(Job, "broken")'
    BY <1>3 DEF Stopping, Working, At
  <1>8. Working(Run)' => stopRequested'
    BY <1>3 DEF Working
  <1>9. "rounds" \notin user' => rounds' <= 1
    BY DEF Stopping
  <1> QED BY <1>4, <1>5, <1>6, <1>7, <1>8, <1>9 DEF Stopping

\* Interruptions concern a run that has not got past its tool.
LEMMA Cutting ==
    ASSUME Stopping, Working(Run), thread[Run].at \notin {"tool", "check", "pause", "exit"}
    PROVE  \A h \in Requests : ~Interrupts(h)
  BY DEF Stopping

\* A stopped run begins nothing;
LEMMA StoppedConversation ==
    ASSUME Typed, Alone, Stopping, halted, Conversation
    PROVE  Stopping'
  <1>0. Run \in Threads
    BY ThreadsApart
  <1>1. thread[Run].at \in {"loop", "begin", "stream", "append", "exit"} /\ UNCHANGED <<user, halted, rounds, interrupted>>
    BY DEF Conversation, Loop, BeginLLMCall, StreamChat, AppendTurn, Exit, At, work, flags, history
  <1>2. Working(Run) /\ stopRequested /\ interrupted = {}
    BY <1>1 DEF Working, Stopping, At
  <1>3. CASE Exit
    <2>1. Moves(Run, Idle) /\ running' = FALSE
      BY <1>0, <1>3, BecomeMoves DEF Exit
    <2> QED BY <1>1, <1>2, <2>1, Anew, StopsRun
  <1>4. CASE ~Exit
    <2>1. thread[Run].at # "exit" /\ stopRequested' = TRUE /\ \E step \in {"exit", "next"} : Go(Run, step)
      <3>1. thread[Run].at # "exit" /\ UNCHANGED stopRequested
        BY <1>4 DEF Conversation, Loop, BeginLLMCall, StreamChat, AppendTurn, At, flags
      <3>2. \E step \in {"exit", "next"} : Go(Run, step)
        BY ZenonT(60), <1>2, <1>4 DEF Conversation, Loop, BeginLLMCall, StreamChat, AppendTurn
      <3> QED BY <1>2, <3>1, <3>2 DEF Typed, TypeOK
    <2>2. PICK r : Moves(Run, r) /\ r.at \in {"exit", "next"}
      BY <1>0, <2>1, GoMoves DEF Moves
    <2>3. \A h \in Requests : ~Interrupts(h)
      BY <1>1, <1>2, <2>1, Cutting
    <2> QED BY <1>1, <1>2, <2>1, <2>2, <2>3, StopsRun
  <1> QED BY <1>3, <1>4

\* a batch that was stopped starts no tool;
LEMMA StoppedBatch ==
    ASSUME Typed, Alone, Stopping, halted, NEW t \in Workers, Batch(t)
    PROVE  Stopping'
  <1>1. thread[t].at \in BatchSteps /\ UNCHANGED <<user, halted, rounds, stopRequested>>
    BY DEF Batch, Drained, PrepareTool, ExecuteTool, ToolReturns, AppendResult, CheckStop, Pause,
           At, work, flags, history, BatchSteps
  <1>2. t = Run
    <2>1. t \notin Requests
      BY <1>1 DEF Stopping, Working, Interrupts, At, BatchSteps
    <2> QED BY <2>1 DEF Workers
  <1>0. /\ Run \in Threads /\ thread[Run] \in Thread /\ thread[Run].own = NoCall /\ stopRequested' = TRUE
        /\ stopRequested /\ Working(Run)
    <2>1. Run \in Threads /\ thread[Run] \in Thread /\ Sound(Run, thread[Run])
      BY ThreadsApart DEF Typed, TypeOK
    <2>2. Working(Run)
      BY <1>1, <1>2 DEF Working, BatchSteps
    <2>3. stopRequested /\ stopRequested = TRUE
      BY <2>2 DEF Stopping, Typed, TypeOK
    <2> QED BY <1>1, <2>1, <2>2, <2>3 DEF Sound
  <1>3. CASE ToolReturns(Run)
    <2>1. thread[Run].at = "tool" /\ Go(Run, "check") /\ interrupted' = interrupted \ {Current(Run)}
      BY <1>0, <1>3 DEF ToolReturns, Dropped, After, At
    <2>2. interrupted' = {}
      BY <2>1 DEF Stopping
    <2>3. \E r : Moves(Run, r) /\ r.at = "check"
      BY <1>0, <2>1, GoMoves DEF Moves
    <2> QED BY <1>0, <1>1, <2>2, <2>3, StopsRun
  <1>4. CASE ~ToolReturns(Run)
    <2>1. thread[Run].at # "tool" /\ UNCHANGED interrupted
      BY <1>2, <1>4 DEF Batch, Drained, PrepareTool, ExecuteTool, AppendResult, CheckStop, Pause,
                        At, flags
    <2>2. interrupted' = {}
      BY <2>1 DEF Stopping, At
    <2>3. CASE thread[Run].at \in {"check", "pause"}
      <3>1. \E r : Become(Run, r) /\ r.at \in {"pause", "exit"}
        <4>1. CASE CheckStop(Run)
          <5>1. PICK r : r = [thread[Run] EXCEPT !.at = "pause"]
            OBVIOUS
          <5>2. r.at = "pause"
            BY <1>0, <5>1 DEF Thread
          <5> QED BY <1>0, <4>1, <5>1, <5>2 DEF CheckStop
        <4>2. CASE Pause(Run)
          <5>1. PICK r : r = [Idle EXCEPT !.at = "exit"]
            OBVIOUS
          <5>2. r.at = "exit"
            BY <5>1, Anew
          <5> QED BY <4>2, <5>1, <5>2 DEF Pause, Pausing
        <4> QED BY <1>2, <2>3, <4>1, <4>2
                DEF Batch, Drained, PrepareTool, ExecuteTool, ToolReturns, AppendResult, At
      <3>2. \E r : Moves(Run, r) /\ r.at \in {"pause", "exit"}
        BY <1>0, <3>1, BecomeMoves
      <3> QED BY <1>0, <1>1, <2>2, <3>2, StopsRun
    <2>4. CASE thread[Run].at \notin {"check", "pause"}
      <3>1. \E step \in {"loop", "result", "execute", "pause", "check"} : Go(Run, step)
        BY <1>0, <1>2, <1>4, <2>4
        DEF Batch, Drained, GoingOn, PrepareTool, ExecuteTool, AppendResult, After, CheckStop, Pause, At
      <3>2. \E r : Moves(Run, r) /\ r.at \in {"loop", "result", "execute", "pause", "check"}
        BY <1>0, <3>1, GoMoves DEF Moves
      <3>3. \A h \in Requests : ~Interrupts(h)
        BY <1>0, <1>1, <1>2, <2>1, <2>4, Cutting DEF BatchSteps
      <3> QED BY <1>0, <1>1, <2>2, <3>2, <3>3, StopsRun
    <2> QED BY <2>3, <2>4
  <1> QED BY <1>3, <1>4

\* A thread other than the run comes to rest.
LEMMA StopsOther ==
    ASSUME Typed, Alone, Stopping, NEW t \in Threads \ {Run}, Moves(t, Idle),
           UNCHANGED <<user, halted, rounds, running, stopRequested, interrupted>>
    PROVE  Stopping'
  <1>1. \A u \in Threads : thread'[u] = IF u = t THEN Idle ELSE thread[u]
    BY DEF Moves
  <1>2. thread'[Run] = thread[Run]
    BY <1>1, ThreadsApart
  <1>3. \A h \in Requests : thread'[h] = thread[h] \/ thread'[h] = Idle
    BY <1>1, ThreadsApart
  <1>4. thread'[Job] = thread[Job] \/ thread'[Job] = Idle
    BY <1>1, ThreadsApart
  <1>5. /\ \A h \in Requests : (Interrupts(h)' => Interrupts(h)) /\ (Working(h)' => Working(h) /\ thread'[h] = thread[h])
        /\ (At(Job, "broken")' => At(Job, "broken"))
        /\ (Working(Job)' => Working(Job) /\ thread'[Job] = thread[Job])
    BY <1>3, <1>4, Anew DEF Interrupts, At, Working
  <1>6. (Working(Run)' <=> Working(Run)) /\ (At(Run, "tool")' <=> At(Run, "tool")) /\ Current(Run)' = Current(Run)
    BY <1>2 DEF Working, At, Current
  <1>7. \A h \in Requests : Interrupts(h)' =>
          /\ halted'
          /\ Working(Run)' => /\ thread'[Run].at \in {"tool", "check", "pause", "exit"}
                              /\ At(Run, "tool")' => Current(Run)' \in interrupted'
    BY <1>2, <1>5, <1>6 DEF Stopping
  <1>8. halted' => /\ \A h \in Requests : Working(h)' => Interrupts(h)'
                   /\ Working(Job)' => At(Job, "broken")'
                   /\ Working(Run)' => stopRequested'
    BY <1>5, <1>6 DEF Stopping, Interrupts, At
  <1>9. interrupted' # {} => At(Run, "tool")' /\ interrupted' = {Current(Run)'} /\ halted'
    BY <1>6 DEF Stopping
  <1>10. /\ running' /\ stopRequested' => halted'
         /\ At(Job, "broken")' => halted' /\ "stop" \in user'
         /\ "rounds" \notin user' => rounds' <= 1
    BY <1>5 DEF Stopping
  <1> QED BY <1>7, <1>8, <1>9, <1>10 DEF Stopping

\* a handler that interrupts writes its result and is done;
LEMMA StoppedServe ==
    ASSUME Typed, Alone, Stopping, halted, NEW h \in Requests, Serve(h)
    PROVE  Stopping'
  <1>0. h \in Threads \ {Run}
    BY ThreadsApart
  <1>1. ~Working(h) \/ Interrupts(h)
    BY DEF Stopping
  <1>2. InterruptTool(h)
    BY <1>1 DEF Serve, Resend, TakeQueued, StartRun, Working, Interrupts, At
  <1>3. Moves(h, Idle) /\ UNCHANGED <<user, halted, rounds, running, stopRequested, interrupted>>
    BY <1>0, <1>2, BecomeMoves DEF InterruptTool, work, flags, history
  <1> QED BY <1>0, <1>3, StopsOther

\* and a workflow whose group was broken off is over.
LEMMA StoppedWorkflow ==
    ASSUME \A u \in Users : Polite(u), Typed, Alone, Stopping, halted, Workflow
    PROVE  Stopping'
  <1>0. Job \in Threads \ {Run}
    BY ThreadsApart
  <1>1. ~Working(Job) \/ At(Job, "broken")
    BY DEF Stopping
  <1>2. GroupInterrupted
    BY <1>1 DEF Workflow, Launch, GroupEnds, Deliver, FollowUp, StartRun, Working, At
  <1>3. "rounds" \notin user /\ rounds <= 1
    BY <1>2, PoliteUser DEF GroupInterrupted, Stopping, Polite
  <1>4. Moves(Job, Idle) /\ UNCHANGED <<user, halted, rounds, running, stopRequested, interrupted>>
    BY <1>0, <1>2, <1>3, BecomeMoves DEF GroupInterrupted, work, flags, history
  <1> QED BY <1>0, <1>4, StopsOther

\* What the user does.
LEMMA StoppingUserActs ==
    ASSUME \A u \in Users : Polite(u), Typed, Alone, Asked, Grouped, Stopping,
           NEW h \in Requests, UserActs(h)
    PROVE  Stopping'
  <1>0. h \in Threads \ {Run} /\ Job \in Threads \ {Run} /\ Run \in Threads /\ h # Job /\ Run \notin Requests /\ Job \notin Requests
    BY ThreadsApart
  <1>1. CASE StopSession(h)
    <2>1. /\ \A g \in Requests : ~Working(g)
          /\ \A u \in Threads : thread'[u] = IF u = h THEN Interrupting
                                             ELSE IF u = Job THEN Broken ELSE thread[u]
          /\ runningTool # NoCall => At(Run, "tool") /\ runningTool = Current(Run) /\ ~Working(Job)
          /\ running \/ At(Job, "group")
          /\ Broken.at = IF At(Job, "group") THEN "broken" ELSE thread[Job].at
          /\ runningTool \in interrupted \cup {NoCall} => Interrupting = Idle
          /\ runningTool \notin interrupted \cup {NoCall} => Interrupting.at = "interrupt"
          /\ Alone'
      BY <1>1, StopsAlone
    <2>2. /\ halted' = TRUE /\ stopRequested' = TRUE /\ "stop" \in user
          /\ UNCHANGED <<user, rounds, running, runningTool>>
          /\ interrupted' = interrupted \cup ({runningTool} \ {NoCall})
      BY <1>1 DEF StopSession, work
    <2>3. thread'[Run] = thread[Run] /\ thread'[Job] = Broken
          /\ \A g \in Requests : thread'[g] = IF g = h THEN Interrupting ELSE thread[g]
      BY <1>0, <2>1, ThreadsApart
    <2>4. Current(Run)' = Current(Run) /\ (At(Run, "tool")' <=> At(Run, "tool"))
      BY <2>3 DEF Current, At
    <2>5. ASSUME NEW g \in Requests, Working(g)'
          PROVE  /\ g = h /\ Interrupts(g)' /\ At(Run, "tool")' /\ Current(Run)' \in interrupted'
      <3>1. g = h /\ Interrupting.at # "idle"
        BY <2>1, <2>3, <2>5 DEF Working
      <3>2. runningTool \notin interrupted \cup {NoCall} /\ Interrupting.at = "interrupt"
        BY <2>1, <3>1, Anew
      <3>3. At(Run, "tool") /\ runningTool = Current(Run)
        BY <2>1, <3>2
      <3> QED BY <2>2, <2>3, <2>4, <3>1, <3>2, <3>3 DEF Interrupts, At
    <2>6. \A g \in Requests : Interrupts(g)' => Working(g)'
      BY DEF Interrupts, At, Working
    <2>7. Working(Job)' => At(Job, "broken")'
      <3>1. ~running => ~Working(Run)
        BY DEF Alone
      <3>2. CASE At(Job, "group")
        BY <2>1, <2>3, <3>2 DEF At
      <3>3. CASE ~At(Job, "group")
        <4>1. Working(Run) /\ ~Interrupts(Run)
          BY <1>0, <2>1, <3>3, ThreadsApart DEF Alone, Interrupts, At, StepsOf, BatchSteps
        <4>2. ~Working(Job)
          BY <1>0, <4>1, Others
        <4> QED BY <2>1, <2>3, <3>3, <4>2 DEF Working
      <3> QED BY <3>2, <3>3
    <2>8. interrupted' # {} => At(Run, "tool")' /\ interrupted' = {Current(Run)'} /\ halted'
      <3>1. interrupted # {} => At(Run, "tool") /\ interrupted = {Current(Run)}
        BY DEF Stopping
      <3> QED BY <2>1, <2>2, <2>4, <3>1
    <2>9. "rounds" \notin user' => rounds' <= 1
      BY <2>2 DEF Stopping
    <2>10. \A g \in Requests : Interrupts(g)' =>
          /\ halted'
          /\ Working(Run)' => /\ thread'[Run].at \in {"tool", "check", "pause", "exit"}
                              /\ At(Run, "tool")' => Current(Run)' \in interrupted'
      BY <2>2, <2>5, <2>6 DEF At
    <2> QED BY <2>2, <2>5, <2>7, <2>8, <2>9, <2>10 DEF Stopping
  <1>2. CASE ~StopSession(h)
    <2>1. \/ Send(h) \/ Rewind(h) \/ ResolveApproval(h) \/ AnswerQuestion(h)
          \/ StartForcedWorkflow(h) \/ ResumeTaskGroup(h)
      BY <1>2 DEF UserActs
    <2>2. ~running /\ \A u \in Threads : ~Working(u)
      BY <2>1, NobodyAtWork
    <2>3. /\ UNCHANGED <<user, running, interrupted>> /\ halted' = FALSE
          /\ rounds' \in {rounds, 0, 1}
      BY <2>1 DEF Send, Rewind, ResolveApproval, AnswerQuestion, StartForcedWorkflow,
                  ResumeTaskGroup, work, flags
    <2>4. interrupted = {}
      BY <1>0, <2>2 DEF Stopping, Working, At
    <2>5. \E t \in {h, Job} : \E r : /\ Become(t, r)
                                     /\ r.at \in {"start", "send", "execute", "result", "launch", "deliver"}
      <3>1. \/ \E step \in {"start", "send"} : Become(h, [Idle EXCEPT !.at = step])
            \/ \E t \in {h, Job}, step \in {"execute", "result", "launch", "deliver"} :
                 \E c : Become(t, [Idle EXCEPT !.at = step, !.own = c])
        <4>1. CASE Send(h) \/ Rewind(h)
          BY <4>1 DEF Send, Sent, Rewind
        <4>2. CASE ResolveApproval(h)
          <5>1. PICK c \in approvals, yes \in BOOLEAN :
                  Become(h, [Idle EXCEPT !.at = IF yes THEN "execute" ELSE "result", !.own = c])
            BY <4>2 DEF ResolveApproval
          <5>2. CASE yes
            BY <5>1, <5>2
          <5>3. CASE ~yes
            BY <5>1, <5>3
          <5> QED BY <5>2, <5>3
        <4>3. CASE AnswerQuestion(h)
          BY <4>3 DEF AnswerQuestion
        <4>4. CASE StartForcedWorkflow(h)
          BY <4>4 DEF StartForcedWorkflow, Round
        <4>5. CASE ResumeTaskGroup(h)
          <5>1. PICK c \in Calls :
                  Become(Job, [Idle EXCEPT !.at = IF groups[c] = "done" THEN "deliver" ELSE "launch",
                                           !.own = c])
            BY <4>5 DEF ResumeTaskGroup
          <5>2. CASE groups[c] = "done"
            BY <5>1, <5>2
          <5>3. CASE groups[c] # "done"
            BY <5>1, <5>3
          <5> QED BY <5>2, <5>3
        <4> QED BY <2>1, <4>1, <4>2, <4>3, <4>4, <4>5
      <3>2. CASE \E step \in {"start", "send"} : Become(h, [Idle EXCEPT !.at = step])
        <4>1. PICK step \in {"start", "send"} : Become(h, [Idle EXCEPT !.at = step])
          BY <3>2
        <4>2. PICK r : r = [Idle EXCEPT !.at = step]
          OBVIOUS
        <4> QED BY <4>1, <4>2, Anew
      <3>3. CASE \E t \in {h, Job}, step \in {"execute", "result", "launch", "deliver"} :
                 \E c : Become(t, [Idle EXCEPT !.at = step, !.own = c])
        <4>1. PICK t, step, c : /\ t \in {h, Job} /\ step \in {"execute", "result", "launch", "deliver"}
                                /\ Become(t, [Idle EXCEPT !.at = step, !.own = c])
          BY <3>3
        <4>2. PICK r : r = [Idle EXCEPT !.at = step, !.own = c]
          OBVIOUS
        <4>3. r.at = step
          BY <4>2, Anew
        <4> QED BY <4>1, <4>2, <4>3
      <3> QED BY <3>1, <3>2, <3>3
    <2>6. (\A g \in Requests : Interrupts(g)' => Interrupts(g)) /\ (At(Job, "broken")' => At(Job, "broken"))
      BY <1>0, <2>5, BecomingStopsNobody
    <2>7. (\A g \in Requests : ~Interrupts(g)') /\ ~At(Job, "broken")'
      BY <1>0, <2>2, <2>6, ThreadsApart DEF Working, Interrupts, At
    <2>8. "rounds" \notin user => rounds' <= 1
      BY <2>3 DEF Stopping
    <2> QED BY <2>2, <2>3, <2>4, <2>7, <2>8, Unhalted
  <1> QED BY <1>1, <1>2

\* After a stop, what is on comes to its end.
LEMMA StoppingStep ==
    ASSUME \A u \in Users : Polite(u), Typed, Alone, Asked, Grouped, Stopping, [Next]_vars
    PROVE  Stopping'
  <1>1. CASE Restart
    BY <1>1, AllRest, ThreadsApart DEF Stopping
  <1>2. CASE UNCHANGED vars
    BY <1>2 DEF vars, work, flags, history, Stopping, Working, Interrupts, At, Current
  <1>3. CASE halted /\ Next
    <2>1. CASE Conversation
      BY <1>3, <2>1, StoppedConversation
    <2>2. CASE \E t \in Workers : Batch(t)
      BY <1>3, <2>2, StoppedBatch
    <2>3. CASE \E h \in Requests : Serve(h)
      BY <1>3, <2>3, StoppedServe
    <2>4. CASE Workflow
      BY <1>3, <2>4, StoppedWorkflow
    <2> QED BY <1>1, <1>3, <2>1, <2>2, <2>3, <2>4, StoppingUserActs DEF Next, Workers
  <1>4. CASE ~halted /\ Next
    <2>1. CASE Conversation
      BY <1>4, <2>1, UnstoppedConversation, StaysUnhalted
    <2>2. CASE \E t \in Workers : Batch(t)
      BY <1>4, <2>2, UnstoppedBatch, StaysUnhalted
    <2>3. CASE \E h \in Requests : Serve(h)
      BY <1>4, <2>3, UnstoppedServe, StaysUnhalted
    <2>4. CASE Workflow
      BY <1>4, <2>4, UnstoppedWorkflow, StaysUnhalted
    <2> QED BY <1>1, <1>4, <2>1, <2>2, <2>3, <2>4, StoppingUserActs DEF Next, Workers
  <1> QED BY <1>2, <1>3, <1>4

-----------------------------------------------------------------------------
(* What is asked, what is queued, and the transcript.                      *)

\* Who is not in a batch answers nothing.
LEMMA IdleAnswersNothing ==
    /\ \A r : r.at \in {"idle", "loop", "begin", "stream", "append", "exit", "take", "start", "send", "launch", "group",
                        "broken", "deliver", "round"} => Ahead(r) = {}
    /\ \A t : ~Working(t) => Answering(t) = {} /\ ~Interrupts(t)
    /\ \A t : Answering(t) \subseteq Ahead(thread[t])
    /\ \A t : ~Interrupts(t) => Answering(t) = Ahead(thread[t]) \ interrupted
  <1>1. \A r : r.at \in {"idle", "loop", "begin", "stream", "append", "exit", "take", "start", "send", "launch", "group",
                        "broken", "deliver", "round"} => Ahead(r) = {}
    BY DEF Ahead
  <1> QED BY <1>1 DEF Working, Answering, Interrupts, At

\* What has to be so of a thread that is alone at work.
AskedOne(t, r) ==
    /\ r.at # "interrupt" /\ (t = Job => r.at # "pause")
    /\ \A c \in approvals' : approvals' = {c} /\ questions' = {}
    /\ \A c \in questions' : questions' = {c} /\ approvals' = {}
    /\ Pending' \subseteq Unanswered'
    /\ Ahead(r) \ interrupted' \subseteq Unanswered' \ Pending'
    /\ r.at \in HandSteps \ {"pause"} => Pending' = {}
    /\ r.at = "pause" => Pending' # {} \/ stopRequested'
    /\ t = Run /\ r.at \in {"begin", "stream", "append"} => Unanswered' = {}
    /\ r.at = "send" => Unanswered' = {}
    /\ r.at = "take" => r.own # NoCall
    /\ stopRequested' /\ t \in Requests => r.at \notin HandSteps
    /\ stopRequested' /\ ~running' => Pending' = {}

QueuedOne(t, r) ==
    /\ \/ "rewind" \notin user'
       \/ Pending' # {} /\ r.at # "pause"
       \/ t \in Requests /\ r.own # NoCall /\ r.at \in HandSteps
       => /\ Range(queued') \subseteq Unanswered' \ Pending'
          /\ Range(queued') \cap (Ahead(r) \ interrupted') = {}
    /\ "rewind" \notin user' /\ Pending' = {} =>
         /\ t = Run /\ r.at = "loop" /\ ~stopRequested' => queued' = <<>>
         /\ t # Run /\ r.at = "start" => queued' = <<>>

\* When one is at work, Core is about that one;
LEMMA CoreOfLone ==
    ASSUME NEW t \in Threads, NEW r, thread'[t] = r, \A u \in Threads : u # t => thread'[u].at = "idle",
           Proper(transcript'), ProviderInvariant', Grouped', AskedOne(t, r), QueuedOne(t, r)
    PROVE  Core'
  <1>2. Workers \subseteq Threads /\ Requests \subseteq Workers /\ Run \in Workers /\ Job \in Threads
        /\ Requests \subseteq Threads /\ Run \notin Requests /\ Job \notin Requests /\ Run # Job
    BY ThreadsApart DEF Workers, Threads
  <1>3. \A u \in Threads : u # t => thread'[u].at = "idle"
    OBVIOUS
  <1>4. \A u \in Threads : u # t => Answering(u)' = {} /\ ~Interrupts(u)' /\ ~Working(u)'
    <2>1. \A u \in Threads : u # t => ~Interrupts(u)' /\ ~Working(u)'
      BY <1>3 DEF Interrupts, At, Working
    <2>2. \A u \in Threads : u # t => Ahead(thread'[u]) = {}
      BY <1>3, IdleAnswersNothing
    <2> QED BY <2>1, <2>2 DEF Answering
  <1>5. Answering(t)' = Ahead(r) \ interrupted' /\ ~Interrupts(t)'
    BY DEF AskedOne, Answering, Interrupts, At
  <1>6. thread'[t] = r
    OBVIOUS
  <1>7. \A u \in Threads : ~Interrupts(u)'
    BY <1>4, <1>5
  <1>8. Asked'
    <2>1. \A u \in Workers : Answering(u)' \subseteq Unanswered' \ Pending'
      BY <1>2, <1>4, <1>5 DEF AskedOne
    <2>2. \A u \in Workers : thread'[u].at \in HandSteps \ {"pause"} => Pending' = {}
      BY <1>2, <1>3, <1>6 DEF AskedOne, HandSteps, BatchSteps
    <2>3. \A u \in Workers : At(u, "pause")' => Pending' # {} \/ stopRequested'
      BY <1>2, <1>3, <1>6 DEF AskedOne, At
    <2>4. thread'[Run].at \in {"begin", "stream", "append"} => Unanswered' = {}
      BY <1>2, <1>3, <1>6 DEF AskedOne
    <2>5. \A h \in Requests : At(h, "send")' => Unanswered' = {}
      BY <1>2, <1>3, <1>6 DEF AskedOne, At
    <2>6. stopRequested' => \A h \in Requests : thread'[h].at \notin HandSteps
      BY <1>2, <1>3, <1>6 DEF AskedOne, HandSteps, BatchSteps
    <2>8. \A h \in Requests : At(h, "take")' => thread'[h].own # NoCall
      BY <1>2, <1>3, <1>6 DEF AskedOne, At
    <2>7. /\ \A c \in approvals' : approvals' = {c} /\ questions' = {}
          /\ \A c \in questions' : questions' = {c} /\ approvals' = {}
          /\ Pending' \subseteq Unanswered'
          /\ stopRequested' /\ ~running' => Pending' = {}
      BY DEF AskedOne
    <2> QED BY <1>2, <1>7, <2>1, <2>2, <2>3, <2>4, <2>5, <2>6, <2>7, <2>8 DEF Asked
  <1>9. Queued'
    <2>1. \A h \in Requests : Resolving(h)' => t \in Requests /\ r.own # NoCall /\ r.at \in HandSteps
      BY <1>2, <1>3, <1>6 DEF Resolving, HandSteps, BatchSteps
    <2>2. Pending' # {} /\ (\A u \in Workers : ~At(u, "pause")') => Pending' # {} /\ r.at # "pause"
      BY <1>6 DEF At, Workers, Threads, AskedOne
    <2>4. ASSUME Counts' PROVE Fresh'
      <3>1. /\ Range(queued') \subseteq Unanswered' \ Pending'
            /\ Range(queued') \cap (Ahead(r) \ interrupted') = {}
        BY <2>1, <2>2, <2>4 DEF Counts, QueuedOne
      <3>2. \A u \in Workers : Range(queued') \cap Answering(u)' = {}
        BY <1>2, <1>4, <1>5, <3>1
      <3> QED BY <3>1, <3>2 DEF Fresh
    <2>6. At(Run, "loop")' => t = Run /\ r.at = "loop"
      BY <1>2, <1>3, <1>6 DEF At
    <2>7. \A u \in Requests \cup {Job} : At(u, "start")' => t # Run /\ r.at = "start"
      BY <1>2, <1>3, <1>6 DEF At
    <2> QED BY <2>4, <2>6, <2>7 DEF QueuedOne, Queued
  <1> QED BY <1>8, <1>9 DEF Core

\* so it is when that one moves, and nobody else is at work.
LEMMA CoreOfOne ==
    ASSUME NEW t \in Threads, NEW r, Moves(t, r), \A u \in Threads : u # t => ~Working(u),
           Proper(transcript'), ProviderInvariant', Grouped', AskedOne(t, r), QueuedOne(t, r)
    PROVE  Core'
  <1>1. thread'[t] = r /\ \A u \in Threads : u # t => thread'[u].at = "idle"
    BY DEF Moves, Working
  <1> QED BY <1>1, CoreOfLone

\* The user, and what a workflow is about, as long as a run or a handler is at work.
LEMMA GroupedAlong ==
    ASSUME Typed, Alone, Grouped, NEW t \in Workers, Working(t),
           UNCHANGED <<user, groups>>, thread'[Job] = thread[Job]
    PROVE  Grouped'
  <1>0. t \in Threads /\ t # Job /\ Job \in Threads /\ Job \notin Requests
    BY ThreadsApart DEF Workers, Threads
  <1>1. ~Working(Job)
    <2>1. ~Interrupts(Job)
      BY <1>0, ThreadsApart DEF Alone, StepsOf, Interrupts, At
    <2>2. Working(Job) => t = Job
      BY <1>0, <2>1, Others, ThreadsApart
    <2> QED BY <1>0, <2>2
  <1>2. \A c \in Calls : ~Afoot(c) /\ ~Afoot(c)'
    <2>1. \A c \in Calls : ~Afoot(c)
      BY DEF Grouped
    <2> QED BY <2>1 DEF Afoot
  <1>3. thread'[Job].at = "idle" /\ ~Working(Job)'
    BY <1>1 DEF Working
  <1> QED BY <1>2, <1>3 DEF Grouped, At

\* A thread goes on, and what it is going to answer does not grow.
ShrinkOne(t, r) ==
    /\ UNCHANGED <<user, groups, transcript, approvals, questions, queued, sent>>
    /\ r.at # "interrupt" /\ thread[t].at # "pause"
    /\ Ahead(r) \ interrupted' \subseteq Answering(t)
    /\ r.own # NoCall => r.own = thread[t].own
    /\ r.at \in HandSteps => thread[t].at \in HandSteps
    /\ r.at = "pause" => stopRequested'
    /\ r.at = "take" => r.own # NoCall
    /\ r.at \notin {"loop", "start", "send"}
    /\ r.at \in {"begin", "stream", "append"} => thread[t].at \in {"begin", "stream", "append"}
    /\ \/ (stopRequested' <=> stopRequested) /\ (running' <=> running)
       \/ t = Run /\ ~stopRequested'

\* A step that says nothing, asks nothing and queues nothing leaves Core true.
LEMMA CoreShrinks ==
    ASSUME Typed, Alone, Core, NEW t \in Workers, Working(t), ~Interrupts(t), NEW r, Moves(t, r),
           ShrinkOne(t, r)
    PROVE  Core'
  <1>0. /\ Workers \subseteq Threads /\ Requests \subseteq Workers /\ Run \in Workers /\ Job \in Threads
        /\ Requests \subseteq Threads /\ Run \notin Requests /\ Job \notin Workers /\ Run # Job
    BY ThreadsApart DEF Workers, Threads
  <1>1. \A u \in Threads : thread'[u] = IF u = t THEN r ELSE thread[u]
    BY DEF Moves
  <1>2. \A u \in Threads : u # t /\ Working(u) => t = Run /\ u \in Requests /\ Interrupts(u)
    BY <1>0, Others
  <1>3. /\ Unanswered' = Unanswered /\ Pending' = Pending /\ transcript' = transcript /\ sent' = sent
        /\ user' = user /\ queued' = queued
    BY DEF ShrinkOne, Unanswered, Pending
  <1>4. \A u \in Threads : u # t => Answering(u)' = Answering(u) /\ (Interrupts(u)' <=> Interrupts(u))
    <2>1. ASSUME NEW u \in Threads, u # t PROVE Answering(u)' = Answering(u) /\ (Interrupts(u)' <=> Interrupts(u))
      <3>1. thread'[u] = thread[u]
        BY <1>1, <2>1
      <3>2. Interrupts(u)' <=> Interrupts(u)
        BY <3>1 DEF Interrupts, At
      <3>3. CASE Interrupts(u)
        BY <3>1, <3>2, <3>3 DEF Answering
      <3>4. CASE ~Interrupts(u)
        <4>1. Ahead(thread[u]) = {}
          BY <1>2, <2>1, <3>4, IdleAnswersNothing DEF Working
        <4> QED BY <3>1, <3>2, <4>1 DEF Answering
      <3> QED BY <3>3, <3>4
    <2> QED BY <2>1
  <1>5. Answering(t)' \subseteq Answering(t) /\ ~Interrupts(t)'
    BY <1>0, <1>1 DEF ShrinkOne, Answering, Interrupts, At
  <1>6. \A u \in Workers : Answering(u)' \subseteq Answering(u)
    BY <1>0, <1>4, <1>5
  <1>7. Asked'
    <2>1. \A u \in Workers : Answering(u)' \subseteq Unanswered' \ Pending'
      BY <1>3, <1>6 DEF Core, Asked
    <2>2. \A h \in Requests : Interrupts(h)' => thread'[h].own \notin Answering(Run)'
      <3>1. ASSUME NEW h \in Requests, Interrupts(h)' PROVE thread'[h] = thread[h] /\ Interrupts(h)
        BY <1>0, <1>1, <1>4, <1>5, <3>1
      <3> QED BY <1>0, <1>6, <3>1 DEF Core, Asked
    <2>3. ASSUME NEW u \in Workers, thread'[u].at \in HandSteps \ {"pause"} PROVE Pending' = {}
      <3>1. CASE u = t
        <4>1. thread[t].at \in HandSteps \ {"pause"}
          BY <1>0, <1>1, <2>3, <3>1 DEF ShrinkOne
        <4> QED BY <1>3, <4>1 DEF Core, Asked
      <3>2. CASE u # t
        <4>1. thread[u].at \in HandSteps \ {"pause"}
          BY <1>0, <1>1, <2>3, <3>2
        <4> QED BY <1>3, <4>1 DEF Core, Asked
      <3> QED BY <3>1, <3>2
    <2>4. ASSUME NEW u \in Workers, At(u, "pause")' PROVE Pending' # {} \/ stopRequested'
      <3>1. CASE u = t
        BY <1>0, <1>1, <2>4, <3>1 DEF ShrinkOne, At
      <3>2. CASE u # t
        <4>1. At(u, "pause") /\ Working(u) /\ ~Interrupts(u)
          BY <1>0, <1>1, <2>4, <3>2 DEF At, Working, Interrupts
        <4> QED BY <1>0, <1>2, <3>2, <4>1
      <3> QED BY <3>1, <3>2
    <2>5. ASSUME thread'[Run].at \in {"begin", "stream", "append"} PROVE Unanswered' = {}
      <3>1. thread[Run].at \in {"begin", "stream", "append"}
        BY <1>0, <1>1, <2>5 DEF ShrinkOne
      <3> QED BY <1>3, <3>1 DEF Core, Asked
    <2>6. ASSUME NEW h \in Requests, At(h, "send")' PROVE Unanswered' = {}
      <3>1. At(h, "send")
        BY <1>0, <1>1, <2>6 DEF ShrinkOne, At
      <3> QED BY <1>3, <3>1 DEF Core, Asked
    <2>7. ASSUME stopRequested', NEW h \in Requests PROVE thread'[h].at \notin HandSteps
      <3>1. stopRequested
        BY <2>7 DEF ShrinkOne
      <3>2. thread[h].at \notin HandSteps
        BY <3>1 DEF Core, Asked
      <3> QED BY <1>0, <1>1, <3>2 DEF ShrinkOne
    <2>8. ASSUME stopRequested', ~running' PROVE Pending' = {}
      <3>1. stopRequested /\ ~running
        BY <2>8 DEF ShrinkOne
      <3> QED BY <1>3, <3>1 DEF Core, Asked
    <2>9. /\ \A c \in approvals' : approvals' = {c} /\ questions' = {}
          /\ \A c \in questions' : questions' = {c} /\ approvals' = {}
          /\ Pending' \subseteq Unanswered'
      BY <1>3 DEF ShrinkOne, Core, Asked
    <2>10. ASSUME NEW h \in Requests, At(h, "take")' PROVE thread'[h].own # NoCall
      <3>1. CASE h = t
        BY <1>0, <1>1, <2>10, <3>1 DEF ShrinkOne, At
      <3>2. CASE h # t
        BY <1>0, <1>1, <2>10, <3>2 DEF Core, Asked, At
      <3> QED BY <3>1, <3>2
    <2> QED BY <2>1, <2>2, <2>3, <2>4, <2>5, <2>6, <2>7, <2>8, <2>9, <2>10 DEF Asked
  <1>8. Queued'
    <2>1. Fresh => Fresh'
      BY <1>3, <1>6 DEF Fresh
    <2>2. Counts' => Counts
      <3>1. ASSUME NEW h \in Requests, Resolving(h)' PROVE Resolving(h)
        BY <1>0, <1>1, <3>1 DEF Resolving, ShrinkOne
      <3>2. ASSUME \A u \in Workers : ~At(u, "pause")', NEW u \in Workers PROVE ~At(u, "pause")
        BY <1>0, <1>1, <3>2 DEF At, ShrinkOne
      <3> QED BY <1>3, <3>1, <3>2 DEF Counts
    <2>3. ASSUME "rewind" \notin user', Pending' = {}, At(Run, "loop")', ~stopRequested' PROVE queued' = <<>>
      <3>1. t # Run /\ At(Run, "loop")
        BY <1>0, <1>1, <2>3 DEF ShrinkOne, At
      <3>2. ~stopRequested
        BY <2>3, <3>1 DEF ShrinkOne
      <3> QED BY <1>3, <2>3, <3>1, <3>2 DEF Core, Queued
    <2>4. ASSUME "rewind" \notin user', Pending' = {}, NEW u \in Requests \cup {Job}, At(u, "start")' PROVE queued' = <<>>
      <3>1. At(u, "start")
        BY <1>0, <1>1, <2>4 DEF ShrinkOne, At
      <3> QED BY <1>3, <2>4, <3>1 DEF Core, Queued
    <2> QED BY <2>1, <2>2, <2>3, <2>4 DEF Core, Queued
  <1>9. Grouped'
    <2>1. thread'[Job] = thread[Job]
      BY <1>0, <1>1
    <2> QED BY <2>1, GroupedAlong DEF Core, ShrinkOne
  <1>10. Proper(transcript') /\ ProviderInvariant'
    BY <1>3 DEF Core, ProviderInvariant
  <1> QED BY <1>7, <1>8, <1>9, <1>10 DEF Core

\* A run that nobody interrupts is alone.
LEMMA RunAlone ==
    ASSUME Alone, Stopping, Working(Run), thread[Run].at \notin {"tool", "check", "pause", "exit"}
    PROVE  \A u \in Threads : u # Run => ~Working(u)
  <1>1. \A h \in Requests : ~Interrupts(h)
    BY Cutting
  <1>2. Run \in Threads /\ ~Interrupts(Run)
    BY ThreadsApart DEF Alone, StepsOf, BatchSteps, Interrupts, At
  <1> QED BY <1>1, <1>2, Others

\* The loop (runLoop): a stop, or queued calls, or the next turn.
LEMMA CoreLoop ==
    ASSUME Typed, Alone, Stopping, Core, Loop
    PROVE  Core'
  <1>0. Run \in Threads /\ Run \in Workers /\ Run # Job /\ Job \in Threads /\ Run \notin Requests
    BY ThreadsApart DEF Workers
  <1>1. /\ thread[Run].at = "loop" /\ Working(Run) /\ ~Interrupts(Run)
        /\ UNCHANGED <<user, groups, approvals, questions, queued, stopRequested, running, interrupted>>
    BY DEF Loop, At, Working, Interrupts, work, flags
  <1>2. CASE stopRequested \/ approvals \cup questions # {}
    <2>1. Go(Run, "exit") /\ UNCHANGED <<transcript, sent>>
      BY <1>2 DEF Loop
    <2>2. PICK r : Moves(Run, r) /\ r.at = "exit" /\ r.own = thread[Run].own
      BY <1>0, <2>1, GoMoves DEF Moves
    <2>3. Ahead(r) = {}
      BY <2>2, IdleAnswersNothing
    <2>4. ShrinkOne(Run, r)
      BY <1>1, <2>1, <2>2, <2>3 DEF ShrinkOne, HandSteps, BatchSteps
    <2> QED BY <1>0, <1>1, <2>2, <2>4, CoreShrinks
  <1>3. CASE ~(stopRequested \/ approvals \cup questions # {})
    <2>1. transcript' = Completed(transcript) /\ sent' = transcript' /\ Go(Run, "begin")
      BY <1>3 DEF Loop
    <2>2. PICK r : Moves(Run, r) /\ r.at = "begin" /\ r.own = thread[Run].own
      BY <1>0, <2>1, GoMoves DEF Moves
    <2>3. Ahead(r) = {}
      BY <2>2, IdleAnswersNothing
    <2>4. transcript \in Seq(Message) /\ transcript' \in Seq(Message)
      BY <2>1, CompletedIsTranscript DEF Typed, TypeOK
    <2>5. Proper(transcript') /\ Unanswered' = {}
      BY <2>1, <2>4, Complete DEF Core, Unanswered
    <2>6. ProviderInvariant'
      <3>1. Wellformed(transcript')
        BY <2>4, <2>5, ProperIsWellformed DEF Unanswered
      <3> QED BY <2>1, <3>1 DEF ProviderInvariant
    <2>7. Grouped'
      <3>1. thread'[Job] = thread[Job]
        BY <1>0, <2>2 DEF Moves
      <3> QED BY <1>0, <1>1, <3>1, GroupedAlong DEF Core
    <2>8. Pending = {} /\ Pending' = {} /\ approvals' = {} /\ questions' = {}
      BY <1>1, <1>3 DEF Pending
    <2>9. AskedOne(Run, r)
      BY <1>0, <1>1, <2>2, <2>3, <2>5, <2>8 DEF AskedOne, HandSteps, BatchSteps
    <2>10. QueuedOne(Run, r)
      <3>1. "rewind" \notin user => queued' = <<>>
        BY <1>1, <1>3, <2>8 DEF Core, Queued, At
      <3>2. Range(<<>>) = {}
        BY DEF Range
      <3> QED BY <1>0, <1>1, <2>2, <2>8, <3>1, <3>2 DEF QueuedOne
    <2>11. \A u \in Threads : u # Run => ~Working(u)
      BY <1>1, RunAlone
    <2> QED BY <1>0, <2>2, <2>5, <2>6, <2>7, <2>9, <2>10, <2>11, CoreOfOne
  <1> QED BY <1>2, <1>3

\* A turn is appended where every call before it has its result (appendAssistant).
LEMMA CoreAppendTurn ==
    ASSUME Typed, Ledger, Alone, Stopping, Core, AppendTurn
    PROVE  Core'
  <1>0. Run \in Threads /\ Run \in Workers /\ Run # Job /\ Job \in Threads /\ Run \notin Requests
        /\ thread[Run] \in Thread /\ thread[Run].todo \in Seq(Calls) /\ Sound(Run, thread[Run])
    BY ThreadsApart DEF Workers, Typed, TypeOK, Thread
  <1>1. /\ thread[Run].at = "append" /\ Working(Run) /\ ~Interrupts(Run)
        /\ UNCHANGED <<user, groups, approvals, questions, queued, stopRequested, running, interrupted, sent>>
        /\ transcript' = Append(transcript, Turn(thread[Run].todo))
    BY DEF AppendTurn, At, Working, Interrupts, work, flags, Say
  <1>2. PICK step : step = (IF thread[Run].todo = <<>> THEN "exit" ELSE "next") /\ Go(Run, step)
    BY DEF AppendTurn
  <1>3. PICK r : Moves(Run, r) /\ r.at = step /\ r.own = NoCall /\ r.todo = thread[Run].todo
    BY <1>0, <1>2, GoMoves DEF Moves, Sound
  <1>4. PICK m : m = Turn(thread[Run].todo)
    OBVIOUS
  <1>5. m \in Message /\ m.role = "assistant" /\ m.calls = thread[Run].todo
    BY <1>0, <1>4, Messages DEF Turn
  <1>6. IsInjective(m.calls)
    BY <1>0, <1>5 DEF Ledger, OnePlace
  <1>7. transcript \in Seq(Message) /\ Open(transcript) = {} /\ Proper(transcript)
    BY <1>1 DEF Typed, TypeOK, Core, Asked, Unanswered
  <1>8. Proper(transcript') /\ Unanswered' = Range(r.todo)
    <2>1. Proper(Append(transcript, m)) /\ Open(Append(transcript, m)) = Range(m.calls)
      BY <1>5, <1>6, <1>7, SayFirst
    <2> QED BY <1>1, <1>3, <1>4, <1>5, <2>1 DEF Unanswered
  <1>9. Pending = {} /\ Pending' = {} /\ approvals' = {} /\ questions' = {}
    <2>1. Pending = {}
      BY <1>7 DEF Core, Asked, Unanswered
    <2> QED BY <1>1, <2>1 DEF Pending
  <1>10. Ahead(r) \subseteq Unanswered'
    <2>1. CASE step = "exit"
      BY <1>3, <2>1, IdleAnswersNothing
    <2>2. CASE step = "next"
      BY <1>3, <1>8, <2>2 DEF Ahead
    <2> QED BY <1>2, <2>1, <2>2
  <1>11. Grouped'
    <2>1. thread'[Job] = thread[Job]
      BY <1>0, <1>3 DEF Moves
    <2> QED BY <1>0, <1>1, <2>1, GroupedAlong DEF Core
  <1>12. AskedOne(Run, r)
    BY <1>0, <1>1, <1>2, <1>3, <1>9, <1>10 DEF AskedOne, HandSteps, BatchSteps
  <1>13. QueuedOne(Run, r)
    <2>1. "rewind" \notin user => Range(queued) = {}
      BY <1>7 DEF Core, Queued, Counts, Fresh, Unanswered
    <2> QED BY <1>0, <1>1, <1>2, <1>3, <1>9, <2>1 DEF QueuedOne
  <1>14. \A u \in Threads : u # Run => ~Working(u)
    BY <1>1, RunAlone
  <1>15. ProviderInvariant'
    BY <1>1 DEF Core, ProviderInvariant
  <1> QED BY <1>0, <1>3, <1>8, <1>11, <1>12, <1>13, <1>14, <1>15, CoreOfOne

\* The run's loop.
LEMMA CoreConversation ==
    ASSUME Typed, Ledger, Alone, Stopping, Core, Conversation
    PROVE  Core'
  <1>0. Run \in Threads /\ Run \in Workers
    BY ThreadsApart DEF Workers
  <1>1. CASE BeginLLMCall
    <2>1. /\ thread[Run].at = "begin" /\ Working(Run) /\ ~Interrupts(Run)
          /\ UNCHANGED <<user, groups, transcript, approvals, questions, queued, sent, stopRequested, running>>
          /\ \E step \in {"exit", "stream"} : Go(Run, step)
      BY <1>1 DEF BeginLLMCall, At, Working, Interrupts, work, session, flags
    <2>2. PICK r : Moves(Run, r) /\ r.at \in {"exit", "stream"} /\ r.own = thread[Run].own
      BY <1>0, <2>1, GoMoves DEF Moves
    <2>3. Ahead(r) = {}
      BY <2>2, IdleAnswersNothing
    <2>4. ShrinkOne(Run, r)
      BY <2>1, <2>2, <2>3 DEF ShrinkOne, HandSteps, BatchSteps
    <2> QED BY <1>0, <2>1, <2>2, <2>4, CoreShrinks
  <1>2. CASE StreamChat
    <2>1. /\ thread[Run].at = "stream" /\ Working(Run) /\ ~Interrupts(Run)
          /\ UNCHANGED <<user, groups, transcript, approvals, questions, queued, sent, stopRequested, running>>
      BY <1>2 DEF StreamChat, At, Working, Interrupts, work, session, flags
    <2>2. \/ Go(Run, "exit")
          \/ \E n \in 0 .. MaxBatch : Become(Run, [at |-> "append", own |-> NoCall,
                                                 todo |-> [i \in 1 .. n |-> issued + i]])
      BY ZenonT(60), <1>2 DEF StreamChat, Failure
    <2>3. ASSUME NEW n \in 0 .. MaxBatch,
                 Become(Run, [at |-> "append", own |-> NoCall,
                              todo |-> [i \in 1 .. n |-> issued + i]])
          PROVE  \E r : Become(Run, r) /\ r.at = "append" /\ r.own = NoCall
      <3>1. PICK q : q = [i \in 1 .. n |-> issued + i]
        OBVIOUS
      <3>2. PICK r : r = [at |-> "append", own |-> NoCall, todo |-> q]
        OBVIOUS
      <3>3. r.at = "append" /\ r.own = NoCall
        BY <3>2
      <3>4. Become(Run, r)
        BY <2>3, <3>1, <3>2
      <3> QED BY <3>3, <3>4
    <2>4. \E r : Moves(Run, r) /\ r.at \in {"exit", "append"} /\ (r.own # NoCall => r.own = thread[Run].own)
      <3>1. CASE Go(Run, "exit")
        BY <1>0, <3>1, GoMoves DEF Moves
      <3> QED BY <1>0, <2>2, <2>3, <3>1, BecomeMoves
    <2>5. PICK r : Moves(Run, r) /\ r.at \in {"exit", "append"} /\ (r.own # NoCall => r.own = thread[Run].own)
      BY <2>4
    <2>6. Ahead(r) = {}
      BY <2>5, IdleAnswersNothing
    <2>7. ShrinkOne(Run, r)
      BY <2>1, <2>5, <2>6 DEF ShrinkOne, HandSteps, BatchSteps
    <2> QED BY <1>0, <2>1, <2>5, <2>7, CoreShrinks
  <1>3. CASE Exit
    <2>1. /\ thread[Run].at = "exit" /\ Working(Run) /\ ~Interrupts(Run) /\ Moves(Run, Idle)
          /\ UNCHANGED <<user, groups, transcript, approvals, questions, queued, sent>> /\ stopRequested' = FALSE
      BY <1>0, <1>3, BecomeMoves DEF Exit, At, Working, Interrupts, work, session
    <2>2. PICK r : r = Idle
      OBVIOUS
    <2>3. r.at = "idle" /\ r.own = NoCall /\ Moves(Run, r)
      BY <2>1, <2>2, Anew
    <2>4. Ahead(r) = {}
      BY <2>3, IdleAnswersNothing
    <2>5. ShrinkOne(Run, r)
      BY <2>1, <2>3, <2>4 DEF ShrinkOne, HandSteps, BatchSteps
    <2> QED BY <1>0, <2>1, <2>3, <2>5, CoreShrinks
  <1> QED BY <1>1, <1>2, <1>3, CoreLoop, CoreAppendTurn DEF Conversation

\* One who goes through a batch.
LEMMA AtWork ==
    ASSUME Typed, NEW t \in Workers, thread[t].at \in BatchSteps
    PROVE  /\ t \in Threads /\ t # Job /\ Job \in Threads /\ t \in Requests \cup {Run} /\ Run \notin Requests
           /\ Working(t) /\ ~Interrupts(t)
           /\ thread[t] \in Thread /\ Sound(t, thread[t]) /\ thread[t].todo \in Seq(Calls)
  <1>1. t \in Threads /\ t # Job /\ Job \in Threads /\ t \in Requests \cup {Run} /\ Run \notin Requests
    BY ThreadsApart DEF Workers, Threads
  <1>2. Working(t) /\ ~Interrupts(t)
    BY DEF BatchSteps, Working, Interrupts, At
  <1> QED BY <1>1, <1>2 DEF Typed, TypeOK, Thread

\* Between two tools nobody is beside them, and nothing is interrupted.
LEMMA AloneInBatch ==
    ASSUME Typed, Alone, Stopping, NEW t \in Workers, thread[t].at \in {"next", "execute", "result"}
    PROVE  interrupted = {} /\ \A u \in Threads : u # t => ~Working(u)
  <1>1. thread[t].at \in BatchSteps
    BY DEF BatchSteps
  <1>2. t \in Threads /\ Working(t) /\ ~Interrupts(t) /\ Run \in Threads
    BY <1>1, AtWork, ThreadsApart
  <1>3. \A u \in Threads : u # t => ~Working(u)
    <2>1. CASE t = Run
      BY <1>2, <2>1, RunAlone
    <2>2. CASE t # Run
      BY <1>2, <2>2, Others
    <2> QED BY <2>1, <2>2
  <1>4. ~At(Run, "tool")
    BY <1>2, <1>3 DEF At, Working
  <1> QED BY <1>3, <1>4 DEF Stopping

\* A batch at its end (processToolCalls): nothing is left to answer.
LEMMA CoreDrained ==
    ASSUME Typed, Alone, Stopping, Core, NEW t \in Workers, Drained(t)
    PROVE  Core'
  <1>1. thread[t].at = "next" /\ queued' = <<>> /\ Go(t, GoingOn(t))
        /\ UNCHANGED <<user, groups, transcript, approvals, questions, stopRequested, running, interrupted, sent>>
    BY DEF Drained, At, work, flags
  <1>2. thread[t].at \in BatchSteps
    BY <1>1 DEF BatchSteps
  <1>3. /\ t \in Threads /\ t # Job /\ Job \in Threads /\ Working(t) /\ t \in Requests \cup {Run}
        /\ \A u \in Threads : u # t => ~Working(u)
    BY <1>1, <1>2, AtWork, AloneInBatch
  <1>4. PICK r : Moves(t, r) /\ r.at = GoingOn(t)
    BY <1>1, <1>3, GoMoves DEF Moves
  <1>5. r.at \in {"loop", "start"} /\ Ahead(r) = {}
    BY <1>4, IdleAnswersNothing DEF GoingOn
  <1>6. Unanswered' = Unanswered /\ Pending = {} /\ Pending' = {} /\ approvals' = {} /\ questions' = {}
    <2>1. Pending = {}
      BY <1>1 DEF Core, Asked, HandSteps, BatchSteps
    <2> QED BY <1>1, <2>1 DEF Unanswered, Pending
  <1>7. Range(queued') = {}
    BY <1>1 DEF Range
  <1>8. Proper(transcript') /\ ProviderInvariant'
    BY <1>1 DEF Core, ProviderInvariant
  <1>9. thread'[Job] = thread[Job]
    BY <1>3, <1>4 DEF Moves
  <1>10. Grouped'
    BY <1>1, <1>3, <1>9, GroupedAlong DEF Core
  <1>11. AskedOne(t, r)
    BY <1>1, <1>3, <1>5, <1>6 DEF AskedOne, HandSteps, BatchSteps
  <1>12. QueuedOne(t, r)
    BY <1>1, <1>7 DEF QueuedOne
  <1> QED BY <1>3, <1>4, <1>8, <1>10, <1>11, <1>12, CoreOfOne

\* The user is asked about the current call.
LEMMA CoreAsks ==
    ASSUME Typed, Ledger, Alone, Stopping, Core, NEW t \in Workers, At(t, "next"), thread[t].todo # <<>>,
           Go(t, "pause"),
           \/ approvals' = approvals \cup {Current(t)} /\ UNCHANGED questions
           \/ questions' = questions \cup {Current(t)} /\ UNCHANGED approvals,
           UNCHANGED <<user, work, transcript, queued, flags, sent, history, counts>>
    PROVE  Core'
  <1>1. thread[t].at = "next"
        /\ UNCHANGED <<user, groups, transcript, queued, stopRequested, running, interrupted, sent>>
    BY DEF At, work, flags
  <1>2. thread[t].at \in BatchSteps /\ thread[t].at \in HandSteps \ {"pause"}
    BY <1>1 DEF BatchSteps, HandSteps
  <1>3. /\ t \in Threads /\ t # Job /\ Job \in Threads /\ Working(t) /\ ~Interrupts(t)
        /\ t \in Requests \cup {Run} /\ thread[t].todo \in Seq(Calls) /\ Sound(t, thread[t])
        /\ interrupted = {} /\ \A u \in Threads : u # t => ~Working(u)
    BY <1>1, <1>2, AtWork, AloneInBatch
  <1>4. PICK r : Moves(t, r) /\ r.at = "pause" /\ r.own = thread[t].own /\ r.todo = thread[t].todo
    BY <1>3, GoMoves DEF Moves
  <1>5. thread[t].own = NoCall
    BY <1>1, <1>3 DEF Sound
  <1>6. PICK c : c = Current(t)
    OBVIOUS
  <1>7. c = Head(thread[t].todo)
    BY <1>5, <1>6 DEF Current
  <1>8. IsInjective(thread[t].todo)
    BY <1>3 DEF Ledger, OnePlace
  <1>9. /\ c \in Range(thread[t].todo) /\ c \notin Range(Tail(thread[t].todo))
        /\ Range(Tail(thread[t].todo)) \subseteq Range(thread[t].todo)
    BY <1>3, <1>7, <1>8, TailLeaves
  <1>10. Answering(t) = Range(thread[t].todo)
    BY <1>1, <1>3, <1>5 DEF Answering, Ahead
  <1>11. Pending = {} /\ Answering(t) \subseteq Unanswered
    BY <1>2 DEF Core, Asked
  <1>12. Unanswered' = Unanswered
    BY <1>1 DEF Unanswered
  <1>13. Pending' = {c} /\ ((approvals' = {c} /\ questions' = {}) \/ (approvals' = {} /\ questions' = {c}))
    BY <1>6, <1>11 DEF Pending
  <1>14. Ahead(r) = Range(Tail(thread[t].todo))
    BY <1>4, <1>5 DEF Ahead
  <1>15. stopRequested => t \notin Requests
    BY <1>2 DEF Core, Asked
  <1>16. t = Run => running
    BY <1>3 DEF Alone
  <1>17. AskedOne(t, r)
    <2>1. /\ \A d \in approvals' : approvals' = {d} /\ questions' = {}
          /\ \A d \in questions' : questions' = {d} /\ approvals' = {}
      BY <1>13
    <2>2. Ahead(r) \ interrupted' \subseteq Unanswered' \ Pending'
      BY <1>9, <1>10, <1>11, <1>12, <1>13, <1>14
    <2>3. Pending' \subseteq Unanswered' /\ Pending' # {}
      BY <1>9, <1>10, <1>11, <1>12, <1>13
    <2>4. ~(stopRequested' /\ t \in Requests) /\ ~(stopRequested' /\ ~running')
      BY <1>1, <1>3, <1>15, <1>16
    <2> QED BY <1>3, <1>4, <2>1, <2>2, <2>3, <2>4 DEF AskedOne
  <1>18. QueuedOne(t, r)
    <2>1. ASSUME "rewind" \notin user'
          PROVE  /\ Range(queued') \subseteq Unanswered' \ Pending'
                 /\ Range(queued') \cap (Ahead(r) \ interrupted') = {}
      <3>1. Fresh
        BY <1>1, <2>1 DEF Core, Queued, Counts
      <3>2. Range(queued) \subseteq Unanswered /\ Range(queued) \cap Answering(t) = {}
        BY <3>1 DEF Fresh
      <3> QED BY <1>1, <1>9, <1>10, <1>12, <1>13, <1>14, <3>2
    <2>2. Pending' # {} /\ r.at = "pause" /\ r.own = NoCall
      BY <1>4, <1>5, <1>13
    <2> QED BY <2>1, <2>2 DEF QueuedOne
  <1>19. thread'[Job] = thread[Job]
    BY <1>3, <1>4 DEF Moves
  <1>20. Grouped'
    BY <1>1, <1>3, <1>19, GroupedAlong DEF Core
  <1>21. Proper(transcript') /\ ProviderInvariant'
    BY <1>1 DEF Core, ProviderInvariant
  <1> QED BY <1>3, <1>4, <1>17, <1>18, <1>20, <1>21, CoreOfOne

\* A call waits for the user, and the calls behind it are queued.
LEMMA CorePrepareTool ==
    ASSUME Typed, Ledger, Alone, Stopping, Core, NEW t \in Workers, PrepareTool(t)
    PROVE  Core'
  <1>1. CASE Go(t, "pause") /\ (\/ approvals' = approvals \cup {Current(t)} /\ UNCHANGED questions
                                \/ questions' = questions \cup {Current(t)} /\ UNCHANGED approvals)
    BY <1>1, CoreAsks DEF PrepareTool
  <1>2. CASE (Go(t, "result") \/ Go(t, "execute")) /\ UNCHANGED <<approvals, questions>>
    <2>1. /\ thread[t].at = "next"
          /\ UNCHANGED <<user, groups, transcript, approvals, questions, queued, stopRequested, running, interrupted, sent>>
      BY <1>2 DEF PrepareTool, At, work, flags
    <2>2. thread[t].at \in BatchSteps /\ thread[t].at \in HandSteps
      BY <2>1 DEF BatchSteps, HandSteps
    <2>3. t \in Threads /\ Working(t) /\ ~Interrupts(t) /\ Sound(t, thread[t])
      BY <2>2, AtWork
    <2>4. PICK r : Moves(t, r) /\ r.at \in {"result", "execute"} /\ r.own = thread[t].own /\ r.todo = thread[t].todo
      BY <1>2, <2>3, GoMoves DEF Moves
    <2>5. thread[t].own = NoCall
      BY <2>1, <2>3 DEF Sound
    <2>6. Ahead(r) = Ahead(thread[t])
      BY <2>1, <2>4, <2>5 DEF Ahead
    <2>7. Ahead(r) \ interrupted' \subseteq Answering(t)
      BY <2>1, <2>3, <2>6, IdleAnswersNothing
    <2>8. ShrinkOne(t, r)
      BY <2>1, <2>2, <2>4, <2>7 DEF ShrinkOne
    <2> QED BY <2>3, <2>4, <2>8, CoreShrinks
  <1> QED BY <1>1, <1>2 DEF PrepareTool

\* Past the current call, no matter how.
LEMMA AheadAfter ==
    ASSUME Typed, Ledger, NEW t \in Workers, thread[t].at \in {"execute", "tool", "result"},
           NEW r, r.at = After(t), r.own = thread[t].own, r.todo = thread[t].todo
    PROVE  /\ Ahead(r) \subseteq Ahead(thread[t]) \ {Current(t)} /\ Current(t) \in Ahead(thread[t])
           /\ r.at \in {"take", "check"} /\ (t = Run => r.at = "check") /\ (r.at = "take" => r.own # NoCall)
  <1>1. thread[t].at \in BatchSteps
    BY DEF BatchSteps
  <1>2. /\ t \in Threads /\ Sound(t, thread[t]) /\ thread[t].todo \in Seq(Calls)
    BY <1>1, AtWork
  <1>3. IsInjective(thread[t].todo)
    BY <1>2 DEF Ledger, OnePlace
  <1>4. CASE thread[t].own # NoCall
    <2>1. Ahead(r) = {} /\ Ahead(thread[t]) = {thread[t].own} /\ Current(t) = thread[t].own /\ r.at = "take"
      BY <1>4 DEF Ahead, After, Current
    <2> QED BY <1>2, <1>4, <2>1 DEF Sound
  <1>5. CASE thread[t].own = NoCall
    <2>1. thread[t].todo # <<>>
      BY <1>2, <1>5 DEF Sound
    <2>2. /\ Ahead(r) = Range(Tail(thread[t].todo)) /\ Ahead(thread[t]) = Range(thread[t].todo)
          /\ Current(t) = Head(thread[t].todo) /\ r.at = "check"
      BY <1>5 DEF Ahead, After, Current
    <2> QED BY <1>2, <1>3, <2>1, <2>2, TailLeaves
  <1> QED BY <1>4, <1>5

\* A tool is started; a declined or stopped one has its result at once.
LEMMA CoreExecuteTool ==
    ASSUME Typed, Ledger, Alone, Stopping, Core, NEW t \in Workers, ExecuteTool(t)
    PROVE  Core'
  <1>1. /\ thread[t].at = "execute"
        /\ UNCHANGED <<user, groups, transcript, approvals, questions, queued, stopRequested, running, interrupted, sent>>
    BY DEF ExecuteTool, At, work, session
  <1>2. thread[t].at \in BatchSteps /\ thread[t].at \in HandSteps
    BY <1>1 DEF BatchSteps, HandSteps
  <1>3. t \in Threads /\ Working(t) /\ ~Interrupts(t) /\ Sound(t, thread[t])
    BY <1>2, AtWork
  <1>4. PICK step \in {After(t), "tool"} : Go(t, step)
    BY DEF ExecuteTool
  <1>5. PICK r : Moves(t, r) /\ r.at = step /\ r.own = thread[t].own /\ r.todo = thread[t].todo
    BY <1>3, <1>4, GoMoves DEF Moves
  <1>6. Ahead(r) \subseteq Ahead(thread[t]) /\ r.at \in {"tool", "take", "check"} /\ (r.at = "take" => r.own # NoCall)
    <2>1. CASE step = "tool"
      BY <1>1, <1>5, <2>1 DEF Ahead
    <2>2. CASE step = After(t)
      BY <1>1, <1>5, <2>2, AheadAfter
    <2> QED BY <1>4, <2>1, <2>2
  <1>7. Ahead(r) \ interrupted' \subseteq Answering(t)
    BY <1>1, <1>3, <1>6, IdleAnswersNothing
  <1>8. ShrinkOne(t, r)
    BY <1>1, <1>2, <1>5, <1>6, <1>7 DEF ShrinkOne
  <1> QED BY <1>3, <1>5, <1>8, CoreShrinks

\* Only the tool of the run may be interrupted.
LEMMA InterruptedOnly ==
    ASSUME Typed, Alone, Stopping, NEW t \in Workers, thread[t].at \in BatchSteps
    PROVE  interrupted # {} => t = Run /\ thread[t].at = "tool" /\ interrupted = {Current(t)}
  <1> SUFFICES ASSUME interrupted # {}
               PROVE  t = Run /\ thread[t].at = "tool" /\ interrupted = {Current(t)}
    OBVIOUS
  <1>1. At(Run, "tool") /\ interrupted = {Current(Run)}
    BY DEF Stopping
  <1>2. t \in Threads /\ Working(t) /\ ~Interrupts(t) /\ Run \in Threads
    BY AtWork, ThreadsApart
  <1>3. Working(Run) /\ ~Interrupts(Run)
    BY <1>1 DEF Working, At, Interrupts
  <1>4. t = Run
    BY <1>2, <1>3, Others
  <1> QED BY <1>1, <1>4 DEF At

\* A tool returns, and its result is in hand.
LEMMA CoreToolReturns ==
    ASSUME Typed, Ledger, Alone, Stopping, Core, NEW t \in Workers, ToolReturns(t)
    PROVE  Core'
  <1>1. /\ thread[t].at = "tool" /\ interrupted' = interrupted \ {Current(t)}
        /\ UNCHANGED <<user, groups, transcript, approvals, questions, queued, stopRequested, running, sent>>
    BY DEF ToolReturns, At, work, session
  <1>2. thread[t].at \in BatchSteps /\ thread[t].at \in HandSteps
    BY <1>1 DEF BatchSteps, HandSteps
  <1>3. t \in Threads /\ Working(t) /\ ~Interrupts(t) /\ Sound(t, thread[t])
    BY <1>2, AtWork
  <1>4. interrupted' = {} /\ (interrupted = {} \/ interrupted = {Current(t)})
    BY <1>1, <1>2, InterruptedOnly
  <1>5. PICK step : step = (IF Dropped(t) THEN After(t) ELSE "result") /\ Go(t, step)
    BY DEF ToolReturns
  <1>6. PICK r : Moves(t, r) /\ r.at = step /\ r.own = thread[t].own /\ r.todo = thread[t].todo
    BY <1>3, <1>5, GoMoves DEF Moves
  <1>7. Ahead(r) \subseteq Ahead(thread[t]) \ interrupted /\ r.at \in {"result", "take", "check"}
        /\ (r.at = "take" => r.own # NoCall)
    <2>1. CASE Dropped(t)
      BY <1>1, <1>4, <1>5, <1>6, <2>1, AheadAfter
    <2>2. CASE ~Dropped(t)
      <3>1. interrupted = {}
        BY <1>4, <2>2 DEF Dropped
      <3>2. r.at = "result"
        BY <1>5, <1>6, <2>2
      <3>3. Ahead(r) = Ahead(thread[t])
        BY <1>1, <1>6, <3>2 DEF Ahead
      <3> QED BY <3>1, <3>2, <3>3
    <2> QED BY <2>1, <2>2
  <1>8. Ahead(r) \ interrupted' \subseteq Answering(t)
    BY <1>3, <1>7, IdleAnswersNothing
  <1>9. ShrinkOne(t, r)
    BY <1>1, <1>2, <1>6, <1>7, <1>8 DEF ShrinkOne
  <1> QED BY <1>3, <1>6, <1>9, CoreShrinks

\* Between two calls of a batch.
LEMMA CoreCheckStop ==
    ASSUME Typed, Ledger, Alone, Stopping, Core, NEW t \in Workers, CheckStop(t)
    PROVE  Core'
  <1>1. /\ thread[t].at = "check"
        /\ UNCHANGED <<user, groups, transcript, approvals, questions, queued, stopRequested, running, interrupted, sent>>
    BY DEF CheckStop, At, work, session, flags
  <1>2. thread[t].at \in BatchSteps /\ thread[t].at \in HandSteps
    BY <1>1 DEF BatchSteps, HandSteps
  <1>3. t \in Threads /\ Working(t) /\ ~Interrupts(t) /\ Sound(t, thread[t]) /\ thread[t] \in Thread
    BY <1>2, AtWork
  <1>4. thread[t].own = NoCall
    BY <1>1, <1>3 DEF Sound
  <1>5. PICK r : /\ Become(t, r) /\ r.own = NoCall
                 /\ \/ r.at = "pause" /\ stopRequested /\ r.todo = thread[t].todo
                    \/ r.at = "next" /\ r.todo = Tail(thread[t].todo)
    <2>1. CASE stopRequested
      <3>1. PICK r : r = [thread[t] EXCEPT !.at = "pause"]
        OBVIOUS
      <3>2. r.at = "pause" /\ r.own = NoCall /\ r.todo = thread[t].todo
        BY <1>3, <1>4, <3>1 DEF Thread
      <3>3. Become(t, r)
        BY <2>1, <3>1 DEF CheckStop
      <3> QED BY <2>1, <3>2, <3>3
    <2>2. CASE ~stopRequested
      <3>1. PICK r : r = [thread[t] EXCEPT !.at = "next", !.todo = Tail(@)]
        OBVIOUS
      <3>2. r.at = "next" /\ r.own = NoCall /\ r.todo = Tail(thread[t].todo)
        BY <1>3, <1>4, <3>1 DEF Thread
      <3>3. Become(t, r)
        BY <2>2, <3>1 DEF CheckStop
      <3> QED BY <3>2, <3>3
    <2> QED BY <2>1, <2>2
  <1>6. Moves(t, r)
    BY <1>3, <1>5, BecomeMoves
  <1>7. Ahead(r) = Ahead(thread[t]) /\ r.at \in {"pause", "next"} /\ (r.at = "pause" => stopRequested)
    BY <1>1, <1>4, <1>5 DEF Ahead
  <1>8. Ahead(r) \ interrupted' \subseteq Answering(t)
    BY <1>1, <1>3, <1>7, IdleAnswersNothing
  <1>9. ShrinkOne(t, r)
    BY <1>1, <1>2, <1>5, <1>7, <1>8 DEF ShrinkOne
  <1> QED BY <1>3, <1>6, <1>9, CoreShrinks

\* The result of a call lands behind its turn, once (appendToolResult).
LEMMA CoreAppendResult ==
    ASSUME Typed, Ledger, Alone, Stopping, Core, NEW t \in Workers, AppendResult(t)
    PROVE  Core'
  <1>1. /\ thread[t].at = "result" /\ Go(t, After(t)) /\ transcript' = Append(transcript, Result(Current(t)))
        /\ UNCHANGED <<user, groups, approvals, questions, queued, stopRequested, running, interrupted, sent>>
    BY DEF AppendResult, At, work, flags, Say
  <1>2. thread[t].at \in BatchSteps /\ thread[t].at \in HandSteps \ {"pause"}
    BY <1>1 DEF BatchSteps, HandSteps
  <1>3. /\ t \in Threads /\ t # Job /\ Job \in Threads /\ Working(t) /\ ~Interrupts(t)
        /\ t \in Requests \cup {Run} /\ Sound(t, thread[t])
        /\ interrupted = {} /\ \A u \in Threads : u # t => ~Working(u)
    BY <1>1, <1>2, AtWork, AloneInBatch
  <1>4. PICK r : Moves(t, r) /\ r.at = After(t) /\ r.own = thread[t].own /\ r.todo = thread[t].todo
    BY <1>1, <1>3, GoMoves DEF Moves
  <1>5. PICK c : c = Current(t)
    OBVIOUS
  <1>6. /\ Ahead(r) \subseteq Ahead(thread[t]) \ {c} /\ c \in Ahead(thread[t])
        /\ r.at \in {"take", "check"} /\ (t = Run => r.at = "check") /\ (r.at = "take" => r.own # NoCall)
    BY <1>1, <1>4, <1>5, AheadAfter
  <1>7. Answering(t) = Ahead(thread[t])
    BY <1>3, IdleAnswersNothing
  <1>8. Pending = {} /\ Answering(t) \subseteq Unanswered
    BY <1>2 DEF Core, Asked
  <1>9. Pending' = {} /\ approvals' = {} /\ questions' = {}
    BY <1>1, <1>8 DEF Pending
  <1>10. Proper(transcript') /\ Unanswered' = Unanswered \ {c}
    <2>1. transcript \in Seq(Message) /\ Proper(transcript) /\ c \in Open(transcript)
      BY <1>6, <1>7, <1>8 DEF Typed, TypeOK, Core, Unanswered
    <2>2. Proper(Append(transcript, Result(c))) /\ Open(Append(transcript, Result(c))) = Open(transcript) \ {c}
      BY <2>1, SayResult
    <2> QED BY <1>1, <1>5, <2>2 DEF Unanswered
  <1>11. stopRequested => t \notin Requests
    BY <1>2 DEF Core, Asked
  <1>12. AskedOne(t, r)
    <2>1. Ahead(r) \ interrupted' \subseteq Unanswered' \ Pending'
      BY <1>6, <1>7, <1>8, <1>9, <1>10
    <2>2. ~(stopRequested' /\ t \in Requests)
      BY <1>1, <1>11
    <2> QED BY <1>3, <1>6, <1>9, <2>1, <2>2 DEF AskedOne
  <1>13. QueuedOne(t, r)
    <2>1. ASSUME Fresh
          PROVE  /\ Range(queued') \subseteq Unanswered' \ Pending'
                 /\ Range(queued') \cap (Ahead(r) \ interrupted') = {}
      BY <1>1, <1>3, <1>6, <1>7, <1>9, <1>10, <2>1 DEF Fresh, Workers
    <2>2. "rewind" \notin user' => Fresh
      BY <1>1 DEF Core, Queued, Counts
    <2>3. t \in Requests /\ r.own # NoCall => Fresh
      <3>1. t \in Requests /\ r.own # NoCall => Resolving(t)
        BY <1>2, <1>4 DEF Resolving
      <3> QED BY <3>1 DEF Core, Queued, Counts
    <2> QED BY <1>6, <1>9, <2>1, <2>2, <2>3 DEF QueuedOne
  <1>14. thread'[Job] = thread[Job]
    BY <1>3, <1>4 DEF Moves
  <1>15. Grouped'
    BY <1>1, <1>3, <1>14, GroupedAlong DEF Core
  <1>16. ProviderInvariant'
    BY <1>1 DEF Core, ProviderInvariant
  <1> QED BY <1>3, <1>4, <1>10, <1>12, <1>13, <1>15, <1>16, CoreOfOne

\* What is behind the call that paused a batch is queued.  The run may be at that
\* while a request writes the result of its tool.
LEMMA CorePause ==
    ASSUME Typed, Alone, Stopping, Core, NEW t \in Workers, Pause(t)
    PROVE  Core'
  <1>0. /\ Workers \subseteq Threads /\ Requests \subseteq Workers /\ Run \in Workers /\ Job \in Threads
        /\ Requests \subseteq Threads /\ Run \notin Requests /\ Job \notin Workers /\ Run # Job
    BY ThreadsApart DEF Workers, Threads
  <1>1. /\ thread[t].at = "pause" /\ queued' = Tail(thread[t].todo)
        /\ UNCHANGED <<user, groups, transcript, approvals, questions, stopRequested, running, interrupted, sent>>
    BY DEF Pause, At, work, flags, Behind
  <1>2. thread[t].at \in BatchSteps /\ thread[t].at \in HandSteps
    BY <1>1 DEF BatchSteps, HandSteps
  <1>3. /\ t \in Threads /\ t # Job /\ Working(t) /\ ~Interrupts(t) /\ t \in Requests \cup {Run}
        /\ Sound(t, thread[t]) /\ interrupted = {}
    BY <1>1, <1>2, AtWork, InterruptedOnly
  <1>4. PICK r : r = [Idle EXCEPT !.at = Pausing(t)]
    OBVIOUS
  <1>5. /\ r.at \in {"exit", "start"} /\ (t = Run => r.at = "exit") /\ r.own = NoCall
        /\ Ahead(r) = {} /\ Moves(t, r)
    <2>1. r.at = Pausing(t) /\ r.own = NoCall
      BY <1>4, Anew
    <2>2. r.at \in {"exit", "start"} /\ (t = Run => r.at = "exit")
      BY <2>1 DEF Pausing
    <2>3. Become(t, r)
      BY <1>4 DEF Pause
    <2> QED BY <1>3, <2>1, <2>2, <2>3, BecomeMoves, IdleAnswersNothing
  <1>6. \A u \in Threads : thread'[u] = IF u = t THEN r ELSE thread[u]
    BY <1>5 DEF Moves
  <1>7. \A u \in Threads : u # t /\ Working(u) => t = Run /\ u \in Requests /\ Interrupts(u)
    BY <1>3, Others
  <1>8. Unanswered' = Unanswered /\ Pending' = Pending
    BY <1>1 DEF Unanswered, Pending
  <1>9. Answering(t) = Range(Tail(thread[t].todo))
    <2>1. thread[t].own = NoCall
      BY <1>1, <1>3 DEF Sound
    <2>2. Ahead(thread[t]) = Range(Tail(thread[t].todo))
      BY <1>1, <2>1 DEF Ahead
    <2> QED BY <1>3, <2>2, IdleAnswersNothing
  <1>10. Answering(t)' = {} /\ ~Interrupts(t)'
    BY <1>3, <1>5, <1>6 DEF Answering, Interrupts, At
  <1>11. \A u \in Threads : u # t => (Interrupts(u)' <=> Interrupts(u)) /\ Answering(u)' = Answering(u)
    BY <1>1, <1>6 DEF Interrupts, At, Answering
  <1>12. \A u \in Workers : Answering(u)' \subseteq Answering(u)
    BY <1>0, <1>10, <1>11
  <1>13. \A u \in Threads : thread'[u].at \notin HandSteps
    <2>1. ASSUME NEW u \in Threads, u # t PROVE thread'[u].at \in {"idle", "interrupt"}
      BY <1>6, <1>7, <2>1 DEF Working, Interrupts, At
    <2>2. thread'[t].at \in {"exit", "start"}
      BY <1>3, <1>5, <1>6
    <2> QED BY <2>1, <2>2 DEF HandSteps, BatchSteps
  <1>14. Asked'
    <2>1. \A u \in Workers : Answering(u)' \subseteq Unanswered' \ Pending'
      BY <1>8, <1>12 DEF Core, Asked
    <2>2. ASSUME NEW h \in Requests, Interrupts(h)' PROVE thread'[h].own \notin Answering(Run)'
      <3>1. h # t /\ Interrupts(h) /\ thread'[h] = thread[h]
        BY <1>0, <1>6, <1>10, <1>11, <2>2
      <3> QED BY <1>0, <1>12, <3>1 DEF Core, Asked
    <2>3. thread'[Run].at \notin {"begin", "stream", "append"}
      <3>1. CASE t = Run
        BY <1>0, <1>5, <1>6, <3>1
      <3>2. CASE t # Run
        BY <1>0, <1>6, <1>7, <3>2 DEF Working
      <3> QED BY <3>1, <3>2
    <2>4. \A h \in Requests : ~At(h, "send")' /\ ~At(h, "take")'
      BY <1>0, <1>5, <1>6, <1>7 DEF At, Working, Interrupts
    <2>5. \A u \in Workers : ~At(u, "pause")' /\ thread'[u].at \notin HandSteps \ {"pause"}
      BY <1>0, <1>13 DEF At, HandSteps, BatchSteps
    <2>6. /\ \A c \in approvals' : approvals' = {c} /\ questions' = {}
          /\ \A c \in questions' : questions' = {c} /\ approvals' = {}
          /\ Pending' \subseteq Unanswered'
          /\ (stopRequested' /\ ~running' => Pending' = {})
      BY <1>1, <1>8 DEF Core, Asked
    <2> QED BY <1>0, <1>13, <2>1, <2>2, <2>3, <2>4, <2>5, <2>6 DEF Asked
  <1>15. Fresh'
    <2>1. Range(queued') = Answering(t)
      BY <1>1, <1>9
    <2>2. Answering(t) \subseteq Unanswered \ Pending
      BY DEF Core, Asked
    <2>3. ASSUME NEW u \in Workers, u # t PROVE Answering(t) \cap Answering(u) = {}
      <3>1. CASE Working(u)
        <4>1. t = Run /\ u \in Requests /\ Interrupts(u)
          BY <1>0, <1>7, <2>3, <3>1
        <4>2. thread[u].own \notin Answering(Run)
          BY <4>1 DEF Core, Asked
        <4>3. Answering(u) \subseteq {thread[u].own}
          <5>1. thread[u].own # NoCall /\ thread[u].at = "interrupt"
            BY <1>0, <4>1 DEF Typed, Sound, Interrupts, At
          <5> QED BY <5>1 DEF Answering, Ahead
        <4> QED BY <4>1, <4>2, <4>3
      <3>2. CASE ~Working(u)
        BY <3>2, IdleAnswersNothing
      <3> QED BY <3>1, <3>2
    <2>4. \A u \in Workers : Range(queued') \cap Answering(u)' = {}
      BY <1>0, <1>10, <1>11, <2>1, <2>3
    <2> QED BY <1>8, <2>1, <2>2, <2>4 DEF Fresh
  <1>16. Queued'
    <2>1. ~At(Run, "loop")'
      <3>1. CASE t = Run
        BY <1>0, <1>5, <1>6, <3>1 DEF At
      <3>2. CASE t # Run
        BY <1>0, <1>6, <1>7, <3>2 DEF Working, At
      <3> QED BY <3>1, <3>2
    <2>2. ASSUME Pending' = {}, NEW u \in Requests \cup {Job}, At(u, "start")' PROVE FALSE
      <3>1. u = t
        BY <1>0, <1>6, <1>7, <2>2 DEF At, Working, Interrupts
      <3>2. t \in Requests
        BY <1>0, <2>2, <3>1
      <3>3. stopRequested
        BY <1>0, <1>1, <1>8, <2>2 DEF Core, Asked, At
      <3> QED BY <1>2, <3>2, <3>3 DEF Core, Asked
    <2> QED BY <1>15, <2>1, <2>2 DEF Queued
  <1>17. thread'[Job] = thread[Job]
    BY <1>0, <1>3, <1>6
  <1>18. Grouped'
    BY <1>1, <1>3, <1>17, GroupedAlong DEF Core
  <1>19. Proper(transcript') /\ ProviderInvariant'
    BY <1>1 DEF Core, ProviderInvariant
  <1> QED BY <1>14, <1>16, <1>18, <1>19 DEF Core

\* A batch.
LEMMA CoreBatch ==
    ASSUME Typed, Ledger, Alone, Stopping, Core, NEW t \in Workers, Batch(t)
    PROVE  Core'
  BY CoreDrained, CorePrepareTool, CoreExecuteTool, CoreToolReturns, CoreAppendResult, CoreCheckStop,
     CorePause DEF Batch

\* There is nothing in the empty sequence.
LEMMA NothingIn ==
    ASSUME NEW S, NEW s \in Seq(S), Range(s) = {}
    PROVE  s = <<>>
  <1>1. Len(s) \in Nat /\ DOMAIN s = 1 .. Len(s)
    OBVIOUS
  <1>2. \A i \in 1 .. Len(s) : FALSE
    BY <1>1 DEF Range
  <1>3. 1 \notin 1 .. Len(s)
    BY <1>2
  <1>4. Len(s) = 0
    BY <1>1, <1>3
  <1> QED BY <1>4

\* Where no group is afoot and no workflow is on, none has to wait.
LEMMA GroupedNone ==
    ASSUME Grouped, UNCHANGED <<user, groups>>, \A c \in Calls : ~Afoot(c), thread'[Job].at = "idle"
    PROVE  Grouped'
  <1>1. \A c \in Calls : ~Afoot(c)'
    BY DEF Afoot
  <1>2. ~Working(Job)'
    BY DEF Working
  <1> QED BY <1>1, <1>2 DEF Grouped, At

\* The user speaks when nothing is open.
LEMMA CoreSpeaks ==
    ASSUME Typed, Core, NEW h \in Requests, \A u \in Threads : u # h => ~Working(u),
           Unanswered = {}, Become(h, [Idle EXCEPT !.at = "start"]), transcript' = Append(transcript, User),
           UNCHANGED <<user, groups, approvals, questions, queued, sent>>
    PROVE  Core'
  <1>0. h \in Threads /\ h # Run /\ h # Job /\ Job \in Threads
    BY ThreadsApart
  <1>1. PICK r : r = [Idle EXCEPT !.at = "start"]
    OBVIOUS
  <1>2. r.at = "start" /\ r.own = NoCall /\ Ahead(r) = {}
    <2>1. r.at = "start" /\ r.own = NoCall
      BY <1>1, Anew
    <2> QED BY <2>1, IdleAnswersNothing
  <1>3. Moves(h, r)
    BY <1>0, <1>1, BecomeMoves
  <1>4. Proper(transcript') /\ Unanswered' = {}
    <2>1. PICK m : m = User
      OBVIOUS
    <2>2. m \in Message /\ m.role = "user" /\ m.calls = <<>>
      BY <2>1, Messages DEF User
    <2>3. IsInjective(m.calls) /\ Range(m.calls) = {}
      BY <2>2 DEF IsInjective, Range
    <2>4. transcript \in Seq(Message) /\ Proper(transcript) /\ Open(transcript) = {}
      BY DEF Typed, TypeOK, Core, Unanswered
    <2>5. Proper(Append(transcript, m)) /\ Open(Append(transcript, m)) = Range(m.calls)
      BY <2>2, <2>3, <2>4, SayFirst
    <2> QED BY <2>1, <2>3, <2>5 DEF Unanswered
  <1>5. Pending = {} /\ Pending' = {} /\ approvals' = {} /\ questions' = {}
    <2>1. Pending = {}
      BY DEF Core, Asked
    <2> QED BY <2>1 DEF Pending
  <1>6. "rewind" \notin user => queued = <<>>
    <2> SUFFICES ASSUME "rewind" \notin user PROVE queued = <<>>
      OBVIOUS
    <2>1. Range(queued) = {}
      BY DEF Core, Queued, Counts, Fresh
    <2> QED BY <2>1, NothingIn DEF Typed, TypeOK
  <1>7. Grouped'
    <2>1. \A c \in Calls : ~Afoot(c)
      BY DEF Core, Grouped
    <2>2. thread'[Job].at = "idle"
      BY <1>0, <1>3 DEF Moves, Working
    <2> QED BY <2>1, <2>2, GroupedNone DEF Core
  <1>8. AskedOne(h, r)
    BY <1>0, <1>2, <1>4, <1>5 DEF AskedOne, HandSteps, BatchSteps
  <1>9. QueuedOne(h, r)
    <2>1. Range(<<>>) = {}
      BY DEF Range
    <2> QED BY <1>2, <1>5, <1>6, <2>1 DEF QueuedOne
  <1>10. ProviderInvariant'
    BY DEF Core, ProviderInvariant
  <1> QED BY <1>0, <1>3, <1>4, <1>7, <1>8, <1>9, <1>10, CoreOfOne

\* What was cut is said again.
LEMMA CoreResend ==
    ASSUME Typed, Alone, Core, NEW h \in Requests, Resend(h)
    PROVE  Core'
  <1>1. At(h, "send") /\ UNCHANGED <<user, groups, approvals, questions, queued, sent>>
    BY DEF Resend, work
  <1>2. h \in Threads /\ h # Run /\ Run \in Threads /\ Working(h) /\ ~Interrupts(h)
    BY <1>1, ThreadsApart DEF Working, Interrupts, At
  <1>3. \A u \in Threads : u # h => ~Working(u)
    BY <1>2, Others
  <1>4. ~running
    BY <1>2, <1>3 DEF Alone
  <1>5. transcript' = Append(transcript, User) /\ Become(h, [Idle EXCEPT !.at = "start"])
    BY <1>4 DEF Resend, Sent, Say
  <1>6. Unanswered = {}
    BY <1>1 DEF Core, Asked
  <1> QED BY <1>1, <1>3, <1>5, <1>6, CoreSpeaks

\* A handler takes what is queued behind the call it resolved.
LEMMA CoreTakeQueued ==
    ASSUME Typed, Alone, Core, NEW h \in Requests, TakeQueued(h)
    PROVE  Core'
  <1>1. /\ At(h, "take") /\ queued' = <<>> /\ Become(h, [at |-> "next", todo |-> queued, own |-> NoCall])
        /\ UNCHANGED <<user, groups, transcript, approvals, questions, stopRequested, running, interrupted, sent>>
    BY DEF TakeQueued, work, flags
  <1>2. /\ h \in Threads /\ h # Run /\ h # Job /\ Job \in Threads /\ h \in Workers
        /\ Working(h) /\ ~Interrupts(h) /\ thread[h].at \in HandSteps \ {"pause"}
    BY <1>1, ThreadsApart DEF Working, Interrupts, At, HandSteps, Workers
  <1>3. \A u \in Threads : u # h => ~Working(u)
    BY <1>2, Others
  <1>4. PICK r : r = [at |-> "next", todo |-> queued, own |-> NoCall]
    OBVIOUS
  <1>5. r.at = "next" /\ r.own = NoCall /\ Ahead(r) = Range(queued) /\ Moves(h, r)
    <2>1. r.at = "next" /\ r.own = NoCall /\ r.todo = queued
      BY <1>4
    <2>2. Become(h, r)
      BY <1>1, <1>4
    <2> QED BY <1>2, <2>1, <2>2, BecomeMoves DEF Ahead
  <1>6. Pending = {} /\ Pending' = {} /\ approvals' = {} /\ questions' = {} /\ Unanswered' = Unanswered
    <2>1. Pending = {}
      BY <1>2 DEF Core, Asked
    <2> QED BY <1>1, <2>1 DEF Pending, Unanswered
  <1>7. Range(queued) \subseteq Unanswered
    <2>1. Resolving(h)
      BY <1>1, <1>2 DEF Core, Asked, Resolving
    <2>2. Fresh
      BY <2>1 DEF Core, Queued, Counts
    <2> QED BY <2>2 DEF Fresh
  <1>8. ~stopRequested
    BY <1>2 DEF Core, Asked
  <1>9. AskedOne(h, r)
    BY <1>1, <1>2, <1>5, <1>6, <1>7, <1>8 DEF AskedOne
  <1>10. QueuedOne(h, r)
    <2>1. Range(queued') = {}
      BY <1>1 DEF Range
    <2> QED BY <1>1, <2>1 DEF QueuedOne
  <1>11. Grouped'
    <2>1. thread'[Job] = thread[Job]
      BY <1>2, <1>5 DEF Moves
    <2> QED BY <1>1, <1>2, <2>1, GroupedAlong DEF Core
  <1>12. Proper(transcript') /\ ProviderInvariant'
    BY <1>1 DEF Core, ProviderInvariant
  <1> QED BY <1>2, <1>3, <1>5, <1>9, <1>10, <1>11, <1>12, CoreOfOne

\* The run begins, when a request or a workflow is through.
LEMMA CoreStartRun ==
    ASSUME Typed, Alone, Core, NEW t \in Requests \cup {Job}, StartRun(t)
    PROVE  Core'
  <1>0. t \in Threads /\ t # Run /\ Run \in Threads /\ Run \in Workers /\ Job \in Threads /\ Job # Run /\ Run \notin Requests
    BY ThreadsApart DEF Workers
  <1>1. /\ thread[t].at = "start" /\ \A u \in Threads : u # t => ~Working(u)
        /\ stopRequested' = FALSE
        /\ \A u \in Threads : thread'[u] = IF u = Run THEN [Idle EXCEPT !.at = "loop"]
                                           ELSE IF u = t THEN Idle ELSE thread[u]
    BY StartsAlone
  <1>2. UNCHANGED <<user, groups, transcript, approvals, questions, queued, sent, interrupted>>
    BY DEF StartRun, work, session
  <1>3. PICK r : r = [Idle EXCEPT !.at = "loop"]
    OBVIOUS
  <1>4. r.at = "loop" /\ r.own = NoCall /\ Ahead(r) = {} /\ thread'[Run] = r
    <2>1. r.at = "loop" /\ r.own = NoCall
      BY <1>3, Anew
    <2>2. thread'[Run] = r
      BY <1>0, <1>1, <1>3
    <2> QED BY <2>1, <2>2, IdleAnswersNothing
  <1>5. \A u \in Threads : u # Run => thread'[u].at = "idle"
    BY <1>0, <1>1, Anew DEF Working
  <1>6. Unanswered' = Unanswered /\ Pending' = Pending
    BY <1>2 DEF Unanswered, Pending
  <1>7. Proper(transcript') /\ ProviderInvariant'
    BY <1>2 DEF Core, ProviderInvariant
  <1>8. AskedOne(Run, r)
    <2>1. /\ \A c \in approvals : approvals = {c} /\ questions = {}
          /\ \A c \in questions : questions = {c} /\ approvals = {}
          /\ Pending \subseteq Unanswered
      BY DEF Core, Asked
    <2> QED BY <1>0, <1>1, <1>2, <1>4, <1>6, <2>1 DEF AskedOne, HandSteps, BatchSteps
  <1>9. QueuedOne(Run, r)
    <2>1. ASSUME "rewind" \notin user' \/ Pending' # {}
          PROVE  Range(queued') \subseteq Unanswered' \ Pending'
      <3>1. \A u \in Workers : ~At(u, "pause")
        BY <1>1 DEF At, Working, Workers, Threads
      <3>2. Fresh
        BY <1>2, <1>6, <2>1, <3>1 DEF Core, Queued, Counts
      <3> QED BY <1>2, <1>6, <3>2 DEF Fresh
    <2>2. "rewind" \notin user' /\ Pending' = {} => queued' = <<>>
      BY <1>1, <1>2, <1>6 DEF Core, Queued, At
    <2> QED BY <1>0, <1>4, <2>1, <2>2 DEF QueuedOne
  <1>10. Grouped'
    <2>1. \A c \in Calls : ~Afoot(c)
      <3> SUFFICES ASSUME NEW c \in Calls, Afoot(c) PROVE FALSE
        OBVIOUS
      <3>1. \A u \in Workers : ~Working(u)
        BY DEF Core, Grouped
      <3>2. t = Job /\ Unanswered = {c}
        BY <1>1, <3>1 DEF Working, Workers, Core, Grouped
      <3>3. Unanswered = {}
        BY <1>1, <3>2 DEF Core, Grouped
      <3> QED BY <3>2, <3>3
    <2> QED BY <1>0, <1>2, <1>5, <2>1, GroupedNone DEF Core
  <1> QED BY <1>0, <1>4, <1>5, <1>7, <1>8, <1>9, <1>10, CoreOfLone

\* A stop writes the result of the tool it interrupts (interruptRunningTool), and the
\* run does not write it again.
LEMMA CoreInterruptTool ==
    ASSUME Typed, Alone, Core, NEW h \in Requests, InterruptTool(h)
    PROVE  Core'
  <1>0. /\ h \in Threads /\ h # Run /\ h # Job /\ h \in Workers /\ Job \in Threads /\ Job # Run /\ Run \in Workers
        /\ Requests \subseteq Workers /\ Workers \subseteq Threads /\ Job \notin Workers
    BY ThreadsApart DEF Workers, Threads
  <1>1. PICK c : c = thread[h].own
    OBVIOUS
  <1>2. /\ Interrupts(h) /\ transcript' = Append(transcript, Result(c)) /\ Become(h, Idle)
        /\ UNCHANGED <<user, groups, approvals, questions, queued, stopRequested, running, interrupted, sent>>
    BY <1>1 DEF InterruptTool, Interrupts, Say, work, flags
  <1>3. Working(h) /\ thread[h].at = "interrupt" /\ c # NoCall
    BY <1>0, <1>1, <1>2 DEF Interrupts, At, Working, Typed, Sound
  <1>4. \A u \in Threads : thread'[u] = IF u = h THEN Idle ELSE thread[u]
    BY <1>0, <1>2, BecomeMoves DEF Moves
  <1>5. Answering(h) = {c}
    BY <1>1, <1>2, <1>3 DEF Answering, Ahead
  <1>6. \A u \in Threads : u # h /\ Working(u) => u = Run
    BY <1>0, <1>3 DEF Alone, Beside
  <1>7. c \in Unanswered /\ c \notin Pending /\ c \notin Answering(Run)
    BY <1>0, <1>1, <1>2, <1>5 DEF Core, Asked
  <1>8. Proper(transcript') /\ Unanswered' = Unanswered \ {c}
    <2>1. transcript \in Seq(Message) /\ Proper(transcript) /\ c \in Open(transcript)
      BY <1>7 DEF Typed, TypeOK, Core, Unanswered
    <2>2. Proper(Append(transcript, Result(c))) /\ Open(Append(transcript, Result(c))) = Open(transcript) \ {c}
      BY <2>1, SayResult
    <2> QED BY <1>2, <2>2 DEF Unanswered
  <1>9. Pending' = Pending
    BY <1>2 DEF Pending
  <1>10. Answering(h)' = {} /\ ~Interrupts(h)'
    <2>1. thread'[h].at = "idle"
      BY <1>0, <1>4, Anew
    <2>2. ~Interrupts(h)' /\ Ahead(thread'[h]) = {}
      BY <2>1, IdleAnswersNothing DEF Interrupts, At
    <2> QED BY <2>2 DEF Answering
  <1>11. \A u \in Threads : u # h => (Interrupts(u)' <=> Interrupts(u)) /\ Answering(u)' = Answering(u)
    BY <1>2, <1>4 DEF Interrupts, At, Answering
  <1>12. \A u \in Workers : u # h => c \notin Answering(u)
    BY <1>0, <1>6, <1>7, IdleAnswersNothing
  <1>13. \A g \in Requests : ~Interrupts(g)' /\ thread'[g].at = "idle"
    <2>1. ASSUME NEW g \in Requests PROVE thread'[g].at = "idle"
      <3>1. CASE g = h
        BY <1>0, <1>4, <3>1, Anew
      <3>2. CASE g # h
        <4>1. g \in Threads /\ g # Run
          BY ThreadsApart
        <4> QED BY <1>4, <1>6, <3>2, <4>1 DEF Working
      <3> QED BY <3>1, <3>2
    <2> QED BY <2>1 DEF Interrupts, At
  <1>14. Asked'
    <2>1. \A u \in Workers : Answering(u)' \subseteq Unanswered' \ Pending'
      BY <1>0, <1>8, <1>9, <1>10, <1>11, <1>12 DEF Core, Asked
    <2>2. \A u \in Workers : thread'[u].at \in HandSteps \ {"pause"} => Pending' = {}
      BY <1>0, <1>4, <1>9, Anew DEF Core, Asked, HandSteps, BatchSteps
    <2>3. \A u \in Workers : At(u, "pause")' => Pending' # {} \/ stopRequested'
      BY <1>0, <1>2, <1>4, <1>9, Anew DEF Core, Asked, At
    <2>4. thread'[Run].at \notin {"begin", "stream", "append"}
      BY <1>0, <1>4, <1>7 DEF Core, Asked
    <2>5. \A g \in Requests : ~At(g, "send")' /\ ~At(g, "take")' /\ thread'[g].at \notin HandSteps
      BY <1>13 DEF At, HandSteps, BatchSteps
    <2>6. Pending' \subseteq Unanswered'
      BY <1>7, <1>8, <1>9 DEF Core, Asked
    <2>7. /\ \A d \in approvals' : approvals' = {d} /\ questions' = {}
          /\ \A d \in questions' : questions' = {d} /\ approvals' = {}
          /\ (stopRequested' /\ ~running' => Pending' = {})
      BY <1>2, <1>9 DEF Core, Asked
    <2> QED BY <1>13, <2>1, <2>2, <2>3, <2>4, <2>5, <2>6, <2>7 DEF Asked
  <1>15. Queued'
    <2>1. Fresh => Fresh'
      <3> SUFFICES ASSUME Fresh PROVE Fresh'
        OBVIOUS
      <3>1. c \notin Range(queued)
        BY <1>0, <1>5 DEF Fresh
      <3>2. \A u \in Workers : Answering(u)' \subseteq Answering(u)
        BY <1>0, <1>10, <1>11
      <3> QED BY <1>2, <1>8, <1>9, <3>1, <3>2 DEF Fresh
    <2>2. Counts' => Counts
      <3>1. \A g \in Requests : ~Resolving(g)'
        BY <1>13 DEF Resolving, HandSteps, BatchSteps
      <3>2. ASSUME \A u \in Workers : ~At(u, "pause")', NEW u \in Workers PROVE ~At(u, "pause")
        BY <1>0, <1>3, <1>4, <3>2 DEF At
      <3> QED BY <1>2, <1>9, <3>1, <3>2 DEF Counts
    <2>3. At(Run, "loop")' => At(Run, "loop")
      BY <1>0, <1>4 DEF At
    <2>4. \A u \in Requests \cup {Job} : At(u, "start")' => At(u, "start")
      BY <1>0, <1>4, Anew DEF At
    <2> QED BY <1>2, <1>9, <2>1, <2>2, <2>3, <2>4 DEF Core, Queued
  <1>16. Grouped'
    <2>1. thread'[Job] = thread[Job]
      BY <1>0, <1>4
    <2> QED BY <1>0, <1>2, <1>3, <2>1, GroupedAlong DEF Core
  <1>17. ProviderInvariant'
    BY <1>2 DEF Core, ProviderInvariant
  <1> QED BY <1>8, <1>14, <1>15, <1>16, <1>17 DEF Core

\* A handler at work.
LEMMA CoreServe ==
    ASSUME Typed, Alone, Core, NEW h \in Requests, Serve(h)
    PROVE  Core'
  BY CoreResend, CoreTakeQueued, CoreStartRun, CoreInterruptTool DEF Serve

\* A workflow at work is alone: nothing is queued, and nobody is asked.
LEMMA JobAtWork ==
    ASSUME Typed, Alone, Core, Working(Job)
    PROVE  /\ \A u \in Threads : u # Job => ~Working(u)
           /\ Pending = {} /\ queued = <<>> /\ "rewind" \notin user
           /\ Job \in Threads /\ Job \notin Workers /\ thread[Job] \in Thread /\ Sound(Job, thread[Job])
  <1>0. /\ Job \in Threads /\ Job \notin Workers /\ Job # Run /\ thread[Job] \in Thread /\ Sound(Job, thread[Job])
    BY ThreadsApart DEF Workers, Typed, TypeOK
  <1>1. thread[Job].at \in {"launch", "group", "broken", "deliver", "round", "start"}
    BY <1>0, ThreadsApart DEF Alone, StepsOf, Working
  <1>2. \A u \in Threads : u # Job => ~Working(u)
    BY <1>0, <1>1, Others DEF Interrupts, At
  <1>3. "rewind" \notin user
    BY DEF Core, Grouped
  <1>4. Pending = {} /\ queued = <<>>
    <2>1. CASE thread[Job].at \in {"launch", "group", "broken", "deliver"}
      <3>1. thread[Job].own \in Calls
        BY <1>0, <2>1 DEF Sound, Thread
      <3>2. Afoot(thread[Job].own)
        BY <2>1, <3>1 DEF Core, Grouped, Afoot, At
      <3> QED BY <3>1, <3>2 DEF Core, Grouped
    <2>2. CASE thread[Job].at \in {"round", "start"}
      <3>1. Unanswered = {}
        BY <2>2 DEF Core, Grouped
      <3>2. Pending = {} /\ Range(queued) = {}
        BY <1>3, <3>1 DEF Core, Asked, Queued, Counts, Fresh
      <3> QED BY <3>2, NothingIn DEF Typed, TypeOK
    <2> QED BY <1>1, <2>1, <2>2
  <1> QED BY <1>0, <1>2, <1>3, <1>4

\* It goes on, and leaves things so.
LEMMA JobGoesOn ==
    ASSUME NEW r, Moves(Job, r), \A u \in Threads : u # Job => ~Working(u),
           r.at \in {"idle", "launch", "group", "broken", "deliver", "round", "start"},
           Pending' = {}, queued' = <<>>, Proper(transcript'), ProviderInvariant', Grouped'
    PROVE  Core'
  <1>0. Job \in Threads /\ Job # Run /\ Job \notin Requests
    BY ThreadsApart
  <1>1. Ahead(r) = {}
    BY IdleAnswersNothing
  <1>2. approvals' = {} /\ questions' = {}
    BY DEF Pending
  <1>3. Range(queued') = {}
    BY DEF Range
  <1>4. AskedOne(Job, r)
    BY <1>0, <1>1, <1>2 DEF AskedOne, HandSteps, BatchSteps
  <1>5. QueuedOne(Job, r)
    BY <1>3 DEF QueuedOne
  <1> QED BY <1>0, <1>4, <1>5, CoreOfOne

\* A group that is begun or goes on.
LEMMA CoreLaunch ==
    ASSUME Typed, Alone, Core, Launch
    PROVE  Core'
  <1>1. /\ thread[Job].at = "launch" /\ Go(Job, "group")
        /\ UNCHANGED <<user, groups, transcript, approvals, questions, queued, sent>>
    BY DEF Launch, At, work, session
  <1>2. /\ Job \in Threads /\ Job \notin Workers /\ \A u \in Threads : u # Job => ~Working(u)
        /\ Pending = {} /\ queued = <<>> /\ "rewind" \notin user
    BY <1>1, JobAtWork DEF Working
  <1>3. PICK r : Moves(Job, r) /\ r.at = "group" /\ r.own = thread[Job].own
    BY <1>1, <1>2, GoMoves DEF Moves
  <1>4. Pending' = {} /\ Unanswered' = Unanswered
    BY <1>1, <1>2 DEF Pending, Unanswered
  <1>5. Proper(transcript') /\ ProviderInvariant'
    BY <1>1 DEF Core, ProviderInvariant
  <1>6. Grouped'
    <2>1. groups'[thread'[Job].own] = "open" /\ thread'[Job].at = "group"
      BY <1>1, <1>3 DEF Moves, Core, Grouped
    <2>2. \A u \in Workers : ~Working(u)'
      BY <1>2, <1>3, ThreadsApart DEF Moves, Workers, Working
    <2>3. \A c \in Calls : Afoot(c)' => Afoot(c)
      BY <1>1 DEF Afoot
    <2> QED BY <1>1, <1>2, <1>4, <2>1, <2>2, <2>3 DEF Core, Grouped, At
  <1> QED BY <1>1, <1>2, <1>3, <1>4, <1>5, <1>6, JobGoesOn

\* A group ends with all its tasks,
LEMMA CoreGroupEnds ==
    ASSUME Typed, Alone, Core, GroupEnds
    PROVE  Core'
  <1>0. PICK c : c = Current(Job)
    OBVIOUS
  <1>1. /\ thread[Job].at = "group" /\ Go(Job, "deliver") /\ groups' = [groups EXCEPT ![c] = "done"]
        /\ UNCHANGED <<user, transcript, approvals, questions, queued, sent>>
    BY <1>0 DEF GroupEnds, At, session
  <1>2. /\ Job \in Threads /\ Job \notin Workers /\ \A u \in Threads : u # Job => ~Working(u)
        /\ Pending = {} /\ queued = <<>> /\ "rewind" \notin user
        /\ thread[Job] \in Thread /\ Sound(Job, thread[Job])
    BY <1>1, JobAtWork DEF Working
  <1>3. PICK r : Moves(Job, r) /\ r.at = "deliver" /\ r.own = thread[Job].own
    BY <1>1, <1>2, GoMoves DEF Moves
  <1>4. c = thread[Job].own /\ c \in Calls
    BY <1>0, <1>1, <1>2 DEF Sound, Thread, Current
  <1>5. \A d \in Calls : groups'[d] = IF d = c THEN "done" ELSE groups[d]
    BY <1>1, <1>4 DEF Typed, TypeOK
  <1>6. Pending' = {} /\ Unanswered' = Unanswered
    BY <1>1, <1>2 DEF Pending, Unanswered
  <1>7. Proper(transcript') /\ ProviderInvariant'
    BY <1>1 DEF Core, ProviderInvariant
  <1>8. Grouped'
    <2>1. groups'[thread'[Job].own] = "done" /\ thread'[Job].at = "deliver"
      BY <1>3, <1>4, <1>5 DEF Moves
    <2>2. \A u \in Workers : ~Working(u)'
      BY <1>2, <1>3, ThreadsApart DEF Moves, Workers, Working
    <2>3. Afoot(c)
      BY <1>1, <1>4 DEF Core, Grouped, Afoot
    <2>4. \A d \in Calls : Afoot(d)' => Afoot(d)
      BY <1>5, <2>3 DEF Afoot
    <2> QED BY <1>1, <1>2, <1>6, <2>1, <2>2, <2>4 DEF Core, Grouped, At
  <1> QED BY <1>1, <1>2, <1>3, <1>6, <1>7, <1>8, JobGoesOn

\* or is broken off,
LEMMA CoreGroupInterrupted ==
    ASSUME \A u \in Users : Polite(u), Typed, Alone, Stopping, Core, GroupInterrupted
    PROVE  Core'
  <1>1. /\ thread[Job].at = "broken"
        /\ UNCHANGED <<user, groups, transcript, approvals, questions, queued, sent>>
    BY DEF GroupInterrupted, At, work, session
  <1>2. /\ Job \in Threads /\ Job \notin Workers /\ \A u \in Threads : u # Job => ~Working(u)
        /\ Pending = {} /\ queued = <<>> /\ "rewind" \notin user
    BY <1>1, JobAtWork DEF Working
  <1>3. rounds <= 1
    <2>1. "stop" \in user
      BY <1>1 DEF Stopping, At
    <2>2. "rounds" \notin user
      BY <2>1, PoliteUser DEF Polite
    <2> QED BY <2>2 DEF Stopping
  <1>4. PICK r : r = Idle
    OBVIOUS
  <1>5. r.at = "idle" /\ Moves(Job, r)
    <2>1. Become(Job, Idle)
      BY <1>3 DEF GroupInterrupted
    <2> QED BY <1>2, <1>4, <2>1, BecomeMoves, Anew
  <1>6. Pending' = {} /\ Unanswered' = Unanswered
    BY <1>1, <1>2 DEF Pending, Unanswered
  <1>7. Proper(transcript') /\ ProviderInvariant'
    BY <1>1 DEF Core, ProviderInvariant
  <1>8. Grouped'
    <2>1. thread'[Job].at = "idle"
      BY <1>5 DEF Moves
    <2>2. \A u \in Workers : ~Working(u)'
      BY <1>2, <1>5, ThreadsApart DEF Moves, Workers, Working
    <2>3. \A c \in Calls : Afoot(c)' => Afoot(c)
      BY <1>1 DEF Afoot
    <2> QED BY <1>1, <1>2, <1>6, <2>1, <2>2, <2>3 DEF Core, Grouped, At
  <1> QED BY <1>1, <1>2, <1>5, <1>6, <1>7, <1>8, JobGoesOn

\* An open call is one that was said.
LEMMA OpenIsSaid ==
    ASSUME NEW s \in Seq(Message), NEW c \in Open(s)
    PROVE  Said(c, s)
  <1>1. TurnsIn(s) # {} /\ LastTurn(s) \in TurnsIn(s) /\ c \in Range(s[LastTurn(s)].calls)
    BY LastTurnIsTurn DEF Open
  <1> QED BY <1>1 DEF Said, TurnsIn

\* and its result is the call's.
LEMMA CoreDeliver ==
    ASSUME Typed, Alone, Core, Deliver
    PROVE  Core'
  <1>0. PICK c : c = Current(Job)
    OBVIOUS
  <1>1. /\ thread[Job].at = "deliver" /\ transcript' = Append(transcript, Result(c))
        /\ Become(Job, [Idle EXCEPT !.at = "round"])
        /\ UNCHANGED <<user, approvals, questions, queued, sent>>
    BY <1>0 DEF Deliver, At, Say
  <1>2. /\ Job \in Threads /\ Job \notin Workers /\ \A u \in Threads : u # Job => ~Working(u)
        /\ Pending = {} /\ queued = <<>> /\ "rewind" \notin user
        /\ thread[Job] \in Thread /\ Sound(Job, thread[Job])
    BY <1>1, JobAtWork DEF Working
  <1>3. PICK r : r = [Idle EXCEPT !.at = "round"]
    OBVIOUS
  <1>4. r.at = "round" /\ Moves(Job, r)
    BY <1>1, <1>2, <1>3, BecomeMoves, Anew
  <1>5. c = thread[Job].own /\ c \in Calls
    BY <1>0, <1>1, <1>2 DEF Sound, Thread, Current
  <1>6. Afoot(c) /\ Unanswered = {c}
    <2>1. Afoot(c)
      BY <1>1, <1>5 DEF Core, Grouped, Afoot, At
    <2> QED BY <1>5, <2>1 DEF Core, Grouped
  <1>7. transcript \in Seq(Message) /\ Proper(transcript) /\ c \in Open(transcript) /\ Open(transcript) = {c}
    BY <1>6 DEF Typed, TypeOK, Core, Unanswered
  <1>8. Proper(transcript') /\ Unanswered' = {}
    <2>1. Proper(Append(transcript, Result(c))) /\ Open(Append(transcript, Result(c))) = Open(transcript) \ {c}
      BY <1>7, SayResult
    <2> QED BY <1>1, <1>7, <2>1 DEF Unanswered
  <1>9. groups' = [groups EXCEPT ![c] = "told"]
    BY <1>0, <1>7, OpenIsSaid DEF Deliver
  <1>10. \A d \in Calls : groups'[d] = IF d = c THEN "told" ELSE groups[d]
    BY <1>5, <1>9 DEF Typed, TypeOK
  <1>11. Pending' = {}
    BY <1>1, <1>2 DEF Pending
  <1>12. ProviderInvariant'
    BY <1>1 DEF Core, ProviderInvariant
  <1>13. Grouped'
    <2>1. thread'[Job].at = "round"
      BY <1>4 DEF Moves
    <2>2. ASSUME NEW d \in Calls PROVE ~Afoot(d)'
      <3>1. CASE d = c
        BY <1>10, <3>1 DEF Afoot
      <3>2. CASE d # c
        BY <1>6, <1>10, <3>2 DEF Afoot, Core, Grouped
      <3> QED BY <3>1, <3>2
    <2> QED BY <1>1, <1>2, <1>8, <2>1, <2>2 DEF Core, Grouped, At
  <1> QED BY <1>1, <1>2, <1>4, <1>8, <1>11, <1>12, <1>13, JobGoesOn

\* A user's word and a turn with one call, where nothing was open.
LEMMA ForcedOpens ==
    ASSUME NEW s \in Seq(Message), Proper(s), Open(s) = {}, NEW c \in Calls
    PROVE  Proper(s \o <<User, Turn(<<c>>)>>) /\ Open(s \o <<User, Turn(<<c>>)>>) = {c}
  <1>1. PICK m : m = User
    OBVIOUS
  <1>2. m \in Message /\ m.role = "user" /\ m.calls = <<>>
    BY <1>1, Messages DEF User
  <1>3. IsInjective(m.calls) /\ Range(m.calls) = {}
    BY <1>2 DEF IsInjective, Range
  <1>4. PICK t : t = Append(s, m)
    OBVIOUS
  <1>5. t \in Seq(Message) /\ Proper(t) /\ Open(t) = {}
    BY <1>2, <1>3, <1>4, SayFirst, SayingMore
  <1>6. PICK q : q = <<c>>
    OBVIOUS
  <1>7. q \in Seq(Calls) /\ IsInjective(q) /\ Range(q) = {c}
    BY <1>6 DEF IsInjective, Range
  <1>8. PICK n : n = Turn(q)
    OBVIOUS
  <1>9. n \in Message /\ n.role = "assistant" /\ n.calls = q
    BY <1>7, <1>8, Messages DEF Turn
  <1>10. Proper(Append(t, n)) /\ Open(Append(t, n)) = {c}
    BY <1>5, <1>7, <1>9, SayFirst
  <1>11. s \o <<m, n>> = Append(Append(s, m), n)
    BY <1>2, <1>9
  <1> QED BY <1>1, <1>4, <1>6, <1>8, <1>10, <1>11

\* A round of a workflow.
LEMMA CoreRound ==
    ASSUME Typed, Core, Unanswered = {}, Round, "rewind" \notin user, Pending = {}, queued = <<>>,
           \A u \in Threads : u # Job => ~Working(u),
           UNCHANGED <<user, approvals, questions, queued, sent>>
    PROVE  Core'
  <1>0. PICK c : c = issued'
    OBVIOUS
  <1>1. /\ c \in Calls /\ transcript' = transcript \o <<User, Turn(<<c>>)>>
        /\ groups' = [groups EXCEPT ![c] = "open"]
        /\ Become(Job, [Idle EXCEPT !.at = "launch", !.own = c])
    <2>1. c \in Calls
      BY SMTT(30), <1>0, ChatRunAssumption DEF Round, Typed, TypeOK, Calls
    <2> QED BY <1>0, <2>1 DEF Round, ForcedCall
  <1>2. Job \in Threads /\ Job \notin Workers /\ Workers \subseteq Threads
    BY ThreadsApart DEF Workers, Threads
  <1>3. PICK r : r = [Idle EXCEPT !.at = "launch", !.own = c]
    OBVIOUS
  <1>4. r.at = "launch" /\ r.own = c /\ Moves(Job, r)
    BY <1>1, <1>2, <1>3, BecomeMoves, Anew
  <1>5. Proper(transcript') /\ Unanswered' = {c}
    <2>1. transcript \in Seq(Message) /\ Proper(transcript) /\ Open(transcript) = {}
      BY DEF Typed, TypeOK, Core, Unanswered
    <2> QED BY <1>1, <2>1, ForcedOpens DEF Unanswered
  <1>6. \A d \in Calls : groups'[d] = IF d = c THEN "open" ELSE groups[d]
    BY <1>1 DEF Typed, TypeOK
  <1>7. Pending' = {}
    BY DEF Pending
  <1>8. ProviderInvariant'
    BY DEF Core, ProviderInvariant
  <1>9. Grouped'
    <2>1. thread'[Job].at = "launch" /\ groups'[thread'[Job].own] = "open"
      BY <1>1, <1>4, <1>6 DEF Moves
    <2>2. \A d \in Calls : Afoot(d)' => d = c
      BY <1>6 DEF Afoot, Core, Grouped
    <2>3. \A u \in Workers : ~Working(u)'
      BY <1>2, <1>4 DEF Moves, Working
    <2> QED BY <1>5, <1>7, <2>1, <2>2, <2>3 DEF Grouped, At
  <1> QED BY <1>2, <1>4, <1>5, <1>7, <1>8, <1>9, JobGoesOn

\* The next round is a turn with one call.
LEMMA CoreFollowUp ==
    ASSUME Typed, Alone, Core, FollowUp
    PROVE  Core'
  <1>1. thread[Job].at = "round" /\ UNCHANGED <<user, approvals, questions, queued, sent>>
    BY DEF FollowUp, At
  <1>2. /\ Job \in Threads /\ Job \notin Workers /\ \A u \in Threads : u # Job => ~Working(u)
        /\ Pending = {} /\ queued = <<>> /\ "rewind" \notin user
    BY <1>1, JobAtWork DEF Working
  <1>3. Unanswered = {}
    BY <1>1 DEF Core, Grouped
  <1>4. CASE Round
    BY <1>1, <1>2, <1>3, <1>4, CoreRound
  <1>5. CASE Become(Job, [Idle EXCEPT !.at = "start"]) /\ UNCHANGED <<work, transcript, issued>>
    <2>1. PICK r : r = [Idle EXCEPT !.at = "start"]
      OBVIOUS
    <2>2. r.at = "start" /\ Moves(Job, r)
      BY <1>2, <1>5, <2>1, BecomeMoves, Anew
    <2>3. Pending' = {} /\ Unanswered' = {} /\ groups' = groups
      BY <1>1, <1>2, <1>3, <1>5 DEF Pending, Unanswered, work
    <2>4. Proper(transcript') /\ ProviderInvariant'
      BY <1>1, <1>5 DEF Core, ProviderInvariant
    <2>5. Grouped'
      <3>1. thread'[Job].at = "start"
        BY <2>2 DEF Moves
      <3>2. \A c \in Calls : ~Afoot(c)'
        BY <1>3, <2>3 DEF Afoot, Core, Grouped
      <3> QED BY <1>1, <1>2, <2>3, <3>1, <3>2 DEF Grouped, At
    <2> QED BY <1>1, <1>2, <2>2, <2>3, <2>4, <2>5, JobGoesOn
  <1> QED BY <1>4, <1>5 DEF FollowUp

\* A workflow.
LEMMA CoreWorkflow ==
    ASSUME \A u \in Users : Polite(u), Typed, Alone, Stopping, Core, Workflow
    PROVE  Core'
  BY CoreLaunch, CoreGroupEnds, CoreGroupInterrupted, CoreDeliver, CoreFollowUp, CoreStartRun DEF Workflow

\* The user sends a message, when no call is open.
LEMMA CoreSend ==
    ASSUME \A u \in Users : Polite(u), Typed, Alone, Core, NEW h \in Requests, Send(h)
    PROVE  Core'
  <1>1. \A u \in Threads : ~Working(u)
    BY NobodyAtWork DEF Core
  <1>2. /\ Become(h, [Idle EXCEPT !.at = "start"]) /\ transcript' = Append(transcript, User)
        /\ UNCHANGED <<user, groups, approvals, questions, queued, sent>>
    BY DEF Send, Sent, Say, work
  <1>3. Unanswered = {}
    BY PoliteUser DEF Send, Unanswered
  <1> QED BY <1>1, <1>2, <1>3, CoreSpeaks

\* A rewind leaves what is queued; nothing is asked, and nothing open.
LEMMA CoreRewind ==
    ASSUME \A u \in Users : Polite(u), Typed, Alone, Core, NEW h \in Requests, Rewind(h)
    PROVE  Core'
  <1>0. h \in Threads /\ h # Run /\ h # Job /\ Job \in Threads
    BY ThreadsApart
  <1>1. \A u \in Threads : ~Working(u)
    BY NobodyAtWork DEF Core
  <1>2. /\ "rewind" \in user /\ approvals' = {} /\ questions' = {} /\ UNCHANGED <<user, sent, stopRequested, running>>
        /\ Become(h, [Idle EXCEPT !.at = "send"])
    BY DEF Rewind, flags
  <1>3. PICK i \in DOMAIN transcript :
          /\ transcript[i].role = "user"
          /\ transcript' = SubSeq(transcript, 1, i - 1)
          /\ groups' = [c \in Calls |-> IF groups[c] = "told" /\ ~Said(c, transcript')
                                        THEN "done" ELSE groups[c]]
    BY DEF Rewind
  <1>4. PICK r : r = [Idle EXCEPT !.at = "send"]
    OBVIOUS
  <1>5. r.at = "send" /\ r.own = NoCall /\ Moves(h, r) /\ Ahead(r) = {}
    <2>1. r.at = "send" /\ r.own = NoCall
      BY <1>4, Anew
    <2>2. Moves(h, r)
      BY <1>0, <1>2, <1>4, BecomeMoves
    <2> QED BY <2>1, <2>2, IdleAnswersNothing
  <1>6. Proper(transcript') /\ Unanswered' = {}
    <2>1. transcript \in Seq(Message) /\ Proper(transcript) /\ transcript[i].role # "tool"
      BY <1>3 DEF Typed, TypeOK, Core
    <2>2. Proper(SubSeq(transcript, 1, i - 1)) /\ Open(SubSeq(transcript, 1, i - 1)) = {}
      BY <2>1, Cut
    <2> QED BY <1>3, <2>2 DEF Unanswered
  <1>7. Pending' = {}
    BY <1>2 DEF Pending
  <1>8. Grouped'
    <2>1. \A c \in Calls : groups[c] = "none"
      BY <1>2 DEF Core, Grouped
    <2>2. \A c \in Calls : groups'[c] = "none"
      BY <1>3, <2>1
    <2>3. thread'[Job].at = "idle"
      BY <1>0, <1>1, <1>5 DEF Moves, Working
    <2> QED BY <2>2, <2>3 DEF Grouped, Afoot, At, Working
  <1>9. AskedOne(h, r)
    BY <1>0, <1>2, <1>5, <1>6, <1>7 DEF AskedOne, HandSteps, BatchSteps
  <1>10. QueuedOne(h, r)
    BY <1>2, <1>5, <1>7 DEF QueuedOne
  <1>11. ProviderInvariant'
    BY <1>2 DEF Core, ProviderInvariant
  <1> QED BY <1>0, <1>1, <1>5, <1>6, <1>8, <1>9, <1>10, <1>11, CoreOfOne

\* The user decides about the call that waits.
LEMMA CoreResolves ==
    ASSUME Typed, Core, NEW h \in Requests, \A u \in Threads : ~Working(u), ~running,
           NEW c \in Pending, Pending' = {}, NEW step \in {"execute", "result"},
           Become(h, [Idle EXCEPT !.at = step, !.own = c]),
           UNCHANGED <<user, groups, transcript, queued, stopRequested, running, sent>>
    PROVE  Core'
  <1>0. h \in Threads /\ h # Run /\ h # Job /\ Job \in Threads /\ Workers \subseteq Threads
    BY ThreadsApart DEF Workers, Threads
  <1>1. c # NoCall
    BY ChatRunAssumption DEF Pending, Typed, TypeOK, Calls, NoCall
  <1>2. PICK r : r = [Idle EXCEPT !.at = step, !.own = c]
    OBVIOUS
  <1>3. r.at = step /\ r.own = c
    BY <1>2, Anew
  <1>4. Moves(h, r) /\ Ahead(r) = {c}
    BY <1>0, <1>1, <1>2, <1>3, BecomeMoves DEF Ahead
  <1>5. approvals' = {} /\ questions' = {} /\ Unanswered' = Unanswered
    BY DEF Pending, Unanswered
  <1>6. c \in Unanswered /\ ~stopRequested
    BY DEF Core, Asked
  <1>7. Range(queued) \subseteq Unanswered /\ c \notin Range(queued)
    <2>1. \A u \in Workers : ~At(u, "pause")
      BY <1>0 DEF At, Working
    <2>2. Fresh
      BY <2>1 DEF Core, Queued, Counts
    <2> QED BY <2>2 DEF Fresh
  <1>8. AskedOne(h, r)
    BY <1>0, <1>1, <1>3, <1>4, <1>5, <1>6 DEF AskedOne
  <1>9. QueuedOne(h, r)
    BY <1>3, <1>4, <1>5, <1>7 DEF QueuedOne
  <1>10. Grouped'
    <2>1. \A d \in Calls : ~Afoot(d)
      BY DEF Core, Grouped
    <2>2. thread'[Job].at = "idle"
      BY <1>0, <1>4 DEF Moves, Working
    <2> QED BY <2>1, <2>2, GroupedNone DEF Core
  <1>11. Proper(transcript') /\ ProviderInvariant'
    BY DEF Core, ProviderInvariant
  <1> QED BY <1>0, <1>4, <1>8, <1>9, <1>10, <1>11, CoreOfOne

\* The user approves or declines the call that waits,
LEMMA CoreResolveApproval ==
    ASSUME \A u \in Users : Polite(u), Typed, Alone, Core, NEW h \in Requests, ResolveApproval(h)
    PROVE  Core'
  <1>1. ~running /\ \A u \in Threads : ~Working(u)
    BY NobodyAtWork DEF Core
  <1>2. PICK c \in approvals, yes \in BOOLEAN :
          /\ approvals' = Resolved(c)
          /\ Become(h, [Idle EXCEPT !.at = IF yes THEN "execute" ELSE "result", !.own = c])
    BY DEF ResolveApproval
  <1>3. PICK step \in {"execute", "result"} : step = IF yes THEN "execute" ELSE "result"
    OBVIOUS
  <1>4. Become(h, [Idle EXCEPT !.at = step, !.own = c])
    BY <1>2, <1>3
  <1>5. UNCHANGED <<user, groups, transcript, questions, queued, stopRequested, running, sent>>
    BY DEF ResolveApproval, work, flags
  <1>6. c \in Pending /\ Pending' = {}
    <2>1. approvals = {c} /\ questions = {}
      BY DEF Core, Asked
    <2> QED BY <1>2, <1>5, <2>1 DEF Pending, Resolved
  <1> QED BY <1>1, <1>4, <1>5, <1>6, CoreResolves

\* or answers its question.
LEMMA CoreAnswerQuestion ==
    ASSUME \A u \in Users : Polite(u), Typed, Alone, Core, NEW h \in Requests, AnswerQuestion(h)
    PROVE  Core'
  <1>1. ~running /\ \A u \in Threads : ~Working(u)
    BY NobodyAtWork DEF Core
  <1>2. PICK c \in questions : /\ questions' = questions \ {c}
                               /\ Become(h, [Idle EXCEPT !.at = "result", !.own = c])
    BY DEF AnswerQuestion
  <1>3. PICK step \in {"execute", "result"} : step = "result"
    OBVIOUS
  <1>4. Become(h, [Idle EXCEPT !.at = step, !.own = c])
    BY <1>2, <1>3
  <1>5. UNCHANGED <<user, groups, transcript, approvals, queued, stopRequested, running, sent>>
    BY DEF AnswerQuestion, work, flags
  <1>6. c \in Pending /\ Pending' = {}
    <2>1. questions = {c} /\ approvals = {}
      BY DEF Core, Asked
    <2> QED BY <1>2, <1>5, <2>1 DEF Pending
  <1> QED BY <1>1, <1>4, <1>5, <1>6, CoreResolves

\* A stop takes one call from the run and gives it to who writes its result.
LEMMA CoreStopSession ==
    ASSUME \A u \in Users : Polite(u), Typed, Alone, Stopping, Core, NEW h \in Requests, StopSession(h)
    PROVE  Core'
  <1>0. /\ h \in Threads /\ h # Run /\ h # Job /\ Run \in Threads /\ Job \in Threads /\ Run # Job /\ h \in Workers
        /\ Workers \subseteq Threads /\ Requests \subseteq Workers /\ Run \in Workers /\ Job \notin Workers
        /\ thread[Job] \in Thread /\ Sound(Job, thread[Job]) /\ thread[Run] \in Thread /\ Sound(Run, thread[Run])
        /\ Run \notin Requests
    BY ThreadsApart DEF Workers, Threads, Typed, TypeOK
  <1>1. /\ \A g \in Requests : ~Working(g)
        /\ \A u \in Threads : thread'[u] = IF u = h THEN Interrupting
                                           ELSE IF u = Job THEN Broken ELSE thread[u]
        /\ runningTool # NoCall => At(Run, "tool") /\ runningTool = Current(Run) /\ ~Working(Job)
        /\ running \/ At(Job, "group")
        /\ Broken.at = IF At(Job, "group") THEN "broken" ELSE thread[Job].at
        /\ Broken.own = thread[Job].own
        /\ runningTool \in interrupted \cup {NoCall} => Interrupting = Idle
        /\ runningTool \notin interrupted \cup {NoCall} => /\ Interrupting.at = "interrupt"
                                                           /\ Interrupting.own = runningTool
    BY StopsAlone
  <1>2. /\ stopRequested' = TRUE /\ interrupted' = interrupted \cup ({runningTool} \ {NoCall})
        /\ UNCHANGED <<user, groups, transcript, approvals, questions, queued, running, sent>>
    BY DEF StopSession, work, session
  <1>3. thread'[h] = Interrupting /\ thread'[Run] = thread[Run] /\ thread'[Job] = Broken
    BY <1>0, <1>1
  <1>4. \A u \in Threads : u # h /\ u # Job => thread'[u] = thread[u]
    BY <1>1
  <1>5. \A g \in Requests : g # h => thread'[g].at = "idle"
    BY <1>0, <1>1, <1>4, ThreadsApart DEF Working
  <1>6. thread'[h].at \in {"idle", "interrupt"}
    BY <1>1, <1>3, Anew
  <1>7. Unanswered' = Unanswered /\ Pending' = Pending
    BY <1>2 DEF Unanswered, Pending
  <1>8. ~Interrupts(Run) /\ ~Interrupts(Run)'
    BY <1>0, <1>3 DEF Alone, StepsOf, BatchSteps, Interrupts, At
  <1>9. Answering(Run)' \subseteq Answering(Run) \ ({runningTool} \ {NoCall})
    BY <1>2, <1>3, <1>8 DEF Answering
  <1>10. /\ Interrupts(h)' => runningTool # NoCall /\ Answering(h)' = {runningTool} /\ thread'[h].own = runningTool
                              /\ runningTool \in Answering(Run)
         /\ ~Interrupts(h)' => Answering(h)' = {}
    <2>1. CASE runningTool \in interrupted \cup {NoCall}
      <3>1. thread'[h].at = "idle"
        BY <1>1, <1>3, <2>1, Anew
      <3>2. ~Interrupts(h)' /\ Ahead(thread'[h]) = {}
        BY <3>1, IdleAnswersNothing DEF Interrupts, At
      <3> QED BY <3>2 DEF Answering
    <2>2. CASE runningTool \notin interrupted \cup {NoCall}
      <3>1. thread'[h].at = "interrupt" /\ thread'[h].own = runningTool /\ runningTool # NoCall
        BY <1>1, <1>3, <2>2
      <3>2. Interrupts(h)' /\ Answering(h)' = {runningTool}
        BY <3>1 DEF Interrupts, At, Answering, Ahead
      <3>3. At(Run, "tool") /\ runningTool = Current(Run)
        BY <1>1, <3>1
      <3>4. interrupted = {}
        BY <2>2, <3>3 DEF Stopping
      <3>5. Current(Run) \in Ahead(thread[Run])
        <4>1. thread[Run].own = NoCall /\ thread[Run].todo # <<>> /\ thread[Run].todo \in Seq(Calls)
              /\ thread[Run].at = "tool"
          BY <1>0, <3>3 DEF Sound, At, Thread
        <4> QED BY <4>1, TailLeaves DEF Current, Ahead
      <3> QED BY <1>8, <3>1, <3>2, <3>3, <3>4, <3>5 DEF Answering
    <2> QED BY <2>1, <2>2
  <1>11. \A g \in Requests : g # h => Answering(g)' = {} /\ ~Interrupts(g)'
    <2>1. ASSUME NEW g \in Requests, g # h PROVE Ahead(thread'[g]) = {} /\ ~Interrupts(g)'
      BY <1>5, <2>1, IdleAnswersNothing DEF Interrupts, At
    <2> QED BY <2>1 DEF Answering
  <1>12. \A u \in Workers : Answering(u)' \subseteq Answering(Run)
    BY <1>9, <1>10, <1>11 DEF Workers
  <1>13. At(Job, "group") => /\ Pending = {} /\ ~Working(Run)
    <2> SUFFICES ASSUME At(Job, "group") PROVE Pending = {} /\ ~Working(Run)
      OBVIOUS
    <2>1. thread[Job].own \in Calls
      BY <1>0 DEF Sound, At, Thread
    <2>2. Afoot(thread[Job].own)
      BY DEF Core, Grouped, At, Afoot
    <2> QED BY <1>0, <2>1, <2>2 DEF Core, Grouped
  <1>14. \A g \in Requests : thread'[g].at \in {"idle", "interrupt"}
    BY <1>5, <1>6
  <1>15. Asked'
    <2>1. \A u \in Workers : Answering(u)' \subseteq Unanswered' \ Pending'
      BY <1>0, <1>7, <1>12 DEF Core, Asked
    <2>2. \A g \in Requests : Interrupts(g)' => thread'[g].own \notin Answering(Run)'
      BY <1>9, <1>10, <1>11
    <2>3. ASSUME NEW u \in Workers, thread'[u].at \in HandSteps \ {"pause"} PROVE Pending' = {}
      <3>1. u = Run
        BY <1>14, <2>3 DEF HandSteps, BatchSteps, Workers
      <3> QED BY <1>0, <1>3, <1>7, <2>3, <3>1 DEF Core, Asked
    <2>4. thread'[Run].at \in {"begin", "stream", "append"} => Unanswered' = {}
      BY <1>3, <1>7 DEF Core, Asked
    <2>5. \A g \in Requests : ~At(g, "send")' /\ ~At(g, "take")' /\ thread'[g].at \notin HandSteps
      BY <1>14 DEF At, HandSteps, BatchSteps
    <2>6. stopRequested' /\ ~running' => Pending' = {}
      BY <1>1, <1>2, <1>7, <1>13
    <2>7. /\ \A d \in approvals' : approvals' = {d} /\ questions' = {}
          /\ \A d \in questions' : questions' = {d} /\ approvals' = {}
          /\ Pending' \subseteq Unanswered'
      BY <1>2, <1>7 DEF Core, Asked
    <2> QED BY <1>2, <2>1, <2>2, <2>3, <2>4, <2>5, <2>6, <2>7 DEF Asked
  <1>16. Queued'
    <2>1. Fresh => Fresh'
      BY <1>0, <1>2, <1>7, <1>12 DEF Fresh
    <2>2. Counts' => Counts
      <3>1. \A g \in Requests : ~Resolving(g)'
        BY <1>14 DEF Resolving, HandSteps, BatchSteps
      <3>2. ASSUME \A u \in Workers : ~At(u, "pause")', NEW u \in Workers PROVE ~At(u, "pause")
        BY <1>0, <1>1, <1>3, <3>2 DEF At, Working, Workers
      <3> QED BY <1>2, <1>7, <3>1, <3>2 DEF Counts
    <2>3. \A u \in Requests \cup {Job} : At(u, "start")' => u = Job /\ At(u, "start")
      <3>1. \A g \in Requests : ~At(g, "start")'
        BY <1>14 DEF At
      <3>2. At(Job, "start")' => At(Job, "start")
        BY <1>1, <1>3 DEF At
      <3> QED BY <3>1, <3>2
    <2> QED BY <1>2, <1>7, <2>1, <2>2, <2>3 DEF Core, Queued
  <1>17. Grouped'
    <2>1. \A c \in Calls : Afoot(c)' => Afoot(c)
      BY <1>2 DEF Afoot
    <2>2. ASSUME NEW c \in Calls, Afoot(c), NEW u \in Workers PROVE ~Working(u)'
      <3>1. \A w \in Workers : ~Working(w)
        BY <2>2 DEF Core, Grouped
      <3>2. CASE u = h
        <4>1. runningTool = NoCall
          BY <1>0, <1>1, <3>1 DEF At, Working
        <4> QED BY <1>1, <1>3, <3>2, <4>1, Anew DEF Working
      <3>3. CASE u # h
        BY <1>0, <1>4, <3>1, <3>3 DEF Working
      <3> QED BY <3>2, <3>3
    <2>3. /\ thread'[Job].own = thread[Job].own
          /\ thread'[Job].at = IF At(Job, "group") THEN "broken" ELSE thread[Job].at
      BY <1>1, <1>3
    <2>4. \A c \in Calls : Afoot(c)' => /\ Unanswered' = {c} /\ Pending' = {} /\ queued' = <<>>
                                        /\ \A u \in Workers : ~Working(u)'
      BY <1>2, <1>7, <2>1, <2>2 DEF Core, Grouped
    <2>5. thread'[Job].at \in {"launch", "group", "broken"} => groups'[thread'[Job].own] = "open"
      BY <1>2, <2>3 DEF Core, Grouped, At
    <2>6. thread'[Job].at = "deliver" => groups'[thread'[Job].own] = "done"
      BY <1>2, <2>3 DEF Core, Grouped, At
    <2>7. thread'[Job].at \in {"round", "start"} => Unanswered' = {}
      BY <1>7, <2>3 DEF Core, Grouped, At
    <2>8. "rewind" \in user' => ~Working(Job)' /\ \A c \in Calls : groups'[c] = "none"
      BY <1>2, <2>3 DEF Core, Grouped, At, Working
    <2> QED BY <2>4, <2>5, <2>6, <2>7, <2>8 DEF Grouped, At
  <1>18. Proper(transcript') /\ ProviderInvariant'
    BY <1>2 DEF Core, ProviderInvariant
  <1> QED BY <1>15, <1>16, <1>17, <1>18 DEF Core

\* The user starts a workflow, when no call is open,
LEMMA CoreStartForcedWorkflow ==
    ASSUME \A u \in Users : Polite(u), Typed, Alone, Core, NEW h \in Requests, StartForcedWorkflow(h)
    PROVE  Core'
  <1>1. \A u \in Threads : ~Working(u)
    BY NobodyAtWork DEF Core
  <1>2. /\ {"workflow", "rounds"} \cap user # {} /\ Round
        /\ UNCHANGED <<user, approvals, questions, queued, sent>>
    BY DEF StartForcedWorkflow
  <1>3. "rewind" \notin user
    BY <1>2, PoliteUser DEF Polite
  <1>4. Unanswered = {}
    BY PoliteUser DEF StartForcedWorkflow, Unanswered
  <1>5. Pending = {} /\ queued = <<>>
    <2>1. Pending = {} /\ Range(queued) = {}
      BY <1>3, <1>4 DEF Core, Asked, Queued, Counts, Fresh
    <2> QED BY <2>1, NothingIn DEF Typed, TypeOK
  <1> QED BY <1>1, <1>2, <1>3, <1>4, <1>5, CoreRound

\* or resumes the group of its call.
LEMMA CoreResumeTaskGroup ==
    ASSUME \A u \in Users : Polite(u), Typed, Alone, Core, NEW h \in Requests, ResumeTaskGroup(h)
    PROVE  Core'
  <1>0. Job \in Threads /\ Job \notin Workers /\ Workers \subseteq Threads
    BY ThreadsApart DEF Workers, Threads
  <1>1. \A u \in Threads : ~Working(u)
    BY NobodyAtWork DEF Core
  <1>2. PICK c \in Calls :
         /\ groups[c] \in {"open", "done"}
         /\ Become(Job, [Idle EXCEPT !.at = IF groups[c] = "done" THEN "deliver" ELSE "launch",
                                     !.own = c])
    BY DEF ResumeTaskGroup
  <1>3. UNCHANGED <<user, groups, transcript, approvals, questions, queued, sent>>
    BY DEF ResumeTaskGroup, session
  <1>4. PICK step : step = IF groups[c] = "done" THEN "deliver" ELSE "launch"
    OBVIOUS
  <1>5. PICK r : r = [Idle EXCEPT !.at = step, !.own = c]
    OBVIOUS
  <1>6. r.at = step /\ r.own = c
    BY <1>5, Anew
  <1>7. Moves(Job, r)
    BY <1>0, <1>2, <1>4, <1>5, BecomeMoves
  <1>8. Afoot(c)
    BY <1>2 DEF Afoot
  <1>9. Pending' = {} /\ queued' = <<>> /\ Unanswered' = Unanswered /\ "rewind" \notin user
    <2>1. Pending = {} /\ queued = <<>> /\ "rewind" \notin user
      BY <1>2, <1>8 DEF Core, Grouped
    <2> QED BY <1>3, <2>1 DEF Pending, Unanswered
  <1>10. Proper(transcript') /\ ProviderInvariant'
    BY <1>3 DEF Core, ProviderInvariant
  <1>11. Grouped'
    <2>1. thread'[Job].at = step /\ thread'[Job].own = c
      BY <1>6, <1>7 DEF Moves
    <2>2. /\ step \in {"deliver", "launch"}
          /\ step = "launch" => groups[c] = "open"
          /\ step = "deliver" => groups[c] = "done"
      BY <1>2, <1>4
    <2>3. \A d \in Calls : Afoot(d)' => Afoot(d)
      BY <1>3 DEF Afoot
    <2>4. \A u \in Workers : ~Working(u)'
      BY <1>0, <1>1, <1>7 DEF Moves, Working
    <2> QED BY <1>3, <1>9, <2>1, <2>2, <2>3, <2>4 DEF Core, Grouped, At
  <1> QED BY <1>1, <1>2, <1>4, <1>6, <1>7, <1>9, <1>10, <1>11, JobGoesOn

\* The user.
LEMMA CoreUserActs ==
    ASSUME \A u \in Users : Polite(u), Typed, Alone, Stopping, Core, NEW h \in Requests, UserActs(h)
    PROVE  Core'
  BY CoreSend, CoreRewind, CoreResolveApproval, CoreAnswerQuestion, CoreStopSession,
     CoreStartForcedWorkflow, CoreResumeTaskGroup DEF UserActs

\* After a restart nobody is at work, and the session is as it was.
LEMMA CoreRestart ==
    ASSUME \A u \in Users : Polite(u), Typed, Core, Restart
    PROVE  Core'
  <1>0. Run \in Threads /\ Job \in Threads /\ Workers \subseteq Threads /\ Requests \subseteq Threads
    BY ThreadsApart DEF Workers, Threads
  <1>1. /\ \A t \in Threads : thread'[t].at = "idle" /\ ~Working(t)' /\ ~Interrupts(t)'
        /\ stopRequested' = FALSE
        /\ UNCHANGED <<user, groups, transcript, approvals, questions, queued, sent>>
    BY AllRest DEF session, At, Working
  <1>2. "rewind" \notin user
    BY PoliteUser DEF Restart, Polite
  <1>3. Unanswered' = Unanswered /\ Pending' = Pending
    BY <1>1 DEF Unanswered, Pending
  <1>4. \A t \in Workers : Answering(t)' = {}
    <2>1. \A t \in Workers : Ahead(thread'[t]) = {}
      BY <1>0, <1>1, IdleAnswersNothing
    <2> QED BY <2>1 DEF Answering
  <1>5. Asked'
    <2>1. /\ \A d \in approvals' : approvals' = {d} /\ questions' = {}
          /\ \A d \in questions' : questions' = {d} /\ approvals' = {}
          /\ Pending' \subseteq Unanswered'
      BY <1>1, <1>3 DEF Core, Asked
    <2> QED BY <1>0, <1>1, <1>4, <2>1 DEF Asked, At, HandSteps, BatchSteps
  <1>6. Queued'
    <2>1. Fresh
      BY <1>2 DEF Core, Queued, Counts
    <2>2. Fresh'
      BY <1>1, <1>3, <1>4, <2>1 DEF Fresh
    <2> QED BY <1>0, <1>1, <2>2 DEF Queued, At
  <1>7. Grouped'
    <2>1. \A c \in Calls : Afoot(c)' => Afoot(c)
      BY <1>1 DEF Afoot
    <2> QED BY <1>0, <1>1, <1>2, <1>3, <2>1 DEF Core, Grouped, At
  <1>8. Proper(transcript') /\ ProviderInvariant'
    BY <1>1 DEF Core, ProviderInvariant
  <1> QED BY <1>5, <1>6, <1>7, <1>8 DEF Core

\* Every step.
LEMMA CoreStep ==
    ASSUME \A u \in Users : Polite(u), Typed, Ledger, Alone, Stopping, Core, [Next]_vars
    PROVE  Core'
  <1>1. CASE UNCHANGED vars
    <2>1. UNCHANGED <<user, transcript, approvals, questions, queued, groups, running, stopRequested,
                      interrupted, thread, sent>>
      BY <1>1 DEF vars, session, work, flags
    <2> QED BY <2>1 DEF Core, ProviderInvariant, Asked, Queued, Grouped, Counts, Fresh, Resolving, Pending,
                        Unanswered, Afoot, Answering, Interrupts, At, Working
  <1> QED BY <1>1, CoreConversation, CoreBatch, CoreServe, CoreUserActs, CoreWorkflow, CoreRestart
          DEF Next, Workers

\* So it is in the beginning.
LEMMA InOrderFromTheStart == Init => Alone /\ Stopping /\ Core
  <1> SUFFICES ASSUME Init PROVE Alone /\ Stopping /\ Core
    OBVIOUS
  <1>0. Run \in Threads /\ Job \in Threads /\ Workers \subseteq Threads /\ Requests \subseteq Threads
    BY ThreadsApart DEF Workers, Threads
  <1>1. \A t \in Threads : thread[t].at = "idle"
    BY Anew DEF Init
  <1>2. \A t \in Threads : ~Working(t) /\ ~Interrupts(t)
    BY <1>1 DEF Working, Interrupts, At
  <1>3. Alone
    BY <1>0, <1>1, <1>2 DEF Alone, StepsOf, At, Init
  <1>4. Stopping
    BY <1>0, <1>1, <1>2 DEF Stopping, At, Init
  <1>5. Proper(transcript) /\ Unanswered = {} /\ ProviderInvariant
    <2>1. PICK s : s = <<>>
      OBVIOUS
    <2>2. s \in Seq(Message) /\ DOMAIN s = {}
      BY <2>1
    <2>3. TurnsIn(s) = {}
      BY <2>2 DEF TurnsIn
    <2>4. Proper(s) /\ Open(s) = {}
      BY <2>2, <2>3 DEF Proper, Open
    <2>5. Wellformed(s)
      BY <2>2, <2>4, ProperIsWellformed
    <2> QED BY <2>1, <2>4, <2>5 DEF Init, Unanswered, ProviderInvariant
  <1>6. \A t \in Threads : Answering(t) = {}
    BY <1>2, IdleAnswersNothing
  <1>7. Pending = {} /\ approvals = {} /\ questions = {} /\ Range(queued) = {} /\ queued = <<>>
    BY DEF Init, Pending, Range
  <1>8. Asked
    BY <1>0, <1>1, <1>2, <1>5, <1>6, <1>7 DEF Asked, At, HandSteps, BatchSteps
  <1>9. Queued
    BY <1>0, <1>1, <1>7 DEF Queued, Fresh, At
  <1>10. Grouped
    <2>1. \A c \in Calls : groups[c] = "none"
      BY DEF Init
    <2> QED BY <1>0, <1>1, <1>2, <2>1 DEF Grouped, Afoot, At
  <1> QED BY <1>3, <1>4, <1>5, <1>8, <1>9, <1>10 DEF Core

-----------------------------------------------------------------------------
(* How it ends.                                                            *)

\* Nothing is stuck while somebody is at work,
LEMMA SomebodyGoesOn ==
    ASSUME NEW t \in Threads, thread'[t].at # "idle"
    PROVE  NotStuck'
  BY Anew DEF NotStuck, Resting

\* nor what the user stopped.
LEMMA StoppedIsNotStuck ==
    ASSUME halted'
    PROVE  NotStuck'
  BY DEF NotStuck

\* How the conversation leads out of the run.
LEMMA EndingConversation ==
    ASSUME Typed, Alone, Stopping, Core, Ending, Conversation
    PROVE  Ending'
  <1>0. Run \in Threads
    BY ThreadsApart
  <1>1. ASSUME NEW step, step # "idle", Go(Run, step),
               step = "exit" => failed' \/ Pending' # {} \/ stopRequested' \/ Final(transcript')
        PROVE  Ending'
    <2>1. thread'[Run].at = step
      BY <1>0, <1>1, GoMoves
    <2> QED BY <1>0, <1>1, <2>1, SomebodyGoesOn DEF Ending, At
  <1>2. CASE Loop
    <2>1. /\ UNCHANGED <<approvals, questions, stopRequested>>
          /\ \/ Go(Run, "exit") /\ (stopRequested \/ approvals \cup questions # {})
             \/ Go(Run, "begin")
      BY <1>2 DEF Loop, flags
    <2>2. approvals' \cup questions' = approvals \cup questions /\ (stopRequested' <=> stopRequested)
      BY <2>1
    <2> QED BY <1>1, <2>1, <2>2 DEF Pending
  <1>3. CASE BeginLLMCall
    <2>1. /\ UNCHANGED stopRequested
          /\ \/ Go(Run, "exit") /\ stopRequested
             \/ Go(Run, "stream")
      BY <1>3 DEF BeginLLMCall, flags
    <2> QED BY <1>1, <2>1
  <1>4. CASE StreamChat
    <2>1. /\ UNCHANGED stopRequested
          /\ \/ Go(Run, "exit") /\ (stopRequested \/ failed' = TRUE)
             \/ \E n \in 0 .. MaxBatch : Become(Run, [at |-> "append", own |-> NoCall,
                                                    todo |-> [i \in 1 .. n |-> issued + i]])
      BY ZenonT(60), <1>4 DEF StreamChat, Failure, flags
    <2>2. CASE Go(Run, "exit") /\ (stopRequested \/ failed' = TRUE)
      BY <1>1, <2>1, <2>2
    <2>3. ASSUME NEW n \in 0 .. MaxBatch,
                 Become(Run, [at |-> "append", own |-> NoCall,
                              todo |-> [i \in 1 .. n |-> issued + i]])
          PROVE  Ending'
      <3>1. PICK q : q = [i \in 1 .. n |-> issued + i]
        OBVIOUS
      <3>2. PICK r : r = [at |-> "append", own |-> NoCall, todo |-> q]
        OBVIOUS
      <3>3. r.at = "append"
        BY <3>2
      <3>4. Moves(Run, r)
        BY <1>0, <2>3, <3>1, <3>2, BecomeMoves
      <3>5. thread'[Run].at = "append"
        BY <3>3, <3>4 DEF Moves
      <3> QED BY <1>0, <3>5, SomebodyGoesOn DEF Ending, At
    <2> QED BY <2>1, <2>2, <2>3
  <1>5. CASE AppendTurn
    <2>1. /\ transcript' = Append(transcript, Turn(thread[Run].todo))
          /\ \/ Go(Run, "exit") /\ thread[Run].todo = <<>>
             \/ Go(Run, "next")
      BY <1>5 DEF AppendTurn, Say
    <2>2. CASE thread[Run].todo = <<>>
      <3>1. PICK m : m = Turn(thread[Run].todo)
        OBVIOUS
      <3>2. m.role = "assistant" /\ m.calls = <<>> /\ m \in Message
        <4>1. <<>> \in Seq(Calls)
          OBVIOUS
        <4>2. m.role = "assistant" /\ m.calls = <<>>
          BY <2>2, <3>1 DEF Turn
        <4> QED BY <2>2, <3>1, <4>1, <4>2, Messages
      <3>3. transcript' = Append(transcript, m) /\ transcript \in Seq(Message)
        BY <2>1, <3>1 DEF Typed, TypeOK
      <3>4. transcript' # <<>> /\ Last(transcript') = m
        BY <3>2, <3>3 DEF Last
      <3>5. Final(transcript')
        BY <3>2, <3>4 DEF Final
      <3> QED BY <1>1, <2>1, <3>5
    <2>3. CASE thread[Run].todo # <<>>
      BY <1>1, <2>1, <2>3
    <2> QED BY <2>2, <2>3
  <1>6. CASE Exit
    <2>1. /\ At(Run, "exit") /\ Become(Run, Idle)
          /\ UNCHANGED <<transcript, approvals, questions, halted, failed>>
      BY <1>6 DEF Exit, session, history
    <2>2. thread'[Run].at = "idle"
      BY <1>0, <2>1, BecomeMoves, Anew DEF Moves
    <2>3. failed \/ Pending # {} \/ stopRequested \/ Final(transcript)
      BY <2>1 DEF Ending
    <2>4. stopRequested => halted
      BY <1>0, <2>1 DEF At, Alone, Working, Stopping
    <2>5. NotStuck'
      <3>1. CASE failed \/ Pending # {} \/ halted
        BY <2>1, <3>1 DEF NotStuck, Waiting, Pending
      <3>2. CASE Final(transcript)
        BY <2>1, <3>2 DEF NotStuck, Final
      <3> QED BY <2>3, <2>4, <3>1, <3>2
    <2> QED BY <2>2, <2>5 DEF Ending, At
  <1> QED BY <1>2, <1>3, <1>4, <1>5, <1>6 DEF Conversation

\* The steps of others, while the run is not at its end.
LEMMA EndingAside ==
    ASSUME NEW t \in Threads, t # Run, ~Working(Run), NEW r, Moves(t, r), r.at # "idle"
    PROVE  Ending'
  <1>1. thread'[Run] = thread[Run] /\ thread'[t].at # "idle"
    BY ThreadsApart DEF Moves
  <1>2. ~At(Run, "exit")'
    BY <1>1 DEF At, Working
  <1> QED BY <1>1, <1>2, SomebodyGoesOn DEF Ending

\* A batch ends a run only behind a call the user is asked about, or by a stop.
LEMMA EndingBatch ==
    ASSUME Typed, Alone, Core, Ending, NEW t \in Workers, Batch(t)
    PROVE  Ending'
  <1>1. thread[t].at \in BatchSteps
    BY DEF Batch, Drained, PrepareTool, ExecuteTool, ToolReturns, AppendResult, CheckStop, Pause, At, BatchSteps
  <1>2. t \in Threads /\ Working(t) /\ ~Interrupts(t) /\ thread[t] \in Thread /\ Run \in Threads /\ t \in Requests \cup {Run}
    BY <1>1, AtWork, ThreadsApart
  <1>3. \E r : Moves(t, r) /\ r.at # "idle" /\ (r.at = "exit" => Pause(t))
    <2>1. CASE Pause(t)
      <3>1. PICK r : r = [Idle EXCEPT !.at = Pausing(t)]
        OBVIOUS
      <3>2. r.at # "idle"
        BY <3>1, Anew DEF Pausing
      <3>3. Moves(t, r)
        BY <1>2, <2>1, <3>1, BecomeMoves DEF Pause
      <3> QED BY <2>1, <3>2, <3>3
    <2>2. CASE CheckStop(t)
      <3>1. \E r : Become(t, r) /\ r.at \in {"pause", "next"}
        <4>1. PICK r : r = [thread[t] EXCEPT !.at = "pause"]
          OBVIOUS
        <4>2. PICK q : q = [thread[t] EXCEPT !.at = "next", !.todo = Tail(@)]
          OBVIOUS
        <4>3. r.at = "pause" /\ q.at = "next"
          BY <1>2, <4>1, <4>2 DEF Thread
        <4>4. Become(t, r) \/ Become(t, q)
          BY <2>2, <4>1, <4>2 DEF CheckStop
        <4> QED BY <4>3, <4>4
      <3> QED BY <1>2, <3>1, BecomeMoves
    <2>3. CASE Drained(t) \/ PrepareTool(t) \/ ExecuteTool(t) \/ ToolReturns(t) \/ AppendResult(t)
      <3>1. \E step \in {"loop", "start", "result", "execute", "pause", "tool", "take", "check"} : Go(t, step)
        BY <2>3 DEF Drained, PrepareTool, ExecuteTool, ToolReturns, AppendResult, GoingOn, After
      <3> QED BY <1>2, <3>1, GoMoves DEF Moves
    <2> QED BY <2>1, <2>2, <2>3 DEF Batch
  <1>4. PICK r : Moves(t, r) /\ r.at # "idle" /\ (r.at = "exit" => Pause(t))
    BY <1>3
  <1>5. CASE t = Run
    <2>1. thread'[Run] = r
      BY <1>4, <1>5 DEF Moves
    <2>2. At(Run, "exit")' => Pending' # {} \/ stopRequested'
      <3> SUFFICES ASSUME At(Run, "exit")' PROVE Pending' # {} \/ stopRequested'
        OBVIOUS
      <3>1. Pause(t)
        BY <1>4, <2>1 DEF At
      <3>2. At(t, "pause") /\ UNCHANGED <<approvals, questions, stopRequested>>
        BY <3>1 DEF Pause, flags
      <3>3. Pending # {} \/ stopRequested
        BY <3>2 DEF Core, Asked
      <3>4. Pending' = Pending /\ (stopRequested' <=> stopRequested)
        BY <3>2 DEF Pending
      <3> QED BY <3>3, <3>4
    <2>3. NotStuck'
      BY <1>2, <1>4, <2>1, SomebodyGoesOn
    <2> QED BY <2>2, <2>3 DEF Ending
  <1>6. CASE t # Run
    BY <1>2, <1>4, <1>6, Others, EndingAside
  <1> QED BY <1>5, <1>6

\* The run, started anew.
LEMMA EndingStartRun ==
    ASSUME Typed, Alone, NEW t \in Requests \cup {Job}, StartRun(t)
    PROVE  Ending'
  <1>1. Run \in Threads
    BY ThreadsApart
  <1>2. PICK r : r = [Idle EXCEPT !.at = "loop"]
    OBVIOUS
  <1>3. r.at = "loop" /\ thread'[Run] = r
    BY <1>1, <1>2, StartsAlone, Anew
  <1> QED BY <1>1, <1>3, SomebodyGoesOn DEF Ending, At

\* A handler leaves with the run started.
LEMMA EndingServe ==
    ASSUME Typed, Alone, Stopping, Ending, NEW h \in Requests, Serve(h)
    PROVE  Ending'
  <1>0. h \in Threads /\ h # Run /\ Run \in Threads
    BY ThreadsApart
  <1>1. ASSUME At(h, "send") \/ At(h, "take"), NEW r, Become(h, r), r.at # "idle"
        PROVE  Ending'
    <2>1. Working(h) /\ ~Interrupts(h)
      BY <1>1 DEF Working, Interrupts, At
    <2>2. ~Working(Run)
      BY <1>0, <2>1, Others
    <2> QED BY <1>0, <1>1, <2>2, BecomeMoves, EndingAside
  <1>2. CASE Resend(h)
    <2>1. At(h, "send")
      BY <1>2 DEF Resend
    <2>2. ~Working(Run)
      BY <1>0, <2>1, Others DEF Working, Interrupts, At
    <2>3. Become(h, [Idle EXCEPT !.at = "start"])
      BY <1>2, <2>2 DEF Resend, Sent, Alone
    <2>4. PICK r : r = [Idle EXCEPT !.at = "start"]
      OBVIOUS
    <2>5. r.at # "idle"
      BY <2>4, Anew
    <2> QED BY <1>1, <2>1, <2>3, <2>4, <2>5
  <1>3. CASE TakeQueued(h)
    <2>1. PICK r : r = [at |-> "next", todo |-> queued, own |-> NoCall]
      OBVIOUS
    <2>2. r.at # "idle"
      BY <2>1
    <2> QED BY <1>1, <1>3, <2>1, <2>2 DEF TakeQueued
  <1>4. CASE InterruptTool(h)
    <2>1. Interrupts(h) /\ Become(h, Idle) /\ UNCHANGED <<halted, stopRequested>>
      BY <1>4 DEF InterruptTool, Interrupts, flags, history
    <2>2. halted /\ (Working(Run) => stopRequested)
      BY <2>1 DEF Stopping
    <2>3. thread'[Run] = thread[Run]
      BY <1>0, <2>1, BecomeMoves DEF Moves
    <2>4. At(Run, "exit")' => stopRequested'
      BY <2>1, <2>2, <2>3 DEF At, Working
    <2> QED BY <2>1, <2>2, <2>4, StoppedIsNotStuck DEF Ending
  <1>5. CASE StartRun(h)
    BY <1>5, EndingStartRun
  <1> QED BY <1>2, <1>3, <1>4, <1>5 DEF Serve

\* The user's requests leave a handler at work, or stop what is on.
LEMMA EndingUserActs ==
    ASSUME \A u \in Users : Polite(u), Typed, Alone, Core, Ending, NEW h \in Requests, UserActs(h)
    PROVE  Ending'
  <1>0. h \in Threads /\ h # Run /\ Job \in Threads /\ Job # Run /\ Run \in Threads
    BY ThreadsApart
  <1>1. CASE StopSession(h)
    <2>1. halted' = TRUE /\ stopRequested' = TRUE
      BY <1>1 DEF StopSession
    <2> QED BY <2>1, StoppedIsNotStuck DEF Ending
  <1>2. CASE ~StopSession(h)
    <2>1. ~Working(Run)
      BY <1>0, <1>2, NobodyAtWork DEF UserActs, Core
    <2>2. \E t \in {h, Job}, step \in {"start", "send", "execute", "result", "launch", "deliver"} :
            \/ Become(t, [Idle EXCEPT !.at = step])
            \/ \E c : Become(t, [Idle EXCEPT !.at = step, !.own = c])
      BY <1>2 DEF UserActs, Send, Sent, Rewind, ResolveApproval, AnswerQuestion, StartForcedWorkflow, Round,
                  ResumeTaskGroup
    <2>3. PICK t \in {h, Job}, step \in {"start", "send", "execute", "result", "launch", "deliver"} :
            \/ Become(t, [Idle EXCEPT !.at = step])
            \/ \E c : Become(t, [Idle EXCEPT !.at = step, !.own = c])
      BY <2>2
    <2>4. PICK r : /\ r = [Idle EXCEPT !.at = step] \/ \E c : r = [Idle EXCEPT !.at = step, !.own = c]
                   /\ Become(t, r)
      BY <2>3
    <2>5. r.at # "idle"
      <3>1. CASE r = [Idle EXCEPT !.at = step]
        BY <3>1, Anew
      <3>2. CASE \E c : r = [Idle EXCEPT !.at = step, !.own = c]
        BY <3>2, Anew
      <3> QED BY <2>4, <3>1, <3>2
    <2> QED BY <1>0, <2>1, <2>4, <2>5, BecomeMoves, EndingAside
  <1> QED BY <1>1, <1>2

\* A workflow leaves with the run started, or waits for its group.
LEMMA EndingWorkflow ==
    ASSUME Typed, Alone, Stopping, Core, Ending, Workflow
    PROVE  Ending'
  <1>0. Job \in Threads /\ Job # Run /\ Run \in Threads
    BY ThreadsApart
  <1>1. CASE StartRun(Job)
    BY <1>1, EndingStartRun
  <1>2. CASE GroupInterrupted
    <2>1. At(Job, "broken") /\ UNCHANGED halted
      BY <1>2 DEF GroupInterrupted, history
    <2>2. halted /\ ~Working(Run)
      BY <1>0, <2>1, JobAtWork DEF Stopping, Working, At
    <2>3. \E r : Become(Job, r)
      BY <1>2 DEF GroupInterrupted
    <2>4. thread'[Run] = thread[Run]
      BY <1>0, <2>3, BecomeMoves DEF Moves
    <2>5. ~At(Run, "exit")'
      BY <2>2, <2>4 DEF At, Working
    <2> QED BY <2>1, <2>2, <2>5, StoppedIsNotStuck DEF Ending
  <1>3. CASE Launch \/ GroupEnds \/ Deliver \/ FollowUp
    <2>1. thread[Job].at \in {"launch", "group", "deliver", "round"}
      BY <1>3 DEF Launch, GroupEnds, Deliver, FollowUp, At
    <2>2. ~Working(Run)
      BY <1>0, <2>1, JobAtWork DEF Working
    <2>3. \E step \in {"group", "deliver", "round", "launch", "start"} :
            \/ Go(Job, step)
            \/ Become(Job, [Idle EXCEPT !.at = step])
            \/ \E c : Become(Job, [Idle EXCEPT !.at = step, !.own = c])
      BY <1>3 DEF Launch, GroupEnds, Deliver, FollowUp, Round
    <2>4. PICK step \in {"group", "deliver", "round", "launch", "start"} :
            \/ Go(Job, step)
            \/ Become(Job, [Idle EXCEPT !.at = step])
            \/ \E c : Become(Job, [Idle EXCEPT !.at = step, !.own = c])
      BY <2>3
    <2>5. \E r : Moves(Job, r) /\ r.at # "idle"
      <3>1. CASE Go(Job, step)
        BY <1>0, <3>1, GoMoves DEF Moves
      <3>2. CASE \/ Become(Job, [Idle EXCEPT !.at = step])
                 \/ \E c : Become(Job, [Idle EXCEPT !.at = step, !.own = c])
        <4>1. PICK r : /\ r = [Idle EXCEPT !.at = step] \/ \E c : r = [Idle EXCEPT !.at = step, !.own = c]
                       /\ Become(Job, r)
          BY <3>2
        <4>2. r.at # "idle"
          <5>1. CASE r = [Idle EXCEPT !.at = step]
            BY <5>1, Anew
          <5>2. CASE \E c : r = [Idle EXCEPT !.at = step, !.own = c]
            BY <5>2, Anew
          <5> QED BY <4>1, <5>1, <5>2
        <4> QED BY <1>0, <4>1, <4>2, BecomeMoves
      <3> QED BY <2>4, <3>1, <3>2
    <2> QED BY <1>0, <2>2, <2>5, EndingAside
  <1> QED BY <1>1, <1>2, <1>3 DEF Workflow

\* No run ends in the middle.
LEMMA EndingStep ==
    ASSUME \A u \in Users : Polite(u), Typed, Alone, Stopping, Core, Ending, [Next]_vars
    PROVE  Ending'
  <1>1. CASE UNCHANGED vars
    BY <1>1 DEF vars, session, flags, history, Ending, At, Pending, Final, NotStuck, Resting, Waiting
  <1>2. CASE Restart
    <2>1. halted' /\ thread'[Run].at = "idle"
      BY <1>2, AllRest, ThreadsApart DEF Working
    <2> QED BY <2>1, StoppedIsNotStuck DEF Ending, At
  <1> QED BY <1>1, <1>2, EndingConversation, EndingBatch, EndingServe, EndingUserActs, EndingWorkflow
          DEF Next, Workers

\* The calls the user approved: each has run, or a handler is about to run it.
LEMMA ApprovingAlong ==
    ASSUME Approving, approved' = approved, Range(ran) \subseteq Range(ran'),
           \A h \in Requests : At(h, "execute") => thread'[h] = thread[h]
    PROVE  Approving'
  <1> SUFFICES ASSUME NEW c \in approved
               PROVE  c \in Range(ran') \/ \E h \in Requests : At(h, "execute")' /\ thread'[h].own = c
    BY DEF Approving
  <1>1. CASE c \in Range(ran)
    BY <1>1
  <1>2. CASE \E h \in Requests : At(h, "execute") /\ thread[h].own = c
    BY <1>2 DEF At
  <1> QED BY <1>1, <1>2 DEF Approving

\* Only one who starts a tool moves on from there.
LEMMA ApprovingAside ==
    ASSUME Typed, Approving, NEW t \in Threads, NEW r, Moves(t, r), thread[t].at # "execute",
           UNCHANGED <<approved, ran>>
    PROVE  Approving'
  <1>1. \A h \in Requests : At(h, "execute") => thread'[h] = thread[h]
    BY ThreadsApart DEF Moves, At
  <1> QED BY <1>1, ApprovingAlong

\* Who starts a tool has it among those that ran.
LEMMA ApprovingExecuteTool ==
    ASSUME Typed, Core, Approving, NEW t \in Workers, ExecuteTool(t)
    PROVE  Approving'
  <1>1. thread[t].at = "execute" /\ UNCHANGED approved
    BY DEF ExecuteTool, At
  <1>2. thread[t].at \in BatchSteps /\ thread[t].at \in HandSteps
    BY <1>1 DEF BatchSteps, HandSteps
  <1>3. t \in Threads /\ Sound(t, thread[t]) /\ t \in Requests \cup {Run} /\ ran \in Seq(Calls) /\ approved \subseteq Calls
    BY <1>2, AtWork DEF Typed, TypeOK
  <1>4. PICK step : Go(t, step)
    BY DEF ExecuteTool
  <1>5. PICK r : Moves(t, r)
    BY <1>3, <1>4, GoMoves
  <1>6. CASE stopRequested
    <2>1. t \notin Requests
      BY <1>2, <1>6 DEF Core, Asked
    <2>2. \A h \in Requests : At(h, "execute") => thread'[h] = thread[h]
      BY <1>5, <2>1, ThreadsApart DEF Moves
    <2>3. ran' = ran
      BY <1>6 DEF ExecuteTool
    <2> QED BY <1>1, <2>2, <2>3, ApprovingAlong
  <1>7. CASE ~stopRequested
    <2>1. ran' = Append(ran, Current(t))
      BY <1>7 DEF ExecuteTool
    <2>2. Current(t) \in Calls
      BY <1>1, <1>3, CurrentIsCall DEF Sound
    <2>3. Range(ran') = Range(ran) \cup {Current(t)}
      BY <1>3, <2>1, <2>2, AppendAdds
    <2> SUFFICES ASSUME NEW c \in approved
                 PROVE  c \in Range(ran') \/ \E h \in Requests : At(h, "execute")' /\ thread'[h].own = c
      BY <1>1 DEF Approving
    <2>4. CASE c \in Range(ran)
      BY <2>3, <2>4
    <2>5. ASSUME NEW h \in Requests, At(h, "execute"), thread[h].own = c
          PROVE  c \in Range(ran') \/ (At(h, "execute")' /\ thread'[h].own = c)
      <3>1. CASE h = t
        <4>1. c # NoCall
          BY <1>3, ChatRunAssumption DEF Calls, NoCall
        <4>2. Current(t) = c
          BY <2>5, <3>1, <4>1 DEF Current
        <4> QED BY <2>3, <4>2
      <3>2. CASE h # t
        BY <1>5, <2>5, <3>2, ThreadsApart DEF Moves, At
      <3> QED BY <3>1, <3>2
    <2> QED BY <2>4, <2>5 DEF Approving
  <1> QED BY <1>6, <1>7

\* The user approves a call, and a handler is about to run it.
LEMMA ApprovingUserActs ==
    ASSUME Typed, Approving, NEW h \in Requests, UserActs(h)
    PROVE  Approving'
  <1>0. h \in Threads /\ Job \in Threads /\ Job \notin Requests /\ h # Job
    BY ThreadsApart
  <1>1. thread[h] = Idle /\ ~At(h, "execute") /\ UNCHANGED ran
    <2>1. Asks(h) /\ UNCHANGED ran
      BY DEF UserActs, Send, Rewind, ResolveApproval, AnswerQuestion, StopSession, StartForcedWorkflow,
             ResumeTaskGroup
    <2> QED BY <2>1, Anew DEF Asks, At
  <1>2. CASE ResolveApproval(h)
    <2>1. PICK c \in approvals, yes \in BOOLEAN :
            /\ Become(h, [Idle EXCEPT !.at = IF yes THEN "execute" ELSE "result", !.own = c])
            /\ approved' = IF yes THEN approved \cup {c} ELSE approved
      BY <1>2 DEF ResolveApproval
    <2>2. PICK r : r = [Idle EXCEPT !.at = IF yes THEN "execute" ELSE "result", !.own = c]
      OBVIOUS
    <2>3. r.at = (IF yes THEN "execute" ELSE "result") /\ r.own = c /\ Moves(h, r)
      BY <1>0, <2>1, <2>2, BecomeMoves, Anew
    <2> SUFFICES ASSUME NEW d \in approved'
                 PROVE  d \in Range(ran') \/ \E g \in Requests : At(g, "execute")' /\ thread'[g].own = d
      BY DEF Approving
    <2>4. CASE d \in approved
      <3>1. \A g \in Requests : At(g, "execute") => thread'[g] = thread[g]
        BY <1>1, <2>3, ThreadsApart DEF Moves
      <3> QED BY <1>1, <2>4, <3>1 DEF Approving, At
    <2>5. CASE d \notin approved
      BY <2>1, <2>3, <2>5 DEF Moves, At
    <2> QED BY <2>4, <2>5
  <1>3. CASE StopSession(h)
    <2>1. UNCHANGED approved /\ thread' = [thread EXCEPT ![h] = Interrupting, ![Job] = Broken]
      BY <1>3 DEF StopSession
    <2>2. \A g \in Requests : At(g, "execute") => thread'[g] = thread[g]
      BY <1>0, <1>1, <2>1, ThreadsApart DEF Typed, TypeOK
    <2> QED BY <1>1, <2>1, <2>2, ApprovingAlong
  <1>4. CASE Send(h) \/ Rewind(h) \/ AnswerQuestion(h) \/ StartForcedWorkflow(h) \/ ResumeTaskGroup(h)
    <2>1. UNCHANGED approved /\ \E t \in {h, Job} : \E v : Become(t, v)
      BY <1>4 DEF Send, Sent, Rewind, AnswerQuestion, StartForcedWorkflow, Round, ResumeTaskGroup
    <2>2. PICK t \in {h, Job} : \E v : Become(t, v)
      BY <2>1
    <2>3. \E v : Moves(t, v)
      BY <1>0, <2>2, BecomeMoves
    <2>4. \A g \in Requests : At(g, "execute") => thread'[g] = thread[g]
      BY <1>0, <1>1, <2>3, ThreadsApart DEF Moves
    <2> QED BY <1>1, <2>1, <2>4, ApprovingAlong
  <1> QED BY <1>2, <1>3, <1>4 DEF UserActs

\* What was approved runs, by every step.
LEMMA ApprovingStep ==
    ASSUME Typed, Alone, Core, Approving, [Next]_vars
    PROVE  Approving'
  <1>0. Run \in Threads /\ Job \in Threads /\ Run \notin Requests /\ Job \notin Requests
    BY ThreadsApart
  <1>1. CASE Conversation
    <2>1. UNCHANGED <<approved, ran>>
      BY <1>1 DEF Conversation, Loop, BeginLLMCall, StreamChat, AppendTurn, Exit, history
    <2>2. \E v : Become(Run, v)
      <3>1. CASE StreamChat
        <4>1. \/ Go(Run, "exit")
              \/ \E n \in 0 .. MaxBatch : Become(Run, [at |-> "append", own |-> NoCall,
                                                     todo |-> [i \in 1 .. n |-> issued + i]])
          BY ZenonT(60), <3>1 DEF StreamChat, Failure
        <4> QED BY <4>1 DEF Go, Become
      <3>2. CASE Loop \/ BeginLLMCall \/ AppendTurn \/ Exit
        BY <3>2 DEF Loop, BeginLLMCall, AppendTurn, Exit, Go, Become
      <3> QED BY <1>1, <3>1, <3>2 DEF Conversation
    <2>3. \A h \in Requests : thread'[h] = thread[h]
      BY <1>0, <2>2, BecomeMoves, ThreadsApart DEF Moves
    <2> QED BY <2>1, <2>3, ApprovingAlong
  <1>2. ASSUME NEW t \in Workers, Batch(t) PROVE Approving'
    <2>1. CASE ExecuteTool(t)
      BY <2>1, ApprovingExecuteTool
    <2>2. CASE Drained(t) \/ PrepareTool(t) \/ ToolReturns(t) \/ AppendResult(t) \/ CheckStop(t) \/ Pause(t)
      <3>1. thread[t].at # "execute" /\ UNCHANGED <<approved, ran>>
        BY <2>2 DEF Drained, PrepareTool, ToolReturns, AppendResult, CheckStop, Pause, At, history
      <3>2. \E v : Become(t, v)
        BY <2>2 DEF Drained, PrepareTool, ToolReturns, AppendResult, CheckStop, Pause, Go, Become
      <3>3. t \in Threads
        BY DEF Workers, Threads
      <3> QED BY <3>1, <3>2, <3>3, BecomeMoves, ApprovingAside
    <2> QED BY <1>2, <2>1, <2>2 DEF Batch
  <1>3. ASSUME NEW t \in Requests \cup {Job}, StartRun(t) PROVE Approving'
    <2>1. UNCHANGED <<approved, ran>> /\ thread[t].at = "start"
      BY <1>3 DEF StartRun, At
    <2>2. \A h \in Requests : h # t => thread'[h] = thread[h]
      BY <1>0, <1>3, StartsAlone, ThreadsApart
    <2>3. \A h \in Requests : At(h, "execute") => thread'[h] = thread[h]
      BY <2>1, <2>2 DEF At
    <2> QED BY <2>1, <2>3, ApprovingAlong
  <1>4. ASSUME NEW h \in Requests, Serve(h) PROVE Approving'
    <2>1. CASE Resend(h) \/ TakeQueued(h) \/ InterruptTool(h)
      <3>1. thread[h].at # "execute" /\ UNCHANGED <<approved, ran>> /\ h \in Threads
        BY <2>1, ThreadsApart DEF Resend, TakeQueued, InterruptTool, At, history
      <3>2. \E v : Become(h, v)
        BY <2>1 DEF Resend, Sent, TakeQueued, InterruptTool
      <3> QED BY <3>1, <3>2, BecomeMoves, ApprovingAside
    <2> QED BY <1>3, <1>4, <2>1 DEF Serve
  <1>5. CASE Workflow
    <2>1. CASE StartRun(Job)
      BY <1>3, <2>1
    <2>2. CASE Launch \/ GroupEnds \/ GroupInterrupted \/ Deliver \/ FollowUp
      <3>1. thread[Job].at # "execute" /\ UNCHANGED <<approved, ran>>
        BY <2>2 DEF Launch, GroupEnds, GroupInterrupted, Deliver, FollowUp, At, history
      <3>2. \E v : Become(Job, v)
        BY <2>2 DEF Launch, GroupEnds, GroupInterrupted, Deliver, FollowUp, Round, Go, Become
      <3> QED BY <1>0, <3>1, <3>2, BecomeMoves, ApprovingAside
    <2> QED BY <1>5, <2>1, <2>2 DEF Workflow
  <1>6. CASE Restart
    BY <1>6 DEF Restart, Approving
  <1>7. CASE UNCHANGED vars
    BY <1>7 DEF vars, history, Approving, At
  <1> QED BY <1>1, <1>2, <1>4, <1>5, <1>6, <1>7, ApprovingUserActs DEF Next, Workers

-----------------------------------------------------------------------------
(* What holds for such users.                                              *)

\* The inductive invariant.
Orderly == Typed /\ Ledger /\ Alone /\ Stopping /\ Core /\ Ending /\ Approving

\* The invariant holds in the beginning,
LEMMA OrderlyInit == Init => Orderly
  <1> SUFFICES ASSUME Init PROVE Orderly
    OBVIOUS
  <1>1. thread[Run].at = "idle"
    BY ThreadsApart, Anew DEF Init
  <1>2. Ending
    BY <1>1 DEF Ending, At, NotStuck, Init
  <1>3. Approving
    BY DEF Approving, Init
  <1> QED BY <1>2, <1>3, TypedInit, LedgerInit, InOrderFromTheStart DEF Orderly

\* and every step keeps it.
LEMMA OrderlyStep ==
    ASSUME \A u \in Users : Polite(u)
    PROVE  Orderly /\ [Next]_vars => Orderly'
  <1> SUFFICES ASSUME Orderly, [Next]_vars PROVE Orderly'
    OBVIOUS
  <1>1. Typed /\ Ledger /\ Alone /\ Stopping /\ Core /\ Ending /\ Approving /\ Asked /\ Grouped
    BY DEF Orderly, Core
  <1>2. Typed' /\ Ledger'
    BY <1>1, TypedStep, LedgerStep
  <1>3. Alone' /\ Stopping'
    BY <1>1, AloneStep, StoppingStep
  <1>4. Core' /\ Ending' /\ Approving'
    BY <1>1, CoreStep, EndingStep, ApprovingStep
  <1> QED BY <1>2, <1>3, <1>4 DEF Orderly

\* A tool is started by one step only.
LEMMA WhoStarts ==
    ASSUME [Next]_vars, ran' # ran
    PROVE  \E t \in Workers : ExecuteTool(t) /\ ~stopRequested /\ ran' = Append(ran, Current(t))
  <1>1. Next
    BY DEF vars, history
  <1>2. ~Conversation
    BY DEF Conversation, Loop, BeginLLMCall, StreamChat, AppendTurn, Exit, history
  <1>3. \A h \in Requests : ~Serve(h) /\ ~UserActs(h)
    BY DEF Serve, Resend, TakeQueued, StartRun, InterruptTool, UserActs, Send, Rewind, ResolveApproval,
           AnswerQuestion, StopSession, StartForcedWorkflow, ResumeTaskGroup, history
  <1>4. ~Workflow /\ ~Restart
    BY DEF Workflow, Launch, GroupEnds, GroupInterrupted, Deliver, FollowUp, StartRun, Restart, history
  <1>5. PICK t \in Workers : Batch(t)
    BY <1>1, <1>2, <1>3, <1>4 DEF Next, Workers
  <1>6. ExecuteTool(t)
    BY <1>5 DEF Batch, Drained, PrepareTool, ToolReturns, AppendResult, CheckStop, Pause, history
  <1>7. ~stopRequested /\ ran' = Append(ran, Current(t))
    BY <1>6 DEF ExecuteTool
  <1> QED BY <1>6, <1>7

\* The provider is never asked with a call unanswered or a stray result
\* (ensureToolResultsComplete, run_loop.go).
THEOREM ProviderKept ==
    ASSUME \A u \in Users : Polite(u)
    PROVE  Spec => []ProviderInvariant
  <1>1. Orderly => ProviderInvariant
    BY DEF Orderly, Core
  <1> QED BY <1>1, OrderlyInit, OrderlyStep, PTL DEF Spec

\* A tool is started only for a call that is in the last turn and has no result
\* (processToolCalls, takePendingToolCalls, RewindAndResend).
THEOREM OnlyOpenCallsRun ==
    ASSUME \A u \in Users : Polite(u)
    PROVE  Spec => NoStrayTool
  <1>1. Orderly /\ [Next]_vars => [ran' # ran => Last(ran') \in Open(transcript)]_vars
    <2> SUFFICES ASSUME Orderly, [Next]_vars, ran' # ran PROVE Last(ran') \in Open(transcript)
      OBVIOUS
    <2>1. PICK t \in Workers : ExecuteTool(t) /\ ran' = Append(ran, Current(t))
      BY WhoStarts
    <2>2. thread[t].at = "execute" /\ thread[t].at \in BatchSteps
      BY <2>1 DEF ExecuteTool, At, BatchSteps
    <2>3. /\ t \in Threads /\ ~Interrupts(t) /\ interrupted = {}
          /\ Sound(t, thread[t]) /\ thread[t].todo \in Seq(Calls)
      BY <2>2, AtWork, AloneInBatch DEF Orderly
    <2>4. Current(t) \in Ahead(thread[t])
      <3>1. CASE thread[t].own # NoCall
        BY <2>2, <3>1 DEF Ahead, Current
      <3>2. CASE thread[t].own = NoCall
        BY <2>2, <2>3, <3>2, TailLeaves DEF Ahead, Current, Sound
      <3> QED BY <3>1, <3>2
    <2>5. Current(t) \in Unanswered
      <3>1. Answering(t) = Ahead(thread[t])
        BY <2>3, IdleAnswersNothing
      <3> QED BY <2>4, <3>1 DEF Orderly, Core, Asked
    <2>6. Last(ran') = Current(t)
      <3>1. ran \in Seq(Calls) /\ Current(t) \in Calls
        BY <2>2, <2>3, CurrentIsCall DEF Orderly, Typed, TypeOK, Sound
      <3> QED BY <2>1, <3>1 DEF Last
    <2> QED BY <2>5, <2>6 DEF Unanswered
  <1> QED BY <1>1, OrderlyInit, OrderlyStep, PTL DEF Spec, NoStrayTool

\* A stop holds until the user asks for something: no tool is started, and the model is
\* not asked (StopSession, markRunningTool, beginLLMCall).
THEOREM StopsHold ==
    ASSUME \A u \in Users : Polite(u)
    PROVE  Spec => StopSticks
  <1>1. Orderly /\ [Next]_vars =>
          [halted => /\ ran' = ran
                     /\ At(Run, "begin") => thread'[Run].at # "stream"]_vars
    <2> SUFFICES ASSUME Orderly, [Next]_vars, halted
                 PROVE  ran' = ran /\ (At(Run, "begin") => thread'[Run].at # "stream")
      OBVIOUS
    <2>0. Run \in Threads /\ Typed /\ Alone /\ Stopping /\ Asked /\ Grouped
      BY ThreadsApart DEF Orderly, Core
    <2>1. ran' = ran
      <3> SUFFICES ASSUME ran' # ran PROVE FALSE
        OBVIOUS
      <3>1. PICK t \in Workers : ExecuteTool(t) /\ ~stopRequested
        BY WhoStarts
      <3>2. Working(t) /\ ~Interrupts(t)
        BY <3>1 DEF ExecuteTool, Working, Interrupts, At
      <3> QED BY <2>0, <3>1, <3>2 DEF Stopping, Workers
    <2>2. ASSUME At(Run, "begin") PROVE thread'[Run].at # "stream"
      <3>1. Working(Run) /\ \A u \in Threads : u # Run => ~Working(u)
        BY <2>0, <2>2, RunAlone DEF At, Working
      <3>2. CASE Conversation
        <4>1. BeginLLMCall /\ stopRequested
          BY <2>0, <2>2, <3>1, <3>2 DEF Conversation, Loop, StreamChat, AppendTurn, Exit, At, Stopping
        <4> QED BY <2>0, <4>1, GoMoves DEF BeginLLMCall
      <3>3. ASSUME NEW t \in Workers, Batch(t) PROVE FALSE
        <4>1. thread[t].at \in BatchSteps
          BY <3>3 DEF Batch, Drained, PrepareTool, ExecuteTool, ToolReturns, AppendResult, CheckStop, Pause, At,
                      BatchSteps
        <4>2. t \in Threads /\ Working(t) /\ thread[t].at # "begin"
          BY <2>0, <4>1, AtWork DEF BatchSteps
        <4> QED BY <2>2, <3>1, <4>2 DEF At
      <3>4. ASSUME NEW h \in Requests, Serve(h) PROVE FALSE
        <4>1. Working(h) /\ h \in Threads /\ h # Run
          BY <3>4, ThreadsApart DEF Serve, Resend, TakeQueued, StartRun, InterruptTool, At, Working
        <4> QED BY <3>1, <4>1
      <3>5. ASSUME NEW h \in Requests, UserActs(h) PROVE thread'[Run] = thread[Run]
        <4>1. StopSession(h)
          BY <2>0, <3>1, <3>5, NobodyAtWork DEF UserActs
        <4> QED BY <2>0, <4>1, ThreadsApart DEF StopSession, Typed, TypeOK
      <3>6. ~Workflow
        <4>1. Workflow => Working(Job)
          BY DEF Workflow, Launch, GroupEnds, GroupInterrupted, Deliver, FollowUp, StartRun, At, Working
        <4> QED BY <3>1, <4>1, ThreadsApart
      <3>7. CASE Restart
        BY <2>0, <3>7, AllRest DEF Working
      <3>8. CASE UNCHANGED vars
        BY <2>2, <3>8 DEF vars, At
      <3> QED BY <2>2, <3>2, <3>3, <3>4, <3>5, <3>6, <3>7, <3>8 DEF Next, Workers, At
    <2> QED BY <2>1, <2>2
  <1> QED BY <1>1, OrderlyInit, OrderlyStep, PTL DEF Spec, StopSticks

\* No conversation is left in the middle (processToolCalls, startRun).
THEOREM NeverStuck ==
    ASSUME \A u \in Users : Polite(u)
    PROVE  Spec => []NotStuck
  <1>1. Orderly => NotStuck
    BY DEF Orderly, Ending
  <1> QED BY <1>1, OrderlyInit, OrderlyStep, PTL DEF Spec

\* What the user approved is run (ResolveApproval, executeToolCall).
THEOREM ApprovedCallsRun ==
    ASSUME \A u \in Users : Polite(u)
    PROVE  Spec => []ApprovedRuns
  <1>1. Orderly => ApprovedRuns
    <2> SUFFICES ASSUME Approving, Resting PROVE approved \subseteq Range(ran)
      BY DEF Orderly, ApprovedRuns
    <2>1. \A h \in Requests : ~At(h, "execute")
      BY ThreadsApart, Anew DEF Resting, At
    <2> QED BY <2>1 DEF Approving
  <1> QED BY <1>1, OrderlyInit, OrderlyStep, PTL DEF Spec
=============================================================================
