------------------------------ MODULE LazyFill ------------------------------
(***************************************************************************)
(* The lazy description fill: a read that names resources without a        *)
(* description asks a model for them, waits until they came back or a      *)
(* deadline passed, and writes what it got.                                *)
(*                                                                         *)
(* Two ledgers keep a resource the model will not describe from being paid *)
(* for by every read.  Each FILLER (a process: the MCP server, or one      *)
(* intercepted `cat` or `grep`) has the set of what it attempted; the      *)
(* database has a table of attempts that every process reads, keyed by the *)
(* FINGERPRINT of the code that was tried (kind, name, file and span).     *)
(* Neither may hold back a resource nobody answered for: one cut off by    *)
(* the deadline, one that was edited, one whose description was cleared.   *)
(*                                                                         *)
(* A description is abstracted to whether there is one, a batch to a       *)
(* single resource.                                                        *)
(***************************************************************************)
EXTENDS Naturals, FiniteSets

CONSTANTS
    Nodes,          \* the resources reads name
    Prints,         \* the fingerprints a resource can have
    Gone,           \* the fingerprint of a resource that does not exist
    Reads,          \* the reads in flight
    Fillers,        \* the processes with a Filler
    Of,             \* [Reads -> Fillers]
    OneShot,        \* the Fillers that end with their read
    MaxEdits,       \* bound: number of edits to the code
    MaxClears,      \* bound: number of `descriptions clear`
    MaxFaults       \* bound: number of deadlines, provider failures and kills

ASSUME LazyFillAssumption ==
    /\ Gone \notin Prints
    /\ Prints # {}
    /\ Of \in [Reads -> Fillers]
    /\ OneShot \subseteq Fillers
    /\ \A r, s \in Reads : Of[r] = Of[s] /\ Of[r] \in OneShot => r = s
    /\ MaxEdits \in Nat
    /\ MaxClears \in Nat
    /\ MaxFaults \in Nat

VARIABLES
    code,       \* [Nodes -> Prints or Gone]: the resources in the database
    described,  \* the resources with a description
    attempts,   \* [Nodes -> Prints or Gone]: description_attempts; Gone: no row
    attempted,  \* [Fillers -> SUBSET Nodes]
    read,       \* [Reads -> Read]
    clearing,   \* `descriptions clear` stands between its two writes
    answered,   \* the pairs of resource and fingerprint the model answered
                \* for; history
    heard,      \* [Fillers -> SUBSET Nodes]: what a Filler got an answer or an
                \* error for, or found recorded, since it started; history
    edits, clears, faults

database == <<code, described, attempts>>
history == <<answered, heard>>
counts == <<edits, clears, faults>>
vars == <<database, attempted, read, clearing, history, counts>>

-----------------------------------------------------------------------------
Steps == {"idle", "consult", "claim", "run", "write", "release"}

\* plan: the targets and their fingerprints (Gone: not a target).  known: those
\* with a recorded attempt.  reply: what came back for each pending target;
\* "nothing" is an answer without a usable description, "none" no answer at all.
Read == [step: Steps,
         plan: [Nodes -> Prints \cup {Gone}],
         known: SUBSET Nodes,
         pending: SUBSET Nodes,
         reply: [Nodes -> {"none", "text", "nothing", "error"}],
         written: SUBSET Nodes]

NoRows == [n \in Nodes |-> Gone]
Idle == [step |-> "idle", plan |-> NoRows, known |-> {}, pending |-> {},
         reply |-> [n \in Nodes |-> "none"], written |-> {}]

TypeOK ==
    /\ code \in [Nodes -> Prints \cup {Gone}]
    /\ described \subseteq {n \in Nodes : code[n] # Gone}
    /\ attempts \in [Nodes -> Prints \cup {Gone}]
    /\ attempted \in [Fillers -> SUBSET Nodes]
    /\ read \in [Reads -> Read]
    /\ clearing \in BOOLEAN
    /\ answered \subseteq Nodes \X Prints
    /\ heard \in [Fillers -> SUBSET Nodes]
    /\ edits \in Nat
    /\ clears \in Nat
    /\ faults \in Nat

Init ==
    /\ code = [n \in Nodes |-> CHOOSE print \in Prints : TRUE]
    /\ described = {}
    /\ attempts = NoRows
    /\ attempted = [f \in Fillers |-> {}]
    /\ read = [r \in Reads |-> Idle]
    /\ clearing = FALSE
    /\ answered = {}
    /\ heard = [f \in Fillers |-> {}]
    /\ edits = 0
    /\ clears = 0
    /\ faults = 0

-----------------------------------------------------------------------------
(* A read.                                                                 *)

At(r, step) == read[r].step = step
Become(r, new) == read' = [read EXCEPT ![r] = new]
Fault == faults < MaxFaults /\ faults' = faults + 1

Targets(r) == {n \in Nodes : read[r].plan[n] # Gone}
Replied(r, replies) == {n \in read[r].pending : read[r].reply[n] \in replies}

\* The plan: undescribed resources S, from the topology as it is.
Plan(r, S) ==
    /\ At(r, "idle")
    /\ S # {}
    /\ S \subseteq {n \in Nodes : code[n] # Gone} \ described
    /\ Become(r, [Idle EXCEPT !.step = "consult",
                    !.plan = [n \in Nodes |-> IF n \in S THEN code[n] ELSE Gone]])
    /\ UNCHANGED <<database, attempted, clearing, history, counts>>

\* (Operators named for a slip -- RecordedAtAll, UnwrittenPending, ... -- are the
\* variants of the next one that the checked properties must reject.)
RecordedAtAll(r) == {n \in Targets(r) : attempts[n] # Gone}

\* A record counts for the code it was made under.
Recorded(r) == {n \in Targets(r) : attempts[n] = read[r].plan[n]}

\* recordedAttempts reads the table before the Filler's mutex is taken.
Consult(r) ==
    /\ At(r, "consult")
    /\ Become(r, [read[r] EXCEPT !.step = "claim", !.known = Recorded(r)])
    /\ UNCHANGED <<database, attempted, clearing, history, counts>>

\* What nobody else on this Filler took.
FreeOfRecords(r) == Targets(r) \ read[r].known
Free(r) == Targets(r) \ (read[r].known \cup attempted[Of[r]])

\* The read returns: the ledger of its Filler is now S, unless the process was
\* there for this read only.
Return(r, S) ==
    /\ Become(r, Idle)
    /\ attempted' = [attempted EXCEPT ![Of[r]] = IF Of[r] \in OneShot THEN {} ELSE S]

Hear(r, S) ==
    heard' = [heard EXCEPT ![Of[r]] = IF read'[r] = Idle /\ Of[r] \in OneShot THEN {} ELSE @ \cup S]

\* claim: under the Filler's mutex.  A read left with nothing returns.
Claim(r) ==
    /\ At(r, "claim")
    /\ LET taken == attempted[Of[r]] \cup Targets(r)
       IN IF Free(r) = {}
          THEN Return(r, taken)
          ELSE /\ attempted' = [attempted EXCEPT ![Of[r]] = taken]
               /\ Become(r, [read[r] EXCEPT !.step = "run", !.pending = Free(r), !.known = {}])
    /\ Hear(r, read[r].known \ attempted[Of[r]])
    /\ UNCHANGED <<database, clearing, answered, counts>>

\* The provider answers for one target, or fails on it.
Reply(r, n) ==
    /\ At(r, "run")
    /\ n \in Replied(r, {"none"})
    /\ \E reply \in {"text", "nothing", "error"} :
         /\ Become(r, [read[r] EXCEPT !.reply[n] = reply])
         /\ IF reply = "error"
            THEN Fault /\ UNCHANGED answered
            ELSE answered' = answered \cup {<<n, read[r].plan[n]>>} /\ UNCHANGED faults
    /\ Hear(r, {n})
    /\ UNCHANGED <<database, attempted, clearing, edits, clears>>

\* run returns: everything came back, or the deadline passed and what landed
\* by then is kept.
Collect(r) ==
    /\ At(r, "run")
    /\ IF Replied(r, {"none"}) = {} THEN UNCHANGED faults ELSE Fault
    /\ Become(r, [read[r] EXCEPT !.step = "write"])
    /\ UNCHANGED <<database, attempted, clearing, history, edits, clears>>

\* UPDATE ... WHERE id = ? hits a row, or fails.
LandsAlways(n) == TRUE
Lands(n) == code[n] # Gone

\* write: UpdateDescription, one transaction per target.  A text that found no
\* row is as good as none.
Write(r, n) ==
    /\ At(r, "write")
    /\ n \in Replied(r, {"text"}) \ read[r].written
    /\ IF Lands(n)
       THEN /\ described' = described \cup {n}
            /\ Become(r, [read[r] EXCEPT !.written = @ \cup {n}])
       ELSE /\ UNCHANGED described
            /\ Become(r, [read[r] EXCEPT !.reply[n] = "nothing"])
    /\ UNCHANGED <<code, attempts, attempted, clearing, history, counts>>

\* recordAttempts: what was answered and is still without a description, under
\* the fingerprint it was planned with.
UnwrittenPending(r) == read[r].pending \ read[r].written
Unwritten(r) == Replied(r, {"text", "nothing"}) \ read[r].written

Record(r) ==
    /\ At(r, "write")
    /\ Replied(r, {"text"}) \subseteq read[r].written
    /\ attempts' = [n \in Nodes |-> IF n \in Unwritten(r) THEN read[r].plan[n]
                                     ELSE attempts[n]]
    /\ Become(r, [read[r] EXCEPT !.step = "release"])
    /\ UNCHANGED <<code, described, attempted, clearing, history, counts>>

\* What the deadline cut off.
UnsettledNever(r) == {}
Unsettled(r) == Replied(r, {"none"})

\* release, and the end of the fill.
Release(r) ==
    /\ At(r, "release")
    /\ Return(r, attempted[Of[r]] \ Unsettled(r))
    /\ Hear(r, {})
    /\ UNCHANGED <<database, clearing, answered, counts>>

\* A process ends in the middle of its reads.
Kill(f) ==
    /\ \E r \in Reads : Of[r] = f /\ read[r] # Idle
    /\ Fault
    /\ attempted' = [attempted EXCEPT ![f] = {}]
    /\ heard' = [heard EXCEPT ![f] = {}]
    /\ read' = [r \in Reads |-> IF Of[r] = f THEN Idle ELSE read[r]]
    /\ UNCHANGED <<database, clearing, answered, edits, clears>>

-----------------------------------------------------------------------------
(* Everybody else.                                                         *)

\* A scan brings in an edit: the resource moved or changed (its description
\* stays with its id), is gone, or is back.
Edit(n) ==
    /\ edits < MaxEdits
    /\ edits' = edits + 1
    /\ \E print \in (Prints \cup {Gone}) \ {code[n]} :
         /\ code' = [code EXCEPT ![n] = print]
         /\ described' = IF print = Gone THEN described \ {n} ELSE described
    /\ UNCHANGED <<attempts, attempted, read, clearing, history, clears, faults>>

\* An agent, or the sweep of `descriptions generate`, describes a resource.
UpdateDescription(n) ==
    /\ Lands(n)
    /\ described' = described \cup {n}
    /\ UNCHANGED <<code, attempts, attempted, read, clearing, history, counts>>

\* `descriptions clear` for some kinds, or the rebuild of FullScan: first the
\* descriptions, then the table.
ClearDescriptions ==
    /\ ~clearing
    /\ clears < MaxClears
    /\ clears' = clears + 1
    /\ \E S \in SUBSET described : described' = described \ S
    /\ clearing' = TRUE
    /\ UNCHANGED <<code, attempts, attempted, read, history, edits, faults>>

ClearDescriptionAttempts ==
    /\ clearing
    /\ clearing' = FALSE
    /\ attempts' = NoRows
    /\ UNCHANGED <<code, described, attempted, read, history, counts>>

-----------------------------------------------------------------------------
Fill(r) ==
    \/ Consult(r) \/ Claim(r) \/ Collect(r) \/ Record(r) \/ Release(r)
    \/ \E n \in Nodes : Reply(r, n) \/ Write(r, n)

Next ==
    \/ \E r \in Reads : Fill(r) \/ \E S \in SUBSET Nodes : Plan(r, S)
    \/ \E f \in Fillers : Kill(f)
    \/ \E n \in Nodes : Edit(n) \/ UpdateDescription(n)
    \/ ClearDescriptions \/ ClearDescriptionAttempts

Spec == Init /\ [][Next]_vars

\* A fill that began goes on, `clear` ends, and every resource without a
\* description is named again and again by commands that are processes of
\* their own.
Names(r, n) == \E S \in SUBSET Nodes : n \in S /\ Plan(r, S)
Fairness ==
    /\ \A r \in Reads : WF_vars(Fill(r))
    /\ WF_vars(ClearDescriptionAttempts)
    /\ \A n \in Nodes : SF_vars(\E r \in Reads : Of[r] \in OneShot /\ Names(r, n))

FairSpec == Spec /\ Fairness

-----------------------------------------------------------------------------
(* What has to hold.                                                       *)

\* A resource is paid for once per process: a read takes on nothing another
\* read of its Filler is at, nothing the Filler had an answer or an error for,
\* and nothing it found recorded (claim).
PaidOnce ==
    [][\A r \in Reads :
         LET taken == read'[r].pending \ read[r].pending
         IN /\ taken \cap heard[Of[r]] = {}
            /\ \A s \in Reads \ {r} : Of[s] = Of[r] => taken \cap read[s].pending = {}]_vars

\* A Filler holds a resource back only for a reason: a read of it is at it, or
\* it got an answer or an error.  A deadline is not an answer (release).
HeldForReason ==
    \A f \in Fillers :
        attempted[f] \subseteq heard[f] \cup UNION {read[r].pending : r \in {s \in Reads : Of[s] = f}}

\* The table holds back only what the model answered for, under the very code
\* it was asked about (recordAttempts).
RecordedIsAnswered ==
    \A n \in Nodes : attempts[n] # Gone => <<n, attempts[n]>> \in answered

\* Whatever was edited, cleared, cut off or killed: in the end each resource is
\* described, or recorded as answered for under its present code.
EventuallyDescribed ==
    <>[](\A n \in Nodes : code[n] = Gone \/ n \in described \/ attempts[n] = code[n])
=============================================================================
