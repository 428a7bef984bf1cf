--------------------------- MODULE LazyFillProofs ---------------------------
(***************************************************************************)
(* LazyFill keeps its types, holds a resource back only for a reason, and  *)
(* records only what was answered -- for any resources, reads, processes   *)
(* and bounds.                                                             *)
(***************************************************************************)
EXTENDS LazyFill, TLAPS

-----------------------------------------------------------------------------
(* The inductive invariant: what a fill under way knows.                   *)

\* Before the claim nothing is taken and nobody was asked.
Fresh(s) ==
    s.step \in {"idle", "consult", "claim"} =>
        s.pending = {} /\ \A n \in Nodes : s.reply[n] = "none"

\* What is taken, or was found recorded, was planned, and so has a fingerprint.
Planned(s) == \A n \in s.pending \cup s.known : s.plan[n] # Gone

\* Whatever came back was heard of; an answer is one for the planned code.
Heard(r) == \A n \in read[r].pending : read[r].reply[n] # "none" => n \in heard[Of[r]]
Asked(r) ==
    \A n \in read[r].pending :
        read[r].reply[n] \in {"text", "nothing"} => <<n, read[r].plan[n]>> \in answered

Good(r) == Fresh(read[r]) /\ Planned(read[r]) /\ Heard(r) /\ Asked(r)

\* HeldForReason, resource by resource.
Reason(f, n) == n \in heard[f] \/ \E r \in Reads : Of[r] = f /\ n \in read[r].pending
Reasons == \A f \in Fillers : \A n \in attempted[f] : Reason(f, n)

IInv ==
    /\ TypeOK
    /\ Reasons
    /\ RecordedIsAnswered
    /\ \A r \in Reads : Good(r)

LEMMA ReasonsSuffice == TypeOK => (Reasons <=> HeldForReason)
  BY DEF Reasons, Reason, HeldForReason, TypeOK

-----------------------------------------------------------------------------
\* A read at rest has the type of a read, took nothing and asked nobody.
LEMMA IdleRead ==
    /\ NoRows \in [Nodes -> Prints \cup {Gone}]
    /\ Idle \in Read
    /\ Idle.step = "idle"
    /\ Idle.pending = {}
    /\ Idle.plan = NoRows
    /\ \A n \in Nodes : Idle.reply[n] = "none"
    /\ Fresh(Idle) /\ Planned(Idle)
  BY DEF NoRows, Idle, Read, Steps, Fresh, Planned

\* A read that goes on to a good state leaves every read good, as long as the
\* history of the others only grows.
LEMMA GoodBecome ==
    ASSUME IInv, NEW r \in Reads, NEW s \in Read, Become(r, s),
           Fresh(s), Planned(s),
           \A n \in s.pending : s.reply[n] # "none" => n \in heard'[Of[r]],
           \A n \in s.pending : s.reply[n] \in {"text", "nothing"} => <<n, s.plan[n]>> \in answered',
           \A q \in Reads \ {r} : heard[Of[q]] \subseteq heard'[Of[q]],
           answered \subseteq answered'
    PROVE  /\ read' \in [Reads -> Read]
           /\ \A q \in Reads : Good(q)'
  <1>1. read \in [Reads -> Read] /\ read' = [read EXCEPT ![r] = s]
    BY DEF IInv, TypeOK, Become
  <1>2. read'[r] = s /\ \A q \in Reads \ {r} : read'[q] = read[q]
    BY <1>1
  <1>3. Good(r)'
    BY <1>2 DEF Good, Fresh, Planned, Heard, Asked
  <1>4. ASSUME NEW q \in Reads \ {r} PROVE Good(q)'
    BY <1>2, <1>4 DEF IInv, Good, Fresh, Planned, Heard, Asked
  <1> QED BY <1>1, <1>3, <1>4

\* A read that keeps what it has taken leaves a reason for everything.
LEMMA ReasonsBecome ==
    ASSUME IInv, NEW r \in Reads, NEW s \in Read, Become(r, s),
           read[r].pending \subseteq s.pending,
           UNCHANGED attempted,
           \A f \in Fillers : heard[f] \subseteq heard'[f]
    PROVE  Reasons'
  <1>1. \A q \in Reads : read[q].pending \subseteq read'[q].pending
    BY DEF IInv, TypeOK, Become
  <1> QED BY <1>1 DEF IInv, Reasons, Reason

\* The other reads are not touched by the history of a process that was there
\* for one read only.
LEMMA OthersHear ==
    ASSUME IInv, NEW r \in Reads, NEW S \in SUBSET Nodes, Hear(r, S)
    PROVE  /\ heard' \in [Fillers -> SUBSET Nodes]
           /\ \A f \in Fillers \ {Of[r]} : heard'[f] = heard[f]
           /\ \A q \in Reads \ {r} : heard[Of[q]] \subseteq heard'[Of[q]]
           /\ ~(read'[r] = Idle /\ Of[r] \in OneShot) => heard'[Of[r]] = heard[Of[r]] \cup S
  <1>1. heard \in [Fillers -> SUBSET Nodes] /\ Of \in [Reads -> Fillers]
    BY LazyFillAssumption DEF IInv, TypeOK
  <1>2. PICK T : T = IF read'[r] = Idle /\ Of[r] \in OneShot THEN {} ELSE heard[Of[r]] \cup S
    OBVIOUS
  <1>3. heard' = [heard EXCEPT ![Of[r]] = T] /\ T \in SUBSET Nodes
    BY <1>1, <1>2 DEF Hear
  <1>4. \A f \in Fillers \ {Of[r]} : heard'[f] = heard[f]
    BY <1>1, <1>3
  <1>5. heard'[Of[r]] = T
    BY <1>1, <1>3
  <1>6. ASSUME NEW q \in Reads \ {r} PROVE heard[Of[q]] \subseteq heard'[Of[q]]
    <2>1. CASE Of[q] # Of[r]
      BY <1>1, <1>4, <2>1
    <2>2. CASE Of[q] = Of[r]
      <3>1. Of[r] \notin OneShot
        BY <2>2, LazyFillAssumption
      <3> QED BY <1>2, <1>5, <2>2, <3>1
    <2> QED BY <2>1, <2>2
  <1> QED BY <1>1, <1>2, <1>3, <1>4, <1>5, <1>6

-----------------------------------------------------------------------------
(* Init and the steps of a read.                                           *)

LEMMA InvInit == Init => IInv
  <1> SUFFICES ASSUME Init PROVE IInv
    OBVIOUS
  <1>1. (CHOOSE print \in Prints : TRUE) \in Prints
    BY LazyFillAssumption
  <1>2. code \in [Nodes -> Prints \cup {Gone}]
    BY <1>1 DEF Init
  <1>3. TypeOK
    BY <1>2, IdleRead DEF Init, TypeOK
  <1>4. \A r \in Reads : Good(r)
    BY IdleRead DEF Init, Good, Heard, Asked
  <1>5. Reasons /\ RecordedIsAnswered
    BY DEF Init, Reasons, RecordedIsAnswered, NoRows
  <1> QED BY <1>3, <1>4, <1>5 DEF IInv

LEMMA InvPlan == ASSUME IInv, NEW r \in Reads, NEW S \in SUBSET Nodes, Plan(r, S) PROVE IInv'
  <1>1. PICK s : s = [Idle EXCEPT !.step = "consult",
                        !.plan = [n \in Nodes |-> IF n \in S THEN code[n] ELSE Gone]]
    OBVIOUS
  <1>2. s \in Read /\ s.pending = {} /\ Fresh(s) /\ Planned(s)
    BY <1>1 DEF IInv, TypeOK, Read, Idle, NoRows, Steps, Fresh, Planned
  <1>3. Become(r, s) /\ UNCHANGED <<database, attempted, clearing, history, counts>>
    BY <1>1 DEF Plan
  <1>4. read[r].pending = {}
    BY DEF IInv, Plan, At, Good, Fresh
  <1>5. read' \in [Reads -> Read] /\ \A q \in Reads : Good(q)'
    BY <1>2, <1>3, GoodBecome DEF history
  <1>6. Reasons'
    BY <1>2, <1>3, <1>4, ReasonsBecome DEF history
  <1>7. TypeOK' /\ RecordedIsAnswered'
    BY <1>3, <1>5 DEF IInv, TypeOK, RecordedIsAnswered, database, history, counts
  <1> QED BY <1>5, <1>6, <1>7 DEF IInv

\* A step that changes nothing of a read but its position and what it knows.
LEMMA InvStep ==
    ASSUME IInv, NEW r \in Reads, NEW s \in Read, Become(r, s),
           s.plan = read[r].plan, s.pending = read[r].pending, s.reply = read[r].reply,
           Planned(s), s.step = "claim" => read[r].step = "consult", s.step \notin {"idle", "consult"},
           UNCHANGED <<attempted, history>>, RecordedIsAnswered',
           code' = code, described' \subseteq {n \in Nodes : code[n] # Gone},
           attempts' \in [Nodes -> Prints \cup {Gone}],
           clearing' = clearing, edits' = edits, clears' = clears, faults' \in Nat
    PROVE  IInv'
  <1>1. Fresh(s)
    BY DEF IInv, Good, Fresh
  <1>2. /\ \A n \in s.pending : s.reply[n] # "none" => n \in heard'[Of[r]]
        /\ \A n \in s.pending : s.reply[n] \in {"text", "nothing"} => <<n, s.plan[n]>> \in answered'
    BY DEF IInv, Good, Heard, Asked, history
  <1>3. read' \in [Reads -> Read] /\ \A q \in Reads : Good(q)'
    BY <1>1, <1>2, GoodBecome DEF history
  <1>4. Reasons'
    BY ReasonsBecome DEF history
  <1>5. TypeOK'
    BY <1>3 DEF IInv, TypeOK, history
  <1> QED BY <1>3, <1>4, <1>5 DEF IInv

LEMMA InvConsult == ASSUME IInv, NEW r \in Reads, Consult(r) PROVE IInv'
  <1>1. PICK s : s = [read[r] EXCEPT !.step = "claim", !.known = Recorded(r)]
    OBVIOUS
  <1>2. /\ s \in Read
        /\ s.plan = read[r].plan /\ s.pending = read[r].pending /\ s.reply = read[r].reply
        /\ s.step = "claim" /\ s.known = Recorded(r)
    BY ZenonT(60), <1>1 DEF IInv, TypeOK, Read, Steps, Recorded, Targets
  <1>3. read[r].step = "consult" /\ Become(r, s)
        /\ UNCHANGED <<database, attempted, clearing, history, counts>>
    BY <1>1 DEF Consult, At
  <1>4. RecordedIsAnswered'
    BY <1>3 DEF IInv, RecordedIsAnswered, database, history
  <1>5. Planned(s)
    BY <1>2 DEF IInv, Good, Planned, Recorded, Targets
  <1> QED BY <1>2, <1>3, <1>4, <1>5, InvStep DEF IInv, TypeOK, database, counts

LEMMA InvCollect == ASSUME IInv, NEW r \in Reads, Collect(r) PROVE IInv'
  <1>1. PICK s : s = [read[r] EXCEPT !.step = "write"]
    OBVIOUS
  <1>2. /\ s \in Read
        /\ s.plan = read[r].plan /\ s.pending = read[r].pending /\ s.reply = read[r].reply
        /\ s.step = "write" /\ Planned(s)
    BY SMTT(30), <1>1 DEF IInv, TypeOK, Read, Steps, Good, Planned
  <1>3. Become(r, s) /\ UNCHANGED <<database, attempted, clearing, history, edits, clears>>
    BY <1>1 DEF Collect
  <1>4. faults' \in Nat
    BY DEF Collect, Fault, IInv, TypeOK
  <1>5. RecordedIsAnswered'
    BY <1>3 DEF IInv, RecordedIsAnswered, database, history
  <1> QED BY <1>2, <1>3, <1>4, <1>5, InvStep DEF IInv, TypeOK, database

\* Only what was answered for is recorded.
LEMMA InvRecord == ASSUME IInv, NEW r \in Reads, Record(r) PROVE IInv'
  <1>1. PICK s : s = [read[r] EXCEPT !.step = "release"]
    OBVIOUS
  <1>2. /\ s \in Read
        /\ s.plan = read[r].plan /\ s.pending = read[r].pending /\ s.reply = read[r].reply
        /\ s.step = "release" /\ Planned(s)
    BY ZenonT(60), <1>1 DEF IInv, TypeOK, Read, Steps, Good, Planned
  <1>3. /\ Become(r, s) /\ UNCHANGED <<code, described, attempted, clearing, history, counts>>
        /\ attempts' = [n \in Nodes |-> IF n \in Unwritten(r) THEN read[r].plan[n] ELSE attempts[n]]
    BY <1>1 DEF Record
  <1>4. attempts' \in [Nodes -> Prints \cup {Gone}]
    BY <1>3 DEF IInv, TypeOK, Read
  <1>5. \A n \in Unwritten(r) : <<n, read[r].plan[n]>> \in answered
    BY DEF IInv, Good, Asked, Unwritten, Replied
  <1>6. RecordedIsAnswered'
    BY <1>3, <1>5 DEF IInv, RecordedIsAnswered, history
  <1> QED BY <1>2, <1>3, <1>4, <1>6, InvStep DEF IInv, TypeOK, counts

\* A text that finds no row becomes an answer that is none; it stays answered.
LEMMA InvWrite == ASSUME IInv, NEW r \in Reads, NEW n \in Nodes, Write(r, n) PROVE IInv'
  <1>1. /\ At(r, "write") /\ n \in read[r].pending /\ read[r].reply[n] = "text"
        /\ UNCHANGED <<code, attempts, attempted, clearing, history, counts>>
    BY DEF Write, Replied
  <1>2. RecordedIsAnswered'
    BY <1>1 DEF IInv, RecordedIsAnswered, history
  <1>3. CASE Lands(n)
    <2>1. PICK s : s = [read[r] EXCEPT !.written = @ \cup {n}]
      OBVIOUS
    <2>2. /\ s \in Read
          /\ s.plan = read[r].plan /\ s.pending = read[r].pending /\ s.reply = read[r].reply
          /\ s.step = "write" /\ Planned(s)
      BY SMTT(30), <1>1, <2>1 DEF IInv, TypeOK, Read, At, Good, Planned
    <2>3. Become(r, s) /\ described' \subseteq {m \in Nodes : code[m] # Gone}
      BY <1>3, <2>1 DEF Write, Lands, IInv, TypeOK
    <2> QED BY <1>1, <1>2, <2>2, <2>3, InvStep DEF IInv, TypeOK, counts
  <1>4. CASE ~Lands(n)
    <2>1. PICK s : s = [read[r] EXCEPT !.reply[n] = "nothing"]
      OBVIOUS
    <2>2. /\ s \in Read
          /\ s.plan = read[r].plan /\ s.pending = read[r].pending /\ s.known = read[r].known
          /\ s.step = "write"
          /\ s.reply = [read[r].reply EXCEPT ![n] = "nothing"]
      <3>1. read[r] \in Read
        BY DEF IInv, TypeOK
      <3>2. [read[r].reply EXCEPT ![n] = "nothing"]
              \in [Nodes -> {"none", "text", "nothing", "error"}]
        BY <3>1 DEF Read
      <3> QED BY <1>1, <2>1, <3>1, <3>2 DEF Read, At
    <2>3. Become(r, s) /\ UNCHANGED described
      BY <1>4, <2>1 DEF Write
    <2>4. Fresh(s) /\ Planned(s)
      BY <2>2 DEF IInv, Good, Fresh, Planned
    <2>5. \A m \in s.pending : s.reply[m] # "none" => m \in heard'[Of[r]]
      BY <1>1, <2>2 DEF IInv, TypeOK, Read, Good, Heard, history
    <2>6. \A m \in s.pending : s.reply[m] \in {"text", "nothing"} => <<m, s.plan[m]>> \in answered'
      BY <1>1, <2>2 DEF IInv, TypeOK, Read, Good, Asked, history
    <2>7. read' \in [Reads -> Read] /\ \A q \in Reads : Good(q)'
      BY <1>1, <2>2, <2>3, <2>4, <2>5, <2>6, GoodBecome DEF history
    <2>8. Reasons'
      BY <1>1, <2>2, <2>3, ReasonsBecome DEF history
    <2>9. TypeOK'
      BY <1>1, <2>3, <2>7 DEF IInv, TypeOK, history, counts
    <2> QED BY <1>2, <2>7, <2>8, <2>9 DEF IInv
  <1> QED BY <1>3, <1>4

LEMMA InvReply == ASSUME IInv, NEW r \in Reads, NEW n \in Nodes, Reply(r, n) PROVE IInv'
  <1>1. /\ read[r].step = "run" /\ n \in read[r].pending
        /\ UNCHANGED <<database, attempted, clearing, edits, clears>>
    BY DEF Reply, At, Replied
  <1>2. PICK reply \in {"text", "nothing", "error"} :
          /\ Become(r, [read[r] EXCEPT !.reply[n] = reply])
          /\ IF reply = "error"
             THEN Fault /\ UNCHANGED answered
             ELSE answered' = answered \cup {<<n, read[r].plan[n]>>} /\ UNCHANGED faults
    BY DEF Reply
  <1>3. PICK s : s = [read[r] EXCEPT !.reply[n] = reply]
    OBVIOUS
  <1>4. /\ s \in Read
        /\ s.plan = read[r].plan /\ s.pending = read[r].pending /\ s.known = read[r].known
        /\ s.step = "run"
        /\ s.reply = [read[r].reply EXCEPT ![n] = reply]
    BY ZenonT(60), <1>1, <1>3 DEF IInv, TypeOK, Read
  <1>5. Become(r, s) /\ read'[r] = s /\ s # Idle
    BY <1>2, <1>3, <1>4, IdleRead DEF Become, IInv, TypeOK
  <1>6. /\ heard' \in [Fillers -> SUBSET Nodes]
        /\ \A f \in Fillers \ {Of[r]} : heard'[f] = heard[f]
        /\ \A q \in Reads \ {r} : heard[Of[q]] \subseteq heard'[Of[q]]
        /\ heard'[Of[r]] = heard[Of[r]] \cup {n}
    BY <1>5, OthersHear DEF Reply
  <1>7. read[r].plan[n] \in Prints
    BY <1>1 DEF IInv, TypeOK, Read, Good, Planned
  <1>8. answered \subseteq answered' /\ answered' \subseteq Nodes \X Prints /\ faults' \in Nat
    BY <1>2, <1>7 DEF IInv, TypeOK, Fault
  <1>9. Fresh(s) /\ Planned(s)
    BY <1>4 DEF IInv, Good, Fresh, Planned
  <1>10. \A m \in s.pending : s.reply[m] # "none" => m \in heard'[Of[r]]
    BY <1>4, <1>6 DEF IInv, TypeOK, Read, Good, Heard
  <1>11. \A m \in s.pending : s.reply[m] \in {"text", "nothing"} => <<m, s.plan[m]>> \in answered'
    BY <1>2, <1>4, <1>8 DEF IInv, TypeOK, Read, Good, Asked
  <1>12. read' \in [Reads -> Read] /\ \A q \in Reads : Good(q)'
    BY <1>4, <1>5, <1>6, <1>8, <1>9, <1>10, <1>11, GoodBecome
  <1>13. Reasons'
    BY <1>1, <1>4, <1>5, <1>6, ReasonsBecome
  <1>14. TypeOK'
    BY <1>1, <1>6, <1>8, <1>12 DEF IInv, TypeOK, database
  <1>15. RecordedIsAnswered'
    BY <1>1, <1>8 DEF IInv, RecordedIsAnswered, database
  <1> QED BY <1>12, <1>13, <1>14, <1>15 DEF IInv

\* The ledger of the read's process is now L, and there is a reason for all of it.
LEMMA ReasonsReturn ==
    ASSUME IInv, NEW r \in Reads, NEW s \in Read, Become(r, s), NEW L \in SUBSET Nodes,
           attempted' = [attempted EXCEPT ![Of[r]] = L],
           \A f \in Fillers \ {Of[r]} : heard'[f] = heard[f],
           \A n \in L : \/ n \in heard'[Of[r]] \cup s.pending
                       \/ \E q \in Reads \ {r} : Of[q] = Of[r] /\ n \in read[q].pending
    PROVE  Reasons'
  <1>1. read'[r] = s /\ \A q \in Reads \ {r} : read'[q] = read[q]
    BY DEF IInv, TypeOK, Become
  <1>2. attempted \in [Fillers -> SUBSET Nodes] /\ Of \in [Reads -> Fillers]
    BY LazyFillAssumption DEF IInv, TypeOK
  <1>3. ASSUME NEW f \in Fillers, NEW n \in attempted'[f] PROVE Reason(f, n)'
    <2>1. CASE f = Of[r]
      <3>1. n \in L
        BY <1>2, <1>3, <2>1
      <3> QED BY <1>1, <2>1, <3>1 DEF Reason
    <2>2. CASE f # Of[r]
      <3>1. attempted'[f] = attempted[f] /\ heard'[f] = heard[f]
        BY <1>2, <2>2
      <3>2. Reason(f, n)
        BY <1>3, <3>1 DEF IInv, Reasons
      <3> QED BY <1>1, <2>2, <3>1, <3>2 DEF Reason
    <2> QED BY <2>1, <2>2
  <1> QED BY <1>3 DEF Reasons

LEMMA InvClaim == ASSUME IInv, NEW r \in Reads, Claim(r) PROVE IInv'
  <1> DEFINE taken == attempted[Of[r]] \cup Targets(r)
             found == read[r].known \ attempted[Of[r]]
  <1>1. /\ UNCHANGED <<database, clearing, answered, counts>> /\ Hear(r, found)
        /\ read[r].step = "claim"
    BY DEF Claim, At
  <1>2. /\ read[r] \in Read /\ attempted \in [Fillers -> SUBSET Nodes]
        /\ Of[r] \in Fillers /\ found \in SUBSET Nodes /\ taken \in SUBSET Nodes
    BY LazyFillAssumption DEF IInv, TypeOK, Read, Targets
  <1>3. read[r].pending = {} /\ \A n \in Nodes : read[r].reply[n] = "none"
    BY <1>1 DEF IInv, Good, Fresh
  <1>4. /\ heard' \in [Fillers -> SUBSET Nodes]
        /\ \A f \in Fillers \ {Of[r]} : heard'[f] = heard[f]
        /\ \A q \in Reads \ {r} : heard[Of[q]] \subseteq heard'[Of[q]]
        /\ ~(read'[r] = Idle /\ Of[r] \in OneShot) => heard'[Of[r]] = heard[Of[r]] \cup found
    BY <1>1, <1>2, OthersHear
  <1>5. RecordedIsAnswered'
    BY <1>1 DEF IInv, RecordedIsAnswered, database
  <1>6. \A n \in attempted[Of[r]] :
            \/ n \in heard[Of[r]]
            \/ \E q \in Reads \ {r} : Of[q] = Of[r] /\ n \in read[q].pending
    BY <1>2, <1>3 DEF IInv, Reasons, Reason
  <1>7. CASE Free(r) = {}
    <2>1. PICK L : L = IF Of[r] \in OneShot THEN {} ELSE taken
      OBVIOUS
    <2>2. /\ Become(r, Idle) /\ attempted' = [attempted EXCEPT ![Of[r]] = L]
          /\ L \in SUBSET Nodes
      BY <1>2, <1>7, <2>1 DEF Claim, Return
    <2>3. read' \in [Reads -> Read] /\ \A q \in Reads : Good(q)'
      BY <1>1, <1>4, <2>2, IdleRead, GoodBecome
    <2>4. Targets(r) \subseteq read[r].known \cup attempted[Of[r]]
      BY <1>7 DEF Free
    <2>5. ASSUME NEW n \in L
          PROVE  \/ n \in heard'[Of[r]] \cup Idle.pending
                 \/ \E q \in Reads \ {r} : Of[q] = Of[r] /\ n \in read[q].pending
      <3>1. Of[r] \notin OneShot /\ n \in taken
        BY <2>1, <2>5
      <3>2. heard'[Of[r]] = heard[Of[r]] \cup found
        BY <1>4, <3>1
      <3> QED BY <1>6, <2>4, <3>1, <3>2
    <2>6. Reasons'
      BY <1>4, <2>2, <2>5, IdleRead, ReasonsReturn
    <2>7. TypeOK'
      BY <1>1, <1>2, <1>4, <2>2, <2>3 DEF IInv, TypeOK, database, counts
    <2> QED BY <1>5, <2>3, <2>6, <2>7 DEF IInv
  <1>8. CASE Free(r) # {}
    <2>1. PICK s : s = [read[r] EXCEPT !.step = "run", !.pending = Free(r), !.known = {}]
      OBVIOUS
    <2>2. /\ s \in Read /\ s.step = "run" /\ s.pending = Free(r) /\ s.known = {}
          /\ s.plan = read[r].plan /\ s.reply = read[r].reply
      BY <1>2, <2>1 DEF Read, Steps, Free, Targets
    <2>3. Become(r, s) /\ attempted' = [attempted EXCEPT ![Of[r]] = taken]
      BY <1>8, <2>1 DEF Claim
    <2>4. Fresh(s) /\ Planned(s) /\ \A n \in s.pending : s.reply[n] = "none"
      BY <1>2, <1>3, <2>2 DEF Fresh, Planned, Free, Targets
    <2>5. read' \in [Reads -> Read] /\ \A q \in Reads : Good(q)'
      BY <1>1, <1>4, <2>2, <2>3, <2>4, GoodBecome
    <2>6. heard'[Of[r]] = heard[Of[r]] \cup found
      <3>1. read'[r] = s
        BY <2>3 DEF Become, IInv, TypeOK
      <3> QED BY <1>4, <2>2, <3>1, IdleRead
    <2>7. \A n \in taken : \/ n \in heard'[Of[r]] \cup s.pending
                           \/ \E q \in Reads \ {r} : Of[q] = Of[r] /\ n \in read[q].pending
      BY <1>6, <2>2, <2>6 DEF Free
    <2>8. Reasons'
      BY <1>2, <1>4, <2>2, <2>3, <2>7, ReasonsReturn
    <2>9. TypeOK'
      BY <1>1, <1>2, <1>4, <2>3, <2>5 DEF IInv, TypeOK, database, counts
    <2> QED BY <1>5, <2>5, <2>8, <2>9 DEF IInv
  <1> QED BY <1>7, <1>8

\* What came back was heard of, so the ledger may keep it without the read.
LEMMA InvRelease == ASSUME IInv, NEW r \in Reads, Release(r) PROVE IInv'
  <1>1. /\ UNCHANGED <<database, clearing, answered, counts>> /\ Hear(r, {})
        /\ Become(r, Idle)
    BY DEF Release, Return
  <1>2. /\ read[r] \in Read /\ attempted \in [Fillers -> SUBSET Nodes]
        /\ Of[r] \in Fillers
    BY LazyFillAssumption DEF IInv, TypeOK
  <1>3. /\ heard' \in [Fillers -> SUBSET Nodes]
        /\ \A f \in Fillers \ {Of[r]} : heard'[f] = heard[f]
        /\ \A q \in Reads \ {r} : heard[Of[q]] \subseteq heard'[Of[q]]
        /\ Of[r] \notin OneShot => heard'[Of[r]] = heard[Of[r]] \cup {}
    BY <1>1, OthersHear
  <1>4. PICK L : L = IF Of[r] \in OneShot THEN {} ELSE attempted[Of[r]] \ Unsettled(r)
    OBVIOUS
  <1>5. attempted' = [attempted EXCEPT ![Of[r]] = L] /\ L \in SUBSET Nodes
    BY <1>2, <1>4 DEF Release, Return
  <1>6. read' \in [Reads -> Read] /\ \A q \in Reads : Good(q)'
    BY <1>1, <1>3, IdleRead, GoodBecome
  <1>7. ASSUME NEW n \in L
        PROVE  \/ n \in heard'[Of[r]] \cup Idle.pending
               \/ \E q \in Reads \ {r} : Of[q] = Of[r] /\ n \in read[q].pending
    <2>1. Of[r] \notin OneShot /\ n \in attempted[Of[r]] \ Unsettled(r)
      BY <1>4, <1>7
    <2>2. Reason(Of[r], n)
      BY <1>2, <2>1 DEF IInv, Reasons
    <2>3. n \in read[r].pending => n \in heard[Of[r]]
      BY <2>1 DEF IInv, Good, Heard, Unsettled, Replied
    <2> QED BY <1>3, <2>1, <2>2, <2>3 DEF Reason
  <1>8. Reasons'
    BY <1>1, <1>3, <1>5, <1>7, IdleRead, ReasonsReturn
  <1>9. TypeOK'
    BY <1>1, <1>2, <1>3, <1>5, <1>6 DEF IInv, TypeOK, database, counts
  <1>10. RecordedIsAnswered'
    BY <1>1 DEF IInv, RecordedIsAnswered, database
  <1> QED BY <1>6, <1>8, <1>9, <1>10 DEF IInv

LEMMA InvFill == ASSUME IInv, NEW r \in Reads, Fill(r) PROVE IInv'
  BY InvConsult, InvClaim, InvCollect, InvRecord, InvRelease, InvReply, InvWrite DEF Fill

-----------------------------------------------------------------------------
(* Everybody else.                                                         *)

LEMMA InvKill == ASSUME IInv, NEW f \in Fillers, Kill(f) PROVE IInv'
  <1>1. /\ attempted' = [attempted EXCEPT ![f] = {}]
        /\ heard' = [heard EXCEPT ![f] = {}]
        /\ read' = [r \in Reads |-> IF Of[r] = f THEN Idle ELSE read[r]]
        /\ UNCHANGED <<database, clearing, answered, edits, clears>>
        /\ faults' \in Nat
    BY DEF Kill, Fault, IInv, TypeOK
  <1>2. /\ attempted \in [Fillers -> SUBSET Nodes] /\ heard \in [Fillers -> SUBSET Nodes]
        /\ Of \in [Reads -> Fillers] /\ read \in [Reads -> Read]
    BY LazyFillAssumption DEF IInv, TypeOK
  <1>3. TypeOK'
    BY <1>1, <1>2, IdleRead DEF IInv, TypeOK, database
  <1>4. ASSUME NEW r \in Reads PROVE Good(r)'
    <2>1. CASE Of[r] = f
      BY <1>1, <2>1, IdleRead DEF Good, Heard, Asked
    <2>2. CASE Of[r] # f
      <3>1. read'[r] = read[r] /\ heard'[Of[r]] = heard[Of[r]]
        BY <1>1, <1>2, <2>2
      <3> QED BY <1>1, <3>1 DEF IInv, Good, Fresh, Planned, Heard, Asked
    <2> QED BY <2>1, <2>2
  <1>5. Reasons'
    BY <1>1, <1>2 DEF IInv, Reasons, Reason
  <1>6. RecordedIsAnswered'
    BY <1>1 DEF IInv, RecordedIsAnswered, database
  <1> QED BY <1>3, <1>4, <1>5, <1>6 DEF IInv

\* What leaves the fills and their history alone.
LEMMA InvDatabase ==
    ASSUME IInv, UNCHANGED <<attempted, read, history>>, TypeOK',
           \A n \in Nodes : attempts'[n] # Gone => attempts'[n] = attempts[n]
    PROVE  IInv'
  BY DEF IInv, history, Good, Fresh, Planned, Heard, Asked, Reasons, Reason, RecordedIsAnswered

LEMMA InvWorld ==
    ASSUME IInv,
           \/ \E n \in Nodes : Edit(n) \/ UpdateDescription(n)
           \/ ClearDescriptions \/ ClearDescriptionAttempts
    PROVE  IInv'
  <1>1. ASSUME NEW n \in Nodes, Edit(n) PROVE IInv'
    <2>1. TypeOK'
      BY <1>1 DEF Edit, IInv, TypeOK, history
    <2> QED BY <1>1, <2>1, InvDatabase DEF Edit
  <1>2. ASSUME NEW n \in Nodes, UpdateDescription(n) PROVE IInv'
    <2>1. TypeOK'
      BY <1>2 DEF UpdateDescription, Lands, IInv, TypeOK, history, counts
    <2> QED BY <1>2, <2>1, InvDatabase DEF UpdateDescription
  <1>3. CASE ClearDescriptions
    <2>1. TypeOK'
      BY <1>3 DEF ClearDescriptions, IInv, TypeOK, history
    <2> QED BY <1>3, <2>1, InvDatabase DEF ClearDescriptions
  <1>4. CASE ClearDescriptionAttempts
    <2>1. TypeOK'
      BY <1>4, IdleRead DEF ClearDescriptionAttempts, IInv, TypeOK, history, counts
    <2>2. \A n \in Nodes : attempts'[n] = Gone
      BY <1>4 DEF ClearDescriptionAttempts, NoRows
    <2> QED BY <1>4, <2>1, <2>2, InvDatabase DEF ClearDescriptionAttempts
  <1> QED BY <1>1, <1>2, <1>3, <1>4

LEMMA InvNext == IInv /\ [Next]_vars => IInv'
  <1> SUFFICES ASSUME IInv, [Next]_vars PROVE IInv'
    OBVIOUS
  <1>1. CASE UNCHANGED vars
    <2>1. TypeOK'
      BY <1>1 DEF IInv, TypeOK, vars, database, history, counts
    <2> QED BY <1>1, <2>1, InvDatabase DEF vars, database
  <1>2. CASE Next
    BY <1>2, InvFill, InvPlan, InvKill, InvWorld DEF Next
  <1> QED BY <1>1, <1>2

-----------------------------------------------------------------------------
(* Who takes what: a second invariant, on top of the first.                *)

\* The targets of a read nothing came back for yet.
Open(s) == {n \in s.pending : s.reply[n] = "none"}

\* A Filler's ledger holds all it heard of and all its reads took; what is still
\* open was never heard of; and no two of its reads took the same.
Ledger == \A f \in Fillers : heard[f] \subseteq attempted[f]
Taken(r) == read[r].pending \subseteq attempted[Of[r]] /\ Open(read[r]) \cap heard[Of[r]] = {}
Apart(r, q) == Of[r] = Of[q] => read[r].pending \cap read[q].pending = {}

Exclusive ==
    /\ Ledger
    /\ \A r \in Reads : Taken(r)
    /\ \A r \in Reads : \A q \in Reads \ {r} : Apart(r, q)

\* What a read of the same Filler needs, when r goes on to s, the ledger becomes L
\* and what was heard of H.
Spares(q, r, s, L, H) ==
    Of[q] = Of[r] =>
        /\ read[q].pending \subseteq L
        /\ read[q].pending \cap s.pending = {}
        /\ Open(read[q]) \cap H = {}

LEMMA ExclusiveBecome ==
    ASSUME IInv, Exclusive, NEW r \in Reads, NEW s \in Read, Become(r, s),
           NEW L \in SUBSET Nodes, NEW H \in SUBSET Nodes,
           attempted' = [attempted EXCEPT ![Of[r]] = L],
           heard' = [heard EXCEPT ![Of[r]] = H],
           H \subseteq L, s.pending \subseteq L, Open(s) \cap H = {},
           \A q \in Reads \ {r} : Spares(q, r, s, L, H)
    PROVE  Exclusive'
  <1>1. /\ Of \in [Reads -> Fillers] /\ read \in [Reads -> Read]
        /\ heard \in [Fillers -> SUBSET Nodes] /\ attempted \in [Fillers -> SUBSET Nodes]
    BY LazyFillAssumption DEF IInv, TypeOK
  <1>2. /\ read'[r] = s /\ \A q \in Reads \ {r} : read'[q] = read[q]
        /\ heard'[Of[r]] = H /\ attempted'[Of[r]] = L
        /\ \A f \in Fillers \ {Of[r]} : heard'[f] = heard[f] /\ attempted'[f] = attempted[f]
    BY <1>1 DEF Become
  <1>3. Ledger'
    BY <1>2 DEF Ledger, Exclusive
  <1>4. ASSUME NEW q \in Reads PROVE Taken(q)'
    <2>1. CASE q = r
      BY <1>2, <2>1 DEF Taken, Open
    <2>2. CASE q # r /\ Of[q] = Of[r]
      BY <1>2, <2>2 DEF Taken, Open, Spares
    <2>3. CASE Of[q] # Of[r]
      <3>1. q \in Reads \ {r} /\ Of[q] \in Fillers \ {Of[r]}
        BY <1>1, <2>3
      <3> QED BY <1>2, <3>1 DEF Taken, Open, Exclusive
    <2> QED BY <2>1, <2>2, <2>3
  <1>5. ASSUME NEW q \in Reads, NEW t \in Reads \ {q} PROVE Apart(q, t)'
    BY <1>2, <1>5 DEF Apart, Exclusive, Spares
  <1> QED BY <1>3, <1>4, <1>5 DEF Exclusive

\* A read that takes nothing leaves it all as it was.
LEMMA ExclusiveStep ==
    ASSUME IInv, Exclusive, NEW r \in Reads, NEW s \in Read, Become(r, s),
           s.pending \subseteq read[r].pending, Open(s) \subseteq Open(read[r]),
           UNCHANGED <<attempted, heard>>
    PROVE  Exclusive'
  <1>1. /\ Of[r] \in Fillers /\ heard \in [Fillers -> SUBSET Nodes]
        /\ attempted \in [Fillers -> SUBSET Nodes]
    BY LazyFillAssumption DEF IInv, TypeOK
  <1>2. PICK L \in SUBSET Nodes : L = attempted[Of[r]]
    BY <1>1
  <1>3. PICK H \in SUBSET Nodes : H = heard[Of[r]]
    BY <1>1
  <1>4. attempted' = [attempted EXCEPT ![Of[r]] = L] /\ heard' = [heard EXCEPT ![Of[r]] = H]
    BY <1>1, <1>2, <1>3
  <1>5. H \subseteq L /\ s.pending \subseteq L /\ Open(s) \cap H = {}
    BY <1>1, <1>2, <1>3 DEF Exclusive, Ledger, Taken
  <1>6. ASSUME NEW q \in Reads \ {r} PROVE Spares(q, r, s, L, H)
    BY <1>2, <1>3, <1>6 DEF Exclusive, Taken, Apart, Spares
  <1> QED BY <1>4, <1>5, <1>6, ExclusiveBecome

\* In a process that is there for one read only there is no other read.
LEMMA Alone ==
    ASSUME NEW r \in Reads, Of[r] \in OneShot, NEW q \in Reads \ {r}
    PROVE  Of[q] # Of[r]
  BY LazyFillAssumption

LEMMA ExclusiveClaim ==
    ASSUME IInv, Exclusive, NEW r \in Reads, Claim(r)
    PROVE  Exclusive'
  <1> DEFINE taken == attempted[Of[r]] \cup Targets(r)
             found == read[r].known \ attempted[Of[r]]
  <1>1. /\ read \in [Reads -> Read] /\ read[r] \in Read /\ Of[r] \in Fillers
        /\ attempted[Of[r]] \in SUBSET Nodes /\ heard[Of[r]] \in SUBSET Nodes
        /\ Targets(r) \in SUBSET Nodes
    BY LazyFillAssumption DEF IInv, TypeOK, Targets
  <1>2. found \in SUBSET Nodes /\ taken \in SUBSET Nodes
    BY <1>1 DEF Read
  <1>3. PICK H : H = IF read'[r] = Idle /\ Of[r] \in OneShot THEN {} ELSE heard[Of[r]] \cup found
    OBVIOUS
  <1>4. heard' = [heard EXCEPT ![Of[r]] = H] /\ H \in SUBSET Nodes
    BY <1>1, <1>2, <1>3 DEF Claim, Hear
  <1>5. heard[Of[r]] \subseteq attempted[Of[r]]
    BY <1>1 DEF Exclusive, Ledger
  <1>6. \A q \in Reads \ {r} : Of[q] = Of[r] =>
            /\ read[q].pending \subseteq attempted[Of[r]]
            /\ Open(read[q]) \cap (heard[Of[r]] \cup found) = {}
    BY DEF Exclusive, Taken, Open
  <1>7. read[r].known \subseteq Targets(r)
    BY <1>1 DEF IInv, Good, Planned, Targets, Read
  <1>8. CASE Free(r) = {}
    <2>1. PICK L : L = IF Of[r] \in OneShot THEN {} ELSE taken
      OBVIOUS
    <2>2. /\ Become(r, Idle) /\ attempted' = [attempted EXCEPT ![Of[r]] = L]
          /\ L \in SUBSET Nodes
      BY <1>2, <1>8, <2>1 DEF Claim, Return
    <2>3. read'[r] = Idle
      BY <1>1, <2>2 DEF Become
    <2>4. H \subseteq L /\ Idle.pending \subseteq L /\ Open(Idle) \cap H = {}
      BY <1>3, <1>5, <1>7, <2>1, <2>3, IdleRead DEF Open
    <2>5. ASSUME NEW q \in Reads \ {r} PROVE Spares(q, r, Idle, L, H)
      <3>1. Of[q] = Of[r] => Of[r] \notin OneShot
        BY Alone
      <3> QED BY <1>3, <1>6, <2>1, <3>1, IdleRead DEF Spares
    <2> QED BY <1>4, <2>2, <2>4, <2>5, IdleRead, ExclusiveBecome
  <1>9. CASE Free(r) # {}
    <2>1. PICK s : s = [read[r] EXCEPT !.step = "run", !.pending = Free(r), !.known = {}]
      OBVIOUS
    <2>2. s \in Read /\ s.pending = Free(r) /\ s.step = "run"
      BY <1>1, <2>1 DEF Read, Steps, Free
    <2>3. Become(r, s) /\ attempted' = [attempted EXCEPT ![Of[r]] = taken]
      BY <1>9, <2>1 DEF Claim
    <2>4. H = heard[Of[r]] \cup found
      BY <1>1, <1>3, <2>2, <2>3, IdleRead DEF Become
    <2>5. H \subseteq taken /\ s.pending \subseteq taken /\ Open(s) \cap H = {}
      BY <1>5, <1>7, <2>2, <2>4 DEF Free, Open
    <2>6. ASSUME NEW q \in Reads \ {r} PROVE Spares(q, r, s, taken, H)
      BY <1>6, <2>2, <2>4 DEF Free, Spares
    <2>7. PICK L \in SUBSET Nodes : L = taken
      BY <1>2
    <2>8. attempted' = [attempted EXCEPT ![Of[r]] = L]
      BY <2>3, <2>7
    <2>9. /\ H \subseteq L /\ s.pending \subseteq L
          /\ \A q \in Reads \ {r} : Spares(q, r, s, L, H)
      BY <2>5, <2>6, <2>7
    <2> QED BY <1>4, <2>2, <2>3, <2>5, <2>8, <2>9, ExclusiveBecome
  <1> QED BY <1>8, <1>9

LEMMA ExclusiveReply ==
    ASSUME IInv, Exclusive, NEW r \in Reads, NEW n \in Nodes, Reply(r, n)
    PROVE  Exclusive'
  <1>1. /\ read[r].step = "run" /\ n \in Open(read[r]) /\ UNCHANGED attempted
    BY DEF Reply, At, Replied, Open
  <1>2. PICK reply \in {"text", "nothing", "error"} :
          Become(r, [read[r] EXCEPT !.reply[n] = reply])
    BY DEF Reply
  <1>3. PICK s : s = [read[r] EXCEPT !.reply[n] = reply]
    OBVIOUS
  <1>4. /\ read \in [Reads -> Read] /\ read[r] \in Read /\ Of[r] \in Fillers
        /\ attempted \in [Fillers -> SUBSET Nodes] /\ heard[Of[r]] \in SUBSET Nodes
    BY LazyFillAssumption DEF IInv, TypeOK
  <1>5. /\ s \in Read /\ s.pending = read[r].pending /\ s.step = "run"
        /\ s.reply = [read[r].reply EXCEPT ![n] = reply]
    BY <1>1, <1>3, <1>4 DEF Read
  <1>6. Open(s) = Open(read[r]) \ {n}
    BY <1>4, <1>5 DEF Open, Read
  <1>7. Become(r, s) /\ read'[r] = s /\ s # Idle
    BY <1>2, <1>3, <1>4, <1>5, IdleRead DEF Become
  <1>8. PICK H : H = heard[Of[r]] \cup {n}
    OBVIOUS
  <1>9. heard' = [heard EXCEPT ![Of[r]] = H] /\ H \in SUBSET Nodes
    BY <1>4, <1>7, <1>8 DEF Reply, Hear
  <1>10. PICK L \in SUBSET Nodes : L = attempted[Of[r]]
    BY <1>4
  <1>11. attempted' = [attempted EXCEPT ![Of[r]] = L]
    BY <1>1, <1>4, <1>10
  <1>12. H \subseteq L /\ s.pending \subseteq L /\ Open(s) \cap H = {}
    BY <1>1, <1>4, <1>5, <1>6, <1>8, <1>10 DEF Exclusive, Ledger, Taken, Open
  <1>13. ASSUME NEW q \in Reads \ {r} PROVE Spares(q, r, s, L, H)
    BY <1>1, <1>5, <1>8, <1>10 DEF Exclusive, Taken, Apart, Open, Spares
  <1> QED BY <1>5, <1>7, <1>9, <1>11, <1>12, <1>13, ExclusiveBecome

LEMMA ExclusiveRelease ==
    ASSUME IInv, Exclusive, NEW r \in Reads, Release(r)
    PROVE  Exclusive'
  <1>1. /\ read \in [Reads -> Read] /\ Of[r] \in Fillers
        /\ attempted[Of[r]] \in SUBSET Nodes /\ heard[Of[r]] \in SUBSET Nodes
    BY LazyFillAssumption DEF IInv, TypeOK
  <1>2. PICK L : L = IF Of[r] \in OneShot THEN {} ELSE attempted[Of[r]] \ Open(read[r])
    OBVIOUS
  <1>3. /\ Become(r, Idle) /\ attempted' = [attempted EXCEPT ![Of[r]] = L]
        /\ L \in SUBSET Nodes /\ read'[r] = Idle
    <2>1. Unsettled(r) = Open(read[r])
      BY DEF Unsettled, Replied, Open
    <2> QED BY <1>1, <1>2, <2>1 DEF Release, Return, Become
  <1>4. PICK H : H = IF Of[r] \in OneShot THEN {} ELSE heard[Of[r]]
    OBVIOUS
  <1>5. heard' = [heard EXCEPT ![Of[r]] = H] /\ H \in SUBSET Nodes
    BY <1>1, <1>3, <1>4 DEF Release, Hear
  <1>6. H \subseteq L /\ Idle.pending \subseteq L /\ Open(Idle) \cap H = {}
    BY <1>1, <1>2, <1>4, IdleRead DEF Exclusive, Ledger, Taken, Open
  <1>7. ASSUME NEW q \in Reads \ {r} PROVE Spares(q, r, Idle, L, H)
    <2>1. Of[q] = Of[r] => Of[r] \notin OneShot
      BY Alone
    <2> QED BY <1>2, <1>4, <2>1, IdleRead DEF Exclusive, Taken, Apart, Open, Spares
  <1> QED BY <1>3, <1>5, <1>6, <1>7, IdleRead, ExclusiveBecome

LEMMA ExclusiveFill ==
    ASSUME IInv, Exclusive, NEW r \in Reads, Fill(r)
    PROVE  Exclusive'
  <1>0. read[r] \in Read
    BY DEF IInv, TypeOK
  <1>1. CASE Consult(r)
    <2>1. PICK s : s = [read[r] EXCEPT !.step = "claim", !.known = Recorded(r)]
      OBVIOUS
    <2>2. s \in Read /\ s.pending = read[r].pending /\ s.reply = read[r].reply
      BY <1>0, <2>1 DEF Read, Steps, Recorded, Targets
    <2>3. Become(r, s) /\ UNCHANGED <<attempted, heard>>
      BY <1>1, <2>1 DEF Consult, history
    <2> QED BY <2>2, <2>3, ExclusiveStep DEF Open
  <1>2. CASE Collect(r)
    <2>1. PICK s : s = [read[r] EXCEPT !.step = "write"]
      OBVIOUS
    <2>2. s \in Read /\ s.pending = read[r].pending /\ s.reply = read[r].reply
      BY <1>0, <2>1 DEF Read, Steps
    <2>3. Become(r, s) /\ UNCHANGED <<attempted, heard>>
      BY <1>2, <2>1 DEF Collect, history
    <2> QED BY <2>2, <2>3, ExclusiveStep DEF Open
  <1>3. CASE Record(r)
    <2>1. PICK s : s = [read[r] EXCEPT !.step = "release"]
      OBVIOUS
    <2>2. s \in Read /\ s.pending = read[r].pending /\ s.reply = read[r].reply
      BY <1>0, <2>1 DEF Read, Steps
    <2>3. Become(r, s) /\ UNCHANGED <<attempted, heard>>
      BY <1>3, <2>1 DEF Record, history
    <2> QED BY <2>2, <2>3, ExclusiveStep DEF Open
  <1>4. ASSUME NEW n \in Nodes, Write(r, n) PROVE Exclusive'
    <2>1. CASE Lands(n)
      <3>1. PICK s : s = [read[r] EXCEPT !.written = @ \cup {n}]
        OBVIOUS
      <3>2. s \in Read /\ s.pending = read[r].pending /\ s.reply = read[r].reply
        BY <1>0, <3>1 DEF Read
      <3>3. Become(r, s) /\ UNCHANGED <<attempted, heard>>
        BY <1>4, <2>1, <3>1 DEF Write, history
      <3> QED BY <3>2, <3>3, ExclusiveStep DEF Open
    <2>2. CASE ~Lands(n)
      <3>1. PICK s : s = [read[r] EXCEPT !.reply[n] = "nothing"]
        OBVIOUS
      <3>2. [read[r].reply EXCEPT ![n] = "nothing"]
              \in [Nodes -> {"none", "text", "nothing", "error"}]
        BY <1>0 DEF Read
      <3>3. /\ s \in Read /\ s.pending = read[r].pending
            /\ s.reply = [read[r].reply EXCEPT ![n] = "nothing"]
        BY <1>0, <3>1, <3>2 DEF Read
      <3>4. Open(s) \subseteq Open(read[r])
        BY <1>0, <3>3 DEF Open, Read
      <3>5. Become(r, s) /\ UNCHANGED <<attempted, heard>>
        BY <1>4, <2>2, <3>1 DEF Write, history
      <3> QED BY <3>3, <3>4, <3>5, ExclusiveStep
    <2> QED BY <2>1, <2>2
  <1> QED BY <1>1, <1>2, <1>3, <1>4, ExclusiveClaim, ExclusiveReply, ExclusiveRelease DEF Fill

LEMMA ExclusiveNext == IInv /\ Exclusive /\ [Next]_vars => Exclusive'
  <1> SUFFICES ASSUME IInv, Exclusive, [Next]_vars PROVE Exclusive'
    OBVIOUS
  <1>1. CASE UNCHANGED <<attempted, read, heard>>
    BY <1>1 DEF Exclusive, Ledger, Taken, Apart, Open
  <1>2. ASSUME NEW r \in Reads, NEW S \in SUBSET Nodes, Plan(r, S) PROVE Exclusive'
    <2>1. PICK s : s = [Idle EXCEPT !.step = "consult",
                          !.plan = [n \in Nodes |-> IF n \in S THEN code[n] ELSE Gone]]
      OBVIOUS
    <2>2. s \in Read /\ s.pending = {}
      BY <2>1 DEF IInv, TypeOK, Read, Idle, NoRows, Steps
    <2>3. Become(r, s) /\ UNCHANGED <<attempted, heard>>
      BY <1>2, <2>1 DEF Plan, history
    <2> QED BY <2>2, <2>3, ExclusiveStep DEF Open
  <1>3. ASSUME NEW f \in Fillers, Kill(f) PROVE Exclusive'
    <2>1. /\ attempted' = [attempted EXCEPT ![f] = {}]
          /\ heard' = [heard EXCEPT ![f] = {}]
          /\ read' = [r \in Reads |-> IF Of[r] = f THEN Idle ELSE read[r]]
      BY <1>3 DEF Kill
    <2>2. /\ attempted \in [Fillers -> SUBSET Nodes] /\ heard \in [Fillers -> SUBSET Nodes]
          /\ Of \in [Reads -> Fillers]
      BY LazyFillAssumption DEF IInv, TypeOK
    <2>3. Ledger'
      BY <2>1, <2>2 DEF Exclusive, Ledger
    <2>4. ASSUME NEW r \in Reads PROVE Taken(r)'
      <3>1. CASE Of[r] = f
        BY <2>1, <3>1, IdleRead DEF Taken, Open
      <3>2. CASE Of[r] # f
        BY <2>1, <2>2, <3>2 DEF Exclusive, Taken, Open
      <3> QED BY <3>1, <3>2
    <2>5. ASSUME NEW r \in Reads, NEW q \in Reads \ {r} PROVE Apart(r, q)'
      BY <2>1, <2>5, IdleRead DEF Exclusive, Apart
    <2> QED BY <2>3, <2>4, <2>5 DEF Exclusive
  <1>4. ASSUME NEW r \in Reads, Fill(r) PROVE Exclusive'
    BY <1>4, ExclusiveFill
  <1>5. ASSUME \/ \E n \in Nodes : Edit(n) \/ UpdateDescription(n)
               \/ ClearDescriptions \/ ClearDescriptionAttempts
        PROVE  UNCHANGED <<attempted, read, heard>>
    BY <1>5 DEF Edit, UpdateDescription, ClearDescriptions, ClearDescriptionAttempts, history
  <1> QED BY <1>1, <1>2, <1>3, <1>4, <1>5 DEF Next, vars, history

\* Taking is claiming, and a claim takes what the ledger does not hold.
LEMMA PaidOnceStep ==
    ASSUME IInv, Exclusive, [Next]_vars, NEW r \in Reads
    PROVE  LET taken == read'[r].pending \ read[r].pending
           IN /\ taken \cap heard[Of[r]] = {}
              /\ \A q \in Reads \ {r} : Of[q] = Of[r] => taken \cap read[q].pending = {}
  <1> DEFINE taken == read'[r].pending \ read[r].pending
  <1>1. taken \cap attempted[Of[r]] = {}
    <2>1. read \in [Reads -> Read]
      BY DEF IInv, TypeOK
    <2>2. CASE read'[r] = read[r] \/ read'[r].pending \subseteq read[r].pending
      BY <2>2
    <2>3. ASSUME NEW q \in Reads, NEW s, Become(q, s), q # r PROVE read'[r] = read[r]
      BY <2>1, <2>3 DEF Become
    <2>4. ASSUME NEW s, Become(r, s) PROVE read'[r] = s
      BY <2>1, <2>4 DEF Become
    <2>5. read[r] \in Read
      BY <2>1
    <2>6. ASSUME NEW q \in Reads, q # r, Fill(q) \/ \E S \in SUBSET Nodes : Plan(q, S)
          PROVE  read'[r] = read[r]
      BY <2>3, <2>6 DEF Fill, Plan, Consult, Claim, Return, Collect, Record, Release, Reply, Write
    <2>7. ASSUME NEW S \in SUBSET Nodes, Plan(r, S) PROVE read'[r].pending = {}
      BY <2>4, <2>7 DEF Plan, Idle
    <2>8. CASE Consult(r) \/ Collect(r) \/ Record(r)
      BY <2>4, <2>5, <2>8 DEF Consult, Collect, Record, Read
    <2>9. CASE \E n \in Nodes : Reply(r, n) \/ Write(r, n)
      BY <2>4, <2>5, <2>9 DEF Reply, Write, Read
    <2>10. CASE Release(r)
      BY <2>4, <2>10, IdleRead DEF Release, Return
    <2>11. CASE Claim(r)
      <3>1. CASE Free(r) = {}
        BY <2>4, <2>11, <3>1, IdleRead DEF Claim, Return
      <3>2. CASE Free(r) # {}
        <4>1. read'[r] = [read[r] EXCEPT !.step = "run", !.pending = Free(r), !.known = {}]
          BY <2>4, <2>11, <3>2 DEF Claim
        <4>2. read'[r].pending = Free(r)
          BY <2>5, <4>1 DEF Read
        <4> QED BY <4>2 DEF Free
      <3> QED BY <3>1, <3>2
    <2>12. ASSUME NEW f \in Fillers, Kill(f) PROVE read'[r].pending \subseteq read[r].pending
      BY <2>12, IdleRead DEF Kill
    <2>13. ASSUME \/ \E n \in Nodes : Edit(n) \/ UpdateDescription(n)
                  \/ ClearDescriptions \/ ClearDescriptionAttempts
                  \/ UNCHANGED vars
           PROVE  read' = read
      BY <2>13 DEF Edit, UpdateDescription, ClearDescriptions, ClearDescriptionAttempts, vars
    <2> QED BY <2>2, <2>6, <2>7, <2>8, <2>9, <2>10, <2>11, <2>12, <2>13 DEF Next, Fill
  <1>2. Of[r] \in Fillers
    BY LazyFillAssumption
  <1>3. heard[Of[r]] \subseteq attempted[Of[r]]
    BY <1>2 DEF Exclusive, Ledger
  <1>4. \A q \in Reads \ {r} : Of[q] = Of[r] => read[q].pending \subseteq attempted[Of[r]]
    BY DEF Exclusive, Taken
  <1> QED BY <1>1, <1>3, <1>4

-----------------------------------------------------------------------------
(* The theorems.                                                           *)

\* The invariant holds in every state the fills can reach.
THEOREM Invariant == Spec => []IInv
  BY InvInit, InvNext, PTL DEF Spec

\* Every variable of LazyFill keeps its type.
THEOREM TypeCorrect == Spec => []TypeOK
  <1>1. IInv => TypeOK
    BY DEF IInv
  <1> QED BY <1>1, Invariant, PTL

\* A process holds a resource back only while a read of it is at it, or after
\* it got an answer or an error (Filler.claim, Filler.release).
THEOREM HeldBackForReason == Spec => []HeldForReason
  <1>1. IInv => HeldForReason
    BY ReasonsSuffice DEF IInv
  <1> QED BY <1>1, Invariant, PTL

\* The attempts table names only what the model answered for, under the code it
\* was asked about (Filler.recordAttempts).
THEOREM RecordedOnlyAnswered == Spec => []RecordedIsAnswered
  <1>1. IInv => RecordedIsAnswered
    BY DEF IInv
  <1> QED BY <1>1, Invariant, PTL

\* Two reads of one process never pay for the same resource, nor one for what its
\* process had an answer or an error for or found recorded (Filler.claim).
THEOREM PaidForOnce == Spec => PaidOnce
  <1>1. Init => Exclusive
    BY IdleRead DEF Init, Exclusive, Ledger, Taken, Apart, Open
  <1>2. IInv /\ Exclusive /\ [Next]_vars =>
            [\A r \in Reads :
               LET taken == read'[r].pending \ read[r].pending
               IN /\ taken \cap heard[Of[r]] = {}
                  /\ \A s \in Reads \ {r} : Of[s] = Of[r] => taken \cap read[s].pending = {}]_vars
    BY PaidOnceStep
  <1> QED BY <1>1, <1>2, Invariant, ExclusiveNext, PTL DEF Spec, PaidOnce
=============================================================================
