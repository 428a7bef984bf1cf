---------------------------- MODULE EditFilesProofs ----------------------------
(***************************************************************************)
(* No call of the edit and write tools undoes what another one wrote, and  *)
(* calls keep their types -- for any calls, processes, batches and faults. *)
(***************************************************************************)
EXTENDS EditFiles, WellFoundedInduction, TLAPS

-----------------------------------------------------------------------------
(* What a call is in the midst of, and what it holds meanwhile.            *)

\* The paths a call names.
Named(r) == IF r.edits = <<>> THEN Range(r.order) ELSE {r.edits[i][1] : i \in DOMAIN r.edits}
Begun == {"mutex", "lock", "resolve", "commit", "sync", "syncing"}
Rewriting == {"mutex", "lock", "commit"}

\* How far it is through its batch, or its files.
Shaped(c, r) ==
    /\ r.at \in {"mutex", "lock"} => /\ r.next = 1 /\ r.toLock # {}
                                     /\ r.edits # <<>> => r.order = <<>>
                                     /\ r.edits = <<>> => r.order # <<>>
    /\ r.at \in {"mutex", "lock"} /\ r.edits # <<>> => \A n \in Paths : r.pending[n] = Unread
    /\ r.at = "resolve" => r.edits # <<>> /\ r.next \in DOMAIN r.edits
    /\ r.at = "resolve" => \A i \in 1 .. r.next - 1 : r.edits[i][1] \in Range(r.order)
    /\ r.at \in {"commit", "sync", "syncing"} => r.next \in DOMAIN r.order
    /\ r.at \in Begun => IsInjective(r.order) /\ Range(r.order) \subseteq Named(r)
    /\ r.at = "resolve" => \A n \in Paths : r.pending[n] # Unread <=> n \in Range(r.order)
    /\ r.at \in Rewriting => \A n \in Range(r.order) : r.pending[n] \in Content
    /\ r.at \in Rewriting /\ r.edits = <<>> => \A n \in Range(r.order) : r.pending[n] = [s \in Spots |-> c]

\* The mutexes of all it names, and the locks where there was no fault.
Guarded(r) ==
    /\ r.at = "mutex" => Named(r) \subseteq r.mutexes \cup r.toLock
    /\ r.at = "lock" => /\ Named(r) \subseteq r.mutexes
                        /\ unlocked = {} => Named(r) \subseteq r.locks \cup r.toLock
    /\ r.at \in {"resolve", "commit"} => /\ Named(r) \subseteq r.mutexes
                                         /\ unlocked = {} => Named(r) \subseteq r.locks

\* The edits of one spot, as far as the batch has been gone through.
Mine(r, n, s, upto) == {i \in 1 .. upto : r.edits[i][1] = n /\ r.edits[i][2] = s}

\* What is made of the file at path n follows, so far, from what the file says.
FollowedAt(c, r, n, s, upto) ==
    IF Mine(r, n, s, upto) = {} THEN r.pending[n][s] = disk[FileAt[n]][s]
    ELSE /\ \E i \in Mine(r, n, s, upto) :
              /\ \A j \in Mine(r, n, s, upto) : i <= j
              /\ disk[FileAt[n]][s] = r.edits[i][3]
         /\ r.pending[n][s] = c

Followed(c, r, n, upto) == \A s \in Spots : FollowedAt(c, r, n, s, upto)

\* No file has two paths, and no lock was missed -- or none was needed.
NoLinks == \A m, n \in Paths : FileAt[m] = FileAt[n] => m = n
Safe == NoLinks /\ (unlocked = {} \/ Shared)

Faithful(c, r) ==
    Safe /\ r.edits # <<>> =>
        /\ r.at = "resolve" => \A n \in Range(r.order) : Followed(c, r, n, r.next - 1)
        /\ r.at = "commit" => \A k \in r.next .. Len(r.order) :
                                Followed(c, r, r.order[k], Len(r.edits))

\* No two calls hold the same lock, and no two of one process the same mutex.
Apart(r, q) == r.locks \cap q.locks = {}
ApartInside(r, q) == r.mutexes \cap q.mutexes = {}
Exclusive ==
    \A c, d \in Calls : c # d =>
        /\ Apart(call[c], call[d])
        /\ process[c] = process[d] => ApartInside(call[c], call[d])

IInv ==
    /\ TypeOK
    /\ \A c \in Calls : Shaped(c, call[c]) /\ Guarded(call[c]) /\ Faithful(c, call[c])
    /\ Exclusive

-----------------------------------------------------------------------------
(* One call moves.                                                         *)

\* A set of numbers that is not empty has a smallest.
LEMMA Smallest == \A S \in SUBSET Nat : S # {} => Min(S) \in S
  <1> SUFFICES ASSUME NEW S \in SUBSET Nat, S # {} PROVE Min(S) \in S
    OBVIOUS
  <1>1. PICK d \in S : \A e \in S : ~(<<e, d>> \in OpToRel(<, Nat))
    BY NatLessThanWellFounded, WFMin
  <1>2. \A e \in S : d <= e
    <2>1. \A e \in S : ~(e < d)
      BY <1>1 DEF OpToRel
    <2> QED BY <2>1
  <1> QED BY <1>2 DEF Min

LEMMA NextIsToLock ==
    ASSUME NEW c \in Calls, call[c] \in Call, call[c].toLock # {}
    PROVE  NextToLock(c) \in call[c].toLock /\ NextToLock(c) \in Paths
  <1>1. call[c].toLock \subseteq Paths
    BY DEF Call
  <1> QED BY <1>1, Smallest, EditFilesAssumption DEF NextToLock

\* A step of one call that leaves the files alone keeps the invariant, if the call
\* itself is in order after it.
LEMMA OneMoves ==
    ASSUME IInv, NEW c \in Calls, NEW v \in Call, Become(c, v),
           Shaped(c, v), Guarded(v)', Faithful(c, v)',
           v.at = "over" => v.mutexes \cup v.locks = {},
           \A d \in Calls \ {c} : /\ Apart(v, call[d])
                                  /\ process[c] = process[d] => ApartInside(v, call[d]),
           UNCHANGED <<process, disk>>,
           unlocked' \in {unlocked, unlocked \cup {c}}, faults' \in 0 .. MaxFaults
    PROVE  IInv'
  <1>1. /\ call' \in [Calls -> Call]
        /\ call'[c] = v
        /\ \A d \in Calls \ {c} : call'[d] = call[d]
    BY DEF IInv, TypeOK, Become
  <1>2. TypeOK'
    BY <1>1 DEF IInv, TypeOK, Over
  <1>3. ASSUME NEW d \in Calls \ {c}
        PROVE  Shaped(d, call[d])' /\ Guarded(call[d])' /\ Faithful(d, call[d])'
    <2>1. Shaped(d, call[d]) /\ Guarded(call[d]) /\ Faithful(d, call[d])
      BY DEF IInv
    <2>2. unlocked' = {} => unlocked = {}
      OBVIOUS
    <2>3. Guarded(call[d])'
      BY <1>1, <2>1, <2>2 DEF Guarded
    <2>4. Safe' => Safe
      BY <2>2 DEF Safe, Shared
    <2>5. \A r, n, upto : Followed(d, r, n, upto) => Followed(d, r, n, upto)'
      BY DEF Followed, FollowedAt
    <2>6. Faithful(d, call[d])'
      BY <1>1, <2>1, <2>4, <2>5 DEF Faithful
    <2>7. Shaped(d, call[d])'
      BY <1>1, <2>1
    <2> QED BY <2>3, <2>6, <2>7
  <1>4. Exclusive'
    BY <1>1 DEF IInv, Exclusive, Apart, ApartInside
  <1>5. Shaped(c, call[c])' /\ Guarded(call[c])' /\ Faithful(c, call[c])'
    BY <1>1
  <1> QED BY <1>2, <1>3, <1>4, <1>5 DEF IInv

\* A call that is answered holds nothing and is in the midst of nothing.
LEMMA AnsweredIsOver ==
    /\ Fresh \in Call
    /\ \A c \in Calls :
         /\ Answered(c) \in Call
         /\ Answered(c).at = "over" /\ Answered(c).mutexes = {} /\ Answered(c).locks = {}
         /\ Shaped(c, Answered(c)) /\ Guarded(Answered(c))' /\ Faithful(c, Answered(c))'
  <1>1. Fresh \in Call
    BY DEF Fresh, Call, Steps
  <1>2. /\ [Fresh EXCEPT !.at = "over"] \in Call
        /\ [Fresh EXCEPT !.at = "over"].at = "over"
        /\ [Fresh EXCEPT !.at = "over"].mutexes = {} /\ [Fresh EXCEPT !.at = "over"].locks = {}
    BY <1>1 DEF Fresh, Call, Steps
  <1>3. \A c \in Calls : Answered(c) = [Fresh EXCEPT !.at = "over"]
    BY DEF Answered
  <1>4. \A c \in Calls : Shaped(c, Answered(c))
    BY <1>2, <1>3 DEF Shaped, Begun, Rewriting
  <1>5. \A c \in Calls : Guarded(Answered(c))' /\ Faithful(c, Answered(c))'
    BY <1>2, <1>3 DEF Guarded, Faithful
  <1> QED BY <1>1, <1>2, <1>3, <1>4, <1>5

LEMMA OneIsAnswered ==
    ASSUME IInv, NEW c \in Calls, Become(c, Answered(c)), UNCHANGED <<process, disk>>,
           unlocked' = unlocked, faults' \in 0 .. MaxFaults
    PROVE  IInv'
  BY AnsweredIsOver, OneMoves DEF Apart, ApartInside

LEMMA FaultsBounded == TypeOK /\ Fault => faults' \in 0 .. MaxFaults
  BY EditFilesAssumption DEF TypeOK, Fault

LEMMA InitHolds == Init => IInv
  <1> SUFFICES ASSUME Init PROVE IInv
    OBVIOUS
  <1>1. \A c \in Calls : call[c] = Fresh
    BY DEF Init
  <1>2. Fresh.at = "idle" /\ Fresh.mutexes = {} /\ Fresh.locks = {}
    BY DEF Fresh
  <1>3. TypeOK
    BY <1>1, <1>2, AnsweredIsOver, EditFilesAssumption DEF Init, TypeOK, Over, Content, Text
  <1>4. \A c \in Calls : Shaped(c, call[c]) /\ Guarded(call[c]) /\ Faithful(c, call[c])
    BY <1>1, <1>2 DEF Shaped, Guarded, Faithful, Begun, Rewriting
  <1>5. Exclusive
    BY <1>1, <1>2 DEF Exclusive, Apart, ApartInside
  <1> QED BY <1>3, <1>4, <1>5 DEF IInv

-----------------------------------------------------------------------------
(* The call begins and locks.                                              *)

LEMMA EditHolds ==
    ASSUME IInv, NEW c \in Calls, Edit(c)
    PROVE  IInv'
  <1>1. PICK batch \in Batches : \E find \in [DOMAIN batch -> Text] :
          LET edits == [i \in DOMAIN batch |-> <<batch[i][1], batch[i][2], find[i]>>]
          IN Become(c, [Fresh EXCEPT !.at = "mutex", !.edits = edits,
                          !.toLock = {edits[i][1] : i \in DOMAIN edits}])
    BY DEF Edit
  <1>2. PICK find \in [DOMAIN batch -> Text] :
          LET edits == [i \in DOMAIN batch |-> <<batch[i][1], batch[i][2], find[i]>>]
          IN Become(c, [Fresh EXCEPT !.at = "mutex", !.edits = edits,
                          !.toLock = {edits[i][1] : i \in DOMAIN edits}])
    BY <1>1
  <1> DEFINE edits == [i \in DOMAIN batch |-> <<batch[i][1], batch[i][2], find[i]>>]
             paths == {edits[i][1] : i \in DOMAIN edits}
             v == [Fresh EXCEPT !.at = "mutex", !.edits = edits, !.toLock = paths]
  <1>3. batch \in Seq(Paths \X Spots) /\ batch # <<>>
    BY EditFilesAssumption
  <1>4. edits \in Seq(Paths \X Spots \X Text) /\ edits # <<>>
    <2>1. Len(batch) \in Nat /\ DOMAIN batch = 1 .. Len(batch) /\ Len(batch) # 0
      BY <1>3
    <2>2. \A i \in 1 .. Len(batch) : batch[i][1] \in Paths /\ batch[i][2] \in Spots /\ find[i] \in Text
      BY <1>3, <2>1
    <2>3. \A i \in 1 .. Len(batch) : edits[i] \in Paths \X Spots \X Text
      BY <2>1, <2>2
    <2> HIDE DEF edits
    <2>4. edits \in [1 .. Len(batch) -> Paths \X Spots \X Text]
      BY <2>1, <2>3 DEF edits
    <2>5. edits \in Seq(Paths \X Spots \X Text) /\ Len(edits) = Len(batch)
      BY <2>1, <2>4
    <2> QED BY <2>1, <2>5
  <1> HIDE DEF edits
  <1>5. paths \subseteq Paths /\ paths # {}
    <2>1. DOMAIN edits = 1 .. Len(edits) /\ Len(edits) \in Nat /\ Len(edits) # 0
      BY <1>4
    <2>2. 1 \in DOMAIN edits
      BY <2>1
    <2>3. \A i \in DOMAIN edits : edits[i][1] \in Paths
      BY <1>4
    <2> QED BY <2>2, <2>3
  <1>6. Become(c, v)
    BY <1>2 DEF edits
  <1> HIDE DEF paths
  <1>7. /\ v \in Call /\ v.at = "mutex" /\ v.edits = edits /\ v.toLock = paths
        /\ v.mutexes = {} /\ v.locks = {} /\ v.next = 1 /\ v.order = <<>>
        /\ v.pending = [n \in Paths |-> Unread]
    BY <1>4, <1>5, AnsweredIsOver DEF Fresh, Call, Steps
  <1> HIDE DEF v
  <1>8. Range(<<>>) = {} /\ IsInjective(<<>>)
    BY DEF Range, IsInjective
  <1>9. Named(v) = paths
    BY <1>4, <1>7 DEF Named, paths
  <1>10. Shaped(c, v)
    BY <1>4, <1>5, <1>7, <1>8 DEF Shaped, Begun, Rewriting
  <1>11. Guarded(v)' /\ Faithful(c, v)'
    BY <1>7, <1>9 DEF Guarded, Faithful
  <1>12. \A d \in Calls \ {c} : Apart(v, call[d]) /\ ApartInside(v, call[d])
    BY <1>7 DEF Apart, ApartInside
  <1>13. UNCHANGED <<process, disk, unlocked, faults>> /\ faults \in 0 .. MaxFaults
    BY DEF Edit, IInv, TypeOK
  <1> QED BY <1>6, <1>7, <1>10, <1>11, <1>12, <1>13, OneMoves

LEMMA WriteHolds ==
    ASSUME IInv, NEW c \in Calls, Write(c)
    PROVE  IInv'
  <1>1. PICK n \in Paths :
          Become(c, [Fresh EXCEPT !.at = "mutex", !.toLock = {n}, !.order = <<n>>,
                                  !.pending[n] = [s \in Spots |-> c]])
    BY DEF Write
  <1> DEFINE content == [s \in Spots |-> c]
             blank == [m \in Paths |-> Unread]
             pending == [blank EXCEPT ![n] = content]
             v == [Fresh EXCEPT !.at = "mutex", !.toLock = {n}, !.order = <<n>>, !.pending = pending]
  <1>2. content \in Content
    BY DEF Content, Text
  <1>3. Become(c, v)
    BY <1>1 DEF Fresh
  <1> HIDE DEF content
  <1>4. pending \in [Paths -> Content \cup {Unread}] /\ pending[n] = content
    BY <1>2
  <1>5. <<n>> \in Seq(Paths)
    OBVIOUS
  <1> HIDE DEF pending
  <1>6. /\ v \in Call /\ v.at = "mutex" /\ v.edits = <<>> /\ v.toLock = {n}
        /\ v.mutexes = {} /\ v.locks = {} /\ v.next = 1 /\ v.order = <<n>>
        /\ v.pending[n] = content
    BY <1>4, <1>5, AnsweredIsOver DEF Fresh, Call, Steps
  <1> HIDE DEF v
  <1>7. Range(<<n>>) = {n} /\ IsInjective(<<n>>) /\ <<n>> # <<>>
    BY DEF Range, IsInjective
  <1>8. Named(v) = {n}
    BY <1>6, <1>7 DEF Named
  <1>9. Shaped(c, v)
    BY <1>2, <1>6, <1>7, <1>8 DEF Shaped, Begun, Rewriting, content
  <1>10. Guarded(v)' /\ Faithful(c, v)'
    BY <1>6, <1>8 DEF Guarded, Faithful
  <1>11. \A d \in Calls \ {c} : Apart(v, call[d]) /\ ApartInside(v, call[d])
    BY <1>6 DEF Apart, ApartInside
  <1>12. UNCHANGED <<process, disk, unlocked, faults>> /\ faults \in 0 .. MaxFaults
    BY DEF Write, IInv, TypeOK
  <1> QED BY <1>3, <1>6, <1>9, <1>10, <1>11, <1>12, OneMoves

\* A call that only takes locks stays as far as it was.
LEMMA LockingStays ==
    ASSUME NEW c \in Calls, NEW r \in Call, NEW v \in Call, Shaped(c, r),
           r.at \in {"mutex", "lock"},
           v.edits = r.edits, v.order = r.order, v.next = r.next, v.pending = r.pending,
           \/ v.at \in {"mutex", "lock"} /\ v.toLock # {}
           \/ v.at = IF r.edits # <<>> THEN "resolve" ELSE "commit"
    PROVE  Shaped(c, v) /\ Faithful(c, v)'
  <1>0. Range(<<>>) = {} /\ IsInjective(<<>>)
    BY DEF Range, IsInjective
  <1>1. Named(v) = Named(r) /\ (r.edits # <<>> => Range(v.order) = {})
    BY <1>0 DEF Named, Shaped
  <1>2. CASE v.at \in {"mutex", "lock"} /\ v.toLock # {}
    BY <1>1, <1>2 DEF Shaped, Faithful, Begun, Rewriting
  <1>3. CASE v.at = "resolve" /\ r.edits # <<>>
    <2>1. 1 \in DOMAIN r.edits
      <3>1. r.edits \in Seq(Paths \X Spots \X Text)
        BY DEF Call
      <3> QED BY <1>3, <3>1
    <2>2. r.next = 1 /\ \A n \in Paths : v.pending[n] = Unread
      BY <1>3 DEF Shaped
    <2>3. Shaped(c, v)
      BY <1>0, <1>1, <1>3, <2>1, <2>2 DEF Shaped, Begun, Rewriting
    <2>4. Faithful(c, v)'
      BY <1>1, <1>3 DEF Faithful
    <2> QED BY <2>3, <2>4
  <1>4. CASE v.at = "commit" /\ r.edits = <<>>
    <2>1. 1 \in DOMAIN r.order
      <3>1. r.order \in Seq(Paths) /\ r.order # <<>>
        BY <1>4 DEF Call, Shaped
      <3> QED BY <3>1
    <2>2. Shaped(c, v)
      BY <1>1, <1>4, <2>1 DEF Shaped, Begun, Rewriting
    <2>3. Faithful(c, v)'
      BY <1>4 DEF Faithful
    <2> QED BY <2>2, <2>3
  <1> QED BY <1>2, <1>3, <1>4

LEMMA TakeMutexHolds ==
    ASSUME IInv, NEW c \in Calls, TakeMutex(c)
    PROVE  IInv'
  <1> DEFINE r == call[c]
             n == NextToLock(c)
             rest == r.toLock \ {n}
             held == r.mutexes \cup {n}
             step == IF rest = {} THEN "lock" ELSE "mutex"
             left == IF rest = {} THEN held ELSE rest
  <1>1. /\ r \in Call /\ Shaped(c, r) /\ Guarded(r) /\ r.at = "mutex" /\ r.toLock # {}
    BY DEF IInv, TypeOK, TakeMutex, At, Shaped
  <1>2. n \in r.toLock /\ n \in Paths
    BY <1>1, NextIsToLock
  <1>3. /\ Become(c, [r EXCEPT !.mutexes = held, !.at = step, !.toLock = left])
        /\ MutexFree(c, n)
        /\ UNCHANGED <<process, disk, unlocked, faults>> /\ faults \in 0 .. MaxFaults
    BY DEF TakeMutex, IInv, TypeOK
  <1> HIDE DEF n
  <1>4. PICK v \in Call :
          /\ Become(c, v) /\ v.mutexes = held /\ v.locks = r.locks
          /\ v.edits = r.edits /\ v.order = r.order /\ v.next = r.next /\ v.pending = r.pending
          /\ v.at = step /\ v.toLock = left
    <2>1. held \subseteq Paths /\ left \subseteq Paths /\ step \in Steps
      BY <1>1, <1>2 DEF Call, Steps
    <2> DEFINE w == [r EXCEPT !.mutexes = held, !.at = step, !.toLock = left]
    <2>2. Become(c, w)
      BY <1>3
    <2> HIDE DEF held, left, step
    <2>3. /\ w \in Call /\ w.mutexes = held /\ w.locks = r.locks
          /\ w.edits = r.edits /\ w.order = r.order /\ w.next = r.next /\ w.pending = r.pending
          /\ w.at = step /\ w.toLock = left
      BY <1>1, <2>1 DEF Call
    <2> HIDE DEF w
    <2> QED BY <2>2, <2>3
  <1>5. left # {}
    OBVIOUS
  <1>6. Shaped(c, v) /\ Faithful(c, v)'
    BY <1>1, <1>4, <1>5, LockingStays
  <1>7. Named(v) = Named(r)
    BY <1>4 DEF Named
  <1>8. Guarded(v)'
    BY <1>1, <1>4, <1>7 DEF Guarded
  <1>9. \A d \in Calls \ {c} : /\ Apart(v, call[d])
                               /\ process[c] = process[d] => ApartInside(v, call[d])
    BY <1>3, <1>4 DEF IInv, Exclusive, Apart, ApartInside, MutexFree
  <1> QED BY <1>3, <1>4, <1>6, <1>8, <1>9, OneMoves

LEMMA LockHolds ==
    ASSUME IInv, NEW c \in Calls, TakeLock(c) \/ GoUnlocked(c)
    PROVE  IInv'
  <1> DEFINE r == call[c]
             n == NextToLock(c)
             rest == r.toLock \ {n}
  <1>1. /\ r \in Call /\ Shaped(c, r) /\ Guarded(r) /\ r.at = "lock" /\ r.toLock # {}
    BY DEF IInv, TypeOK, TakeLock, GoUnlocked, At, Shaped
  <1>2. n \in r.toLock /\ n \in Paths
    BY <1>1, NextIsToLock
  <1>3. PICK got \in SUBSET {n} :
          /\ Become(c, Locked(c, got)) /\ UNCHANGED <<process, disk>>
          /\ got # {} => LockFree(c, n)
          /\ \/ got = {n} /\ unlocked' = unlocked
             \/ unlocked' = unlocked \cup {c}
    BY DEF TakeLock, GoUnlocked
  <1> DEFINE step == IF rest = {} THEN IF r.edits # <<>> THEN "resolve" ELSE "commit" ELSE "lock"
             held == r.locks \cup got
  <1>4. Become(c, [r EXCEPT !.locks = held, !.toLock = rest, !.at = step])
    BY <1>1, <1>3 DEF Locked, Call
  <1>5. faults' \in 0 .. MaxFaults
    BY FaultsBounded DEF TakeLock, GoUnlocked, IInv, TypeOK
  <1> HIDE DEF n
  <1>6. PICK v \in Call :
          /\ Become(c, v) /\ v.mutexes = r.mutexes /\ v.locks = held /\ v.toLock = rest
          /\ v.edits = r.edits /\ v.order = r.order /\ v.next = r.next /\ v.pending = r.pending
          /\ v.at = step
    <2>1. held \subseteq Paths /\ rest \subseteq Paths /\ step \in Steps
      BY <1>1, <1>2 DEF Call, Steps
    <2> DEFINE w == [r EXCEPT !.locks = held, !.toLock = rest, !.at = step]
    <2>2. Become(c, w)
      BY <1>4
    <2> HIDE DEF held, rest, step
    <2>3. /\ w \in Call /\ w.mutexes = r.mutexes /\ w.locks = held /\ w.toLock = rest
          /\ w.edits = r.edits /\ w.order = r.order /\ w.next = r.next /\ w.pending = r.pending
          /\ w.at = step
      BY <1>1, <2>1 DEF Call
    <2> HIDE DEF w
    <2> QED BY <2>2, <2>3
  <1>7. Shaped(c, v) /\ Faithful(c, v)'
    BY <1>1, <1>6, LockingStays
  <1>8. Named(v) = Named(r)
    BY <1>6 DEF Named
  <1>9. unlocked' = {} => unlocked = {} /\ got = {n}
    BY <1>3
  <1>10. Guarded(v)'
    BY <1>1, <1>6, <1>8, <1>9 DEF Guarded
  <1>11. \A d \in Calls \ {c} : /\ Apart(v, call[d])
                                /\ process[c] = process[d] => ApartInside(v, call[d])
    BY <1>3, <1>6 DEF IInv, Exclusive, Apart, ApartInside, LockFree
  <1>12. v.at # "over"
    BY <1>6
  <1> QED BY <1>3, <1>4, <1>5, <1>6, <1>7, <1>10, <1>11, <1>12, OneMoves

-----------------------------------------------------------------------------
(* The call resolves its edits.                                            *)

\* What appending adds.
LEMMA AppendAdds ==
    ASSUME NEW S, NEW s \in Seq(S), NEW e \in S
    PROVE  /\ Append(s, e) \in Seq(S)
           /\ Range(Append(s, e)) = Range(s) \cup {e}
           /\ IsInjective(s) /\ e \notin Range(s) => IsInjective(Append(s, e))
           /\ Append(s, e) # <<>>
  <1>1. /\ Len(s) \in Nat /\ DOMAIN s = 1 .. Len(s)
        /\ Append(s, e) \in Seq(S)
        /\ DOMAIN Append(s, e) = 1 .. Len(s) + 1
        /\ \A i \in 1 .. Len(s) : Append(s, e)[i] = s[i]
        /\ Append(s, e)[Len(s) + 1] = e
        /\ Append(s, e) # <<>>
    OBVIOUS
  <1>2. Range(Append(s, e)) = Range(s) \cup {e}
    BY <1>1 DEF Range
  <1>3. ASSUME IsInjective(s), e \notin Range(s)
        PROVE  IsInjective(Append(s, e))
    BY <1>1, <1>3 DEF IsInjective, Range
  <1> QED BY <1>1, <1>2, <1>3

\* A spot follows if the first of its edits looked for what the file says.
LEMMA FirstTells ==
    ASSUME NEW c, NEW v, NEW n, NEW s, NEW i, NEW j \in Mine(v, n, s, i),
           \A k \in Mine(v, n, s, i) : j <= k,
           v.edits[j][3] = disk[FileAt[n]][s], v.pending[n][s] = c
    PROVE  FollowedAt(c, v, n, s, i)
  <1>1. \E k \in Mine(v, n, s, i) : /\ \A l \in Mine(v, n, s, i) : k <= l
                                  /\ disk[FileAt[n]][s] = v.edits[k][3]
    OBVIOUS
  <1> QED BY <1>1 DEF FollowedAt

\* One more edit of a path follows from what the file says, if its text was found.
LEMMA OneMoreEdit ==
    ASSUME NEW c, NEW r, NEW v, NEW i \in Nat \ {0}, NEW n, NEW sp,
           v.edits = r.edits, n = v.edits[i][1], sp = v.edits[i][2],
           r.pending[n][sp] = v.edits[i][3], v.pending[n][sp] = c,
           \A s \in Spots \ {sp} : v.pending[n][s] = r.pending[n][s],
           Followed(c, r, n, i - 1)
    PROVE  Followed(c, v, n, i)
  <1> DEFINE Before(s) == Mine(r, n, s, i - 1)
             old == disk[FileAt[n]]
             content == r.pending[n]
  <1>0. \A s : Mine(v, n, s, i) = Mine(r, n, s, i)
    BY DEF Mine
  <1>5. /\ i \in 1 .. i /\ i <= i /\ \A j \in 1 .. i : j = i \/ j \in 1 .. i - 1
        /\ \A j \in 1 .. i - 1 : j \in 1 .. i /\ j \in Nat /\ j <= i
    BY ONLY i \in Nat \ {0}
  <1>6. \A s : /\ Before(s) \subseteq Mine(r, n, s, i)
               /\ \A j \in Before(s) : j \in Nat /\ j <= i
    BY <1>5 DEF Mine
  <1>7. sp = r.edits[i][2] /\ n = r.edits[i][1]
    OBVIOUS
  <1>8. ASSUME NEW s, NEW j \in Mine(r, n, s, i), j \notin Before(s)
        PROVE  j = i /\ s = sp
    <2>1. j \in 1 .. i /\ r.edits[j][1] = n /\ r.edits[j][2] = s
      BY ONLY j \in Mine(r, n, s, i) DEF Mine
    <2>2. j \notin 1 .. i - 1
      BY ONLY <1>8, <2>1 DEF Mine
    <2> QED BY ONLY <1>5, <1>7, <2>1, <2>2
  <1>9. i \in Mine(r, n, sp, i)
    BY ONLY <1>5, <1>7 DEF Mine
  <1>1. \A s : s # sp => Mine(r, n, s, i) = Before(s)
    <2> SUFFICES ASSUME NEW s, s # sp PROVE Mine(r, n, s, i) = Before(s)
      OBVIOUS
    <2>1. \A j \in Mine(r, n, s, i) : j \in Before(s)
      BY <1>8
    <2>2. Before(s) \subseteq Mine(r, n, s, i)
      BY <1>6
    <2> HIDE DEF Before
    <2> QED BY ONLY <2>1, <2>2
  <1>2. Mine(r, n, sp, i) = Before(sp) \cup {i} /\ \A j \in Before(sp) : j \in Nat /\ j <= i
    <2> DEFINE B == Before(sp)
               M == Mine(r, n, sp, i)
    <2>1. B \subseteq M /\ i \in M /\ \A j \in B : j \in Nat /\ j <= i
      BY <1>6, <1>9
    <2>2. \A j \in M : j \in B \/ j = i
      BY <1>8
    <2> HIDE DEF B, M
    <2>3. M = B \cup {i}
      BY ONLY <2>1, <2>2
    <2> QED BY <2>1, <2>3 DEF B, M
  <1>3. \A s \in Spots :
          IF Before(s) = {} THEN content[s] = old[s]
          ELSE \E j \in Before(s) : (\A k \in Before(s) : j <= k) /\ old[s] = r.edits[j][3]
    BY DEF Followed, FollowedAt
  <1>4. ASSUME NEW s \in Spots
        PROVE  FollowedAt(c, v, n, s, i)
    <2>1. CASE s # sp
      <3>1. Mine(v, n, s, i) = Before(s) /\ v.pending[n][s] = content[s]
        BY <1>0, <1>1, <2>1
      <3>2. CASE Before(s) = {}
        BY <1>3, <3>1, <3>2 DEF FollowedAt
      <3>3. CASE Before(s) # {}
        <4>2. content[s] = c
          BY <3>3 DEF Followed, FollowedAt
        <4>3. PICK j \in Before(s) : (\A k \in Before(s) : j <= k) /\ old[s] = r.edits[j][3]
          BY <1>3, <3>3
        <4>4. v.edits[j][3] = old[s] /\ v.pending[n][s] = c
          BY <3>1, <4>2, <4>3
        <4>5. /\ Mine(v, n, s, i) # {} /\ j \in Mine(v, n, s, i)
              /\ \A k \in Mine(v, n, s, i) : j <= k
          BY <3>1, <3>3, <4>3
        <4> QED BY <4>4, <4>5, FirstTells
      <3> QED BY <3>2, <3>3
    <2>2. CASE s = sp
      <3>1. v.pending[n][s] = c /\ i \in Mine(v, n, s, i)
        BY <1>0, <1>2, <2>2
      <3>2. CASE Before(s) = {}
        <4>1. Mine(v, n, s, i) = {i} /\ old[s] = v.edits[i][3]
          BY <1>0, <1>2, <1>3, <2>2, <3>2
        <4>2. i \in Mine(v, n, s, i) /\ \A k \in Mine(v, n, s, i) : i <= k
          BY <1>5, <4>1
        <4> QED BY <3>1, <4>1, <4>2, FirstTells
      <3>3. CASE Before(s) # {}
        <4>1. PICK j \in Before(s) : (\A k \in Before(s) : j <= k) /\ old[s] = r.edits[j][3]
          BY <1>3, <3>3
        <4>2. j \in Mine(v, n, s, i) /\ \A k \in Mine(v, n, s, i) : j <= k
          BY <1>0, <1>2, <2>2, <4>1
        <4>3. v.edits[j][3] = old[s]
          BY <4>1
        <4> QED BY <3>1, <4>2, <4>3, FirstTells
      <3> QED BY <3>2, <3>3
    <2> QED BY <2>1, <2>2
  <1> QED BY <1>4 DEF Followed

\* And so does the first edit of a path, made of what the file says.
LEMMA FirstEdit ==
    ASSUME NEW c, NEW v, NEW i \in Nat \ {0}, NEW n, NEW sp,
           n = v.edits[i][1], sp = v.edits[i][2],
           disk[FileAt[n]][sp] = v.edits[i][3], v.pending[n][sp] = c,
           \A s \in Spots \ {sp} : v.pending[n][s] = disk[FileAt[n]][s],
           \A j \in 1 .. i - 1 : v.edits[j][1] # n
    PROVE  Followed(c, v, n, i)
  <1>0. /\ i \in 1 .. i /\ i <= i
        /\ \A j \in 1 .. i : j = i \/ j \in 1 .. i - 1
    BY ONLY i \in Nat \ {0}
  <1>1. ASSUME NEW s, s # sp PROVE Mine(v, n, s, i) = {}
    <2>1. \A j \in 1 .. i : v.edits[j][1] = n => j = i
      BY <1>0
    <2>2. \A j \in 1 .. i : ~(v.edits[j][1] = n /\ v.edits[j][2] = s)
      BY <1>1, <2>1
    <2> QED BY ONLY <2>2 DEF Mine
  <1>2. Mine(v, n, sp, i) = {i}
    <2>1. \A j \in 1 .. i : v.edits[j][1] = n /\ v.edits[j][2] = sp <=> j = i
      BY <1>0
    <2> QED BY ONLY <1>0, <2>1 DEF Mine
  <1>3. ASSUME NEW s \in Spots PROVE FollowedAt(c, v, n, s, i)
    <2>1. CASE s = sp
      <3>1. Mine(v, n, s, i) = {i} /\ disk[FileAt[n]][s] = v.edits[i][3] /\ v.pending[n][s] = c
        BY <1>2, <2>1
      <3>2. i \in Mine(v, n, s, i) /\ \A k \in Mine(v, n, s, i) : i <= k
        BY <1>0, <3>1
      <3> QED BY <3>1, <3>2, FirstTells
    <2>2. CASE s # sp
      BY <1>1, <2>2 DEF FollowedAt
    <2> QED BY <2>1, <2>2
  <1> QED BY <1>3 DEF Followed

LEMMA ResolveHolds ==
    ASSUME IInv, NEW c \in Calls, Resolve(c)
    PROVE  IInv'
  <1> DEFINE r == call[c]
             i == r.next
             e == r.edits[i]
             n == e[1]
             last == i = Len(r.edits)
             loaded == r.pending[n] # Unread
             content == IF loaded THEN r.pending[n] ELSE disk[FileAt[n]]
             made == [content EXCEPT ![e[2]] = c]
             order == IF loaded THEN r.order ELSE Append(r.order, n)
             pending == [r.pending EXCEPT ![n] = made]
             next == IF last THEN 1 ELSE i + 1
             step == IF last THEN "commit" ELSE "resolve"
  <1>1. /\ r \in Call /\ r.at = "resolve" /\ Shaped(c, r) /\ Guarded(r) /\ Faithful(c, r)
        /\ disk \in [Files -> Content]
        /\ UNCHANGED <<process, disk, unlocked, faults>> /\ faults \in 0 .. MaxFaults
    BY DEF Resolve, At, IInv, TypeOK
  <1>2. /\ r.edits \in Seq(Paths \X Spots \X Text) /\ r.order \in Seq(Paths)
        /\ r.pending \in [Paths -> Content \cup {Unread}] /\ i \in Nat
    BY <1>1 DEF Call
  <1>3. /\ Len(r.edits) \in Nat /\ DOMAIN r.edits = 1 .. Len(r.edits)
        /\ i \in 1 .. Len(r.edits) /\ e \in Paths \X Spots \X Text
    BY <1>1, <1>2 DEF Shaped
  <1>4. n \in Paths /\ e[2] \in Spots /\ c \in Text
    BY <1>3 DEF Text
  <1>5. CASE content[e[2]] # e[3]
    <2>1. Become(c, Answered(c))
      BY <1>5 DEF Resolve
    <2> QED BY <1>1, <2>1, OneIsAnswered
  <1>6. CASE content[e[2]] = e[3]
    <2>1. Become(c, [r EXCEPT !.next = next, !.at = step, !.order = order, !.pending = pending])
      BY <1>1, <1>6 DEF Resolve, Call
    <2>2. content \in Content
      BY <1>1, <1>2, <1>4, EditFilesAssumption
    <2>3. /\ made \in Content /\ made[e[2]] = c /\ made # Unread
          /\ \A s \in Spots \ {e[2]} : made[s] = content[s]
      <3>1. made \in Content /\ made[e[2]] = c /\ \A s \in Spots \ {e[2]} : made[s] = content[s]
        BY <1>4, <2>2 DEF Content
      <3>2. DOMAIN made = Spots /\ DOMAIN Unread = {}
        BY <2>2 DEF Content, Unread
      <3> QED BY <1>4, <3>1, <3>2
    <2>4. \A m \in Paths : r.pending[m] # Unread <=> m \in Range(r.order)
      BY <1>1 DEF Shaped
    <2>5. IsInjective(r.order) /\ Range(r.order) \subseteq Named(r)
      BY <1>1 DEF Shaped, Begun
    <2>6. order \in Seq(Paths) /\ Range(order) = Range(r.order) \cup {n} /\ IsInjective(order)
      BY SMTT(30), <1>2, <1>4, <2>4, <2>5, AppendAdds
    <2>7. /\ pending \in [Paths -> Content \cup {Unread}] /\ pending[n] = made
          /\ \A m \in Paths \ {n} : pending[m] = r.pending[m]
      BY <1>2, <1>4, <2>3
    <2>8. next \in Nat /\ step \in Steps
      BY <1>2 DEF Steps
    <2> DEFINE w == [r EXCEPT !.next = next, !.at = step, !.order = order, !.pending = pending]
    <2> HIDE DEF made, order, pending, next, step
    <2>9. /\ w \in Call /\ w.at = step /\ w.edits = r.edits /\ w.next = next /\ w.order = order
          /\ w.pending = pending /\ w.mutexes = r.mutexes /\ w.locks = r.locks
      BY <1>1, <2>6, <2>7, <2>8 DEF Call
    <2>10. Become(c, w)
      BY <2>1
    <2> HIDE DEF w
    <2>11. PICK v \in Call :
             /\ Become(c, v) /\ v.at = step /\ v.edits = r.edits /\ v.next = next /\ v.order = order
             /\ v.pending = pending /\ v.mutexes = r.mutexes /\ v.locks = r.locks
      BY <2>9, <2>10
    <2>12. r.edits # <<>> /\ \A j \in 1 .. i - 1 : r.edits[j][1] \in Range(r.order)
      BY <1>1 DEF Shaped
    <2>13. \A j \in 1 .. i : r.edits[j][1] \in Range(order)
      BY SMTT(30), <1>3, <2>6, <2>12
    <2>14. \A m \in Paths : pending[m] # Unread <=> m \in Range(order)
      BY <2>3, <2>4, <2>6, <2>7
    <2>15. Range(order) \subseteq Named(v) /\ Named(v) = Named(r)
      <3>1. Named(r) = {r.edits[j][1] : j \in DOMAIN r.edits} /\ Named(v) = Named(r)
        BY <2>11, <2>12 DEF Named
      <3>2. n \in Named(r)
        BY <1>3, <3>1
      <3> QED BY <2>5, <2>6, <3>1, <3>2
    <2>16. Range(order) \subseteq Paths /\ Len(order) \in Nat /\ DOMAIN order = 1 .. Len(order)
           /\ Len(order) # 0
      <3>1. Len(order) \in Nat /\ DOMAIN order = 1 .. Len(order) /\ \A k \in DOMAIN order : order[k] \in Paths
        BY <2>6
      <3>2. n \in Range(order)
        BY <2>6
      <3> QED BY <3>1, <3>2 DEF Range
    <2>17. Shaped(c, v)
      <3>1. CASE last
        <4>1. v.at = "commit" /\ v.next = 1
          BY <2>11, <3>1 DEF next, step
        <4>2. \A m \in Range(order) : pending[m] \in Content
          BY <2>7, <2>14, <2>16
        <4> QED BY <2>6, <2>11, <2>12, <2>15, <2>16, <4>1, <4>2 DEF Shaped, Begun, Rewriting
      <3>2. CASE ~last
        <4>1. v.at = "resolve" /\ v.next = i + 1 /\ v.next \in DOMAIN v.edits
          BY <1>3, <2>11, <3>2 DEF next, step
        <4>2. \A j \in 1 .. v.next - 1 : v.edits[j][1] \in Range(v.order)
          BY <1>3, <2>11, <2>13, <4>1
        <4> QED BY <2>6, <2>11, <2>12, <2>14, <2>15, <4>1, <4>2 DEF Shaped, Begun, Rewriting
      <3> QED BY <3>1, <3>2
    <2>18. Guarded(v)'
      BY <1>1, <2>11, <2>15 DEF Guarded, step
    <2>19. Faithful(c, v)'
      <3> SUFFICES ASSUME Safe PROVE /\ step = "resolve" => \A m \in Range(order) : Followed(c, v, m, next - 1)
                                     /\ step = "commit" => \A k \in next .. Len(order) :
                                                             Followed(c, v, order[k], Len(r.edits))
        <4>1. Safe' => Safe
          BY <1>1 DEF Safe, Shared
        <4>2. \A m, upto : Followed(c, v, m, upto) => Followed(c, v, m, upto)'
          BY <1>1 DEF Followed, FollowedAt
        <4> QED BY <2>11, <4>1, <4>2 DEF Faithful
      <3>1. \A m \in Range(r.order) : Followed(c, r, m, i - 1)
        BY <1>1, <2>12 DEF Faithful
      <3>2. Followed(c, v, n, i)
        <4> DEFINE sp == e[2]
        <4>5. n = r.edits[i][1] /\ sp = r.edits[i][2]
          OBVIOUS
        <4> HIDE DEF content
        <4>3. i \in Nat \ {0} /\ v.edits = r.edits /\ content[sp] = r.edits[i][3]
          BY <1>3, <1>6, <2>11
        <4>4. /\ v.pending[n][sp] = c
              /\ \A s \in Spots \ {sp} : v.pending[n][s] = content[s]
          BY <2>3, <2>7, <2>11
        <4>1. CASE loaded
          <5>1. Followed(c, r, n, i - 1) /\ r.pending[n] = content
            BY <1>4, <2>4, <3>1, <4>1 DEF content
          <5>2. PICK k \in Nat \ {0} : k = i
            BY <4>3
          <5>3. /\ v.edits = r.edits /\ n = v.edits[k][1] /\ sp = v.edits[k][2]
                /\ r.pending[n][sp] = v.edits[k][3] /\ v.pending[n][sp] = c
                /\ \A s \in Spots \ {sp} : v.pending[n][s] = r.pending[n][s]
                /\ Followed(c, r, n, k - 1)
            BY <4>3, <4>4, <4>5, <5>1, <5>2
          <5> HIDE DEF n, i, sp, r, e, last, loaded
          <5>4. Followed(c, v, n, k)
            BY ONLY <5>3, OneMoreEdit, k \in Nat \ {0}
          <5> QED BY <5>2, <5>4
        <4>2. CASE ~loaded
          <5>1. \A j \in 1 .. i - 1 : v.edits[j][1] # n
            BY <1>4, <2>4, <2>11, <2>12, <4>2
          <5>2. content = disk[FileAt[n]]
            BY <4>2 DEF content
          <5>3. /\ disk[FileAt[n]][sp] = v.edits[i][3]
                /\ \A s \in Spots \ {sp} : v.pending[n][s] = disk[FileAt[n]][s]
                /\ n = v.edits[i][1] /\ sp = v.edits[i][2]
            BY <4>3, <4>4, <4>5, <5>2
          <5>4. PICK k \in Nat \ {0} : k = i
            BY <4>3
          <5>5. /\ n = v.edits[k][1] /\ sp = v.edits[k][2] /\ disk[FileAt[n]][sp] = v.edits[k][3]
                /\ \A j \in 1 .. k - 1 : v.edits[j][1] # n
            BY <5>1, <5>3, <5>4
          <5> HIDE DEF n, i, sp
          <5>6. Followed(c, v, n, k)
            BY <4>4, <5>3, <5>5, FirstEdit
          <5> QED BY <5>4, <5>6
        <4> QED BY <4>1, <4>2
      <3>3. ASSUME NEW m \in Range(r.order), m # n
            PROVE  Followed(c, v, m, i)
        <4>1. \A s : Mine(v, m, s, i) = Mine(r, m, s, i - 1)
          BY <1>3, <2>11, <3>3 DEF Mine
        <4>2. m \in Paths /\ v.pending[m] = r.pending[m] /\ v.edits = r.edits
          BY <2>6, <2>7, <2>11, <2>16, <3>3
        <4>3. Followed(c, r, m, i - 1)
          BY <3>1
        <4> QED BY <4>1, <4>2, <4>3 DEF Followed, FollowedAt
      <3>4. \A m \in Range(order) : Followed(c, v, m, i)
        BY <2>6, <3>2, <3>3
      <3>5. step = "resolve" => next - 1 = i
        BY <1>3 DEF step, next
      <3>6. step = "commit" => next = 1 /\ Len(r.edits) = i
        BY DEF step, next
      <3>7. \A k \in 1 .. Len(order) : order[k] \in Range(order)
        BY <2>16 DEF Range
      <3> QED BY <3>4, <3>5, <3>6, <3>7
    <2>20. \A d \in Calls \ {c} : /\ Apart(v, call[d])
                                  /\ process[c] = process[d] => ApartInside(v, call[d])
      BY <2>11 DEF IInv, Exclusive, Apart, ApartInside
    <2>21. v.at # "over"
      BY <2>11 DEF step
    <2> QED BY <1>1, <2>11, <2>17, <2>18, <2>19, <2>20, <2>21, OneMoves
  <1> QED BY <1>5, <1>6


-----------------------------------------------------------------------------
(* The call writes its files.                                              *)

\* What two calls that have their locks name is not the same path.
LEMMA NamesApart ==
    ASSUME IInv, Safe, NEW c \in Calls, NEW d \in Calls, c # d,
           call[c].at \in {"resolve", "commit"}, call[d].at \in {"resolve", "commit"},
           NEW m \in Named(call[c]), NEW n \in Named(call[d])
    PROVE  m # n
  <1>1. Guarded(call[c]) /\ Guarded(call[d])
    BY DEF IInv
  <1>2. m \in call[c].mutexes /\ n \in call[d].mutexes
    BY <1>1 DEF Guarded
  <1>3. unlocked = {} => m \in call[c].locks /\ n \in call[d].locks
    BY <1>1 DEF Guarded
  <1>4. /\ call[c].locks \cap call[d].locks = {}
        /\ process[c] = process[d] => call[c].mutexes \cap call[d].mutexes = {}
    BY DEF IInv, Exclusive, Apart, ApartInside
  <1>5. CASE unlocked = {}
    BY <1>3, <1>4, <1>5
  <1>6. CASE Shared
    BY <1>2, <1>4, <1>6 DEF Shared
  <1> QED BY <1>5, <1>6 DEF Safe

\* What is made of a file still follows from it when the file at another path is written.
LEMMA FollowedStays ==
    ASSUME NoLinks, disk \in [Files -> Content], NEW m \in Paths, NEW n \in Paths, m # n,
           NEW x, disk' = [disk EXCEPT ![FileAt[n]] = x],
           NEW c, NEW r, NEW upto, Followed(c, r, m, upto)
    PROVE  Followed(c, r, m, upto)'
  <1>1. FileAt[m] \in Files /\ FileAt[n] \in Files /\ FileAt[m] # FileAt[n]
    BY EditFilesAssumption DEF NoLinks
  <1>2. disk'[FileAt[m]] = disk[FileAt[m]]
    BY <1>1
  <1> QED BY <1>2 DEF Followed, FollowedAt

LEMMA CommitHolds ==
    ASSUME IInv, NEW c \in Calls, Commit(c)
    PROVE  IInv'
  <1> DEFINE r == call[c]
             k == r.next
             n == r.order[k]
             last == k = Len(r.order)
             content == r.pending[n]
  <1>1. /\ r \in Call /\ r.at = "commit" /\ Shaped(c, r) /\ Guarded(r) /\ Faithful(c, r)
        /\ TypeOK /\ UNCHANGED <<process, unlocked, faults>>
        /\ disk' = [disk EXCEPT ![FileAt[n]] = content]
    BY DEF Commit, At, IInv, TypeOK
  <1>2. /\ r.order \in Seq(Paths) /\ Len(r.order) \in Nat /\ DOMAIN r.order = 1 .. Len(r.order)
        /\ k \in 1 .. Len(r.order) /\ IsInjective(r.order) /\ Range(r.order) \subseteq Named(r)
        /\ \A m \in Range(r.order) : r.pending[m] \in Content
    <2>1. r.order \in Seq(Paths)
      BY <1>1 DEF Call
    <2>2. /\ k \in DOMAIN r.order /\ IsInjective(r.order) /\ Range(r.order) \subseteq Named(r)
          /\ \A m \in Range(r.order) : r.pending[m] \in Content
      BY <1>1 DEF Shaped, Begun, Rewriting
    <2> QED BY <2>1, <2>2
  <1>3. \A j \in 1 .. Len(r.order) : r.order[j] \in Range(r.order) /\ r.order[j] \in Paths
    BY <1>2 DEF Range
  <1>4. n \in Range(r.order) /\ n \in Paths /\ content \in Content
    BY <1>2, <1>3
  <1>5. PICK v \in Call :
          /\ Become(c, v)
          /\ v.edits = r.edits /\ v.order = r.order /\ v.pending = r.pending
          /\ v.mutexes = r.mutexes /\ v.locks \subseteq r.locks
          /\ \/ v.at = "sync" /\ v.next = 1
             \/ v.at = "commit" /\ v.next = k + 1 /\ ~last /\ v.locks = r.locks
    <2>1. CASE last
      <3> DEFINE w == [r EXCEPT !.at = "sync", !.next = 1, !.locks = {}]
      <3>1. Become(c, w)
        BY <2>1 DEF Commit, LastOf
      <3>2. /\ w \in Call /\ w.edits = r.edits /\ w.order = r.order /\ w.pending = r.pending
            /\ w.mutexes = r.mutexes /\ w.locks = {} /\ w.at = "sync" /\ w.next = 1
        BY <1>1 DEF Call, Steps
      <3> HIDE DEF w
      <3> QED BY <3>1, <3>2
    <2>2. CASE ~last
      <3> DEFINE w == [r EXCEPT !.next = k + 1]
      <3>1. Become(c, w)
        BY <1>1, <2>2 DEF Commit, LastOf, Call
      <3>2. k + 1 \in Nat
        BY <1>2
      <3>3. /\ w \in Call /\ w.edits = r.edits /\ w.order = r.order /\ w.pending = r.pending
            /\ w.mutexes = r.mutexes /\ w.locks = r.locks /\ w.at = "commit" /\ w.next = k + 1
        BY <1>1, <3>2 DEF Call
      <3> HIDE DEF w
      <3> QED BY <2>2, <3>1, <3>3
    <2> QED BY <2>1, <2>2
  <1>6. call' \in [Calls -> Call] /\ call'[c] = v /\ \A d \in Calls \ {c} : call'[d] = call[d]
    BY <1>1, <1>5 DEF TypeOK, Become
  <1>7. TypeOK'
    <2>1. disk' \in [Files -> Content]
      BY <1>1, <1>4, EditFilesAssumption DEF TypeOK
    <2> QED BY <1>1, <1>5, <1>6, <2>1 DEF TypeOK, Over
  <1>8. Safe' => Safe
    BY <1>1 DEF Safe, Shared
  <1>9. ASSUME NEW d \in Calls \ {c}
        PROVE  Shaped(d, call[d])' /\ Guarded(call[d])' /\ Faithful(d, call[d])'
    <2>1. PICK q : q = call[d] /\ q = call'[d]
      BY <1>6
    <2>2. q \in Call /\ Shaped(d, q) /\ Guarded(q) /\ Faithful(d, q)
      BY <2>1 DEF IInv, TypeOK
    <2>3. Guarded(q)'
      BY <1>1, <2>2 DEF Guarded
    <2>4. ASSUME Safe, q.at \in {"resolve", "commit"}, NEW m \in Range(q.order), NEW upto,
                 Followed(d, q, m, upto)
          PROVE  Followed(d, q, m, upto)'
      <3>1. m \in Named(q) /\ m \in Paths
        <4>1. q.order \in Seq(Paths) /\ Range(q.order) \subseteq Named(q)
          BY <2>2, <2>4 DEF Call, Shaped, Begun
        <4>2. Range(q.order) \subseteq Paths
          BY <4>1 DEF Range
        <4> QED BY <4>1, <4>2, <2>4
      <3>2. m # n
        BY <1>1, <1>2, <1>4, <2>1, <2>4, <3>1, NamesApart
      <3>3. NoLinks /\ disk \in [Files -> Content]
        BY <1>1, <2>4 DEF Safe, TypeOK
      <3> HIDE DEF n, content
      <3> QED BY <1>1, <1>4, <2>4, <3>1, <3>2, <3>3, FollowedStays
    <2>5. Faithful(d, q)'
      <3>1. q.at = "commit" => \A j \in q.next .. Len(q.order) : q.order[j] \in Range(q.order)
        <4>1. q.order \in Seq(Paths) /\ q.next \in Nat
          BY <2>2 DEF Call
        <4>2. Len(q.order) \in Nat /\ DOMAIN q.order = 1 .. Len(q.order)
          BY <4>1
        <4>3. q.at = "commit" => q.next \in DOMAIN q.order
          BY <2>2 DEF Shaped
        <4> QED BY <4>1, <4>2, <4>3 DEF Range
      <3> QED BY <1>8, <2>2, <2>4, <3>1 DEF Faithful
    <2>6. Shaped(d, q)'
      BY <2>2
    <2> QED BY <2>1, <2>3, <2>5, <2>6
  <1>10. Shaped(c, v)
    <2>1. Named(v) = Named(r)
      BY <1>5 DEF Named
    <2>2. v.next \in 1 .. Len(r.order)
      BY <1>2, <1>5
    <2> QED BY <1>1, <1>2, <1>5, <2>1, <2>2 DEF Shaped, Begun, Rewriting
  <1>11. Guarded(v)'
    <2>1. Named(v) = Named(r)
      BY <1>5 DEF Named
    <2> QED BY <1>1, <1>5, <2>1 DEF Guarded
  <1>12. Faithful(c, v)'
    <2> SUFFICES ASSUME Safe, v.at = "commit", v.edits # <<>>, NEW j \in v.next .. Len(v.order)
                 PROVE  Followed(c, v, v.order[j], Len(v.edits))'
      BY <1>5, <1>8 DEF Faithful
    <2>1. j \in k .. Len(r.order) /\ j \in 1 .. Len(r.order) /\ j # k
      BY <1>2, <1>5
    <2>2. PICK m, upto, q : m = r.order[j] /\ upto = Len(r.edits) /\ q = r
      OBVIOUS
    <2>3. q.edits = v.edits /\ q.pending = v.pending /\ m = v.order[j] /\ upto = Len(v.edits)
      BY <1>5, <2>2
    <2>4. Followed(c, q, m, upto)
      BY <1>1, <1>5, <2>1, <2>2, <2>3 DEF Faithful
    <2>5. \A s : Mine(v, m, s, upto) = Mine(q, m, s, upto)
      BY <2>3 DEF Mine
    <2>6. Followed(c, v, m, upto)
      BY <2>3, <2>4, <2>5 DEF Followed, FollowedAt
    <2>7. m \in Paths /\ m # n
      BY <1>2, <1>3, <2>1, <2>2 DEF IsInjective
    <2>8. NoLinks /\ disk \in [Files -> Content]
      BY <1>1 DEF Safe, TypeOK
    <2> HIDE DEF n, content
    <2>9. Followed(c, v, m, upto)'
      BY <1>1, <1>4, <2>6, <2>7, <2>8, FollowedStays
    <2> QED BY <2>3, <2>9
  <1>13. Exclusive'
    <2>1. Exclusive
      BY DEF IInv
    <2> QED BY <1>1, <1>5, <1>6, <2>1 DEF Exclusive, Apart, ApartInside
  <1>14. Shaped(c, call[c])' /\ Guarded(call[c])' /\ Faithful(c, call[c])'
    BY <1>6, <1>10, <1>11, <1>12
  <1> QED BY <1>7, <1>9, <1>13, <1>14 DEF IInv

-----------------------------------------------------------------------------
(* Its files are synced; it fails; its process dies.                       *)

\* A call whose files are written has only to finish.
LEMMA SyncingStays ==
    ASSUME IInv, NEW c \in Calls, NEW v \in Call, Become(c, v),
           call[c].at \in {"sync", "syncing"}, v.at \in {"sync", "syncing"},
           v.edits = call[c].edits, v.order = call[c].order, v.pending = call[c].pending,
           v.mutexes = call[c].mutexes, v.locks = call[c].locks,
           v.next \in DOMAIN v.order,
           UNCHANGED <<process, disk, unlocked, faults>>
    PROVE  IInv'
  <1>1. Shaped(c, call[c]) /\ faults \in 0 .. MaxFaults
    BY DEF IInv, TypeOK
  <1>2. Named(v) = Named(call[c])
    BY DEF Named
  <1>3. Shaped(c, v)
    BY <1>1, <1>2 DEF Shaped, Begun, Rewriting
  <1>4. Guarded(v)' /\ Faithful(c, v)'
    BY DEF Guarded, Faithful
  <1>5. \A d \in Calls \ {c} : /\ Apart(v, call[d])
                               /\ process[c] = process[d] => ApartInside(v, call[d])
    BY DEF IInv, Exclusive, Apart, ApartInside
  <1> QED BY <1>1, <1>3, <1>4, <1>5, OneMoves

LEMMA BeginSyncHolds ==
    ASSUME IInv, NEW c \in Calls, BeginSync(c)
    PROVE  IInv'
  <1> DEFINE w == [call[c] EXCEPT !.at = "syncing"]
  <1>1. call[c] \in Call /\ call[c].at = "sync" /\ Shaped(c, call[c])
    BY DEF BeginSync, At, IInv, TypeOK
  <1>2. Become(c, w) /\ UNCHANGED <<process, disk, unlocked, faults>>
    BY DEF BeginSync
  <1>3. /\ w \in Call /\ w.at = "syncing" /\ w.edits = call[c].edits /\ w.order = call[c].order
        /\ w.pending = call[c].pending /\ w.mutexes = call[c].mutexes
        /\ w.locks = call[c].locks /\ w.next = call[c].next
    BY <1>1 DEF Call, Steps
  <1> HIDE DEF w
  <1>4. call[c].next \in DOMAIN call[c].order
    BY <1>1 DEF Shaped
  <1>5. PICK v \in Call :
          /\ Become(c, v) /\ v.at = "syncing" /\ v.edits = call[c].edits /\ v.order = call[c].order
          /\ v.pending = call[c].pending /\ v.mutexes = call[c].mutexes
          /\ v.locks = call[c].locks /\ v.next = call[c].next
    BY <1>2, <1>3
  <1> QED BY <1>1, <1>2, <1>4, <1>5, SyncingStays

LEMMA EndSyncHolds ==
    ASSUME IInv, NEW c \in Calls, EndSync(c)
    PROVE  IInv'
  <1>1. /\ call[c] \in Call /\ call[c].at = "syncing" /\ Shaped(c, call[c])
        /\ faults \in 0 .. MaxFaults /\ UNCHANGED <<process, disk, unlocked, faults>>
    BY DEF EndSync, At, IInv, TypeOK
  <1>2. CASE LastOf(c)
    <2>1. Become(c, Answered(c))
      BY <1>2 DEF EndSync
    <2> QED BY <1>1, <2>1, OneIsAnswered
  <1>3. CASE ~LastOf(c)
    <2> DEFINE k == call[c].next + 1
               w == [call[c] EXCEPT !.at = "sync", !.next = k]
    <2>1. Become(c, w)
      BY <1>1, <1>3 DEF EndSync, Call
    <2>2. /\ call[c].order \in Seq(Paths) /\ call[c].next \in Nat
          /\ call[c].next \in DOMAIN call[c].order
      BY <1>1 DEF Call, Shaped
    <2>3. k \in Nat /\ k \in DOMAIN call[c].order
      BY <1>3, <2>2 DEF LastOf
    <2> HIDE DEF k
    <2>4. /\ w \in Call /\ w.at = "sync" /\ w.edits = call[c].edits /\ w.order = call[c].order
          /\ w.pending = call[c].pending /\ w.mutexes = call[c].mutexes
          /\ w.locks = call[c].locks /\ w.next = k
      BY <1>1, <2>3 DEF Call, Steps
    <2> HIDE DEF w
    <2>5. PICK v \in Call :
            /\ Become(c, v) /\ v.at = "sync" /\ v.edits = call[c].edits /\ v.order = call[c].order
            /\ v.pending = call[c].pending /\ v.mutexes = call[c].mutexes
            /\ v.locks = call[c].locks /\ v.next = k
      BY <2>1, <2>4
    <2> QED BY <1>1, <2>3, <2>5, SyncingStays
  <1> QED BY <1>2, <1>3

LEMMA FailingHolds ==
    ASSUME IInv, NEW c \in Calls, WriteFails(c) \/ SyncFails(c)
    PROVE  IInv'
  <1>1. faults' \in 0 .. MaxFaults
    BY FaultsBounded DEF IInv, WriteFails, SyncFails
  <1>2. Become(c, Answered(c)) /\ UNCHANGED <<process, disk, unlocked>>
    BY DEF WriteFails, SyncFails
  <1> QED BY <1>1, <1>2, OneIsAnswered

LEMMA KillHolds ==
    ASSUME IInv, NEW p \in Processes, Kill(p)
    PROVE  IInv'
  <1>1. UNCHANGED <<process, disk, unlocked>> /\ faults' \in 0 .. MaxFaults
    BY FaultsBounded DEF IInv, Kill
  <1>2. /\ call' \in [Calls -> Call]
        /\ \A c \in Calls : call'[c] = Answered(c) \/ call'[c] = call[c]
    BY AnsweredIsOver DEF IInv, TypeOK, Kill
  <1>3. TypeOK'
    BY <1>1, <1>2, AnsweredIsOver DEF IInv, TypeOK, Over
  <1>4. ASSUME NEW c \in Calls
        PROVE  Shaped(c, call[c])' /\ Guarded(call[c])' /\ Faithful(c, call[c])'
    <2>1. CASE call'[c] = Answered(c)
      <3>1. PICK v : v = Answered(c) /\ v = call'[c] /\ v.at = "over" /\ Shaped(c, v)
        BY <2>1, AnsweredIsOver
      <3>2. Guarded(v)' /\ Faithful(c, v)'
        BY <3>1 DEF Guarded, Faithful
      <3>3. Shaped(c, v)'
        BY <3>1
      <3> QED BY <3>1, <3>2, <3>3
    <2>2. CASE call'[c] = call[c]
      <3>1. PICK v : v = call[c] /\ v = call'[c]
        BY <2>2
      <3>2. Shaped(c, v) /\ Guarded(v) /\ Faithful(c, v)
        BY <3>1 DEF IInv
      <3>3. Shaped(c, v)' /\ Guarded(v)'
        BY <1>1, <3>2 DEF Guarded
      <3>4. Safe' => Safe
        BY <1>1 DEF Safe, Shared
      <3>5. \A m, upto : Followed(c, v, m, upto) => Followed(c, v, m, upto)'
        BY <1>1 DEF Followed, FollowedAt
      <3>6. Faithful(c, v)'
        BY <3>2, <3>4, <3>5 DEF Faithful
      <3> QED BY <3>1, <3>3, <3>6
    <2> QED BY <1>2, <2>1, <2>2
  <1>5. Exclusive'
    <2>1. \A c \in Calls : /\ call'[c].locks \subseteq call[c].locks
                           /\ call'[c].mutexes \subseteq call[c].mutexes
      BY <1>2, AnsweredIsOver
    <2> QED BY <1>1, <2>1 DEF IInv, Exclusive, Apart, ApartInside
  <1> QED BY <1>3, <1>4, <1>5 DEF IInv

LEMMA StutterHolds ==
    ASSUME IInv, UNCHANGED vars
    PROVE  IInv'
  <1>1. UNCHANGED <<process, disk, call, unlocked, faults>>
    BY DEF vars
  <1>2. TypeOK' /\ Exclusive'
    BY <1>1 DEF IInv, TypeOK, Exclusive, Over
  <1>3. ASSUME NEW c \in Calls
        PROVE  Shaped(c, call[c])' /\ Guarded(call[c])' /\ Faithful(c, call[c])'
    <2>1. PICK v : v = call[c] /\ v = call'[c]
      BY <1>1
    <2>2. Shaped(c, v) /\ Guarded(v) /\ Faithful(c, v)
      BY <2>1 DEF IInv
    <2>3. Guarded(v)' /\ Faithful(c, v)'
      BY ZenonT(60), <1>1, <2>2 DEF Guarded, Faithful, Followed, FollowedAt, Safe, Shared
    <2>4. Shaped(c, v)'
      BY <2>2
    <2> QED BY <2>1, <2>3, <2>4
  <1> QED BY <1>2, <1>3 DEF IInv

LEMMA StepHolds == IInv /\ [Next]_vars => IInv'
  <1> SUFFICES ASSUME IInv, [Next]_vars PROVE IInv'
    OBVIOUS
  <1>1. ASSUME NEW c \in Calls, Goes(c) PROVE IInv'
    BY <1>1, TakeMutexHolds, LockHolds, ResolveHolds, CommitHolds, BeginSyncHolds,
       EndSyncHolds DEF Goes
  <1>2. ASSUME NEW c \in Calls, Fails(c) PROVE IInv'
    BY <1>2, LockHolds, FailingHolds DEF Fails
  <1>3. ASSUME NEW c \in Calls, Edit(c) \/ Write(c) PROVE IInv'
    BY <1>3, EditHolds, WriteHolds
  <1>4. ASSUME NEW p \in Processes, Kill(p) PROVE IInv'
    BY <1>4, KillHolds
  <1> QED BY <1>1, <1>2, <1>3, <1>4, StutterHolds DEF Next, Finished

LEMMA Invariance == Spec => []IInv
  BY InitHolds, StepHolds, PTL DEF Spec

-----------------------------------------------------------------------------
(* What has to hold.                                                       *)

\* Calls, locks, files and what is made of them keep their types, and a call that is
\* over holds no lock and no mutex (edit.go and write.go, whatever way Run ends).
THEOREM TypeCorrect == Spec => []TypeOK
  <1>1. IInv => TypeOK
    BY DEF IInv
  <1> QED BY <1>1, Invariance, PTL

\* Where no file has two paths, a file changes by a call only as that call's own edits
\* would change it, each from the text it looked for -- whatever other calls, kills and
\* failures there are, and as long as no lock is missed that other processes see
\* (withFileLocks, WithPathLock, resolveAndCommit, Write.apply).
THEOREM NothingUndone ==
    ASSUME NoLinks
    PROVE  Spec => NothingLost
  <1> DEFINE Undone(c) ==
        At(c, "commit") /\ disk' # disk /\ call'[c] # call[c] /\ (unlocked = {} \/ Shared) =>
          LET n == call[c].order[call[c].next]
          IN Intended(c, n, disk[FileAt[n]], disk'[FileAt[n]])
  <1>1. ASSUME IInv, [Next]_vars, NEW c \in Calls PROVE Undone(c)
    <2> SUFFICES ASSUME At(c, "commit"), disk' # disk, call'[c] # call[c], unlocked = {} \/ Shared
                 PROVE  LET n == call[c].order[call[c].next]
                        IN Intended(c, n, disk[FileAt[n]], disk'[FileAt[n]])
      OBVIOUS
    <2>1. PICK d \in Calls : Commit(d)
      BY <1>1 DEF Next, vars, Finished, Goes, Fails, Edit, Write, TakeMutex, TakeLock, GoUnlocked,
                  Resolve, WriteFails, BeginSync, EndSync, SyncFails, Kill
    <2>2. d = c
      BY <1>1, <2>1 DEF IInv, TypeOK, Commit, Become
    <2> DEFINE r == call[c]
               n == r.order[r.next]
    <2>3. /\ r \in Call /\ r.at = "commit" /\ Shaped(c, r) /\ Faithful(c, r)
          /\ disk \in [Files -> Content] /\ disk' = [disk EXCEPT ![FileAt[n]] = r.pending[n]]
      BY <1>1, <2>1, <2>2 DEF Commit, At, IInv, TypeOK
    <2>4. r.order \in Seq(Paths) /\ r.next \in 1 .. Len(r.order) /\ Len(r.order) \in Nat
          /\ n \in Range(r.order) /\ n \in Paths
      <3>1. r.order \in Seq(Paths) /\ r.next \in DOMAIN r.order
        BY <2>3 DEF Call, Shaped
      <3> QED BY <3>1 DEF Range
    <2>5. disk'[FileAt[n]] = r.pending[n]
      BY <2>3, <2>4, EditFilesAssumption
    <2>6. CASE r.edits = <<>>
      <3>1. r.pending[n] = [s \in Spots |-> c]
        BY <2>3, <2>4, <2>6 DEF Shaped, Rewriting
      <3> QED BY <2>5, <2>6, <3>1 DEF Intended
    <2>7. CASE r.edits # <<>>
      <3>1. Followed(c, r, n, Len(r.edits))
        BY SMTT(30), <2>3, <2>4, <2>7 DEF Faithful, Safe
      <3>2. DOMAIN r.edits = 1 .. Len(r.edits)
        BY SMTT(30), <2>3 DEF Call
      <3>3. \A s : Mine(r, n, s, Len(r.edits)) =
                   {i \in DOMAIN r.edits : r.edits[i][1] = n /\ r.edits[i][2] = s}
        BY <3>2 DEF Mine
      <3> QED BY <2>5, <2>7, <3>1, <3>3 DEF Intended, Followed, FollowedAt
    <2> QED BY <2>6, <2>7
  <1>2. IInv /\ [Next]_vars => [\A c \in Calls : Undone(c)]_vars
    BY <1>1
  <1> QED BY <1>2, Invariance, PTL DEF Spec, NothingLost
=============================================================================
