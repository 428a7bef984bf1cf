--------------------------- MODULE TransientsProofs ---------------------------
(***************************************************************************)
(* Transients that are still true are never lost, nothing is shown twice,  *)
(* and nobody is told the same thing twice in a row, for any pairs,        *)
(* settings and bounds.                                                    *)
(***************************************************************************)
EXTENDS Transients, FiniteSetTheorems, TLAPS

-----------------------------------------------------------------------------
(* Parts of sequences.                                                     *)

\* No two entries are about one pair.
Distinct(s) == \A i, j \in DOMAIN s : s[i].id = s[j].id => i = j

\* One entry comes before the other.
Before(s, v, w) == \E i, j \in DOMAIN s : i < j /\ s[i] = v /\ s[j] = w

\* No later entry is about its pair.
Closes(s, v) == \A w \in Range(s) : w.id = v.id => ~Before(s, v, w)

\* The positions of a sequence are as many as its length.
LEMMA UpToLength ==
    ASSUME NEW n \in Nat
    PROVE  IsFiniteSet(1 .. n) /\ Cardinality(1 .. n) = n
  <1>1. 1 \in Int /\ n \in Int
    OBVIOUS
  <1>2. /\ IsFiniteSet(1 .. n)
        /\ Cardinality(1 .. n) = IF 1 > n THEN 0 ELSE n - 1 + 1
    BY ONLY <1>1, FS_Interval
  <1> QED BY ONLY <1>1, <1>2, n \in Nat

\* Pick takes the entries at D, each once, and nothing else.
LEMMA PickIs ==
    ASSUME NEW S, NEW s \in Seq(S), NEW D \in SUBSET (1 .. Len(s))
    PROVE  /\ Cardinality(D) \in Nat /\ Cardinality(D) <= Len(s)
           /\ \E at \in [1 .. Cardinality(D) -> D] :
                /\ Pick(s, D) = [n \in 1 .. Cardinality(D) |-> s[at[n]]]
                /\ IsInjective(at)
                /\ \A i \in D : \E n \in 1 .. Cardinality(D) : at[n] = i
                /\ \A m, n \in 1 .. Cardinality(D) : m < n => at[m] < at[n]
  <1> DEFINE N == Cardinality(D)
             UpTo(i) == {j \in D : j <= i}
             rank == [i \in D |-> Cardinality(UpTo(i))]
             Nth(n) == CHOOSE i \in D : Cardinality(UpTo(i)) = n
             at == [n \in 1 .. N |-> Nth(n)]
  <1>1. IsFiniteSet(D) /\ N \in Nat /\ N <= Len(s)
    <2>1. IsFiniteSet(1 .. Len(s)) /\ Cardinality(1 .. Len(s)) = Len(s)
      <3>1. Len(s) \in Nat
        OBVIOUS
      <3> HIDE DEF N, UpTo, rank, Nth, at
      <3> QED BY <3>1, UpToLength
    <2> QED BY <2>1, FS_Subset, FS_CardinalityType
  <1>2. \A i \in D : /\ UpTo(i) \in SUBSET D /\ IsFiniteSet(UpTo(i))
                     /\ Cardinality(UpTo(i)) \in Nat /\ Cardinality(UpTo(i)) <= N
                     /\ i \in UpTo(i)
    BY <1>1, FS_Subset, FS_CardinalityType
  <1>3. \A i \in D : rank[i] \in 1 .. N
    <2> SUFFICES ASSUME NEW i \in D  PROVE rank[i] \in 1 .. N
      OBVIOUS
    <2>1. Cardinality(UpTo(i)) # 0
      BY <1>2, FS_EmptySet
    <2> HIDE DEF UpTo, N
    <2> QED BY <1>1, <1>2, <2>1
  <1>4. \A i, k \in D : i < k => rank[i] < rank[k]
    <2> SUFFICES ASSUME NEW i \in D, NEW k \in D, i < k
                 PROVE  Cardinality(UpTo(i)) < Cardinality(UpTo(k))
      OBVIOUS
    <2>1. UpTo(i) \in SUBSET UpTo(k)
      <3>1. \A j \in D : j \in Nat
        OBVIOUS
      <3>2. \A j \in D : j <= i => j <= k
        BY <3>1
      <3> QED BY <3>2
    <2>2. k \notin UpTo(i)
      OBVIOUS
    <2> HIDE DEF UpTo
    <2>3. /\ Cardinality(UpTo(i)) <= Cardinality(UpTo(k))
          /\ Cardinality(UpTo(i)) = Cardinality(UpTo(k)) => UpTo(i) = UpTo(k)
      BY <1>2, <2>1, FS_Subset
    <2>4. Cardinality(UpTo(i)) \in Nat /\ Cardinality(UpTo(k)) \in Nat
      BY <1>2
    <2>5. Cardinality(UpTo(i)) # Cardinality(UpTo(k))
      BY <1>2, <2>2, <2>3
    <2> QED BY <2>3, <2>4, <2>5
  <1>5. rank \in Injection(D, 1 .. N)
    <2>1. \A i, k \in D : rank[i] = rank[k] => i = k
      <3> HIDE DEF N, UpTo
      <3>1. \A i \in D : i \in Nat /\ rank[i] \in Nat
        BY <1>1, <1>3
      <3> HIDE DEF rank
      <3> QED BY <1>4, <3>1
    <2> HIDE DEF N, UpTo
    <2> QED BY <1>3, <2>1 DEF Injection, IsInjective
  <1>6. rank \in Surjection(D, 1 .. N)
    <2>1. IsFiniteSet(1 .. N) /\ Cardinality(1 .. N) = N
      BY <1>1, FS_Interval
    <2> QED BY <1>5, <2>1, FS_Injection
  <1>7. \A n \in 1 .. N : at[n] \in D /\ rank[at[n]] = n
    <2> SUFFICES ASSUME NEW n \in 1 .. N  PROVE at[n] \in D /\ rank[at[n]] = n
      OBVIOUS
    <2>1. \E i \in D : Cardinality(UpTo(i)) = n
      BY <1>6 DEF Surjection
    <2>2. Nth(n) \in D /\ Cardinality(UpTo(Nth(n))) = n
      BY <2>1
    <2> HIDE DEF UpTo
    <2> QED BY <2>2
  <1>8. Pick(s, D) = [n \in 1 .. N |-> s[at[n]]]
    BY DEF Pick
  <1> HIDE DEF N, rank, at
  <1>9. IsInjective(at)
    <2>1. DOMAIN at = 1 .. N
      BY DEF at
    <2> QED BY <1>7, <2>1 DEF IsInjective
  <1>10. \A i \in D : \E n \in 1 .. N : at[n] = i
    BY <1>3, <1>5, <1>7 DEF Injection, IsInjective
  <1>11. at \in [1 .. N -> D]
    BY <1>7 DEF at
  <1>12. \A m, n \in 1 .. N : m < n => at[m] < at[n]
    <2> SUFFICES ASSUME NEW m \in 1 .. N, NEW n \in 1 .. N, m < n, ~(at[m] < at[n])
                 PROVE  FALSE
      OBVIOUS
    <2>1. at[m] \in D /\ at[n] \in D /\ rank[at[m]] = m /\ rank[at[n]] = n
      BY <1>7
    <2>2. \A i \in D : i \in Int
      OBVIOUS
    <2>3. PICK i \in Int, k \in Int : i = at[m] /\ k = at[n]
      BY <2>1, <2>2
    <2>4. k < i \/ k = i
      BY <2>3
    <2>5. m \in Int /\ n \in Int
      OBVIOUS
    <2>6. k < i => n < m
      BY <1>4, <2>1, <2>3
    <2>7. k = i => n = m
      BY <2>1, <2>3
    <2> QED BY ONLY <2>4, <2>5, <2>6, <2>7, m < n
  <1> QED BY <1>1, <1>8, <1>9, <1>10, <1>11, <1>12 DEF N

\* So the picked sequence ...
LEMMA PickFacts ==
    ASSUME NEW S, NEW s \in Seq(S), NEW D \in SUBSET (1 .. Len(s))
    PROVE  /\ Pick(s, D) \in Seq(S) /\ Len(Pick(s, D)) <= Len(s)
           /\ Range(Pick(s, D)) = {s[i] : i \in D}
           /\ (\A i, j \in D : s[i] = s[j] => i = j) => IsInjective(Pick(s, D))
           /\ (\A i, j \in D : s[i].id = s[j].id => i = j) => Distinct(Pick(s, D))
  <1> DEFINE N == Cardinality(D)
             t == Pick(s, D)
  <1>1. N \in Nat /\ N <= Len(s)
    BY PickIs
  <1>2. PICK at \in [1 .. N -> D] : /\ t = [n \in 1 .. N |-> s[at[n]]]
                                    /\ IsInjective(at)
                                    /\ \A i \in D : \E n \in 1 .. N : at[n] = i
    BY PickIs
  <1> HIDE DEF N, t
  <1>3. \A n \in 1 .. N : at[n] \in D /\ at[n] \in 1 .. Len(s) /\ t[n] = s[at[n]]
    BY <1>2
  <1>4. DOMAIN t = 1 .. N
    BY <1>2
  <1>5. t \in Seq(S) /\ Len(t) = N
    <2>1. \A n \in 1 .. N : t[n] \in S
      BY <1>3
    <2>2. t \in [1 .. N -> S]
      BY <1>2, <2>1
    <2> QED BY <1>1, <2>2
  <1>6. Range(t) = {s[i] : i \in D}
    BY <1>2, <1>3, <1>4 DEF Range
  <1>7. (\A i, j \in D : s[i] = s[j] => i = j) => IsInjective(t)
    BY <1>2, <1>3, <1>4 DEF IsInjective
  <1>8. (\A i, j \in D : s[i].id = s[j].id => i = j) => Distinct(t)
    <2> SUFFICES ASSUME \A i, j \in D : s[i].id = s[j].id => i = j,
                        NEW m \in 1 .. N, NEW n \in 1 .. N, t[m].id = t[n].id
                 PROVE  m = n
      BY <1>4 DEF Distinct
    <2>1. at[m] = at[n]
      BY <1>3
    <2> QED BY <1>2, <2>1 DEF IsInjective
  <1> QED BY <1>1, <1>5, <1>6, <1>7, <1>8 DEF t

\* SetToSeq lists a finite set, each element once.
LEMMA ListFacts ==
    ASSUME NEW S, NEW T \in SUBSET S, IsFiniteSet(T)
    PROVE  /\ SetToSeq(T) \in Seq(S)
           /\ IsInjective(SetToSeq(T))
           /\ Range(SetToSeq(T)) = T
  <1> DEFINE N == Cardinality(T)
             t == SetToSeq(T)
  <1>1. N \in Nat /\ ExistsBijection(1 .. N, T)
    BY FS_CardinalityType
  <1>2. \E f \in [1 .. N -> T] : IsInjective(f)
    BY <1>1 DEF ExistsBijection, Bijection, Injection
  <1>3. t \in [1 .. N -> T] /\ IsInjective(t)
    BY <1>2 DEF SetToSeq
  <1>4. t \in Surjection(1 .. N, T)
    <2>1. IsFiniteSet(1 .. N) /\ Cardinality(1 .. N) = N
      BY <1>1, FS_Interval
    <2>2. t \in Injection(1 .. N, T)
      BY <1>3 DEF Injection
    <2> HIDE DEF t
    <2> QED BY <2>1, <2>2, FS_Injection
  <1> HIDE DEF N, t
  <1>5. t \in Seq(S)
    <2>1. t \in [1 .. N -> S]
      BY <1>3
    <2> QED BY <1>1, <2>1
  <1>6. Range(t) = T
    BY <1>3, <1>4 DEF Range, Surjection
  <1> QED BY <1>3, <1>5, <1>6 DEF t

\* LastOf is an end of the sequence.
LEMMA LastFacts ==
    ASSUME NEW S, NEW s \in Seq(S), NEW n \in Nat \ {0}
    PROVE  /\ LastOf(s, n) \in Seq(S)
           /\ Len(LastOf(s, n)) = IF Len(s) > n THEN n ELSE Len(s)
           /\ \E o \in Nat : \A i \in DOMAIN LastOf(s, n) :
                i + o \in DOMAIN s /\ LastOf(s, n)[i] = s[i + o]
  <1>1. CASE Len(s) > n
    <2>1. PICK o \in Nat : o = Len(s) - n
      BY <1>1
    <2>2. PICK t : t = SubSeq(s, o + 1, Len(s))
      OBVIOUS
    <2>3. LastOf(s, n) = t
      BY <1>1, <2>1, <2>2 DEF LastOf
    <2>4. t \in Seq(S) /\ Len(t) = n /\ DOMAIN t = 1 .. n
      BY <1>1, <2>1, <2>2
    <2>5. \A i \in 1 .. n : t[i] = s[i + o] /\ i + o \in DOMAIN s
      BY <1>1, <2>1, <2>2
    <2> QED BY <1>1, <2>3, <2>4, <2>5
  <1>2. CASE ~(Len(s) > n)
    <2>1. LastOf(s, n) = s
      BY <1>2 DEF LastOf
    <2>2. \A i \in DOMAIN s : i + 0 \in DOMAIN s /\ s[i] = s[i + 0]
      OBVIOUS
    <2> QED BY <1>2, <2>1, <2>2
  <1> QED BY <1>1, <1>2

LEMMA ConcatFacts ==
    ASSUME NEW S, NEW s \in Seq(S), NEW t \in Seq(S)
    PROVE  /\ s \o t \in Seq(S)
           /\ Range(s \o t) = Range(s) \cup Range(t)
           /\ IsInjective(s) /\ IsInjective(t) /\ Range(s) \cap Range(t) = {} => IsInjective(s \o t)
           /\ Distinct(s) /\ Distinct(t) /\ About(Range(s)) \cap About(Range(t)) = {}
                => Distinct(s \o t)
  <1>1. PICK u \in Seq(S) : u = s \o t
    <2>1. s \o t \in Seq(S)
      OBVIOUS
    <2> QED BY <2>1
  <1>2. /\ Len(u) = Len(s) + Len(t) /\ DOMAIN u = 1 .. Len(s) + Len(t)
        /\ Len(s) \in Nat /\ Len(t) \in Nat
        /\ DOMAIN s = 1 .. Len(s) /\ DOMAIN t = 1 .. Len(t)
    BY <1>1
  <1>3. \A i \in DOMAIN s : i \in DOMAIN u /\ u[i] = s[i]
    BY <1>1, <1>2
  <1>4. \A i \in DOMAIN t : i + Len(s) \in DOMAIN u /\ u[i + Len(s)] = t[i]
    BY <1>1, <1>2
  <1>5. \A i \in DOMAIN u : i \notin DOMAIN s =>
            \E k \in DOMAIN t : i = k + Len(s) /\ u[i] = t[k]
    <2> TAKE i \in DOMAIN u
    <2> HAVE i \notin DOMAIN s
    <2>1. PICK k \in DOMAIN t : i = k + Len(s)
      <3>1. i - Len(s) \in DOMAIN t /\ i = (i - Len(s)) + Len(s)
        BY <1>2
      <3> QED BY <3>1
    <2> QED BY <1>4, <2>1
  <1>6. Range(u) = Range(s) \cup Range(t)
    BY <1>3, <1>4, <1>5 DEF Range
  <1>7. ASSUME IsInjective(s), IsInjective(t), Range(s) \cap Range(t) = {}
        PROVE  IsInjective(u)
    <2> SUFFICES ASSUME NEW i \in DOMAIN u, NEW j \in DOMAIN u, u[i] = u[j]  PROVE i = j
      BY DEF IsInjective
    <2>1. CASE i \in DOMAIN s /\ j \in DOMAIN s
      BY <1>3, <1>7, <2>1 DEF IsInjective
    <2>0. \A k \in DOMAIN s, l \in DOMAIN t : s[k] # t[l]
      BY <1>7 DEF Range
    <2>2. CASE i \in DOMAIN s /\ j \notin DOMAIN s
      BY <1>3, <1>5, <2>0, <2>2
    <2>3. CASE i \notin DOMAIN s /\ j \in DOMAIN s
      BY <1>3, <1>5, <2>0, <2>3
    <2>4. CASE i \notin DOMAIN s /\ j \notin DOMAIN s
      BY <1>5, <1>7, <2>4 DEF IsInjective
    <2> QED BY <2>1, <2>2, <2>3, <2>4
  <1>8. ASSUME Distinct(s), Distinct(t), About(Range(s)) \cap About(Range(t)) = {}
        PROVE  Distinct(u)
    <2> SUFFICES ASSUME NEW i \in DOMAIN u, NEW j \in DOMAIN u, u[i].id = u[j].id  PROVE i = j
      BY DEF Distinct
    <2>0. \A k \in DOMAIN s, l \in DOMAIN t : s[k].id # t[l].id
      <3> TAKE k \in DOMAIN s, l \in DOMAIN t
      <3>1. s[k].id \in About(Range(s)) /\ t[l].id \in About(Range(t))
        BY DEF Range, About
      <3> QED BY <1>8, <3>1
    <2>1. CASE i \in DOMAIN s /\ j \in DOMAIN s
      BY <1>3, <1>8, <2>1 DEF Distinct
    <2>2. CASE i \in DOMAIN s /\ j \notin DOMAIN s
      BY <1>3, <1>5, <2>0, <2>2
    <2>3. CASE i \notin DOMAIN s /\ j \in DOMAIN s
      BY <1>3, <1>5, <2>0, <2>3
    <2>4. CASE i \notin DOMAIN s /\ j \notin DOMAIN s
      BY <1>5, <1>8, <2>4 DEF Distinct
    <2> QED BY <2>1, <2>2, <2>3, <2>4
  <1> QED BY <1>1, <1>6, <1>7, <1>8

\* An end of a sequence repeats nothing the sequence does not.
LEMMA LastKeeps ==
    ASSUME NEW S, NEW s \in Seq(S), NEW n \in Nat \ {0}
    PROVE  /\ LastOf(s, n) \in Seq(S)
           /\ Len(LastOf(s, n)) = IF Len(s) > n THEN n ELSE Len(s)
           /\ Range(LastOf(s, n)) \subseteq Range(s)
           /\ IsInjective(s) => IsInjective(LastOf(s, n))
           /\ Distinct(s) => Distinct(LastOf(s, n))
  <1>1. PICK t \in Seq(S) : t = LastOf(s, n)
    BY LastFacts
  <1>2. PICK o \in Nat : \A i \in DOMAIN t : i + o \in DOMAIN s /\ t[i] = s[i + o]
    BY <1>1, LastFacts
  <1>3. Range(t) \subseteq Range(s)
    BY <1>2 DEF Range
  <1>4. \A i, j \in DOMAIN t : i + o = j + o => i = j
    <2>1. \A i \in DOMAIN t : i \in Nat
      OBVIOUS
    <2> QED BY <2>1
  <1>5. IsInjective(s) => IsInjective(t)
    BY <1>2, <1>4 DEF IsInjective
  <1>6. Distinct(s) => Distinct(t)
    BY <1>2, <1>4 DEF Distinct
  <1> QED BY <1>1, <1>3, <1>5, <1>6, LastFacts

LEMMA WithoutFacts ==
    ASSUME NEW S, NEW s \in Seq(S), NEW ws
    PROVE  /\ Without(s, ws) \in Seq(S) /\ Len(Without(s, ws)) <= Len(s)
           /\ Range(Without(s, ws)) = Range(s) \ ws
           /\ IsInjective(s) => IsInjective(Without(s, ws))
  <1> DEFINE D == {i \in DOMAIN s : s[i] \notin ws}
  <1>1. D \in SUBSET (1 .. Len(s)) /\ D \subseteq DOMAIN s
    OBVIOUS
  <1>2. Without(s, ws) = Pick(s, D)
    BY DEF Without
  <1>3. {s[i] : i \in D} = Range(s) \ ws
    BY DEF Range
  <1>4. IsInjective(s) => \A i, j \in D : s[i] = s[j] => i = j
    BY DEF IsInjective
  <1> HIDE DEF D
  <1> QED BY <1>1, <1>2, <1>3, <1>4, PickFacts

\* What is left stays in its order.
LEMMA WithoutOrder ==
    ASSUME NEW S, NEW s \in Seq(S), NEW ws, NEW v, NEW w, Before(Without(s, ws), v, w)
    PROVE  Before(s, v, w) /\ v \notin ws /\ w \notin ws
  <1>1. PICK D : D = {i \in DOMAIN s : s[i] \notin ws}
    OBVIOUS
  <1>2. D \in SUBSET (1 .. Len(s)) /\ D \subseteq DOMAIN s
    BY <1>1
  <1>3. PICK N : N = Cardinality(D)
    OBVIOUS
  <1>4. PICK at \in [1 .. N -> D] :
            /\ Pick(s, D) = [n \in 1 .. N |-> s[at[n]]]
            /\ \A m, n \in 1 .. N : m < n => at[m] < at[n]
    BY <1>2, <1>3, PickIs
  <1>5. PICK t : t = Without(s, ws)
    OBVIOUS
  <1>6. t = [n \in 1 .. N |-> s[at[n]]]
    BY <1>1, <1>4, <1>5 DEF Without
  <1>7. PICK m \in 1 .. N, n \in 1 .. N : m < n /\ t[m] = v /\ t[n] = w
    BY <1>5, <1>6 DEF Before
  <1>8. /\ at[m] \in D /\ at[n] \in D /\ at[m] < at[n]
        /\ s[at[m]] = v /\ s[at[n]] = w
    BY <1>4, <1>6, <1>7
  <1> QED BY <1>1, <1>8 DEF Before

LEMMA ConcatOrder ==
    ASSUME NEW S, NEW s \in Seq(S), NEW t \in Seq(S), NEW v, NEW w, Before(s \o t, v, w)
    PROVE  \/ Before(s, v, w)
           \/ v \in Range(s) /\ w \in Range(t)
           \/ Before(t, v, w)
  <1>1. PICK u : u = s \o t
    OBVIOUS
  <1>2. /\ DOMAIN u = 1 .. Len(s) + Len(t) /\ Len(s) \in Nat /\ Len(t) \in Nat
        /\ DOMAIN s = 1 .. Len(s) /\ DOMAIN t = 1 .. Len(t)
        /\ \A i \in DOMAIN u : u[i] = IF i <= Len(s) THEN s[i] ELSE t[i - Len(s)]
    BY <1>1
  <1>3. PICK i \in DOMAIN u, j \in DOMAIN u : i < j /\ u[i] = v /\ u[j] = w
    BY <1>1 DEF Before
  <1>4. i \in Nat /\ j \in Nat /\ 1 <= i /\ 1 <= j
        /\ i <= Len(s) + Len(t) /\ j <= Len(s) + Len(t)
    BY <1>2
  <1>5. CASE j <= Len(s)
    <2>1. i \in DOMAIN s /\ j \in DOMAIN s /\ s[i] = v /\ s[j] = w
      BY <1>2, <1>3, <1>4, <1>5
    <2> QED BY <1>3, <2>1 DEF Before
  <1>6. CASE i <= Len(s) /\ ~(j <= Len(s))
    <2>1. i \in DOMAIN s /\ s[i] = v
      BY <1>2, <1>3, <1>4, <1>6
    <2>2. j - Len(s) \in DOMAIN t /\ t[j - Len(s)] = w
      BY <1>2, <1>3, <1>4, <1>6
    <2> QED BY <2>1, <2>2 DEF Range
  <1>7. CASE ~(i <= Len(s)) /\ ~(j <= Len(s))
    <2>1. PICK m, n : m = i - Len(s) /\ n = j - Len(s)
      OBVIOUS
    <2>2. m \in DOMAIN t /\ n \in DOMAIN t /\ m < n /\ t[m] = v /\ t[n] = w
      BY <1>2, <1>3, <1>4, <1>7, <2>1
    <2> QED BY <2>2 DEF Before
  <1>8. i < j
    BY <1>3
  <1> QED BY <1>2, <1>4, <1>5, <1>6, <1>7, <1>8

LEMMA WithoutIdsFacts ==
    ASSUME NEW S, NEW s \in Seq(S), NEW ids
    PROVE  /\ WithoutIds(s, ids) \in Seq(S) /\ Len(WithoutIds(s, ids)) <= Len(s)
           /\ Range(WithoutIds(s, ids)) = {e \in Range(s) : e.id \notin ids}
           /\ Distinct(s) => Distinct(WithoutIds(s, ids))
  <1> DEFINE D == {i \in DOMAIN s : s[i].id \notin ids}
  <1>1. D \in SUBSET (1 .. Len(s)) /\ D \subseteq DOMAIN s
    OBVIOUS
  <1>2. WithoutIds(s, ids) = Pick(s, D)
    BY DEF WithoutIds
  <1>3. {s[i] : i \in D} = {e \in Range(s) : e.id \notin ids}
    BY DEF Range
  <1>4. Distinct(s) => \A i, j \in D : s[i].id = s[j].id => i = j
    BY DEF Distinct
  <1> HIDE DEF D
  <1> QED BY <1>1, <1>2, <1>3, <1>4, PickFacts

\* To pick all of a sequence is to keep it.
LEMMA PickAll ==
    ASSUME NEW S, NEW s \in Seq(S)
    PROVE  Pick(s, DOMAIN s) = s
  <1> DEFINE N == Len(s)
             Nth(n) == CHOOSE i \in 1 .. N : Cardinality({j \in 1 .. N : j <= i}) = n
  <1>1. N \in Nat /\ DOMAIN s = 1 .. N /\ s = [n \in 1 .. N |-> s[n]]
    OBVIOUS
  <1>2. Pick(s, 1 .. N) = [n \in 1 .. Cardinality(1 .. N) |-> s[Nth(n)]]
    BY DEF Pick
  <1>3. Cardinality(1 .. N) = N
    BY <1>1, UpToLength
  <1>4. \A i \in 1 .. N : Cardinality({j \in 1 .. N : j <= i}) = i
    <2> TAKE i \in 1 .. N
    <2>1. {j \in 1 .. N : j <= i} = 1 .. i /\ i \in Nat
      BY <1>1
    <2> QED BY <2>1, UpToLength
  <1>5. \A n \in 1 .. N : Nth(n) = n
    <2> TAKE n \in 1 .. N
    <2>1. \E i \in 1 .. N : Cardinality({j \in 1 .. N : j <= i}) = n
      BY <1>4
    <2>2. Nth(n) \in 1 .. N /\ Cardinality({j \in 1 .. N : j <= Nth(n)}) = n
      BY <2>1
    <2> HIDE DEF Nth
    <2> QED BY <1>4, <2>2
  <1> HIDE DEF Nth
  <1>6. [n \in 1 .. N |-> s[Nth(n)]] = [n \in 1 .. N |-> s[n]]
    BY <1>5
  <1> QED BY <1>1, <1>2, <1>3, <1>6

\* A sequence without repetition is as long as it has entries.
LEMMA InjectiveLength ==
    ASSUME NEW S, NEW s \in Seq(S), IsInjective(s)
    PROVE  IsFiniteSet(Range(s)) /\ Cardinality(Range(s)) = Len(s)
  <1>1. DOMAIN s = 1 .. Len(s) /\ Len(s) \in Nat
    OBVIOUS
  <1>2. IsFiniteSet(1 .. Len(s)) /\ Cardinality(1 .. Len(s)) = Len(s)
    BY <1>1, UpToLength
  <1>3. s \in Surjection(1 .. Len(s), Range(s))
    BY <1>1 DEF Surjection, Range
  <1>4. s \in Bijection(1 .. Len(s), Range(s))
    BY <1>1, <1>3 DEF Bijection, Injection, Surjection, IsInjective
  <1>5. IsFiniteSet(Range(s)) /\ Cardinality(Range(s)) <= Cardinality(1 .. Len(s))
        /\ (Cardinality(1 .. Len(s)) = Cardinality(Range(s)) <=> s \in Injection(1 .. Len(s), Range(s)))
    BY <1>2, <1>3, FS_Surjection
  <1> QED BY <1>2, <1>4, <1>5 DEF Bijection

LEMMA TailOfConcat ==
    ASSUME NEW S, NEW s \in Seq(S), NEW t \in Seq(S)
    PROVE  SubSeq(s \o t, Len(s) + 1, Len(s \o t)) = t
  <1>1. PICK u \in Seq(S) : u = s \o t
    <2>1. s \o t \in Seq(S)
      OBVIOUS
    <2> QED BY <2>1
  <1>2. /\ Len(u) = Len(s) + Len(t) /\ Len(s) \in Nat /\ Len(t) \in Nat
        /\ \A i \in 1 .. Len(t) : u[i + Len(s)] = t[i]
    BY <1>1
  <1>3. PICK v : v = SubSeq(u, Len(s) + 1, Len(u))
    OBVIOUS
  <1>4. v \in Seq(S) /\ Len(v) = Len(t)
    BY <1>2, <1>3
  <1>5. \A i \in 1 .. Len(t) : v[i] = t[i]
    <2> TAKE i \in 1 .. Len(t)
    <2>1. v[i] = u[Len(s) + 1 + i - 1]
      BY <1>2, <1>3
    <2>2. Len(s) + 1 + i - 1 = i + Len(s)
      BY <1>2
    <2> QED BY <1>2, <2>1, <2>2
  <1> QED BY <1>1, <1>3, <1>4, <1>5

-----------------------------------------------------------------------------
(* What the sections make of the two files.                                *)

\* No two of these transients are about one pair.
Unique(ws) == \A v, w \in ws : v.id = w.id => v = w

Alike(v, w) == v.id = w.id /\ v.callee = w.callee

LEMMA MarkedFacts ==
    ASSUME TypeOK, NEW ws \in SUBSET Transient, IsFiniteSet(ws)
    PROVE  /\ Marked(ws) \in Seq(Transient) /\ Len(Marked(ws)) <= MaxReported
           /\ IsInjective(Marked(ws))
           /\ Range(Marked(ws)) \subseteq Range(ledger) \cup ws
  <1>0. ledger \in Seq(Transient) /\ IsInjective(ledger)
    BY DEF TypeOK
  <1>1. PICK old \in Seq(Transient) : old = Without(ledger, ws)
    BY <1>0, WithoutFacts
  <1>2. Range(old) = Range(ledger) \ ws /\ IsInjective(old)
    BY <1>0, <1>1, WithoutFacts
  <1>3. PICK new \in Seq(Transient) : new = SetToSeq(ws)
    BY ListFacts
  <1>4. Range(new) = ws /\ IsInjective(new)
    BY <1>3, ListFacts
  <1>5. PICK all \in Seq(Transient) : all = old \o new
    BY ConcatFacts
  <1>6. IsInjective(all) /\ Range(all) \subseteq Range(ledger) \cup ws
    BY <1>2, <1>4, <1>5, ConcatFacts
  <1>7. Marked(ws) = IF Len(all) > MaxReported THEN LastOf(all, Keep) ELSE all
    BY <1>1, <1>3, <1>5 DEF Marked
  <1>8. Keep \in Nat \ {0} /\ MaxReported \in Nat /\ Keep <= MaxReported
    BY TransientsAssumption
  <1>9. CASE Len(all) > MaxReported
    <2>1. Len(all) > Keep
      BY <1>8, <1>9
    <2> QED BY <1>6, <1>7, <1>8, <1>9, <2>1, LastKeeps
  <1>10. CASE ~(Len(all) > MaxReported)
    <2>1. Len(all) <= MaxReported
      BY <1>8, <1>10
    <2> QED BY <1>6, <1>7, <1>10, <2>1
  <1> QED BY <1>9, <1>10

LEMMA RefreshedFacts ==
    ASSUME TypeOK, NEW w \in Transient
    PROVE  Refreshed(w) \in Transient /\ Alike(Refreshed(w), w)
  BY DEF TypeOK, Refreshed, Of, Transient, State, Alike

LEMMA RefreshedQueueFacts ==
    ASSUME TypeOK
    PROVE  /\ RefreshedQueue \in Seq(Transient) /\ Len(RefreshedQueue) = Len(queue)
           /\ Distinct(RefreshedQueue)
           /\ \A w \in Range(queue) : \E v \in Range(RefreshedQueue) : Alike(v, w)
           /\ \A v \in Range(RefreshedQueue) : \E w \in Range(queue) : Alike(v, w)
  <1>0. queue \in Seq(Transient) /\ Distinct(queue)
    BY DEF TypeOK, Distinct
  <1>1. PICK new : new = RefreshedQueue
    OBVIOUS
  <1>2. DOMAIN new = DOMAIN queue /\ \A i \in DOMAIN queue : new[i] = Refreshed(queue[i])
    BY <1>1 DEF RefreshedQueue
  <1>3. \A i \in DOMAIN queue : new[i] \in Transient /\ Alike(new[i], queue[i])
    BY <1>0, <1>2, RefreshedFacts
  <1>4. new \in Seq(Transient) /\ Len(new) = Len(queue)
    <2>1. new = [i \in 1 .. Len(queue) |-> Refreshed(queue[i])]
      BY <1>0, <1>1 DEF RefreshedQueue
    <2>2. new \in [1 .. Len(queue) -> Transient]
      BY <1>0, <1>2, <1>3, <2>1
    <2> QED BY <1>0, <2>2
  <1>5. Distinct(new)
    BY <1>0, <1>2, <1>3 DEF Distinct, Alike
  <1>6. /\ \A w \in Range(queue) : \E v \in Range(new) : Alike(v, w)
        /\ \A v \in Range(new) : \E w \in Range(queue) : Alike(v, w)
    BY <1>2, <1>3 DEF Range
  <1> QED BY <1>1, <1>4, <1>5, <1>6

LEMMA RefreshedLedgerFacts ==
    ASSUME TypeOK
    PROVE  /\ RefreshedLedger \in Seq(Transient) /\ Len(RefreshedLedger) <= Len(ledger)
           /\ IsInjective(RefreshedLedger)
           /\ \A v \in Range(RefreshedLedger) : \E w \in Range(ledger) : Alike(v, w)
           /\ \A v \in Range(ledger) : Closes(ledger, v) =>
                Refreshed(v) \in Range(RefreshedLedger) /\ Closes(RefreshedLedger, Refreshed(v))
  <1>0. ledger \in Seq(Transient) /\ IsInjective(ledger) /\ DOMAIN ledger = 1 .. Len(ledger)
    BY DEF TypeOK
  <1> DEFINE New == [i \in DOMAIN ledger |->
                        IF Latest(i) THEN Refreshed(ledger[i]) ELSE ledger[i]]
             D == {i \in DOMAIN ledger :
                    ~ \E j \in i + 1 .. Len(ledger) : Latest(j) /\ New[j] = ledger[i]}
  <1>1. RefreshedLedger = Pick(New, D)
    BY DEF RefreshedLedger
  <1>2. \A i \in DOMAIN ledger :
            New[i] \in Transient /\ Alike(New[i], ledger[i]) /\ (~Latest(i) => New[i] = ledger[i])
    <2> SUFFICES ASSUME NEW i \in DOMAIN ledger
                 PROVE  /\ New[i] \in Transient /\ Alike(New[i], ledger[i])
                        /\ ~Latest(i) => New[i] = ledger[i]
      OBVIOUS
    <2>1. ledger[i] \in Transient
      BY <1>0
    <2>2. New[i] = IF Latest(i) THEN Refreshed(ledger[i]) ELSE ledger[i]
      OBVIOUS
    <2> HIDE DEF New
    <2> QED BY <2>1, <2>2, RefreshedFacts DEF Alike
  <1>3. DOMAIN New = 1 .. Len(ledger)
    BY <1>0
  <1>4. D \in SUBSET (1 .. Len(ledger))
       /\ \A i \in D : \A j \in i + 1 .. Len(ledger) : ~(Latest(j) /\ New[j] = ledger[i])
    BY <1>0
  <1> HIDE DEF New, D
  <1>5. New \in Seq(Transient) /\ Len(New) = Len(ledger)
    <2>1. New \in [1 .. Len(ledger) -> Transient]
      BY <1>0, <1>2, <1>3 DEF New
    <2> QED BY <1>0, <2>1
  <1>6. \A i, j \in D : i < j => New[i] # New[j]
    <2> SUFFICES ASSUME NEW i \in D, NEW j \in D, i < j, New[i] = New[j]  PROVE FALSE
      OBVIOUS
    <2>1. i \in DOMAIN ledger /\ j \in DOMAIN ledger /\ j \in i + 1 .. Len(ledger)
      BY <1>0, <1>4
    <2>2. ledger[i].id = ledger[j].id
      BY <1>2, <2>1 DEF Alike
    <2>3. ~Latest(i)
      BY <2>1, <2>2 DEF Latest
    <2>4. New[i] = ledger[i]
      BY <1>2, <2>1, <2>3
    <2>5. CASE Latest(j)
      BY <1>4, <2>1, <2>4, <2>5
    <2>6. CASE ~Latest(j)
      <3>1. ledger[i] = ledger[j]
        BY <1>2, <2>1, <2>4, <2>6
      <3>2. i = j
        BY <1>0, <2>1, <3>1 DEF IsInjective
      <3> QED BY <1>4, <3>2
    <2> QED BY <2>5, <2>6
  <1>7. \A i, j \in D : New[i] = New[j] => i = j
    <2>1. \A i \in D : i \in Nat
      BY <1>4
    <2> QED BY <1>6, <2>1
  <1>8. \A v \in {New[i] : i \in D} : \E w \in Range(ledger) : Alike(v, w)
    BY <1>0, <1>2, <1>4 DEF Range
  <1>9. ASSUME NEW v \in Range(ledger), Closes(ledger, v)
        PROVE  /\ Refreshed(v) \in Range(RefreshedLedger)
               /\ Closes(RefreshedLedger, Refreshed(v))
    <2>1. PICK i \in DOMAIN ledger : v = ledger[i]
      BY DEF Range
    <2>2. Latest(i)
      <3> SUFFICES ASSUME NEW j \in i + 1 .. Len(ledger), ledger[j].id = ledger[i].id
                   PROVE  FALSE
        BY DEF Latest
      <3>1. j \in DOMAIN ledger /\ i < j
        BY <1>0
      <3>2. ledger[j] \in Range(ledger) /\ Before(ledger, v, ledger[j])
        BY <2>1, <3>1 DEF Range, Before
      <3> QED BY <1>9, <2>1, <3>2 DEF Closes
    <2>3. New[i] = Refreshed(v)
      BY <2>1, <2>2 DEF New
    <2>4. i \in D
      <3> SUFFICES ASSUME NEW j \in i + 1 .. Len(ledger), New[j] = ledger[i]  PROVE FALSE
        BY DEF D
      <3>1. j \in DOMAIN ledger
        BY <1>0
      <3>2. ledger[j].id = ledger[i].id
        BY <1>2, <3>1 DEF Alike
      <3> QED BY <2>2, <3>2 DEF Latest
    <2>5. Range(Pick(New, D)) = {New[k] : k \in D}
      BY <1>4, <1>5, PickFacts
    <2>6. Refreshed(v) \in Range(RefreshedLedger)
      BY <1>1, <2>3, <2>4, <2>5
    <2>7. PICK N : N = Cardinality(D)
      OBVIOUS
    <2>8. PICK at \in [1 .. N -> D] :
              /\ Pick(New, D) = [n \in 1 .. N |-> New[at[n]]]
              /\ \A m, n \in 1 .. N : m < n => at[m] < at[n]
      BY <1>4, <1>5, <2>7, PickIs
    <2>9. Closes(RefreshedLedger, Refreshed(v))
      <3> SUFFICES ASSUME NEW w \in Range(RefreshedLedger), w.id = Refreshed(v).id,
                          Before(RefreshedLedger, Refreshed(v), w)
                   PROVE  FALSE
        BY DEF Closes
      <3>1. PICK m \in 1 .. N, n \in 1 .. N : m < n /\ New[at[m]] = New[i] /\ New[at[n]] = w
        BY <1>1, <2>3, <2>8 DEF Before
      <3>2. at[m] \in D /\ at[n] \in D /\ at[m] < at[n]
        BY <2>8, <3>1
      <3>3. at[m] = i
        BY <1>7, <2>4, <3>1, <3>2
      <3>4. at[n] \in DOMAIN ledger /\ at[n] \in i + 1 .. Len(ledger)
        <4>1. PICK k \in DOMAIN ledger : k = at[n]
          BY <1>0, <1>4, <3>2
        <4>2. i < k
          BY <3>2, <3>3, <4>1
        <4>3. k \in i + 1 .. Len(ledger)
          BY <1>0, <4>2
        <4> QED BY <4>1, <4>3
      <3>5. ledger[at[n]].id = ledger[i].id
        BY <1>2, <2>3, <3>1, <3>4 DEF Alike
      <3> QED BY <2>2, <3>4, <3>5 DEF Latest
    <2> QED BY <2>6, <2>9
  <1> QED BY <1>1, <1>4, <1>5, <1>7, <1>8, <1>9, PickFacts

\* What a section of QueueTransients makes of the queue: a fresh transient is in it, unless it
\* was shown in this state, and is the only one about its pair.
LEMMA MergedFacts ==
    ASSUME TypeOK, NEW fresh \in SUBSET Transient, IsFiniteSet(fresh), Unique(fresh)
    PROVE  /\ Merged(fresh) \in Seq(Transient) /\ Distinct(Merged(fresh))
           /\ \A e \in Range(Merged(fresh)) :
                IF e.id \in About(fresh) THEN e \in fresh /\ e \notin Range(ledger)
                                        ELSE e \in Range(queue)
           /\ Unshown(fresh) \subseteq Range(Merged(fresh))
           /\ \A e \in Range(queue) : e.id \notin About(fresh) => e \in Range(Merged(fresh))
  <1>0. queue \in Seq(Transient) /\ Distinct(queue)
    BY DEF TypeOK, Distinct
  <1>1. PICK news : news = Unshown(fresh)
    OBVIOUS
  <1>2. news \in SUBSET fresh /\ news \in SUBSET Transient /\ IsFiniteSet(news) /\ Unique(news)
    <2>1. news \in SUBSET fresh
      BY <1>1 DEF Unshown
    <2> QED BY <2>1, FS_Subset DEF Unique
  <1>3. PICK kept \in Seq(Transient) : kept = WithoutIds(queue, About(fresh \ news))
    BY <1>0, WithoutIdsFacts
  <1>4. /\ Range(kept) = {e \in Range(queue) : e.id \notin About(fresh \ news)}
        /\ Distinct(kept)
    BY <1>0, <1>3, WithoutIdsFacts
  <1>5. PICK both : both = [i \in DOMAIN kept |->
                                IF kept[i].id \in About(news) THEN The(kept[i].id, news) ELSE kept[i]]
    OBVIOUS
  <1>6. \A i \in DOMAIN kept : /\ both[i] \in Transient /\ both[i].id = kept[i].id
                               /\ IF both[i].id \in About(news) THEN both[i] \in news ELSE both[i] = kept[i]
    <2> SUFFICES ASSUME NEW i \in DOMAIN kept
                 PROVE  /\ both[i] \in Transient /\ both[i].id = kept[i].id
                        /\ IF both[i].id \in About(news) THEN both[i] \in news ELSE both[i] = kept[i]
      OBVIOUS
    <2>1. kept[i] \in Transient
      OBVIOUS
    <2>2. CASE kept[i].id \in About(news)
      <3>1. \E w \in news : w.id = kept[i].id
        BY <2>2 DEF About
      <3>2. The(kept[i].id, news) \in news /\ The(kept[i].id, news).id = kept[i].id
        BY <3>1 DEF The
      <3> QED BY <1>2, <1>5, <2>2, <3>2
    <2>3. CASE kept[i].id \notin About(news)
      BY <1>5, <2>1, <2>3
    <2> QED BY <2>2, <2>3
  <1>7. both \in Seq(Transient) /\ DOMAIN both = DOMAIN kept
    <2>1. DOMAIN both = 1 .. Len(kept)
      BY <1>5
    <2>2. both \in [1 .. Len(kept) -> Transient]
      BY <1>5, <1>6, <2>1
    <2> QED BY <2>1, <2>2
  <1>8. Distinct(both)
    BY <1>4, <1>6, <1>7 DEF Distinct
  <1>9. About(Range(both)) = About(Range(kept))
    BY <1>6, <1>7 DEF About, Range
  <1>10. PICK extra : extra = {w \in news : w.id \notin About(Range(kept))}
    OBVIOUS
  <1>11. extra \in SUBSET Transient /\ IsFiniteSet(extra)
    <2>1. extra \in SUBSET news
      BY <1>10
    <2> QED BY <1>2, <2>1, FS_Subset
  <1>12. PICK more \in Seq(Transient) : more = SetToSeq(extra)
    BY <1>11, ListFacts
  <1>13. Range(more) = extra /\ Distinct(more)
    <2>1. Range(more) = extra /\ IsInjective(more)
      BY <1>11, <1>12, ListFacts
    <2>2. \A i \in DOMAIN more : more[i] \in news
      BY <1>10, <2>1 DEF Range
    <2> QED BY <1>2, <2>1, <2>2 DEF Distinct, IsInjective, Unique
  <1>14. PICK all : all = both \o more
    OBVIOUS
  <1>15. all = Merged(fresh)
    BY <1>1, <1>3, <1>5, <1>10, <1>12, <1>14 DEF Merged
  <1>16. About(Range(both)) \cap About(Range(more)) = {}
    BY <1>9, <1>10, <1>13 DEF About
  <1>17. all \in Seq(Transient) /\ Distinct(all) /\ Range(all) = Range(both) \cup extra
    BY <1>7, <1>8, <1>13, <1>14, <1>16, ConcatFacts
  <1>18. ASSUME NEW e \in Range(all)
         PROVE  IF e.id \in About(fresh) THEN e \in news ELSE e \in Range(queue)
    <2>1. CASE e \in extra
      BY <1>2, <1>10, <2>1 DEF About
    <2>2. CASE e \in Range(both)
      <3>1. PICK i \in DOMAIN kept : e = both[i]
        BY <1>7, <2>2 DEF Range
      <3>2. CASE e.id \in About(news)
        BY <1>2, <1>6, <3>1, <3>2 DEF About
      <3>3. CASE e.id \notin About(news)
        <4>1. e \in Range(kept)
          BY <1>6, <3>1, <3>3 DEF Range
        <4>2. e \in Range(queue) /\ e.id \notin About(fresh \ news)
          BY <1>4, <4>1
        <4>3. e.id \notin About(fresh)
          BY <3>3, <4>2 DEF About
        <4> QED BY <4>2, <4>3
      <3> QED BY <3>2, <3>3
    <2> QED BY <1>17, <2>1, <2>2
  <1>19. ASSUME NEW w \in news  PROVE w \in Range(all)
    <2>1. CASE w.id \notin About(Range(kept))
      BY <1>10, <1>17, <2>1
    <2>2. CASE w.id \in About(Range(kept))
      <3>1. PICK i \in DOMAIN kept : kept[i].id = w.id
        BY <2>2 DEF About, Range
      <3>2. w.id \in About(news)
        BY DEF About
      <3>3. both[i] \in news /\ both[i].id = w.id
        BY <1>6, <3>1, <3>2
      <3>4. both[i] = w
        BY <1>2, <3>3 DEF Unique
      <3>5. w \in Range(both)
        BY <1>7, <3>1, <3>4 DEF Range
      <3> QED BY <1>17, <3>5
    <2> QED BY <2>1, <2>2
  <1>20. ASSUME NEW e \in Range(queue), e.id \notin About(fresh)  PROVE e \in Range(all)
    <2>1. e.id \notin About(news) /\ e.id \notin About(fresh \ news)
      BY <1>2, <1>20 DEF About
    <2>2. e \in Range(kept)
      BY <1>4, <2>1
    <2>3. PICK i \in DOMAIN kept : kept[i] = e
      BY <2>2 DEF Range
    <2>4. both[i] = e
      BY <1>6, <2>1, <2>3
    <2>5. e \in Range(both)
      BY <1>7, <2>3, <2>4 DEF Range
    <2> QED BY <1>17, <2>5
  <1>21. \A w \in news : w \in fresh /\ w \notin Range(ledger)
    BY <1>1 DEF Unshown
  <1> QED BY <1>1, <1>15, <1>17, <1>18, <1>19, <1>20, <1>21

LEMMA QueuedFacts ==
    ASSUME TypeOK, NEW fresh \in SUBSET Transient, IsFiniteSet(fresh), Unique(fresh)
    PROVE  /\ Queued(fresh) \in Seq(Transient) /\ Len(Queued(fresh)) <= MaxPending
           /\ Distinct(Queued(fresh))
           /\ Range(Queued(fresh)) \subseteq Range(Merged(fresh))
           /\ \A e \in Range(Merged(fresh)) :
                e.id \in About(Range(Queued(fresh))) => e \in Range(Queued(fresh))
  <1>0. queue \in Seq(Transient) /\ Distinct(queue) /\ Len(queue) <= MaxPending
    BY DEF TypeOK, Distinct
  <1>1. PICK all \in Seq(Transient) : all = Merged(fresh)
    BY MergedFacts
  <1>2. Distinct(all)
    BY <1>1, MergedFacts
  <1>3. PICK cut : cut = Queued(fresh)
    OBVIOUS
  <1>4. /\ cut \in Seq(Transient) /\ Len(cut) <= MaxPending
        /\ Distinct(cut) /\ Range(cut) \subseteq Range(all)
    <2>1. CASE fresh = {}
      <3>1. \A e \in Range(queue) : e.id \notin About(fresh)
        BY <2>1 DEF About
      <3>2. Range(queue) \subseteq Range(all)
        BY <1>1, <3>1, MergedFacts
      <3>3. cut = queue
        BY <1>3, <2>1 DEF Queued
      <3> QED BY <1>0, <3>2, <3>3
    <2>2. CASE fresh # {}
      <3>1. cut = LastOf(all, MaxPending)
        BY <1>1, <1>3, <2>2 DEF Queued
      <3>2. MaxPending \in Nat \ {0}
        BY TransientsAssumption
      <3>3. /\ cut \in Seq(Transient) /\ Range(cut) \subseteq Range(all) /\ Distinct(cut)
            /\ Len(cut) = IF Len(all) > MaxPending THEN MaxPending ELSE Len(all)
        BY <1>2, <3>1, <3>2, LastKeeps
      <3>4. Len(cut) <= MaxPending
        BY <3>2, <3>3
      <3> QED BY <3>3, <3>4
    <2> QED BY <2>1, <2>2
  <1>5. ASSUME NEW e \in Range(all), e.id \in About(Range(cut))  PROVE e \in Range(cut)
    <2>1. PICK v \in Range(cut) : v.id = e.id
      BY <1>5 DEF About
    <2>2. v \in Range(all)
      BY <1>4, <2>1
    <2>3. v = e
      BY <1>2, <2>1, <2>2 DEF Distinct, Range
    <2> QED BY <2>3
  <1> QED BY <1>1, <1>3, <1>4, <1>5

\* What is shown is known from then on.
LEMMA ShowFacts ==
    ASSUME TypeOK, NEW ws \in SUBSET Transient, IsFiniteSet(ws), Show(ws)
    PROVE  /\ printed' \in [Pairs -> Seq(State)]
           /\ \A x \in Pairs, c \in Callees : Knows(x, c) => Knows(x, c)'
           /\ \A w \in ws : Knows(w.id, w.callee)'
  <1> DEFINE Mine(x) == {v \in ws : v.id = x}
             Seen(x) == {StateOf(w) : w \in Mine(x)}
  <1>0. \A x \in Pairs : printed[x] \in Seq(State)
    BY DEF TypeOK
  <1>1. \A x \in Pairs : Seen(x) \in SUBSET State /\ IsFiniteSet(Seen(x))
    <2> TAKE x \in Pairs
    <2>1. IsFiniteSet(Mine(x)) /\ Mine(x) \in SUBSET Transient
      BY FS_Subset
    <2>2. \A w \in Mine(x) : StateOf(w) \in State
      BY <2>1 DEF StateOf, Transient, State
    <2> HIDE DEF Mine
    <2>3. PICK f : f = [w \in Mine(x) |-> StateOf(w)]
      OBVIOUS
    <2>4. f \in Surjection(Mine(x), Seen(x))
      BY <2>3 DEF Surjection
    <2> QED BY <2>1, <2>2, <2>4, FS_Surjection
  <1>2. printed' = [x \in Pairs |-> printed[x] \o SetToSeq(Seen(x))]
    BY DEF Show
  <1> HIDE DEF Mine, Seen
  <1>3. ASSUME NEW x \in Pairs
        PROVE  /\ printed'[x] \in Seq(State)
               /\ Range(printed'[x]) = Range(printed[x]) \cup Seen(x)
    <2>1. PICK t \in Seq(State) : t = SetToSeq(Seen(x))
      BY <1>1, ListFacts
    <2>2. Range(t) = Seen(x)
      BY <1>1, <2>1, ListFacts
    <2>3. printed'[x] = printed[x] \o t
      BY <1>2, <2>1
    <2> QED BY <1>0, <2>2, <2>3, ConcatFacts
  <1>4. printed' \in [Pairs -> Seq(State)]
    BY <1>2, <1>3
  <1>5. \A x \in Pairs, c \in Callees :
            /\ Knows(x, c) <=> \E s \in Range(printed[x]) : s.callee = c
            /\ Knows(x, c)' <=> \E s \in Range(printed'[x]) : s.callee = c
    BY DEF Knows, Range
  <1>6. \A w \in ws : w.id \in Pairs /\ w.callee \in Callees
    BY DEF Transient
  <1>7. \A w \in ws : \E s \in Seen(w.id) : s.callee = w.callee
    <2> TAKE w \in ws
    <2>1. StateOf(w) \in Seen(w.id) /\ StateOf(w).callee = w.callee
      BY DEF Seen, Mine, StateOf
    <2> QED BY <2>1
  <1> QED BY <1>3, <1>4, <1>5, <1>6, <1>7

-----------------------------------------------------------------------------
(* Types, and how far a process is.                                        *)

\* Transients come one per pair, and finitely many.  A process that rests has nothing in hand,
\* only one that cuts its page has a rest, and a process does its own work only.
Few(ws) == IsFiniteSet(ws) /\ Unique(ws)
Fits(p, l) ==
    /\ Few(l.hand) /\ Few(l.rest)
    /\ l.step = "idle" => l = Idle
    /\ l.step \notin {"unmark", "requeue"} => l.rest = {}
    /\ l.step \in {"unmark", "requeue"} => "cut" \in setting
    /\ l.step \in {"refresh", "queue"} => p \in Scanners
    /\ l.step \in {"page", "remove"} => p \in Reporters /\ "page" \in setting
Shaped == \A p \in Procs : Fits(p, local[p])

TypeInv == TypeOK /\ Shaped

QueueOK(q) == q \in Seq(Transient) /\ Len(q) <= MaxPending /\ Distinct(q)
LedgerOK(s) == s \in Seq(Transient) /\ Len(s) <= MaxReported /\ IsInjective(s)

LEMMA TypeParts == TypeOK => QueueOK(queue) /\ LedgerOK(ledger)
  BY DEF TypeOK, QueueOK, LedgerOK, Distinct

LEMMA FewFacts ==
    /\ Few({})
    /\ \A ws : Few(ws) => \A vs \in SUBSET ws : Few(vs)
  BY FS_EmptySet, FS_Subset DEF Few, Unique

\* The step of one process.
LEMMA Took ==
    ASSUME TypeInv, setting' = setting,
           NEW p \in Procs, NEW l \in Local, Fits(p, l), local' = [local EXCEPT ![p] = l]
    PROVE  local' \in [Procs -> Local] /\ Shaped'
  <1>1. local \in [Procs -> Local] /\ \A q \in Procs : Fits(q, local[q])
    BY DEF TypeInv, TypeOK, Shaped
  <1>2. \A q \in Procs : local'[q] = IF q = p THEN l ELSE local[q]
    BY <1>1
  <1>3. \A q \in Procs : Fits(q, local'[q])
    BY <1>1, <1>2
  <1>4. \A q \in Procs : Fits(q, local[q])'
    BY <1>3 DEF Fits
  <1> QED BY <1>1, <1>4 DEF Shaped

LEMMA Rested ==
    /\ Idle \in Local
    /\ \A p \in Procs : Fits(p, Idle)
  BY FewFacts DEF Idle, Local, Steps, Fits

LEMMA TypeInit == Init => TypeInv
  <1> SUFFICES ASSUME Init  PROVE TypeInv
    OBVIOUS
  <1> USE DEF Init
  <1>1. graph \in [Pairs -> State]
    <2>1. PICK c \in Callees, r \in Callers : TRUE
      BY TransientsAssumption
    <2>2. [callee |-> c, caller |-> r] \in State
      BY DEF State
    <2>3. (CHOOSE s \in State : TRUE) \in State
      BY <2>2
    <2> QED BY <2>3
  <1>2. QueueOK(queue) /\ LedgerOK(ledger)
    <2>1. queue = <<>> /\ ledger = <<>> /\ MaxPending \in Nat /\ MaxReported \in Nat
      BY TransientsAssumption
    <2> QED BY <2>1 DEF QueueOK, LedgerOK, Distinct, IsInjective
  <1>3. local \in [Procs -> Local] /\ Shaped
    BY Rested DEF Shaped
  <1>4. printed \in [Pairs -> Seq(State)]
    OBVIOUS
  <1> QED BY <1>1, <1>2, <1>3, <1>4 DEF TypeInv, TypeOK, QueueOK, LedgerOK, Distinct

\* The conditions under which a step keeps the types.
LEMMA TypeNext ==
    ASSUME TypeInv, setting' = setting,
           graph' \in [Pairs -> State], standing' \subseteq Pairs,
           QueueOK(queue'), LedgerOK(ledger'),
           local' \in [Procs -> Local], Shaped',
           due' \in [Pairs -> Callees \cup {NoCallee}],
           printed' \in [Pairs -> Seq(State)],
           scans' \in Nat, kills' \in Nat
    PROVE  TypeInv'
  BY DEF TypeInv, TypeOK, QueueOK, LedgerOK, Distinct

LEMMA GiveUpType ==
    ASSUME TypeOK, NEW fresh, GiveUp(fresh)
    PROVE  due' \in [Pairs -> Callees \cup {NoCallee}]
  BY DEF TypeOK, GiveUp

LEMMA TypeScan ==
    ASSUME TypeInv, NEW p \in Scanners, Scan(p)
    PROVE  TypeInv'
  <1>1. PICK moved : moved = {x \in Pairs : graph'[x].callee # graph[x].callee}
    OBVIOUS
  <1>2. PICK raised \in SUBSET (moved \cup standing) :
            /\ standing' \in SUBSET ((moved \cup standing) \ raised)
            /\ Become(p, [step |-> "refresh", rest |-> {}, hand |-> {Of(x)' : x \in raised}])
            /\ due' = [x \in Pairs |-> IF x \in raised THEN graph'[x].callee
                                       ELSE IF x \in moved THEN NoCallee ELSE due[x]]
    BY ZenonT(60), <1>1 DEF Scan
  <1>3. /\ UNCHANGED <<setting, queue, ledger, printed, kills>>
        /\ graph' \in [Pairs -> State] /\ scans' = scans + 1
    BY DEF Scan, files
  <1>4. p \in Procs /\ TypeOK
    BY DEF Procs, TypeInv
  <1>5. raised \in SUBSET Pairs /\ standing' \subseteq Pairs
    <2>1. moved \subseteq Pairs
      BY <1>1
    <2>2. standing \subseteq Pairs
      BY <1>4 DEF TypeOK
    <2>3. raised \subseteq moved \cup standing /\ standing' \subseteq moved \cup standing
      BY <1>2
    <2> QED BY ONLY <2>1, <2>2, <2>3
  <1>6. PICK hand : hand = {[id |-> x, callee |-> graph'[x].callee, caller |-> graph'[x].caller] :
                                x \in raised}
    OBVIOUS
  <1>7. hand = {Of(x)' : x \in raised}
    BY <1>6 DEF Of
  <1>8. hand \in SUBSET Transient
    <2>1. \A x \in raised : graph'[x] \in State /\ x \in Pairs
      BY <1>3, <1>5
    <2>2. \A x \in raised : [id |-> x, callee |-> graph'[x].callee, caller |-> graph'[x].caller]
                                \in Transient
      BY <2>1 DEF State, Transient
    <2> QED BY <1>6, <2>2
  <1>9. Few(hand)
    <2>1. PICK f : f = [x \in raised |-> [id |-> x, callee |-> graph'[x].callee,
                                          caller |-> graph'[x].caller]]
      OBVIOUS
    <2>2. f \in Surjection(raised, hand)
      BY <1>6, <2>1 DEF Surjection
    <2>3. IsFiniteSet(raised)
      BY <1>5, TransientsAssumption, FS_Subset
    <2>4. IsFiniteSet(hand)
      BY <2>2, <2>3, FS_Surjection
    <2> QED BY <1>6, <2>4 DEF Few, Unique
  <1>10. PICK l : l = [step |-> "refresh", rest |-> {}, hand |-> hand]
    OBVIOUS
  <1>11. l \in Local /\ Fits(p, l)
    BY <1>8, <1>9, <1>10, FewFacts DEF Local, Steps, Fits
  <1>12. local' = [local EXCEPT ![p] = l]
    BY <1>2, <1>7, <1>10 DEF Become
  <1>13. local' \in [Procs -> Local] /\ Shaped'
    BY <1>3, <1>4, <1>11, <1>12, Took
  <1>14. due' \in [Pairs -> Callees \cup {NoCallee}]
    <2>1. \A x \in Pairs : graph'[x].callee \in Callees /\ due[x] \in Callees \cup {NoCallee}
      BY <1>3, <1>4 DEF TypeOK, State
    <2> QED BY <1>2, <2>1
  <1>15. QueueOK(queue') /\ LedgerOK(ledger') /\ printed' \in [Pairs -> Seq(State)]
         /\ scans' \in Nat /\ kills' \in Nat
    BY <1>3, <1>4, TypeParts DEF TypeOK
  <1> QED BY <1>3, <1>5, <1>13, <1>14, <1>15, TypeNext

\* A step that leaves the topology alone.
LEMMA TypeHandle ==
    ASSUME TypeInv, UNCHANGED <<topology, counts>>,
           QueueOK(queue'), LedgerOK(ledger'),
           due' \in [Pairs -> Callees \cup {NoCallee}],
           printed' \in [Pairs -> Seq(State)],
           NEW p \in Procs, NEW l \in Local, Fits(p, l), local' = [local EXCEPT ![p] = l]
    PROVE  TypeInv'
  <1>1. UNCHANGED <<setting, graph, standing, scans, kills>>
    BY DEF topology, counts
  <1>2. local' \in [Procs -> Local] /\ Shaped'
    BY <1>1, Took
  <1>3. graph' \in [Pairs -> State] /\ standing' \subseteq Pairs /\ scans' \in Nat /\ kills' \in Nat
    BY <1>1 DEF TypeInv, TypeOK
  <1> QED BY <1>1, <1>2, <1>3, TypeNext

\* What is known of the process that takes the step.
LEMMA InHandFacts ==
    ASSUME TypeInv, NEW p \in Procs
    PROVE  /\ local[p] \in Local /\ Fits(p, local[p])
           /\ local[p].hand \in SUBSET Transient /\ Few(local[p].hand)
           /\ local[p].rest \in SUBSET Transient /\ Few(local[p].rest)
           /\ QueueOK(queue) /\ LedgerOK(ledger) /\ TypeOK
           /\ due \in [Pairs -> Callees \cup {NoCallee}]
           /\ printed \in [Pairs -> Seq(State)]
  <1>1. local[p] \in Local /\ Fits(p, local[p]) /\ TypeOK
    BY DEF TypeInv, TypeOK, Shaped
  <1> QED BY <1>1, TypeParts DEF TypeOK, Fits, Local

LEMMA TypeRefresh ==
    ASSUME TypeInv, NEW p \in Procs, RefreshTransientCallers(p)
    PROVE  TypeInv'
  <1>1. PICK l : l = [local[p] EXCEPT !.step = "queue"]
    OBVIOUS
  <1>2. l \in Local /\ Fits(p, l)
    BY <1>1, InHandFacts DEF RefreshTransientCallers, Local, Steps, Fits
  <1>3. local' = [local EXCEPT ![p] = l]
    BY <1>1, InHandFacts DEF RefreshTransientCallers, Go, TypeInv, TypeOK
  <1>4. /\ UNCHANGED <<topology, counts>> /\ due' = due /\ printed' = printed
        /\ queue' = RefreshedQueue /\ ledger' = RefreshedLedger
    BY DEF RefreshTransientCallers, history
  <1>5. QueueOK(queue') /\ LedgerOK(ledger')
    <2>1. QueueOK(RefreshedQueue)
      BY InHandFacts, RefreshedQueueFacts DEF QueueOK
    <2>2. Len(RefreshedLedger) \in Nat /\ Len(ledger) \in Nat /\ MaxReported \in Nat
      BY InHandFacts, RefreshedLedgerFacts, TransientsAssumption DEF LedgerOK
    <2>3. LedgerOK(RefreshedLedger)
      BY <2>2, InHandFacts, RefreshedLedgerFacts DEF LedgerOK
    <2> QED BY <1>4, <2>1, <2>3
  <1> QED BY <1>2, <1>3, <1>4, <1>5, InHandFacts, TypeHandle

LEMMA TypeQueue ==
    ASSUME TypeInv, NEW p \in Procs, QueueTransients(p)
    PROVE  TypeInv'
  <1>1. \E l \in Local : Fits(p, l) /\ local' = [local EXCEPT ![p] = l]
    <2>1. CASE "print_own" \in setting /\ local[p].hand # {}
      <3>1. PICK l : l = [local[p] EXCEPT !.step = "report"]
        OBVIOUS
      <3>2. l \in Local /\ Fits(p, l)
        BY <3>1, InHandFacts DEF QueueTransients, Local, Steps, Fits
      <3>3. local' = [local EXCEPT ![p] = l]
        BY <2>1, <3>1, InHandFacts DEF QueueTransients, Go, TypeInv, TypeOK
      <3> QED BY <3>2, <3>3
    <2>2. CASE ~("print_own" \in setting /\ local[p].hand # {})
      BY <2>2, Rested DEF QueueTransients, Become
    <2> QED BY <2>1, <2>2
  <1>2. /\ UNCHANGED <<topology, counts>> /\ printed' = printed /\ ledger' = ledger
        /\ queue' = Queued(local[p].hand) /\ GiveUp(local[p].hand)
    BY DEF QueueTransients
  <1>3. QueueOK(queue')
    BY <1>2, InHandFacts, QueuedFacts DEF Few, QueueOK
  <1> QED BY <1>1, <1>2, <1>3, InHandFacts, GiveUpType, TypeHandle

LEMMA TypeReport ==
    ASSUME TypeInv, NEW p \in Procs, Report(p)
    PROVE  TypeInv'
  <1>1. PICK shown \in SUBSET local[p].hand :
            /\ shown # local[p].hand => "cut" \in setting
            /\ Become(p, [step |-> IF shown = local[p].hand THEN "print" ELSE "unmark",
                          hand |-> shown, rest |-> local[p].hand \ shown])
    BY DEF Report
  <1>2. PICK l : l = [step |-> IF shown = local[p].hand THEN "print" ELSE "unmark",
                      hand |-> shown, rest |-> local[p].hand \ shown]
    OBVIOUS
  <1>3. Few(shown) /\ Few(local[p].hand \ shown)
    BY <1>1, InHandFacts, FewFacts
  <1>4. l \in Local /\ Fits(p, l)
    <2>1. CASE shown = local[p].hand
      <3>1. l.step = "print" /\ l.rest = {} /\ l.hand = shown
        BY <1>2, <2>1
      <3>2. l \in Local
        BY <1>2, <2>1, InHandFacts DEF Local, Steps
      <3> QED BY <1>3, <3>1, <3>2, FewFacts DEF Fits
    <2>2. CASE shown # local[p].hand
      <3>1. l.step = "unmark" /\ l.rest = local[p].hand \ shown /\ l.hand = shown
        BY <1>2, <2>2
      <3>2. l \in Local
        BY <1>1, <1>2, <2>2, InHandFacts DEF Local, Steps
      <3> QED BY <1>1, <1>3, <2>2, <3>1, <3>2 DEF Fits
    <2> QED BY <2>1, <2>2
  <1>5. local' = [local EXCEPT ![p] = l]
    BY <1>1, <1>2 DEF Become
  <1>6. UNCHANGED <<topology, counts>> /\ UNCHANGED <<queue, ledger, due, printed>>
    BY DEF Report, files, history
  <1> QED BY <1>4, <1>5, <1>6, InHandFacts, TypeHandle

LEMMA TypeUnmark ==
    ASSUME TypeInv, NEW p \in Procs, Unmark(p)
    PROVE  TypeInv'
  <1>1. PICK l : l = [local[p] EXCEPT !.step = "requeue"]
    OBVIOUS
  <1>2. l \in Local /\ Fits(p, l)
    BY <1>1, InHandFacts DEF Unmark, Local, Steps, Fits
  <1>3. local' = [local EXCEPT ![p] = l]
    BY <1>1, InHandFacts DEF Unmark, Go, TypeInv, TypeOK
  <1>4. /\ UNCHANGED <<topology, counts>> /\ UNCHANGED <<queue, due, printed>>
        /\ ledger' = Without(ledger, local[p].rest)
    BY DEF Unmark, history
  <1>5. LedgerOK(ledger')
    <2>1. PICK s \in Seq(Transient) : s = Without(ledger, local[p].rest)
      BY InHandFacts, WithoutFacts DEF LedgerOK
    <2>2. IsInjective(s) /\ Len(s) <= Len(ledger) /\ Len(ledger) <= MaxReported
      BY <2>1, InHandFacts, WithoutFacts DEF LedgerOK
    <2>3. Len(s) \in Nat /\ Len(ledger) \in Nat /\ MaxReported \in Nat
      BY InHandFacts, TransientsAssumption DEF LedgerOK
    <2>4. Len(s) <= MaxReported
      BY <2>2, <2>3
    <2> QED BY <1>4, <2>1, <2>2, <2>4 DEF LedgerOK
  <1> QED BY <1>2, <1>3, <1>4, <1>5, InHandFacts, TypeHandle

LEMMA TypeRequeue ==
    ASSUME TypeInv, NEW p \in Procs, Requeue(p)
    PROVE  TypeInv'
  <1>1. PICK l : l = [local[p] EXCEPT !.step = "print", !.rest = {}]
    OBVIOUS
  <1>2. l \in Local /\ Fits(p, l)
    BY <1>1, InHandFacts, FewFacts DEF Local, Steps, Fits
  <1>3. local' = [local EXCEPT ![p] = l]
    BY <1>1 DEF Requeue, Become
  <1>4. /\ UNCHANGED <<topology, counts>> /\ UNCHANGED <<ledger, printed>>
        /\ queue' = Queued(local[p].rest) /\ GiveUp(local[p].rest)
    BY DEF Requeue
  <1>5. QueueOK(queue')
    BY <1>4, InHandFacts, QueuedFacts DEF Few, QueueOK
  <1> QED BY <1>2, <1>3, <1>4, <1>5, InHandFacts, GiveUpType, TypeHandle

LEMMA TypeDeliver ==
    ASSUME TypeInv, NEW p \in Procs, Deliver(p)
    PROVE  TypeInv'
  <1>1. local' = [local EXCEPT ![p] = Idle] /\ Show(local[p].hand)
    BY DEF Deliver, Become
  <1>2. UNCHANGED <<topology, counts>> /\ UNCHANGED <<queue, ledger, due>>
    BY DEF Deliver, files
  <1>3. printed' \in [Pairs -> Seq(State)]
    BY <1>1, InHandFacts, ShowFacts DEF Few
  <1> QED BY <1>1, <1>2, <1>3, InHandFacts, Rested, TypeHandle

LEMMA TypePage ==
    ASSUME TypeInv, NEW p \in Procs, Page(p)
    PROVE  TypeInv'
  <1>1. PICK shown \in SUBSET local[p].hand :
            /\ Show(shown)
            /\ Become(p, IF shown = {} THEN Idle
                         ELSE [step |-> "remove", hand |-> shown, rest |-> {}])
    BY DEF Page
  <1>2. Few(shown) /\ shown \in SUBSET Transient
    BY <1>1, InHandFacts, FewFacts
  <1>3. PICK l : l = [step |-> "remove", hand |-> shown, rest |-> {}]
    OBVIOUS
  <1>4. l \in Local /\ Fits(p, l)
    BY <1>2, <1>3, InHandFacts, FewFacts DEF Page, Local, Steps, Fits
  <1>5. \E k \in Local : Fits(p, k) /\ local' = [local EXCEPT ![p] = k]
    BY <1>1, <1>3, <1>4, Rested DEF Become
  <1>6. UNCHANGED <<topology, counts>> /\ UNCHANGED <<queue, ledger, due>>
    BY DEF Page, files
  <1>7. printed' \in [Pairs -> Seq(State)]
    BY <1>1, <1>2, InHandFacts, ShowFacts DEF Few
  <1> QED BY <1>5, <1>6, <1>7, InHandFacts, TypeHandle

LEMMA TypeRemove ==
    ASSUME TypeInv, NEW p \in Procs, RemoveTransients(p)
    PROVE  TypeInv'
  <1>1. local' = [local EXCEPT ![p] = Idle]
    BY DEF RemoveTransients, Become
  <1>2. /\ UNCHANGED <<topology, counts>> /\ UNCHANGED <<due, printed>>
        /\ queue' = WithoutIds(queue, About(local[p].hand)) /\ ledger' = Marked(local[p].hand)
    BY DEF RemoveTransients, history
  <1>3. QueueOK(queue')
    <2>1. PICK q \in Seq(Transient) : q = WithoutIds(queue, About(local[p].hand))
      BY InHandFacts, WithoutIdsFacts DEF QueueOK
    <2>2. Distinct(q) /\ Len(q) <= Len(queue) /\ Len(queue) <= MaxPending
      BY <2>1, InHandFacts, WithoutIdsFacts DEF QueueOK
    <2>3. Len(q) \in Nat /\ Len(queue) \in Nat /\ MaxPending \in Nat
      BY InHandFacts, TransientsAssumption DEF QueueOK
    <2>4. Len(q) <= MaxPending
      BY <2>2, <2>3
    <2> QED BY <1>2, <2>1, <2>2, <2>4 DEF QueueOK
  <1>4. LedgerOK(ledger')
    BY <1>2, InHandFacts, MarkedFacts DEF LedgerOK, Few
  <1> QED BY <1>1, <1>2, <1>3, <1>4, InHandFacts, Rested, TypeHandle

\* What a reporter takes out of the queue.
LEMMA Queueful ==
    ASSUME QueueOK(queue)
    PROVE  Range(queue) \in SUBSET Transient /\ Few(Range(queue)) /\ Unshown(Range(queue)) \in SUBSET Range(queue)
  <1>1. queue \in Seq(Transient) /\ Distinct(queue)
    BY DEF QueueOK
  <1>2. queue \in Surjection(DOMAIN queue, Range(queue))
    BY <1>1 DEF Surjection, Range
  <1>3. IsFiniteSet(DOMAIN queue)
    <2>1. DOMAIN queue = 1 .. Len(queue) /\ Len(queue) \in Nat
      BY <1>1
    <2> QED BY <2>1, FS_Interval
  <1>4. IsFiniteSet(Range(queue))
    BY <1>2, <1>3, FS_Surjection
  <1>5. Unique(Range(queue))
    BY <1>1 DEF Unique, Distinct, Range
  <1>6. Range(queue) \in SUBSET Transient
    BY <1>1 DEF Range
  <1> QED BY <1>4, <1>5, <1>6 DEF Few, Unshown

LEMMA EmptyQueue == QueueOK(<<>>)
  BY TransientsAssumption DEF QueueOK, Distinct

LEMMA TypeDrain ==
    ASSUME TypeInv, NEW p \in Reporters, Drain(p)
    PROVE  TypeInv'
  <1>0. p \in Procs
    BY DEF Procs
  <1>1. PICK drained : drained = Unshown(Range(queue))
    OBVIOUS
  <1>2. /\ UNCHANGED <<topology, counts>> /\ UNCHANGED <<due, printed>>
        /\ queue' = <<>> /\ ledger' = Marked(drained)
        /\ local' = [local EXCEPT ![p] = IF drained = {} THEN Idle
                        ELSE [step |-> "report", hand |-> drained, rest |-> {}]]
    BY <1>1 DEF Drain, history, Become
  <1>3. drained \in SUBSET Transient /\ Few(drained)
    BY <1>0, <1>1, InHandFacts, Queueful, FewFacts
  <1>4. PICK l : l = [step |-> "report", hand |-> drained, rest |-> {}]
    OBVIOUS
  <1>5. l \in Local /\ Fits(p, l)
    BY <1>3, <1>4, FewFacts DEF Local, Steps, Fits
  <1>6. \E k \in Local : Fits(p, k) /\ local' = [local EXCEPT ![p] = k]
    BY <1>0, <1>2, <1>4, <1>5, Rested
  <1>7. LedgerOK(ledger')
    BY <1>0, <1>2, <1>3, InHandFacts, MarkedFacts DEF LedgerOK, Few
  <1> QED BY <1>0, <1>2, <1>6, <1>7, InHandFacts, EmptyQueue, TypeHandle

LEMMA TypePeek ==
    ASSUME TypeInv, NEW p \in Reporters, Peek(p)
    PROVE  TypeInv'
  <1>0. p \in Procs
    BY DEF Procs
  <1>1. PICK l : l = [step |-> "page", hand |-> Range(queue), rest |-> {}]
    OBVIOUS
  <1>2. Range(queue) \in SUBSET Transient /\ Few(Range(queue))
    BY <1>0, InHandFacts, Queueful
  <1>3. l \in Local /\ Fits(p, l)
    BY <1>1, <1>2, FewFacts DEF Peek, Fetching, Local, Steps, Fits
  <1>4. local' = [local EXCEPT ![p] = l]
    BY <1>1 DEF Peek, Become
  <1>5. UNCHANGED <<topology, counts>> /\ UNCHANGED <<queue, ledger, due, printed>>
    BY DEF Peek, files, history
  <1> QED BY <1>0, <1>3, <1>4, <1>5, InHandFacts, TypeHandle

LEMMA TypeKill ==
    ASSUME TypeInv, NEW p \in Procs, Kill(p)
    PROVE  TypeInv'
  <1>1. /\ UNCHANGED <<setting, graph, standing, ledger, due, printed, scans>>
        /\ kills' = kills + 1
    BY DEF Kill, topology, history
  <1>2. queue' = queue \/ queue' = <<>>
    BY DEF Kill
  <1>3. QueueOK(queue') /\ LedgerOK(ledger')
    BY <1>1, <1>2, InHandFacts, EmptyQueue
  <1>4. local' \in [Procs -> Local] /\ Shaped'
    <2>1. CASE local' = [local EXCEPT ![p] = Idle]
      BY <1>1, <2>1, Rested, Took
    <2>2. CASE local' = local
      <3>1. local' = [local EXCEPT ![p] = local[p]]
        BY <2>2 DEF TypeInv, TypeOK
      <3> QED BY <1>1, <3>1, InHandFacts, Took
    <2> QED BY <2>1, <2>2 DEF Kill, Become
  <1>5. /\ graph' \in [Pairs -> State] /\ standing' \subseteq Pairs
        /\ due' \in [Pairs -> Callees \cup {NoCallee}] /\ printed' \in [Pairs -> Seq(State)]
        /\ scans' \in Nat /\ kills' \in Nat
    BY <1>1 DEF TypeInv, TypeOK
  <1> QED BY <1>1, <1>3, <1>4, <1>5, TypeNext

LEMMA TypeStep == TypeInv /\ [Next]_vars => TypeInv'
  <1> SUFFICES ASSUME TypeInv, [Next]_vars  PROVE TypeInv'
    OBVIOUS
  <1>1. CASE UNCHANGED vars
    BY <1>1 DEF vars, topology, files, history, counts, TypeInv, TypeOK, Shaped, Fits
  <1>2. ASSUME NEW p \in Procs, Handle(p)  PROVE TypeInv'
    BY <1>2, TypeRefresh, TypeQueue, TypeReport, TypeUnmark, TypeRequeue, TypeDeliver, TypePage,
       TypeRemove DEF Handle
  <1>3. ASSUME NEW p \in Procs, Kill(p)  PROVE TypeInv'
    BY <1>3, TypeKill
  <1>4. ASSUME NEW p \in Scanners, Scan(p)  PROVE TypeInv'
    BY <1>4, TypeScan
  <1>5. ASSUME NEW p \in Reporters, Drain(p) \/ Peek(p)  PROVE TypeInv'
    BY <1>5, TypeDrain, TypePeek
  <1> QED BY <1>1, <1>2, <1>3, <1>4, <1>5 DEF Next

\* Every variable of Transients keeps its type: a queue within its limit and with one entry for
\* each pair, and a ledger within its limit that names no state twice (QueueTransients,
\* markReportedTransients, RefreshTransientCallers).
THEOREM TypeCorrect == Spec => []TypeOK
  <1>1. TypeInv => TypeOK
    BY DEF TypeInv
  <1> QED BY TypeInit, TypeStep, <1>1, PTL DEF Spec

-----------------------------------------------------------------------------
(* Nothing is lost.                                                        *)

\* Scans do not run beside each other; and where a scan may run beside a report, reports are
\* hooks' and whole.
Undisturbed ==
    /\ \A p, q \in Scanners : p = q
    /\ \A s \in Settings : "meet" \in s => s \cap {"cut", "page"} = {}

\* What a process will print if it goes on, or has queued anew; what it will print or queue;
\* and what a scanner has still to queue.
Told(l) == IF l.step \in {"report", "requeue", "print"} THEN l.hand
           ELSE IF l.step = "unmark" THEN l.hand \cup l.rest ELSE {}
Holding(l) == IF l.step \in {"page", "remove"} THEN {} ELSE l.hand \cup l.rest
Scanned(l) == IF l.step \in {"refresh", "queue"} THEN l.hand ELSE {}

Apart == "meet" \notin setting => ~(Busy(Scanners) /\ Busy(Reporters))

\* What is in the ledger was read, or is about to be.
Known(w) == Knows(w.id, w.callee)
Telling(w) ==
    \E p \in Procs : \E v \in Told(local[p]) : Alike(v, w) /\ ("meet" \in setting \/ v = w)
Accounted == \A w \in Range(ledger) : Known(w) \/ Telling(w)

\* What a page removes from the queue was read.
Removing == \A p \in Procs : local[p].step = "remove" => \A w \in local[p].hand : Known(w)

\* NothingLost, where those that will only remove what they have do not count.
Waits(x, c) ==
    \/ \E w \in Range(queue) : w.id = x /\ w.callee = c
    \/ \E p \in Procs : \E w \in Holding(local[p]) : w.id = x /\ w.callee = c
Safe == \A x \in Pairs : due[x] # NoCallee => Knows(x, due[x]) \/ Waits(x, due[x])

\* A scan queues the newest raises; and older ones are nowhere, once it has.
Due(w) == due[w.id] \in {w.callee, NoCallee}
Timely == \A p \in Procs : \A w \in Scanned(local[p]) : Due(w)
Excused(x) == \E p \in Procs : x \in About(Scanned(local[p]))
Recent ==
    "meet" \notin setting =>
        /\ \A w \in Range(queue) : Due(w) \/ Excused(w.id)
        /\ \A p \in Procs : \A w \in local[p].hand \cup local[p].rest : Due(w) \/ Excused(w.id)

IInv ==
    /\ TypeInv
    /\ Apart
    /\ Removing
    /\ Timely
    /\ kills = 0 => Accounted /\ Safe /\ Recent

LEMMA IInvGivesNothingLost == IInv => NothingLost
  <1> SUFFICES ASSUME IInv, NEW x \in Pairs, due[x] # NoCallee, kills = 0
               PROVE  \/ Knows(x, due[x])
                      \/ \E w \in Range(queue) \cup InHand : w.id = x /\ w.callee = due[x]
    BY DEF NothingLost
  <1>1. \A p \in Procs : Holding(local[p]) \subseteq InHand
    BY DEF Holding, InHand
  <1> QED BY <1>1 DEF IInv, Safe, Waits

-----------------------------------------------------------------------------
(* What a step of one process leaves as it was.                            *)

Learns == \A x \in Pairs, c \in Callees : Knows(x, c) => Knows(x, c)'
GivesUp == \A x \in Pairs : due'[x] \in {due[x], NoCallee}

LEMMA SamePrinted == printed' = printed => Learns
  BY DEF Learns, Knows

LEMMA SameDue == due' = due => GivesUp
  BY DEF GivesUp

LEMMA GivingUp ==
    ASSUME TypeOK, NEW fresh, GiveUp(fresh)
    PROVE  GivesUp
  BY DEF TypeOK, GiveUp, GivesUp

LEMMA Others ==
    ASSUME TypeInv, NEW p \in Procs, NEW l, local' = [local EXCEPT ![p] = l]
    PROVE  \A q \in Procs : local'[q] = IF q = p THEN l ELSE local[q]
  BY DEF TypeInv, TypeOK

LEMMA ApartStays ==
    ASSUME TypeInv, Apart, setting' = setting, NEW p \in Procs, local[p] # Idle,
           NEW l, local' = [local EXCEPT ![p] = l]
    PROVE  Apart'
  <1>1. \A q \in Procs : local'[q] # Idle => local[q] # Idle
    BY Others
  <1>2. (Busy(Scanners)' => Busy(Scanners)) /\ (Busy(Reporters)' => Busy(Reporters))
    BY <1>1 DEF Busy, Procs
  <1> QED BY <1>2 DEF Apart

LEMMA RemovingStays ==
    ASSUME TypeInv, Removing, Learns, NEW p \in Procs, NEW l, local' = [local EXCEPT ![p] = l],
           l.step = "remove" => \A w \in l.hand : Known(w)'
    PROVE  Removing'
  <1> SUFFICES ASSUME NEW q \in Procs, local'[q].step = "remove", NEW w \in local'[q].hand
               PROVE  Known(w)'
    BY DEF Removing
  <1>1. CASE q = p
    <2>1. local'[q] = l
      BY <1>1, Others
    <2> QED BY <2>1
  <1>2. CASE q # p
    <2>1. local'[q] = local[q]
      BY <1>2, Others
    <2>2. Knows(w.id, w.callee)
      BY <2>1 DEF Removing, Known
    <2>3. w.id \in Pairs /\ w.callee \in Callees
      BY <2>1, InHandFacts DEF Transient
    <2> QED BY <2>2, <2>3 DEF Known, Learns
  <1> QED BY <1>1, <1>2

\* Whoever has something to queue for a scan is a scanner.
LEMMA ScannedFacts ==
    ASSUME TypeInv, NEW q \in Procs, NEW w \in Scanned(local[q])
    PROVE  /\ q \in Scanners /\ local[q] # Idle /\ w \in Transient
           /\ local[q].step \in {"refresh", "queue"} /\ w \in local[q].hand
  <1>1. local[q].step \in {"refresh", "queue"} /\ w \in local[q].hand
    BY DEF Scanned
  <1> QED BY <1>1, InHandFacts DEF Fits, Idle

LEMMA TimelyStays ==
    ASSUME TypeInv, Timely, GivesUp, NEW p \in Procs, NEW l, local' = [local EXCEPT ![p] = l],
           Scanned(l) \subseteq Scanned(local[p])
    PROVE  Timely'
  <1> SUFFICES ASSUME NEW q \in Procs, NEW w \in Scanned(local'[q])
               PROVE  due'[w.id] \in {w.callee, NoCallee}
    BY DEF Timely, Due, Scanned
  <1>1. w \in Scanned(local[q])
    BY Others
  <1>2. due[w.id] \in {w.callee, NoCallee} /\ w.id \in Pairs
    BY <1>1, ScannedFacts DEF Timely, Due, Transient
  <1> QED BY <1>2 DEF GivesUp

LEMMA AccountedStays ==
    ASSUME TypeInv, Accounted, Learns, setting' = setting,
           NEW p \in Procs, NEW l, local' = [local EXCEPT ![p] = l],
           Range(ledger') \subseteq Range(ledger), Told(local[p]) \subseteq Told(l)
    PROVE  Accounted'
  <1> SUFFICES ASSUME NEW w \in Range(ledger')  PROVE Known(w)' \/ Telling(w)'
    BY DEF Accounted
  <1>1. w \in Range(ledger) /\ w.id \in Pairs /\ w.callee \in Callees
    <2>1. w \in Range(ledger)
      OBVIOUS
    <2>2. ledger \in Seq(Transient)
      BY InHandFacts DEF LedgerOK
    <2>3. w \in Transient
      BY <2>1, <2>2 DEF Range
    <2> QED BY <2>1, <2>3 DEF Transient
  <1>2. CASE Known(w)
    BY <1>1, <1>2 DEF Known, Learns
  <1>3. CASE Telling(w)
    <2>1. PICK q \in Procs : \E v \in Told(local[q]) : Alike(v, w) /\ ("meet" \in setting \/ v = w)
      BY <1>3 DEF Telling
    <2>2. Told(local[q]) \subseteq Told(local'[q])
      BY Others
    <2>3. \E v \in Told(local'[q]) : Alike(v, w) /\ ("meet" \in setting' \/ v = w)
      BY <2>1, <2>2
    <2> QED BY <2>3 DEF Telling, Told, Alike
  <1> QED BY <1>1, <1>2, <1>3 DEF Accounted

\* A raise that waits does so still, if it is kept where it was.
LEMMA WaitsStill ==
    ASSUME TypeInv, NEW p \in Procs, NEW l, local' = [local EXCEPT ![p] = l],
           Holding(local[p]) \subseteq Holding(l),
           \A w \in Range(queue) : \E v \in Range(queue') : Alike(v, w),
           NEW x, NEW c, Waits(x, c)
    PROVE  Waits(x, c)'
  <1>1. CASE \E w \in Range(queue) : w.id = x /\ w.callee = c
    <2>1. \E v \in Range(queue') : v.id = x /\ v.callee = c
      BY <1>1 DEF Alike
    <2> QED BY <2>1 DEF Waits
  <1>2. CASE \E q \in Procs : \E w \in Holding(local[q]) : w.id = x /\ w.callee = c
    <2>1. \E q \in Procs : \E w \in Holding(local'[q]) : w.id = x /\ w.callee = c
      BY <1>2, Others
    <2> QED BY <2>1 DEF Waits, Holding
  <1> QED BY <1>1, <1>2 DEF Waits

LEMMA SafeStays ==
    ASSUME TypeInv, Safe, Learns, due' = due,
           NEW p \in Procs, NEW l, local' = [local EXCEPT ![p] = l],
           Holding(local[p]) \subseteq Holding(l),
           \A w \in Range(queue) : \E v \in Range(queue') : Alike(v, w)
    PROVE  Safe'
  <1> SUFFICES ASSUME NEW x \in Pairs, due'[x] # NoCallee
               PROVE  Knows(x, due[x])' \/ Waits(x, due[x])'
    BY DEF Safe
  <1>1. PICK c \in Callees : c = due[x] /\ c = due'[x]
    BY InHandFacts
  <1>2. Knows(x, c) \/ Waits(x, c)
    BY <1>1 DEF Safe
  <1>3. Waits(x, c) => Waits(x, c)'
    BY WaitsStill
  <1>4. Knows(x, c)' \/ Waits(x, c)'
    BY <1>2, <1>3 DEF Learns
  <1> QED BY <1>1, <1>4 DEF Knows, Waits

LEMMA RecentStays ==
    ASSUME TypeInv, Recent, GivesUp, setting' = setting,
           NEW p \in Procs, NEW l, local' = [local EXCEPT ![p] = l],
           Scanned(l) = Scanned(local[p]),
           NEW all, all = Range(queue) \cup local[p].hand \cup local[p].rest,
           \A v \in Range(queue') : \E w \in all : Alike(v, w),
           l.hand \cup l.rest \subseteq all
    PROVE  Recent'
  <1> SUFFICES ASSUME "meet" \notin setting
               PROVE  /\ \A w \in Range(queue') : Due(w)' \/ Excused(w.id)'
                      /\ \A q \in Procs : \A w \in local'[q].hand \cup local'[q].rest :
                            Due(w)' \/ Excused(w.id)'
    BY DEF Recent
  <1>1. \A x : Excused(x) => Excused(x)'
    <2> TAKE x
    <2> HAVE Excused(x)
    <2>1. PICK q \in Procs : x \in About(Scanned(local[q]))
      BY DEF Excused
    <2>2. x \in About(Scanned(local'[q]))
      BY <2>1, Others
    <2> QED BY <2>2 DEF Excused, About, Scanned
  <1>2. \A w : (Due(w) /\ w.id \in Pairs) \/ Excused(w.id) => Due(w)' \/ Excused(w.id)'
    BY <1>1 DEF Due, GivesUp
  <1>3. \A w \in all : (Due(w) \/ Excused(w.id)) /\ w.id \in Pairs
    <2>1. all \in SUBSET Transient
      BY InHandFacts DEF QueueOK, Range
    <2> QED BY <2>1 DEF Recent, Transient
  <1>4. ASSUME NEW v \in Range(queue')  PROVE Due(v)' \/ Excused(v.id)'
    <2>1. PICK w \in all : Alike(v, w)
      OBVIOUS
    <2>2. Due(w)' \/ Excused(w.id)'
      BY <1>2, <1>3
    <2>3. v.id = w.id /\ v.callee = w.callee
      BY <2>1 DEF Alike
    <2> QED BY <2>2, <2>3 DEF Due
  <1>5. ASSUME NEW q \in Procs, NEW w \in local'[q].hand \cup local'[q].rest
        PROVE  Due(w)' \/ Excused(w.id)'
    <2>1. CASE q = p
      BY <1>2, <1>3, <2>1, Others
    <2>2. CASE q # p
      <3>1. w \in local[q].hand \cup local[q].rest
        BY <2>2, Others
      <3>2. w.id \in Pairs
        BY <3>1, InHandFacts DEF Transient
      <3> QED BY <1>2, <3>1, <3>2 DEF Recent
    <2> QED BY <2>1, <2>2
  <1> QED BY <1>4, <1>5

-----------------------------------------------------------------------------
(* One step of the proof for each action.                                  *)

\* What IInv says of a behaviour in which nobody was killed.
LEMMA NobodyKilled ==
    ASSUME IInv, kills' = kills,
           TypeInv', Apart', Removing', Timely',
           kills = 0 => Accounted' /\ Safe' /\ Recent'
    PROVE  IInv'
  BY DEF IInv

\* Nobody else is a scanner, so nothing else is excused.
LEMMA OnlyScanner ==
    ASSUME Undisturbed, TypeInv, NEW p \in Scanners, NEW x, Excused(x)
    PROVE  x \in About(Scanned(local[p]))
  <1>1. PICK q \in Procs : x \in About(Scanned(local[q]))
    BY DEF Excused
  <1>2. PICK w \in Scanned(local[q]) : w.id = x
    BY <1>1 DEF About
  <1>3. q \in Scanners
    BY <1>2, ScannedFacts
  <1> QED BY <1>1, <1>3 DEF Undisturbed

\* While a reporter is busy and no scan may meet it, nothing is excused.
LEMMA NoScanner ==
    ASSUME TypeInv, Apart, "meet" \notin setting, NEW p \in Reporters, local[p] # Idle, NEW x
    PROVE  ~Excused(x)
  <1> SUFFICES ASSUME Excused(x)  PROVE FALSE
    OBVIOUS
  <1>1. PICK q \in Procs : x \in About(Scanned(local[q]))
    BY DEF Excused
  <1>2. PICK w \in Scanned(local[q]) : w.id = x
    BY <1>1 DEF About
  <1>3. q \in Scanners /\ local[q] # Idle
    BY <1>2, ScannedFacts
  <1>4. Busy(Scanners) /\ Busy(Reporters)
    BY <1>3 DEF Busy
  <1> QED BY <1>4 DEF Apart

LEMMA InvInit == Init => IInv
  <1> SUFFICES ASSUME Init  PROVE IInv
    OBVIOUS
  <1>1. \A p \in Procs : local[p] = Idle
    BY DEF Init
  <1>2. Apart
    BY <1>1 DEF Apart, Busy, Procs
  <1>3. Removing /\ Timely
    BY <1>1 DEF Removing, Timely, Scanned, Idle
  <1>4. Range(queue) = {} /\ Range(ledger) = {}
    BY DEF Init, Range
  <1>5. Accounted
    BY <1>4 DEF Accounted
  <1>6. Safe
    BY DEF Init, Safe
  <1>7. Recent
    BY <1>1, <1>4 DEF Recent, Idle
  <1> QED BY <1>2, <1>3, <1>5, <1>6, <1>7, TypeInit DEF IInv

LEMMA InvScan ==
    ASSUME Undisturbed, IInv, NEW p \in Scanners, Scan(p)
    PROVE  IInv'
  <1>0. p \in Procs /\ TypeInv /\ TypeInv'
    BY TypeScan DEF IInv, Procs
  <1>1. PICK moved : moved = {x \in Pairs : graph'[x].callee # graph[x].callee}
    OBVIOUS
  <1>2. PICK raised \in SUBSET (moved \cup standing) :
            /\ Become(p, [step |-> "refresh", rest |-> {}, hand |-> {Of(x)' : x \in raised}])
            /\ due' = [x \in Pairs |-> IF x \in raised THEN graph'[x].callee
                                       ELSE IF x \in moved THEN NoCallee ELSE due[x]]
    BY ZenonT(60), <1>1 DEF Scan
  <1>3. /\ setting' = setting /\ queue' = queue /\ ledger' = ledger
        /\ printed' = printed /\ kills' = kills
        /\ local[p] = Idle /\ ("meet" \in setting \/ ~Busy(Reporters))
    BY DEF Scan, files
  <1>4. PICK hand : hand = {[id |-> x, callee |-> graph'[x].callee, caller |-> graph'[x].caller] :
                                x \in raised}
    OBVIOUS
  <1>5. PICK l : l = [step |-> "refresh", rest |-> {}, hand |-> hand]
    OBVIOUS
  <1>6. local' = [local EXCEPT ![p] = l]
    BY <1>2, <1>4, <1>5 DEF Become, Of
  <1>7. /\ raised \subseteq Pairs
        /\ \A w \in hand : w.id \in raised /\ w.callee = graph'[w.id].callee
        /\ \A x \in raised : \E w \in hand : w.id = x /\ w.callee = graph'[x].callee
    <2>1. raised \subseteq Pairs
      BY <1>0, <1>1 DEF TypeInv, TypeOK
    <2>2. \A w \in hand : w.id \in raised /\ w.callee = graph'[w.id].callee
      BY <1>4
    <2>3. ASSUME NEW x \in raised
          PROVE  \E w \in hand : w.id = x /\ w.callee = graph'[x].callee
      <3>1. PICK w : w = [id |-> x, callee |-> graph'[x].callee, caller |-> graph'[x].caller]
        OBVIOUS
      <3>2. w \in hand /\ w.id = x /\ w.callee = graph'[x].callee
        BY <1>4, <3>1
      <3> QED BY <3>2
    <2> QED BY <2>1, <2>2, <2>3
  <1>8. Learns
    BY <1>3, SamePrinted
  <1>9. \A q \in Procs : local'[q] = IF q = p THEN l ELSE local[q]
    BY <1>0, <1>6, Others
  <1>10. Apart'
    <2>1. "meet" \notin setting => \A q \in Reporters : local'[q] = Idle
      BY <1>3, <1>9, TransientsAssumption DEF Busy, Procs
    <2> QED BY <1>3, <2>1 DEF Apart, Busy
  <1>11. Removing'
    BY <1>0, <1>5, <1>6, <1>8, RemovingStays DEF IInv
  <1>12. Timely'
    <2> SUFFICES ASSUME NEW q \in Procs, NEW w \in Scanned(local'[q])
                 PROVE  due'[w.id] \in {w.callee, NoCallee}
      BY DEF Timely, Due, Scanned
    <2>1. CASE q = p
      <3>1. w \in hand
        BY <1>5, <1>9, <2>1 DEF Scanned
      <3> QED BY <1>2, <1>7, <3>1
    <2>2. CASE q # p
      <3>1. w \in Scanned(local[q])
        BY <1>9, <2>2
      <3> QED BY <1>0, <2>2, <3>1, ScannedFacts DEF Undisturbed
    <2> QED BY <2>1, <2>2
  <1>13. ASSUME kills = 0  PROVE Accounted' /\ Safe' /\ Recent'
    <2>0. Accounted /\ Safe /\ Recent
      BY <1>13 DEF IInv
    <2>1. Accounted'
      <3>1. Told(local[p]) \subseteq Told(l)
        BY <1>3 DEF Told, Idle
      <3> QED BY <1>0, <1>3, <1>6, <1>8, <2>0, <3>1, AccountedStays
    <2>2. Safe'
      <3> SUFFICES ASSUME NEW x \in Pairs, due'[x] # NoCallee
                   PROVE  Knows(x, due[x])' \/ Waits(x, due[x])'
        BY DEF Safe
      <3>1. CASE x \in raised
        <4>1. \E w \in Holding(local'[p]) : w.id = x /\ w.callee = due'[x]
          BY <1>2, <1>5, <1>7, <1>9, <3>1, <1>0 DEF Holding
        <4>2. \E q \in Procs : \E w \in Holding(local'[q]) : w.id = x /\ w.callee = due'[x]
          BY <1>0, <4>1
        <4> QED BY <4>2 DEF Waits, Holding
      <3>2. CASE x \notin raised
        <4>1. due'[x] = due[x]
          BY <1>2, <3>2
        <4>2. Knows(x, due[x]) \/ Waits(x, due[x])
          BY <2>0, <4>1 DEF Safe
        <4>3. Holding(local[p]) \subseteq Holding(l)
          BY <1>3 DEF Holding, Idle
        <4>4. \A w \in Range(queue) : \E v \in Range(queue') : Alike(v, w)
          BY <1>3 DEF Alike
        <4>5. PICK c : c = due[x] /\ c = due'[x]
          BY <4>1
        <4>6. Waits(x, c) => Waits(x, c)'
          BY <1>0, <1>6, <4>3, <4>4, WaitsStill
        <4>7. Knows(x, c) => Knows(x, c)'
          BY <1>3 DEF Knows
        <4> QED BY <4>2, <4>5, <4>6, <4>7 DEF Knows, Waits
      <3> QED BY <3>1, <3>2
    <2>3. Recent'
      <3> SUFFICES ASSUME "meet" \notin setting
                   PROVE  /\ \A w \in Range(queue') : Due(w)' \/ Excused(w.id)'
                          /\ \A q \in Procs : \A w \in local'[q].hand \cup local'[q].rest :
                                Due(w)' \/ Excused(w.id)'
        BY <1>3 DEF Recent
      <3>1. \A x \in raised : Excused(x)'
        <4> TAKE x \in raised
        <4>1. x \in About(Scanned(local'[p]))
          BY <1>0, <1>5, <1>7, <1>9 DEF About, Scanned
        <4> QED BY <1>0, <4>1 DEF Excused, About, Scanned
      <3>2. ASSUME NEW w \in Range(queue')  PROVE Due(w)' \/ Excused(w.id)'
        <4>1. w \in Range(queue) /\ w.id \in Pairs
          <5>1. queue \in Seq(Transient)
            BY <1>0, InHandFacts DEF QueueOK
          <5>2. w \in Transient
            BY <1>3, <5>1 DEF Range
          <5> QED BY <1>3, <5>2 DEF Transient
        <4>2. ~Excused(w.id)
          <5>1. Scanned(local[p]) = {}
            BY <1>3 DEF Scanned, Idle
          <5> QED BY <1>0, <5>1, OnlyScanner DEF About
        <4>3. Due(w)
          BY <2>0, <4>1, <4>2 DEF Recent
        <4>4. CASE w.id \in raised
          BY <3>1, <4>4
        <4>5. CASE w.id \notin raised
          BY <1>2, <4>1, <4>3, <4>5 DEF Due
        <4> QED BY <4>4, <4>5
      <3>3. ASSUME NEW q \in Procs, NEW w \in local'[q].hand \cup local'[q].rest
            PROVE  Due(w)' \/ Excused(w.id)'
        <4>1. CASE q = p
          <5>1. w \in hand
            BY <1>5, <1>9, <4>1
          <5> QED BY <1>7, <3>1, <5>1
        <4>2. CASE q # p
          <5>1. q \in Reporters
            BY <4>2 DEF Undisturbed, Procs
          <5>2. local'[q] = Idle
            BY <1>3, <1>9, <4>2, <5>1 DEF Busy
          <5> QED BY <5>2 DEF Idle
        <4> QED BY <4>1, <4>2
      <3> QED BY <3>2, <3>3
    <2> QED BY <2>1, <2>2, <2>3
  <1> QED BY <1>0, <1>3, <1>10, <1>11, <1>12, <1>13, NobodyKilled

LEMMA InvRefresh ==
    ASSUME Undisturbed, IInv, NEW p \in Procs, RefreshTransientCallers(p)
    PROVE  IInv'
  <1>0. TypeInv /\ TypeInv' /\ TypeOK
    BY TypeRefresh DEF IInv, TypeInv
  <1>1. PICK l : l = [local[p] EXCEPT !.step = "queue"]
    OBVIOUS
  <1>2. /\ l.step = "queue" /\ l.hand = local[p].hand /\ l.rest = local[p].rest
        /\ local[p].step = "refresh" /\ local[p] # Idle /\ p \in Scanners
        /\ local' = [local EXCEPT ![p] = l]
    BY <1>0, <1>1, InHandFacts DEF RefreshTransientCallers, Go, TypeOK, Local, Idle, Fits
  <1>3. /\ setting' = setting /\ kills' = kills /\ due' = due /\ printed' = printed
        /\ queue' = RefreshedQueue /\ ledger' = RefreshedLedger
    BY DEF RefreshTransientCallers, topology, history, counts
  <1>4. Learns /\ GivesUp
    BY <1>3, SamePrinted, SameDue
  <1>5. /\ Told(l) = {} /\ Told(local[p]) = {} /\ Scanned(l) = Scanned(local[p])
        /\ Holding(l) = Holding(local[p])
    BY <1>2 DEF Told, Scanned, Holding
  <1>6. /\ \A w \in Range(queue) : \E v \in Range(queue') : Alike(v, w)
        /\ \A v \in Range(queue') : \E w \in Range(queue) : Alike(v, w)
        /\ \A v \in Range(ledger') : \E w \in Range(ledger) : Alike(v, w)
    BY <1>0, <1>3, RefreshedQueueFacts, RefreshedLedgerFacts
  <1>7. Apart'
    BY <1>0, <1>2, <1>3, ApartStays DEF IInv
  <1>8. Removing'
    BY <1>0, <1>2, <1>4, RemovingStays DEF IInv
  <1>9. Timely'
    BY <1>0, <1>2, <1>4, <1>5, TimelyStays DEF IInv
  <1>10. ASSUME kills = 0  PROVE Accounted' /\ Safe' /\ Recent'
    <2>0. Accounted /\ Safe /\ Recent
      BY <1>10 DEF IInv
    <2>1. Accounted'
      <3> SUFFICES ASSUME NEW v \in Range(ledger')  PROVE Known(v)' \/ Telling(v)'
        BY DEF Accounted
      <3>1. PICK w \in Range(ledger) : Alike(v, w)
        BY <1>6
      <3>2. CASE Known(w)
        BY <1>3, <3>1, <3>2 DEF Known, Alike, Knows
      <3>3. CASE Telling(w)
        <4>1. PICK q \in Procs : \E u \in Told(local[q]) : Alike(u, w)
          BY <3>3 DEF Telling
        <4>2. q # p
          BY <1>5, <4>1
        <4>3. Told(local[q]) = Told(local'[q])
          BY <1>0, <1>2, <4>2, Others
        <4>4. q \in Reporters /\ local[q] # Idle
          BY <1>2, <4>1, <4>2 DEF Undisturbed, Procs, Told, Idle
        <4>5. "meet" \in setting
          BY <1>2, <4>4 DEF IInv, Apart, Busy
        <4>6. \E u \in Told(local'[q]) : Alike(u, v)
          BY <3>1, <4>1, <4>3 DEF Alike
        <4>7. \E u \in Told(local'[q]) : Alike(u, v) /\ ("meet" \in setting' \/ u = v)
          BY <1>3, <4>5, <4>6
        <4> QED BY <4>7 DEF Telling, Told, Alike
      <3> QED BY <2>0, <3>2, <3>3 DEF Accounted
    <2>2. Safe'
      BY <1>0, <1>2, <1>3, <1>4, <1>5, <1>6, <2>0, SafeStays
    <2>3. Recent'
      <3>1. PICK all : all = Range(queue) \cup local[p].hand \cup local[p].rest
        OBVIOUS
      <3>2. /\ \A v \in Range(queue') : \E w \in all : Alike(v, w)
            /\ l.hand \cup l.rest \subseteq all
        BY <1>2, <1>6, <3>1
      <3> QED BY <1>0, <1>2, <1>3, <1>4, <1>5, <2>0, <3>1, <3>2, RecentStays
    <2> QED BY <2>1, <2>2, <2>3
  <1> QED BY <1>0, <1>3, <1>7, <1>8, <1>9, <1>10, NobodyKilled

\* QueueTransients, for a scan or for what a page left out: what waited waits still, or somebody
\* has shown it or will.
LEMMA QueuedSafely ==
    ASSUME TypeInv, Accounted,
           NEW fresh \in SUBSET Transient, Few(fresh),
           queue' = Queued(fresh), GiveUp(fresh),
           NEW x \in Pairs, due'[x] # NoCallee, NEW c, c = due[x],
           \A w \in fresh : w.id = x => w.callee = c,
           \E w \in Range(queue) \cup fresh : w.id = x /\ w.callee = c
    PROVE  \/ Knows(x, c)
           \/ \E w \in Range(queue') : w.id = x /\ w.callee = c
           \/ \E q \in Procs : \E w \in Told(local[q]) : w.id = x /\ w.callee = c
  <1>0. TypeOK /\ IsFiniteSet(fresh) /\ Unique(fresh)
    BY DEF TypeInv, Few
  <1>1. x \in About(Range(Merged(fresh))) => x \in About(Range(Queued(fresh)))
    BY DEF GiveUp
  <1>2. \A e \in Range(Merged(fresh)) : e.id = x => e \in Range(queue')
    <2> TAKE e \in Range(Merged(fresh))
    <2> HAVE e.id = x
    <2>1. x \in About(Range(Merged(fresh)))
      BY DEF About
    <2> QED BY <1>0, <1>1, <2>1, QueuedFacts
  <1>3. CASE \E u \in fresh : u.id = x
    <2>1. PICK u \in fresh : u.id = x /\ u.callee = c
      BY <1>3
    <2>2. CASE u \in Range(ledger)
      <3>1. Known(u) \/ Telling(u)
        BY <2>2 DEF Accounted
      <3> QED BY <2>1, <3>1 DEF Known, Telling, Alike
    <2>3. CASE u \notin Range(ledger)
      <3>1. u \in Range(Merged(fresh))
        BY <1>0, <2>3, MergedFacts DEF Unshown
      <3> QED BY <1>2, <2>1, <3>1
    <2> QED BY <2>2, <2>3
  <1>4. CASE ~ \E u \in fresh : u.id = x
    <2>1. PICK w \in Range(queue) : w.id = x /\ w.callee = c
      BY <1>4
    <2>2. w.id \notin About(fresh)
      BY <1>4, <2>1 DEF About
    <2>3. w \in Range(Merged(fresh))
      BY <1>0, <2>2, MergedFacts
    <2> QED BY <1>2, <2>1, <2>3
  <1> QED BY <1>3, <1>4

\* The queue has nothing that was neither in it nor fresh.
LEMMA QueuedOnly ==
    ASSUME TypeInv, NEW fresh \in SUBSET Transient, Few(fresh), queue' = Queued(fresh)
    PROVE  \A e \in Range(queue') :
                IF e.id \in About(fresh) THEN e \in fresh ELSE e \in Range(queue)
  <1>0. TypeOK /\ IsFiniteSet(fresh) /\ Unique(fresh)
    BY DEF TypeInv, Few
  <1>1. Range(queue') \subseteq Range(Merged(fresh))
    BY <1>0, QueuedFacts
  <1> QED BY <1>0, <1>1, MergedFacts

LEMMA InvQueue ==
    ASSUME Undisturbed, IInv, NEW p \in Procs, QueueTransients(p)
    PROVE  IInv'
  <1>0. TypeInv /\ TypeInv' /\ TypeOK
    BY TypeQueue DEF IInv, TypeInv
  <1>1. PICK fresh \in SUBSET Transient : fresh = local[p].hand
    BY <1>0, InHandFacts
  <1>2. /\ local[p].step = "queue" /\ local[p] # Idle /\ p \in Scanners
        /\ Few(fresh) /\ local[p].rest = {}
    BY <1>0, <1>1, InHandFacts DEF QueueTransients, Fits, Idle
  <1>3. /\ setting' = setting /\ kills' = kills /\ printed' = printed /\ ledger' = ledger
        /\ queue' = Queued(fresh) /\ GiveUp(fresh)
    BY <1>1 DEF QueueTransients, topology, counts
  <1>4. PICK l : /\ local' = [local EXCEPT ![p] = l]
                 /\ l.step \in {"idle", "report"} /\ l.rest = {} /\ l.hand \subseteq fresh
    <2>1. CASE "print_own" \in setting /\ local[p].hand # {}
      <3>1. PICK l : l = [local[p] EXCEPT !.step = "report"]
        OBVIOUS
      <3>2. l.step = "report" /\ l.rest = {} /\ l.hand = fresh
        BY <1>0, <1>1, <1>2, <3>1, InHandFacts DEF Local
      <3>3. local' = [local EXCEPT ![p] = l]
        BY <1>0, <2>1, <3>1 DEF QueueTransients, Go, TypeOK
      <3> QED BY <3>2, <3>3
    <2>2. CASE ~("print_own" \in setting /\ local[p].hand # {})
      <3>1. local' = [local EXCEPT ![p] = Idle]
        BY <2>2 DEF QueueTransients, Become
      <3>2. Idle.step = "idle" /\ Idle.rest = {} /\ Idle.hand = {}
        BY DEF Idle
      <3> QED BY <3>1, <3>2
    <2> QED BY <2>1, <2>2
  <1>5. Learns /\ GivesUp
    BY <1>0, <1>3, SamePrinted, GivingUp
  <1>6. /\ Told(local[p]) = {} /\ Scanned(l) = {} /\ Scanned(local[p]) = fresh
        /\ Holding(local[p]) = fresh
    BY <1>1, <1>2, <1>4 DEF Told, Scanned, Holding
  <1>7. \A q \in Procs : local'[q] = IF q = p THEN l ELSE local[q]
    BY <1>0, <1>4, Others
  <1>8. Apart'
    BY <1>0, <1>2, <1>3, <1>4, ApartStays DEF IInv
  <1>9. Removing'
    BY <1>0, <1>4, <1>5, RemovingStays DEF IInv
  <1>10. Timely'
    BY <1>0, <1>4, <1>5, <1>6, TimelyStays DEF IInv
  <1>11. \A w \in fresh : Due(w) /\ w.id \in Pairs
    BY <1>6 DEF IInv, Timely, Transient
  <1>12. ASSUME kills = 0  PROVE Accounted' /\ Safe' /\ Recent'
    <2>0. Accounted /\ Safe /\ Recent
      BY <1>12 DEF IInv
    <2>1. Accounted'
      BY <1>0, <1>3, <1>4, <1>5, <1>6, <2>0, AccountedStays
    <2>2. Safe'
      <3> SUFFICES ASSUME NEW x \in Pairs, due'[x] # NoCallee
                   PROVE  Knows(x, due[x])' \/ Waits(x, due[x])'
        BY DEF Safe
      <3>1. PICK c : c = due[x] /\ c = due'[x]
        BY <1>5 DEF GivesUp
      <3>2. \A w \in fresh : w.id = x => w.callee = c
        BY <1>11, <3>1 DEF Due
      <3>3. Knows(x, c) => Knows(x, c)'
        BY <1>3 DEF Knows
      <3>4. \A q \in Procs : Told(local[q]) \subseteq Holding(local'[q])
        BY <1>6, <1>7 DEF Told, Holding
      <3>5. CASE \E w \in Range(queue) \cup fresh : w.id = x /\ w.callee = c
        <4>1. \/ Knows(x, c)
              \/ \E w \in Range(queue') : w.id = x /\ w.callee = c
              \/ \E q \in Procs : \E w \in Told(local[q]) : w.id = x /\ w.callee = c
          <5>1. TypeInv /\ Accounted /\ Few(fresh) /\ GiveUp(fresh) /\ queue' = Queued(fresh)
            BY <1>0, <1>2, <1>3, <2>0
          <5>2. c = due[x] /\ due'[x] # NoCallee
            BY <3>1
          <5> QED BY <5>1, <5>2, <3>2, <3>5, QueuedSafely
        <4>2. \/ Knows(x, c)'
              \/ \E w \in Range(queue') : w.id = x /\ w.callee = c
              \/ \E q \in Procs : \E w \in Holding(local'[q]) : w.id = x /\ w.callee = c
          BY <3>3, <3>4, <4>1
        <4> QED BY <3>1, <4>2 DEF Knows, Waits, Holding
      <3>6. CASE ~ \E w \in Range(queue) \cup fresh : w.id = x /\ w.callee = c
        <4>1. Knows(x, c) \/ Waits(x, c)
          BY <2>0, <3>1 DEF Safe
        <4>2. Waits(x, c) => \E q \in Procs \ {p} : \E w \in Holding(local[q]) : w.id = x /\ w.callee = c
          BY <1>6, <3>6 DEF Waits
        <4>3. \/ Knows(x, c)'
              \/ \E q \in Procs : \E w \in Holding(local'[q]) : w.id = x /\ w.callee = c
          BY <1>7, <3>3, <4>1, <4>2
        <4> QED BY <3>1, <4>3 DEF Knows, Waits, Holding
      <3> QED BY <3>5, <3>6
    <2>3. Recent'
      <3> SUFFICES ASSUME "meet" \notin setting
                   PROVE  /\ \A w \in Range(queue') : Due(w)'
                          /\ \A q \in Procs : \A w \in local'[q].hand \cup local'[q].rest : Due(w)'
        BY <1>3 DEF Recent
      <3>0. \A w : Due(w) /\ w.id \in Pairs => Due(w)'
        BY <1>5 DEF Due, GivesUp
      <3>1. ASSUME NEW w \in Range(queue')  PROVE Due(w)'
        <4>1. CASE w.id \in About(fresh)
          BY <1>0, <1>2, <1>3, <1>11, <3>0, <4>1, QueuedOnly
        <4>2. CASE w.id \notin About(fresh)
          <5>1. w \in Range(queue)
            BY <1>0, <1>2, <1>3, <4>2, QueuedOnly
          <5>2. ~Excused(w.id)
            BY <1>0, <1>2, <1>6, <4>2, OnlyScanner
          <5>3. Due(w)
            BY <2>0, <5>1, <5>2 DEF Recent
          <5>4. queue \in Seq(Transient)
            BY <1>0, InHandFacts DEF QueueOK
          <5>5. w \in Transient
            BY <5>1, <5>4 DEF Range
          <5> QED BY <3>0, <5>3, <5>5 DEF Transient
        <4> QED BY <4>1, <4>2
      <3>2. ASSUME NEW q \in Procs, NEW w \in local'[q].hand \cup local'[q].rest
            PROVE  Due(w)'
        <4>1. CASE q = p
          <5>1. w \in fresh
            BY <1>4, <1>7, <4>1
          <5> QED BY <1>11, <3>0, <5>1
        <4>2. CASE q # p
          <5>1. q \in Reporters
            BY <1>2, <4>2 DEF Undisturbed, Procs
          <5>2. ~Busy(Reporters)
            BY <1>2 DEF IInv, Apart, Busy
          <5>3. local'[q] = Idle
            BY <1>7, <4>2, <5>1, <5>2 DEF Busy
          <5> QED BY <5>3 DEF Idle
        <4> QED BY <4>1, <4>2
      <3> QED BY <3>1, <3>2
    <2> QED BY <2>1, <2>2, <2>3
  <1> QED BY <1>0, <1>3, <1>8, <1>9, <1>10, <1>12, NobodyKilled

\* A step that leaves the queue, the ledger and the raises alone, and tells no less.
LEMMA InvQuiet ==
    ASSUME IInv, TypeInv', Learns, UNCHANGED <<setting, queue, due, kills>>,
           NEW p \in Procs, NEW l, local' = [local EXCEPT ![p] = l], local[p] # Idle,
           Scanned(l) = {}, Scanned(local[p]) = {},
           Holding(local[p]) \subseteq Holding(l),
           l.hand \cup l.rest \subseteq local[p].hand \cup local[p].rest,
           l.step = "remove" => \A w \in l.hand : Known(w)',
           kills = 0 => Accounted'
    PROVE  IInv'
  <1>1. GivesUp /\ TypeInv
    BY SameDue DEF IInv
  <1>2. Apart' /\ Removing' /\ Timely'
    BY <1>1, ApartStays, RemovingStays, TimelyStays DEF IInv
  <1>3. \A w \in Range(queue) : \E v \in Range(queue') : Alike(v, w)
    BY DEF Alike
  <1>4. ASSUME kills = 0  PROVE Safe' /\ Recent'
    <2>0. Safe /\ Recent
      BY <1>4 DEF IInv
    <2>1. Safe'
      BY <1>1, <1>3, <2>0, SafeStays
    <2>2. PICK all : all = Range(queue) \cup local[p].hand \cup local[p].rest
      OBVIOUS
    <2>3. /\ \A v \in Range(queue') : \E w \in all : Alike(v, w)
          /\ l.hand \cup l.rest \subseteq all
      BY <2>2 DEF Alike
    <2>4. Recent'
      BY <1>1, <2>0, <2>2, <2>3, RecentStays
    <2> QED BY <2>1, <2>4
  <1> QED BY <1>1, <1>2, <1>4, NobodyKilled

LEMMA InvReport ==
    ASSUME Undisturbed, IInv, NEW p \in Procs, Report(p)
    PROVE  IInv'
  <1>0. TypeInv /\ TypeInv' /\ TypeOK
    BY TypeReport DEF IInv, TypeInv
  <1>1. PICK shown \in SUBSET local[p].hand :
            Become(p, [step |-> IF shown = local[p].hand THEN "print" ELSE "unmark",
                       hand |-> shown, rest |-> local[p].hand \ shown])
    BY DEF Report
  <1>2. PICK l : l = [step |-> IF shown = local[p].hand THEN "print" ELSE "unmark",
                      hand |-> shown, rest |-> local[p].hand \ shown]
    OBVIOUS
  <1>3. local' = [local EXCEPT ![p] = l]
    BY <1>1, <1>2 DEF Become
  <1>4. /\ local[p].step = "report" /\ local[p] # Idle /\ local[p].rest = {}
        /\ UNCHANGED <<setting, queue, ledger, due, printed, kills>>
    BY <1>0, InHandFacts DEF Report, Fits, Idle, topology, files, history, counts
  <1>5. /\ l.step \in {"print", "unmark"} /\ l.hand \cup l.rest = local[p].hand
        /\ l.step = "print" => l.hand = local[p].hand
    BY <1>1, <1>2
  <1>6. /\ Scanned(l) = {} /\ Scanned(local[p]) = {}
        /\ Holding(l) = local[p].hand /\ Holding(local[p]) = local[p].hand
        /\ Told(l) = local[p].hand /\ Told(local[p]) = local[p].hand
    BY <1>4, <1>5 DEF Scanned, Holding, Told
  <1>7. Learns
    BY <1>4, SamePrinted
  <1>8. kills = 0 => Accounted'
    BY <1>0, <1>3, <1>4, <1>6, <1>7, AccountedStays DEF IInv
  <1> QED BY <1>0, <1>3, <1>4, <1>5, <1>6, <1>7, <1>8, InvQuiet

LEMMA InvUnmark ==
    ASSUME Undisturbed, IInv, NEW p \in Procs, Unmark(p)
    PROVE  IInv'
  <1>0. TypeInv /\ TypeInv' /\ TypeOK
    BY TypeUnmark DEF IInv, TypeInv
  <1>1. PICK l : l = [local[p] EXCEPT !.step = "requeue"]
    OBVIOUS
  <1>2. /\ l.step = "requeue" /\ l.hand = local[p].hand /\ l.rest = local[p].rest
        /\ local[p].step = "unmark" /\ local[p] # Idle /\ "cut" \in setting
        /\ local' = [local EXCEPT ![p] = l]
    BY <1>0, <1>1, InHandFacts DEF Unmark, Go, TypeOK, Local, Idle, Fits
  <1>3. /\ UNCHANGED <<setting, queue, due, printed, kills>>
        /\ ledger' = Without(ledger, local[p].rest)
    BY DEF Unmark, topology, history, counts
  <1>4. /\ Scanned(l) = {} /\ Scanned(local[p]) = {} /\ Holding(l) = Holding(local[p])
        /\ Told(l) = l.hand /\ Told(local[p]) = l.hand \cup l.rest
    BY <1>2 DEF Scanned, Holding, Told
  <1>5. Learns
    BY <1>3, SamePrinted
  <1>6. "meet" \notin setting
    BY <1>0, <1>2 DEF Undisturbed, TypeOK
  <1>7. Range(ledger') = Range(ledger) \ l.rest
    <2>1. ledger \in Seq(Transient)
      BY <1>0, InHandFacts DEF LedgerOK
    <2> QED BY <1>2, <1>3, <2>1, WithoutFacts
  <1>8. ASSUME kills = 0  PROVE Accounted'
    <2> SUFFICES ASSUME NEW w \in Range(ledger')  PROVE Known(w)' \/ Telling(w)'
      BY DEF Accounted
    <2>1. w \in Range(ledger) /\ w \notin l.rest
      BY <1>7
    <2>2. CASE Known(w)
      BY <1>3, <2>2 DEF Known, Knows
    <2>3. CASE Telling(w)
      <3>1. PICK q \in Procs : w \in Told(local[q])
        BY <1>6, <2>3 DEF Telling
      <3>2. w \in Told(local'[q])
        BY <1>0, <1>2, <1>4, <2>1, <3>1, Others
      <3> QED BY <3>2 DEF Telling, Told, Alike
    <2> QED BY <1>8, <2>1, <2>2, <2>3 DEF IInv, Accounted
  <1> QED BY <1>0, <1>2, <1>3, <1>4, <1>5, <1>8, InvQuiet

LEMMA InvDeliver ==
    ASSUME Undisturbed, IInv, NEW p \in Procs, Deliver(p)
    PROVE  IInv'
  <1>0. TypeInv /\ TypeInv' /\ TypeOK
    BY TypeDeliver DEF IInv, TypeInv
  <1>1. PICK hand \in SUBSET Transient : hand = local[p].hand
    BY <1>0, InHandFacts
  <1>2. /\ local[p].step = "print" /\ local[p] # Idle /\ local[p].rest = {} /\ Few(hand)
        /\ UNCHANGED <<setting, queue, ledger, due, kills>>
        /\ Show(hand) /\ local' = [local EXCEPT ![p] = Idle]
    BY <1>0, <1>1, InHandFacts DEF Deliver, Become, Fits, Idle, topology, files, counts
  <1>3. Learns /\ \A w \in hand : Known(w)'
    BY <1>0, <1>2, ShowFacts DEF Learns, Known, Few
  <1>4. /\ Scanned(Idle) = {} /\ Scanned(local[p]) = {} /\ Holding(Idle) = {}
        /\ Holding(local[p]) = hand /\ Told(Idle) = {} /\ Told(local[p]) = hand
        /\ Idle.hand = {} /\ Idle.rest = {} /\ Idle.step = "idle"
    BY <1>1, <1>2 DEF Scanned, Holding, Told, Idle
  <1>5. \A q \in Procs : local'[q] = IF q = p THEN Idle ELSE local[q]
    BY <1>0, <1>2, Others
  <1>6. GivesUp
    BY <1>2, SameDue
  <1>7. Apart' /\ Removing' /\ Timely'
    BY <1>0, <1>2, <1>3, <1>4, <1>6, ApartStays, RemovingStays, TimelyStays DEF IInv
  <1>8. ASSUME kills = 0  PROVE Accounted' /\ Safe' /\ Recent'
    <2>0. Accounted /\ Safe /\ Recent
      BY <1>8 DEF IInv
    <2>1. Accounted'
      <3> SUFFICES ASSUME NEW w \in Range(ledger)  PROVE Known(w)' \/ Telling(w)'
        BY <1>2 DEF Accounted
      <3>1. w.id \in Pairs /\ w.callee \in Callees
        <4>1. ledger \in Seq(Transient)
          BY <1>0, InHandFacts DEF LedgerOK
        <4>2. w \in Transient
          BY <4>1 DEF Range
        <4> QED BY <4>2 DEF Transient
      <3>2. CASE Known(w)
        BY <1>3, <3>1, <3>2 DEF Known, Learns
      <3>3. CASE Telling(w)
        <4>1. PICK q \in Procs : \E v \in Told(local[q]) :
                                    Alike(v, w) /\ ("meet" \in setting \/ v = w)
          BY <3>3 DEF Telling
        <4>2. CASE q = p
          <5>1. PICK v \in hand : Alike(v, w)
            BY <1>4, <4>1, <4>2
          <5>2. Known(v)'
            BY <1>3
          <5> QED BY <5>1, <5>2 DEF Known, Alike, Knows
        <4>3. CASE q # p
          <5>1. \E v \in Told(local'[q]) : Alike(v, w) /\ ("meet" \in setting' \/ v = w)
            BY <1>2, <1>5, <4>1, <4>3
          <5> QED BY <5>1 DEF Telling, Told, Alike
        <4> QED BY <4>2, <4>3
      <3> QED BY <2>0, <3>2, <3>3 DEF Accounted
    <2>2. Safe'
      <3> SUFFICES ASSUME NEW x \in Pairs, due'[x] # NoCallee
                   PROVE  Knows(x, due[x])' \/ Waits(x, due[x])'
        BY DEF Safe
      <3>1. PICK c \in Callees : c = due[x] /\ c = due'[x]
        BY <1>0, <1>2, InHandFacts
      <3>2. Knows(x, c) \/ Waits(x, c)
        BY <2>0, <3>1 DEF Safe
      <3>3. CASE \E w \in hand : w.id = x /\ w.callee = c
        BY <1>3, <3>1, <3>3 DEF Known, Knows
      <3>4. CASE ~ \E w \in hand : w.id = x /\ w.callee = c
        <4>1. Waits(x, c) => \/ \E w \in Range(queue') : w.id = x /\ w.callee = c
                             \/ \E q \in Procs : \E w \in Holding(local'[q]) : w.id = x /\ w.callee = c
          BY <1>2, <1>4, <1>5, <3>4 DEF Waits
        <4>2. Knows(x, c) => Knows(x, c)'
          BY <1>3 DEF Learns
        <4> QED BY <3>1, <3>2, <4>1, <4>2 DEF Knows, Waits, Holding
      <3> QED BY <3>3, <3>4
    <2>3. Recent'
      <3>1. PICK all : all = Range(queue) \cup local[p].hand \cup local[p].rest
        OBVIOUS
      <3>2. /\ \A v \in Range(queue') : \E w \in all : Alike(v, w)
            /\ Idle.hand \cup Idle.rest \subseteq all
        BY <1>2, <1>4, <3>1 DEF Alike
      <3> QED BY <1>0, <1>2, <1>4, <1>6, <2>0, <3>1, <3>2, RecentStays
    <2> QED BY <2>1, <2>2, <2>3
  <1> QED BY <1>0, <1>2, <1>7, <1>8, NobodyKilled

LEMMA InvPage ==
    ASSUME Undisturbed, IInv, NEW p \in Procs, Page(p)
    PROVE  IInv'
  <1>0. TypeInv /\ TypeInv' /\ TypeOK
    BY TypePage DEF IInv, TypeInv
  <1>1. PICK shown \in SUBSET local[p].hand :
            /\ Show(shown)
            /\ Become(p, IF shown = {} THEN Idle
                         ELSE [step |-> "remove", hand |-> shown, rest |-> {}])
    BY DEF Page
  <1>2. /\ local[p].step = "page" /\ local[p] # Idle
        /\ UNCHANGED <<setting, queue, ledger, due, kills>>
    BY DEF Page, Idle, topology, files, counts
  <1>3. shown \in SUBSET Transient /\ Few(shown)
    BY <1>0, <1>1, InHandFacts, FewFacts
  <1>4. Learns /\ \A w \in shown : Known(w)'
    BY <1>0, <1>1, <1>3, ShowFacts DEF Learns, Known, Few
  <1>5. PICK l : l = IF shown = {} THEN Idle ELSE [step |-> "remove", hand |-> shown, rest |-> {}]
    OBVIOUS
  <1>6. /\ l.step \in {"idle", "remove"} /\ l.hand = shown /\ l.rest = {}
        /\ local' = [local EXCEPT ![p] = l]
    BY <1>1, <1>5 DEF Idle, Become
  <1>7. /\ Scanned(l) = {} /\ Scanned(local[p]) = {} /\ Holding(local[p]) = {}
        /\ Told(local[p]) = {}
    BY <1>2, <1>6 DEF Scanned, Holding, Told
  <1>8. kills = 0 => Accounted'
    BY <1>0, <1>2, <1>4, <1>6, <1>7, AccountedStays DEF IInv
  <1> QED BY <1>0, <1>2, <1>4, <1>6, <1>7, <1>8, InvQuiet

LEMMA InvRequeue ==
    ASSUME Undisturbed, IInv, NEW p \in Procs, Requeue(p)
    PROVE  IInv'
  <1>0. TypeInv /\ TypeInv' /\ TypeOK
    BY TypeRequeue DEF IInv, TypeInv
  <1>1. PICK fresh \in SUBSET Transient : fresh = local[p].rest
    BY <1>0, InHandFacts
  <1>2. PICK l : l = [local[p] EXCEPT !.step = "print", !.rest = {}]
    OBVIOUS
  <1>3. /\ l.step = "print" /\ l.hand = local[p].hand /\ l.rest = {}
        /\ local[p].step = "requeue" /\ local[p] # Idle /\ "cut" \in setting /\ Few(fresh)
        /\ local' = [local EXCEPT ![p] = l]
    BY <1>0, <1>1, <1>2, InHandFacts DEF Requeue, Become, Local, Idle, Fits
  <1>4. /\ UNCHANGED <<setting, ledger, printed, kills>>
        /\ queue' = Queued(fresh) /\ GiveUp(fresh)
    BY <1>1 DEF Requeue, topology, counts
  <1>5. Learns /\ GivesUp
    BY <1>0, <1>4, SamePrinted, GivingUp
  <1>6. /\ Scanned(l) = {} /\ Scanned(local[p]) = {}
        /\ Told(local[p]) = l.hand /\ Told(l) = l.hand
        /\ Holding(local[p]) = l.hand \cup fresh /\ Holding(l) = l.hand
    BY <1>1, <1>3 DEF Scanned, Told, Holding
  <1>7. \A q \in Procs : local'[q] = IF q = p THEN l ELSE local[q]
    BY <1>0, <1>3, Others
  <1>8. Apart' /\ Removing' /\ Timely'
    BY <1>0, <1>3, <1>4, <1>5, <1>6, ApartStays, RemovingStays, TimelyStays DEF IInv
  <1>9. "meet" \notin setting
    BY <1>0, <1>3 DEF Undisturbed, TypeOK
  <1>10. \A x : ~Excused(x)
    <2>1. CASE p \in Reporters
      BY <1>0, <1>3, <1>9, <2>1, NoScanner DEF IInv
    <2>2. CASE p \in Scanners
      BY <1>0, <1>6, <2>2, OnlyScanner DEF About
    <2> QED BY <2>1, <2>2 DEF Procs
  <1>11. ASSUME kills = 0  PROVE Accounted' /\ Safe' /\ Recent'
    <2>0. Accounted /\ Safe /\ Recent
      BY <1>11 DEF IInv
    <2>1. Accounted'
      BY <1>0, <1>3, <1>4, <1>5, <1>6, <2>0, AccountedStays
    <2>2. \A w \in fresh : Due(w)
      BY <1>1, <1>9, <1>10, <2>0 DEF Recent
    <2>3. Safe'
      <3> SUFFICES ASSUME NEW x \in Pairs, due'[x] # NoCallee
                   PROVE  Knows(x, due[x])' \/ Waits(x, due[x])'
        BY DEF Safe
      <3>1. PICK c : c = due[x] /\ c = due'[x]
        BY <1>5 DEF GivesUp
      <3>2. \A w \in fresh : w.id = x => w.callee = c
        BY <2>2, <3>1 DEF Due
      <3>3. Knows(x, c) => Knows(x, c)'
        BY <1>4 DEF Knows
      <3>4. \A q \in Procs : Told(local[q]) \subseteq Holding(local'[q])
        BY <1>6, <1>7 DEF Told, Holding
      <3>5. CASE \E w \in Range(queue) \cup fresh : w.id = x /\ w.callee = c
        <4>1. \/ Knows(x, c)
              \/ \E w \in Range(queue') : w.id = x /\ w.callee = c
              \/ \E q \in Procs : \E w \in Told(local[q]) : w.id = x /\ w.callee = c
          <5>1. TypeInv /\ Accounted /\ Few(fresh) /\ GiveUp(fresh) /\ queue' = Queued(fresh)
            BY <1>0, <1>3, <1>4, <2>0
          <5>2. c = due[x] /\ due'[x] # NoCallee
            BY <3>1
          <5> QED BY <5>1, <5>2, <3>2, <3>5, QueuedSafely
        <4>2. \/ Knows(x, c)'
              \/ \E w \in Range(queue') : w.id = x /\ w.callee = c
              \/ \E q \in Procs : \E w \in Holding(local'[q]) : w.id = x /\ w.callee = c
          BY <3>3, <3>4, <4>1
        <4> QED BY <3>1, <4>2 DEF Knows, Waits, Holding
      <3>6. CASE ~ \E w \in Range(queue) \cup fresh : w.id = x /\ w.callee = c
        <4>1. Knows(x, c) \/ Waits(x, c)
          BY <2>0, <3>1 DEF Safe
        <4>2. Waits(x, c) => \E q \in Procs : \E w \in Holding(local'[q]) : w.id = x /\ w.callee = c
          BY <1>6, <1>7, <3>6 DEF Waits
        <4> QED BY <3>1, <3>3, <4>1, <4>2 DEF Knows, Waits, Holding
      <3> QED BY <3>5, <3>6
    <2>4. Recent'
      <3>1. PICK all : all = Range(queue) \cup local[p].hand \cup local[p].rest
        OBVIOUS
      <3>2. \A v \in Range(queue') : v \in all
        BY <1>0, <1>1, <1>3, <1>4, <3>1, QueuedOnly
      <3>3. /\ \A v \in Range(queue') : \E w \in all : Alike(v, w)
            /\ l.hand \cup l.rest \subseteq all
        BY <1>3, <3>1, <3>2 DEF Alike
      <3> QED BY ZenonT(60), <1>0, <1>3, <1>4, <1>5, <1>6, <2>0, <3>1, <3>3, RecentStays
    <2> QED BY <2>1, <2>3, <2>4
  <1> QED BY <1>0, <1>4, <1>8, <1>11, NobodyKilled

LEMMA InvRemove ==
    ASSUME Undisturbed, IInv, NEW p \in Procs, RemoveTransients(p)
    PROVE  IInv'
  <1>0. TypeInv /\ TypeInv' /\ TypeOK
    BY TypeRemove DEF IInv, TypeInv
  <1>1. PICK hand \in SUBSET Transient : hand = local[p].hand
    BY <1>0, InHandFacts
  <1>2. /\ local[p].step = "remove" /\ local[p] # Idle /\ p \in Reporters /\ "page" \in setting
        /\ Few(hand) /\ local' = [local EXCEPT ![p] = Idle]
    BY <1>0, <1>1, InHandFacts DEF RemoveTransients, Become, Fits, Idle
  <1>3. /\ UNCHANGED <<setting, due, printed, kills>>
        /\ queue' = WithoutIds(queue, About(hand)) /\ ledger' = Marked(hand)
    BY <1>1 DEF RemoveTransients, topology, history, counts
  <1>4. Learns /\ GivesUp
    BY <1>3, SamePrinted, SameDue
  <1>5. /\ Scanned(Idle) = {} /\ Scanned(local[p]) = {} /\ Holding(local[p]) = {}
        /\ Told(local[p]) = {} /\ Idle.hand = {} /\ Idle.rest = {} /\ Idle.step = "idle"
    BY <1>2 DEF Scanned, Holding, Told, Idle
  <1>6. \A q \in Procs : local'[q] = IF q = p THEN Idle ELSE local[q]
    BY <1>0, <1>2, Others
  <1>7. Apart' /\ Removing' /\ Timely'
    BY <1>0, <1>2, <1>3, <1>4, <1>5, ApartStays, RemovingStays, TimelyStays DEF IInv
  <1>8. "meet" \notin setting
    BY <1>0, <1>2 DEF Undisturbed, TypeOK
  <1>9. \A x : ~Excused(x)
    BY <1>0, <1>2, <1>8, NoScanner DEF IInv
  <1>10. \A w \in hand : Known(w)
    BY <1>1, <1>2 DEF IInv, Removing
  <1>11. Range(queue') = {e \in Range(queue) : e.id \notin About(hand)}
    <2>1. queue \in Seq(Transient)
      BY <1>0, InHandFacts DEF QueueOK
    <2> QED BY <1>3, <2>1, WithoutIdsFacts
  <1>12. Range(ledger') \subseteq Range(ledger) \cup hand
    BY <1>0, <1>2, <1>3, MarkedFacts DEF Few
  <1>13. ASSUME kills = 0  PROVE Accounted' /\ Safe' /\ Recent'
    <2>0. Accounted /\ Safe /\ Recent
      BY <1>13 DEF IInv
    <2>1. Accounted'
      <3> SUFFICES ASSUME NEW w \in Range(ledger')  PROVE Known(w)' \/ Telling(w)'
        BY DEF Accounted
      <3>1. CASE Known(w)
        BY <1>3, <3>1 DEF Known, Knows
      <3>2. CASE Telling(w)
        <4>1. PICK q \in Procs : \E v \in Told(local[q]) :
                                    Alike(v, w) /\ ("meet" \in setting \/ v = w)
          BY <3>2 DEF Telling
        <4>2. \E v \in Told(local'[q]) : Alike(v, w) /\ ("meet" \in setting' \/ v = w)
          BY <1>3, <1>5, <1>6, <4>1
        <4> QED BY <4>2 DEF Telling, Told, Alike
      <3> QED BY <1>10, <1>12, <2>0, <3>1, <3>2 DEF Accounted
    <2>2. Safe'
      <3> SUFFICES ASSUME NEW x \in Pairs, due'[x] # NoCallee
                   PROVE  Knows(x, due[x])' \/ Waits(x, due[x])'
        BY DEF Safe
      <3>1. PICK c : c = due[x] /\ c = due'[x]
        BY <1>3
      <3>2. Knows(x, c) \/ Waits(x, c)
        BY <2>0, <3>1 DEF Safe
      <3>3. Knows(x, c) => Knows(x, c)'
        BY <1>3 DEF Knows
      <3>4. CASE \E u \in hand : u.id = x
        <4>1. PICK u \in hand : u.id = x
          BY <3>4
        <4>2. Due(u)
          BY <1>1, <1>8, <1>9, <2>0 DEF Recent
        <4>3. u.callee = c
          BY <3>1, <4>1, <4>2 DEF Due
        <4>4. Knows(x, c)
          BY <1>10, <4>1, <4>3 DEF Known
        <4> QED BY <3>1, <3>3, <4>4 DEF Knows
      <3>5. CASE ~ \E u \in hand : u.id = x
        <4>1. \A w \in Range(queue) : w.id = x => w \in Range(queue')
          BY <1>11, <3>5 DEF About
        <4>2. Waits(x, c) => \/ \E w \in Range(queue') : w.id = x /\ w.callee = c
                             \/ \E q \in Procs : \E w \in Holding(local'[q]) : w.id = x /\ w.callee = c
          BY <1>5, <1>6, <4>1 DEF Waits
        <4> QED BY <3>1, <3>2, <3>3, <4>2 DEF Knows, Waits, Holding
      <3> QED BY <3>4, <3>5
    <2>3. Recent'
      <3>1. PICK all : all = Range(queue) \cup local[p].hand \cup local[p].rest
        OBVIOUS
      <3>2. /\ \A v \in Range(queue') : \E w \in all : Alike(v, w)
            /\ Idle.hand \cup Idle.rest \subseteq all
        BY <1>5, <1>11, <3>1 DEF Alike
      <3> QED BY <1>0, <1>2, <1>3, <1>4, <1>5, <2>0, <3>1, <3>2, RecentStays
    <2> QED BY <2>1, <2>2, <2>3
  <1> QED BY <1>0, <1>3, <1>7, <1>13, NobodyKilled

\* A reporter that begins does so while no scanner is busy, unless they may meet.
LEMMA ApartAtFetch ==
    ASSUME TypeInv, setting' = setting, NEW p \in Reporters, "meet" \in setting \/ ~Busy(Scanners),
           NEW l, local' = [local EXCEPT ![p] = l]
    PROVE  Apart'
  <1>1. \A q \in Scanners : local'[q] = local[q]
    BY Others, TransientsAssumption DEF Procs
  <1> QED BY <1>1 DEF Apart, Busy

LEMMA InvDrain ==
    ASSUME Undisturbed, IInv, NEW p \in Reporters, Drain(p)
    PROVE  IInv'
  <1>0. p \in Procs /\ TypeInv /\ TypeInv' /\ TypeOK
    BY TypeDrain DEF IInv, TypeInv, Procs
  <1>1. PICK drained : drained = Unshown(Range(queue))
    OBVIOUS
  <1>2. PICK l : l = IF drained = {} THEN Idle
                     ELSE [step |-> "report", hand |-> drained, rest |-> {}]
    OBVIOUS
  <1>3. /\ UNCHANGED <<setting, due, printed, kills>>
        /\ queue' = <<>> /\ ledger' = Marked(drained) /\ local[p] = Idle
        /\ "meet" \in setting \/ ~Busy(Scanners)
        /\ local' = [local EXCEPT ![p] = l]
    BY <1>1, <1>2 DEF Drain, Fetching, Become, topology, history, counts
  <1>4. drained \in SUBSET Range(queue) /\ drained \in SUBSET Transient /\ Few(drained)
    BY <1>0, <1>1, InHandFacts, Queueful, FewFacts
  <1>5. Learns /\ GivesUp
    BY <1>3, SamePrinted, SameDue
  <1>6. l.step \in {"idle", "report"} /\ l.hand = drained /\ l.rest = {}
        /\ (drained # {} => l.step = "report")
    BY <1>2 DEF Idle
  <1>7. /\ Scanned(l) = {} /\ Scanned(local[p]) = {} /\ Holding(l) = drained
        /\ Holding(local[p]) = {} /\ Told(l) = drained /\ Told(local[p]) = {}
        /\ local[p].hand = {} /\ local[p].rest = {}
    BY <1>3, <1>6 DEF Scanned, Holding, Told, Idle
  <1>8. \A q \in Procs : local'[q] = IF q = p THEN l ELSE local[q]
    BY <1>0, <1>3, Others
  <1>9. Apart' /\ Removing' /\ Timely'
    BY <1>0, <1>3, <1>5, <1>6, <1>7, ApartAtFetch, RemovingStays, TimelyStays DEF IInv
  <1>10. Range(ledger') \subseteq Range(ledger) \cup drained
    BY <1>0, <1>3, <1>4, MarkedFacts DEF Few
  <1>11. Range(queue') = {}
    BY <1>3 DEF Range
  <1>12. ASSUME kills = 0  PROVE Accounted' /\ Safe' /\ Recent'
    <2>0. Accounted /\ Safe /\ Recent
      BY <1>12 DEF IInv
    <2>1. Accounted'
      <3> SUFFICES ASSUME NEW w \in Range(ledger')  PROVE Known(w)' \/ Telling(w)'
        BY DEF Accounted
      <3>1. CASE Known(w)
        BY <1>3, <3>1 DEF Known, Knows
      <3>2. CASE Telling(w)
        <4>1. PICK q \in Procs : \E v \in Told(local[q]) :
                                    Alike(v, w) /\ ("meet" \in setting \/ v = w)
          BY <3>2 DEF Telling
        <4>2. \E v \in Told(local'[q]) : Alike(v, w) /\ ("meet" \in setting' \/ v = w)
          BY <1>3, <1>7, <1>8, <4>1
        <4> QED BY <4>2 DEF Telling, Told, Alike
      <3>3. CASE w \in drained
        <4>1. w \in Told(local'[p])
          BY <1>0, <1>7, <1>8, <3>3
        <4> QED BY <1>0, <4>1 DEF Telling, Told, Alike
      <3> QED BY <1>10, <2>0, <3>1, <3>2, <3>3 DEF Accounted
    <2>2. Safe'
      <3> SUFFICES ASSUME NEW x \in Pairs, due'[x] # NoCallee
                   PROVE  Knows(x, due[x])' \/ Waits(x, due[x])'
        BY DEF Safe
      <3>1. PICK c : c = due[x] /\ c = due'[x]
        BY <1>3
      <3>2. Knows(x, c) \/ Waits(x, c)
        BY <2>0, <3>1 DEF Safe
      <3>3. Knows(x, c) => Knows(x, c)'
        BY <1>3 DEF Knows
      <3>4. \A q \in Procs : Holding(local[q]) \subseteq Holding(local'[q])
        BY <1>7, <1>8
      <3>5. CASE \E w \in Range(queue) : w.id = x /\ w.callee = c
        <4>1. PICK w \in Range(queue) : w.id = x /\ w.callee = c
          BY <3>5
        <4>2. CASE w \in Range(ledger)
          <5>1. Known(w) \/ Telling(w)
            BY <2>0, <4>2 DEF Accounted
          <5>2. \A q \in Procs : Told(local[q]) \subseteq Holding(local'[q])
            BY <3>4 DEF Told, Holding
          <5>3. Telling(w) => \E q \in Procs : \E v \in Holding(local'[q]) : v.id = x /\ v.callee = c
            BY <4>1, <5>2 DEF Telling, Alike
          <5> QED BY <3>1, <3>3, <4>1, <5>1, <5>3 DEF Known, Knows, Waits, Holding
        <4>3. CASE w \notin Range(ledger)
          <5>1. w \in drained
            BY <1>1, <4>3 DEF Unshown
          <5>2. w \in Holding(local'[p])
            BY <1>0, <1>7, <1>8, <5>1
          <5>3. \E q \in Procs : \E v \in Holding(local'[q]) : v.id = x /\ v.callee = c
            BY <1>0, <4>1, <5>2
          <5> QED BY <3>1, <5>3 DEF Waits, Holding
        <4> QED BY <4>2, <4>3
      <3>6. CASE ~ \E w \in Range(queue) : w.id = x /\ w.callee = c
        <4>1. Waits(x, c) => \E q \in Procs : \E w \in Holding(local'[q]) : w.id = x /\ w.callee = c
          BY <3>4, <3>6 DEF Waits
        <4> QED BY <3>1, <3>2, <3>3, <4>1 DEF Knows, Waits, Holding
      <3> QED BY <3>5, <3>6
    <2>3. Recent'
      <3>1. PICK all : all = Range(queue) \cup local[p].hand \cup local[p].rest
        OBVIOUS
      <3>2. /\ \A v \in Range(queue') : \E w \in all : Alike(v, w)
            /\ l.hand \cup l.rest \subseteq all
        BY <1>4, <1>6, <1>11, <3>1
      <3> QED BY <1>0, <1>3, <1>5, <1>7, <2>0, <3>1, <3>2, RecentStays
    <2> QED BY <2>1, <2>2, <2>3
  <1> QED BY <1>0, <1>3, <1>9, <1>12, NobodyKilled

LEMMA InvPeek ==
    ASSUME Undisturbed, IInv, NEW p \in Reporters, Peek(p)
    PROVE  IInv'
  <1>0. p \in Procs /\ TypeInv /\ TypeInv'
    BY TypePeek DEF IInv, Procs
  <1>1. PICK l : l = [step |-> "page", hand |-> Range(queue), rest |-> {}]
    OBVIOUS
  <1>2. /\ UNCHANGED <<setting, queue, ledger, due, printed, kills>>
        /\ local[p] = Idle /\ ("meet" \in setting \/ ~Busy(Scanners))
        /\ local' = [local EXCEPT ![p] = l]
    BY <1>1 DEF Peek, Fetching, Become, topology, files, history, counts
  <1>3. Learns /\ GivesUp
    BY <1>2, SamePrinted, SameDue
  <1>4. /\ l.step = "page" /\ l.hand = Range(queue) /\ l.rest = {}
        /\ Scanned(l) = {} /\ Scanned(local[p]) = {} /\ Holding(local[p]) = {}
        /\ Told(local[p]) = {}
    BY <1>1, <1>2 DEF Scanned, Holding, Told, Idle
  <1>5. Apart' /\ Removing' /\ Timely'
    BY <1>0, <1>2, <1>3, <1>4, ApartAtFetch, RemovingStays, TimelyStays DEF IInv
  <1>6. ASSUME kills = 0  PROVE Accounted' /\ Safe' /\ Recent'
    <2>0. Accounted /\ Safe /\ Recent
      BY <1>6 DEF IInv
    <2>1. Accounted'
      BY <1>0, <1>2, <1>3, <1>4, <2>0, AccountedStays
    <2>2. \A w \in Range(queue) : \E v \in Range(queue') : Alike(v, w)
      BY <1>2 DEF Alike
    <2>3. Safe'
      BY <1>0, <1>2, <1>3, <1>4, <2>0, <2>2, SafeStays
    <2>4. Recent'
      <3>1. PICK all : all = Range(queue) \cup local[p].hand \cup local[p].rest
        OBVIOUS
      <3>2. /\ \A v \in Range(queue') : \E w \in all : Alike(v, w)
            /\ l.hand \cup l.rest \subseteq all
        BY <1>2, <1>4, <3>1 DEF Alike
      <3> QED BY <1>0, <1>2, <1>3, <1>4, <2>0, <3>1, <3>2, RecentStays
    <2> QED BY <2>1, <2>3, <2>4
  <1> QED BY <1>0, <1>2, <1>5, <1>6, NobodyKilled

\* After a kill nothing is promised but what no process can take with it.
LEMMA InvKill ==
    ASSUME IInv, NEW p \in Procs, Kill(p)
    PROVE  IInv'
  <1>0. TypeInv /\ TypeInv'
    BY TypeKill DEF IInv
  <1>1. UNCHANGED <<setting, due, printed>> /\ kills' = kills + 1
    BY DEF Kill, topology, history
  <1>2. Learns /\ GivesUp
    BY <1>1, SamePrinted, SameDue
  <1>3. kills' # 0
    BY <1>0, <1>1 DEF TypeInv, TypeOK
  <1>4. Apart' /\ Removing' /\ Timely'
    <2>1. CASE local[p] # Idle /\ local' = [local EXCEPT ![p] = Idle]
      <3>1. Scanned(Idle) = {} /\ Idle.step = "idle"
        BY DEF Scanned, Idle
      <3> QED BY <1>0, <1>1, <1>2, <2>1, <3>1, ApartStays, RemovingStays, TimelyStays DEF IInv
    <2>2. CASE local' = local
      <3>1. Apart'
        BY <1>1, <2>2 DEF IInv, Apart, Busy
      <3>2. Removing'
        BY <1>1, <2>2 DEF IInv, Removing, Known, Knows
      <3>3. Timely'
        BY <1>1, <2>2 DEF IInv, Timely, Scanned, Due
      <3> QED BY <3>1, <3>2, <3>3
    <2> QED BY <2>1, <2>2 DEF Kill, Become
  <1> QED BY <1>0, <1>3, <1>4 DEF IInv

LEMMA InvStep ==
    ASSUME Undisturbed, IInv, [Next]_vars
    PROVE  IInv'
  <1>1. CASE UNCHANGED vars
    <2>1. TypeInv'
      BY <1>1, TypeStep DEF IInv
    <2> QED BY <1>1, <2>1 DEF vars, topology, files, history, counts, IInv, Apart, Busy, Removing, Timely,
          Accounted, Safe, Recent, Known, Knows, Telling, Told, Waits, Holding, Scanned, Due, Excused,
          About, Alike
  <1>2. ASSUME NEW p \in Procs, Handle(p)  PROVE IInv'
    BY <1>2, InvRefresh, InvQueue, InvReport, InvUnmark, InvRequeue, InvDeliver, InvPage,
       InvRemove DEF Handle
  <1>3. ASSUME NEW p \in Procs, Kill(p)  PROVE IInv'
    BY <1>3, InvKill
  <1>4. ASSUME NEW p \in Scanners, Scan(p)  PROVE IInv'
    BY <1>4, InvScan
  <1>5. ASSUME NEW p \in Reporters, Drain(p) \/ Peek(p)  PROVE IInv'
    BY <1>5, InvDrain, InvPeek
  <1> QED BY <1>1, <1>2, <1>3, <1>4, <1>5 DEF Next

\* A raise that still describes the callee is in the queue, in hand or was read, if no scan runs
\* beside another or beside a report that does not show all it drained (QueueTransients,
\* DrainTransients, RequeueTransients, RemoveTransients, RefreshTransientCallers).
THEOREM NoneLost ==
    ASSUME Undisturbed  PROVE Spec => []NothingLost
  <1>1. IInv /\ [Next]_vars => IInv'
    BY InvStep
  <1> QED BY InvInit, <1>1, IInvGivesNothingLost, PTL DEF Spec

-----------------------------------------------------------------------------
(* Nothing is shown twice.                                                 *)

\* The ledger has room for what so many scans can raise: none of it is pruned.
Roomy == Cardinality(Pairs) * MaxScans <= MaxReported

\* All the transients there are.
All == Range(ledger) \cup Range(queue) \cup InHand

\* Where callers stay as they are, no key in the ledger ever changes.
Steady == \A w \in All : w.caller = graph[w.id].caller
Counted == IsFiniteSet(All) /\ Cardinality(All) <= Cardinality(Pairs) * scans

\* What was printed is in the ledger; what will be printed is there too, was not yet, and is in
\* one process's hands only.
Printed(w) == StateOf(w) \in Range(printed[w.id])
Recorded == \A w \in Transient : Printed(w) => w \in Range(ledger)
Unheard == \A p \in Procs : \A w \in Told(local[p]) : w \in Range(ledger) /\ ~Printed(w)
Split ==
    /\ \A p, q \in Procs : p # q => Told(local[p]) \cap Told(local[q]) = {}
    /\ \A p \in Procs : local[p].hand \cap local[p].rest = {}

EchoInv ==
    /\ TypeInv
    /\ scans <= MaxScans
    /\ OnlyHooks => Steady /\ Counted /\ Recorded /\ Unheard /\ Split

LEMMA HandsFacts ==
    ASSUME TypeInv
    PROVE  /\ \A p \in Procs : local[p].hand \cup local[p].rest \subseteq All
           /\ Range(ledger) \subseteq All /\ Range(queue) \subseteq All
           /\ All \subseteq Transient
           /\ \A w \in All : w \in Range(ledger) \/ w \in Range(queue)
                             \/ \E p \in Procs : w \in local[p].hand \cup local[p].rest
  <1>1. \A p \in Procs : local[p].hand \cup local[p].rest \subseteq Transient
    BY InHandFacts
  <1>2. InHand \subseteq Transient
    BY <1>1 DEF InHand
  <1>3. queue \in Seq(Transient) /\ ledger \in Seq(Transient)
    BY DEF TypeInv, TypeOK
  <1>4. Range(queue) \subseteq Transient /\ Range(ledger) \subseteq Transient
    BY <1>3 DEF Range
  <1> QED BY <1>2, <1>4 DEF All, InHand

\* Told is in hand.
LEMMA ToldFacts ==
    ASSUME TypeInv, NEW p \in Procs
    PROVE  /\ Told(local[p]) \subseteq local[p].hand \cup local[p].rest
           /\ Told(local[p]) \subseteq Transient
  <1>1. Told(local[p]) \subseteq local[p].hand \cup local[p].rest
    BY DEF Told
  <1>2. local[p].hand \subseteq Transient /\ local[p].rest \subseteq Transient
    BY InHandFacts
  <1> QED BY <1>1, <1>2

\* A step that only passes on what there is.
LEMMA AllShrinks ==
    ASSUME TypeInv, NEW p \in Procs, NEW l, local' = [local EXCEPT ![p] = l],
           Range(ledger') \subseteq All, Range(queue') \subseteq All,
           l.hand \cup l.rest \subseteq All
    PROVE  All' \subseteq All
  <1>1. \A q \in Procs : local'[q] = IF q = p THEN l ELSE local[q]
    BY Others
  <1>2. \A q \in Procs : local'[q].hand \cup local'[q].rest \subseteq All
    BY <1>1, HandsFacts
  <1>3. InHand' \subseteq All
    BY <1>2 DEF InHand
  <1> QED BY <1>3 DEF All

LEMMA CountedStays ==
    ASSUME TypeInv, Counted, scans' = scans, All' \subseteq All
    PROVE  Counted'
  <1>1. IsFiniteSet(All) /\ IsFiniteSet(All') /\ Cardinality(All') <= Cardinality(All)
    BY FS_Subset DEF Counted
  <1>2. Cardinality(All) \in Nat /\ Cardinality(All') \in Nat
    BY <1>1, FS_CardinalityType
  <1>3. PICK n : n = Cardinality(Pairs) * scans
    OBVIOUS
  <1>4. n \in Nat
    <2>1. Cardinality(Pairs) \in Nat /\ scans \in Nat
      BY TransientsAssumption, FS_CardinalityType DEF TypeInv, TypeOK
    <2> QED BY <1>3, <2>1
  <1>5. Cardinality(All') <= n
    BY <1>1, <1>2, <1>3, <1>4 DEF Counted
  <1> QED BY <1>1, <1>3, <1>5 DEF Counted

\* The step of one process, where nothing is printed and the graph stays.
LEMMA EchoStays ==
    ASSUME EchoInv, TypeInv', OnlyHooks,
           UNCHANGED <<setting, graph, printed, scans>>,
           NEW p \in Procs, NEW l, local' = [local EXCEPT ![p] = l],
           Range(ledger') \subseteq All, Range(queue') \subseteq All,
           l.hand \cup l.rest \subseteq All,
           \A w \in Range(ledger) : w \notin Range(ledger') =>
                w \in Told(local[p]) /\ w \notin Told(l),
           \A w \in Told(l) : w \in Range(ledger') /\ ~Printed(w)
                              /\ \A q \in Procs : q # p => w \notin Told(local[q]),
           l.hand \cap l.rest = {}
    PROVE  EchoInv'
  <1>0. TypeInv /\ Steady /\ Counted /\ Recorded /\ Unheard /\ Split
    BY DEF EchoInv
  <1>1. All' \subseteq All
    BY <1>0, AllShrinks
  <1>2. Steady'
    BY <1>0, <1>1 DEF Steady
  <1>3. Counted'
    BY <1>0, <1>1, CountedStays
  <1>4. \A q \in Procs : local'[q] = IF q = p THEN l ELSE local[q]
    BY <1>0, Others
  <1>5. \A w : Printed(w)' <=> Printed(w)
    BY DEF Printed
  <1>6. Recorded'
    <2> SUFFICES ASSUME NEW w \in Transient, Printed(w)  PROVE w \in Range(ledger')
      BY <1>5 DEF Recorded
    <2>1. w \in Range(ledger)
      BY <1>0 DEF Recorded
    <2>2. w \notin Told(local[p])
      BY <1>0 DEF Unheard
    <2> QED BY <2>1, <2>2
  <1>7. Unheard'
    <2> SUFFICES ASSUME NEW q \in Procs, NEW w \in Told(local'[q])
                 PROVE  w \in Range(ledger') /\ ~Printed(w)
      BY <1>5 DEF Unheard, Told
    <2>1. CASE q = p
      BY <1>4, <2>1
    <2>2. CASE q # p
      <3>1. w \in Told(local[q])
        BY <1>4, <2>2
      <3>2. w \in Range(ledger) /\ ~Printed(w) /\ w \notin Told(local[p])
        BY <1>0, <2>2, <3>1 DEF Unheard, Split
      <3> QED BY <3>2
    <2> QED BY <2>1, <2>2
  <1>8. Split'
    <2>1. ASSUME NEW q \in Procs, NEW r \in Procs, q # r
          PROVE  Told(local'[q]) \cap Told(local'[r]) = {}
      <3>1. CASE q = p
        BY <1>4, <2>1, <3>1
      <3>2. CASE r = p
        BY <1>4, <2>1, <3>2
      <3>3. CASE q # p /\ r # p
        BY <1>0, <1>4, <2>1, <3>3 DEF Split
      <3> QED BY <3>1, <3>2, <3>3
    <2>2. \A q \in Procs : local'[q].hand \cap local'[q].rest = {}
      BY <1>0, <1>4 DEF Split
    <2> QED BY <2>1, <2>2 DEF Split, Told
  <1>9. (scans <= MaxScans)'
    BY TransientsAssumption DEF EchoInv
  <1> QED BY <1>2, <1>3, <1>6, <1>7, <1>8, <1>9 DEF EchoInv

LEMMA CountedFits ==
    ASSUME Roomy, TypeInv, scans <= MaxScans, Counted
    PROVE  Cardinality(All) <= MaxReported
  <1>1. PICK n \in Nat : n = Cardinality(Pairs)
    BY TransientsAssumption, FS_CardinalityType
  <1>2. PICK k \in Nat : k = Cardinality(All)
    BY FS_CardinalityType DEF Counted
  <1>3. scans \in Nat /\ MaxScans \in Nat /\ MaxReported \in Nat
    BY TransientsAssumption DEF TypeInv, TypeOK
  <1>4. n * scans <= n * MaxScans
    BY <1>3
  <1>5. k <= n * scans /\ n * MaxScans <= MaxReported
    BY <1>1, <1>2 DEF Counted, Roomy
  <1>6. n * scans \in Nat /\ n * MaxScans \in Nat
    BY <1>3
  <1>7. k <= MaxReported
    BY ONLY <1>3, <1>4, <1>5, <1>6, k \in Nat
  <1> QED BY <1>2, <1>7

-----------------------------------------------------------------------------
\* Where callers stay as they are, RefreshTransientCallers finds nothing to do.
LEMMA NothingToRefresh ==
    ASSUME TypeInv, Steady
    PROVE  RefreshedQueue = queue /\ RefreshedLedger = ledger
  <1>0. /\ queue \in Seq(Transient) /\ ledger \in Seq(Transient) /\ IsInjective(ledger)
        /\ graph \in [Pairs -> State]
    BY DEF TypeInv, TypeOK
  <1>1. ASSUME NEW w \in All  PROVE Refreshed(w) = w
    <2>1. w \in Transient /\ w.caller = graph[w.id].caller
      BY HandsFacts DEF Steady
    <2>2. CASE graph[w.id].callee = w.callee
      BY <2>1, <2>2 DEF Refreshed, Of, Transient
    <2>3. CASE graph[w.id].callee # w.callee
      BY <2>3 DEF Refreshed
    <2> QED BY <2>2, <2>3
  <1>2. /\ \A i \in DOMAIN queue : Refreshed(queue[i]) = queue[i]
        /\ \A i \in DOMAIN ledger : Refreshed(ledger[i]) = ledger[i]
    BY <1>1 DEF All, Range
  <1>3. RefreshedQueue = queue
    <2>1. DOMAIN queue = 1 .. Len(queue) /\ queue = [i \in DOMAIN queue |-> queue[i]]
      BY <1>0
    <2> QED BY <1>2, <2>1 DEF RefreshedQueue
  <1>4. RefreshedLedger = ledger
    <2> DEFINE New == [i \in DOMAIN ledger |->
                          IF Latest(i) THEN Refreshed(ledger[i]) ELSE ledger[i]]
               D == {i \in DOMAIN ledger :
                      ~ \E j \in i + 1 .. Len(ledger) : Latest(j) /\ New[j] = ledger[i]}
    <2>1. RefreshedLedger = Pick(New, D)
      BY DEF RefreshedLedger
    <2>2. New = ledger
      <3>1. ledger = [i \in DOMAIN ledger |-> ledger[i]]
        BY <1>0
      <3> QED BY <1>2, <3>1
    <2>3. D = DOMAIN ledger
      <3> HIDE DEF New
      <3> SUFFICES ASSUME NEW i \in DOMAIN ledger, NEW j \in i + 1 .. Len(ledger),
                          New[j] = ledger[i]
                   PROVE  FALSE
        OBVIOUS
      <3>1. DOMAIN ledger = 1 .. Len(ledger) /\ Len(ledger) \in Nat
        BY <1>0
      <3>2. j \in DOMAIN ledger /\ i # j
        BY <3>1
      <3> QED BY <1>0, <2>2, <3>2 DEF IsInjective
    <2> HIDE DEF New, D
    <2>4. Pick(ledger, DOMAIN ledger) = ledger
      BY <1>0, PickAll
    <2> QED BY <2>1, <2>2, <2>3, <2>4
  <1> QED BY <1>3, <1>4

LEMMA EchoRefresh ==
    ASSUME EchoInv, OnlyHooks, NEW p \in Procs, RefreshTransientCallers(p)
    PROVE  EchoInv'
  <1>0. TypeInv /\ TypeInv' /\ TypeOK /\ Steady /\ Split
    BY TypeRefresh DEF EchoInv, TypeInv
  <1>1. PICK l : l = [local[p] EXCEPT !.step = "queue"]
    OBVIOUS
  <1>2. /\ l.step = "queue" /\ l.hand = local[p].hand /\ l.rest = local[p].rest
        /\ local' = [local EXCEPT ![p] = l]
    BY <1>0, <1>1, InHandFacts DEF RefreshTransientCallers, Go, TypeOK, Local
  <1>3. /\ UNCHANGED <<setting, graph, printed, scans>>
        /\ queue' = queue /\ ledger' = ledger
    BY <1>0, NothingToRefresh DEF RefreshTransientCallers, topology, history, counts
  <1>4. Told(l) = {}
    BY <1>2 DEF Told
  <1>5. l.hand \cup l.rest \subseteq All /\ Range(ledger') \subseteq All /\ Range(queue') \subseteq All
    BY <1>0, <1>2, <1>3, HandsFacts
  <1>6. l.hand \cap l.rest = {}
    BY <1>0, <1>2 DEF Split
  <1> QED BY <1>0, <1>2, <1>3, <1>4, <1>5, <1>6, EchoStays

LEMMA QueuedFrom ==
    ASSUME TypeInv, NEW fresh \in SUBSET Transient, Few(fresh)
    PROVE  Range(Queued(fresh)) \subseteq Range(queue) \cup fresh
  <1>1. TypeOK /\ IsFiniteSet(fresh) /\ Unique(fresh)
    BY DEF TypeInv, Few
  <1>2. Range(Queued(fresh)) \subseteq Range(Merged(fresh))
    BY <1>1, QueuedFacts
  <1>3. Range(Merged(fresh)) \subseteq Range(queue) \cup fresh
    BY <1>1, MergedFacts
  <1> QED BY <1>2, <1>3

LEMMA EchoQueue ==
    ASSUME EchoInv, OnlyHooks, NEW p \in Procs, QueueTransients(p)
    PROVE  EchoInv'
  <1>0. TypeInv /\ TypeInv'
    BY TypeQueue DEF EchoInv
  <1>1. "print_own" \notin setting
    BY DEF OnlyHooks
  <1>2. /\ local' = [local EXCEPT ![p] = Idle] /\ local[p].step = "queue"
        /\ UNCHANGED <<setting, graph, printed, scans, ledger>>
        /\ queue' = Queued(local[p].hand)
    BY <1>1 DEF QueueTransients, Become, topology, counts
  <1>3. Told(local[p]) = {} /\ Told(Idle) = {} /\ Idle.hand = {} /\ Idle.rest = {}
    BY <1>2 DEF Told, Idle
  <1>4. Range(queue') \subseteq Range(queue) \cup local[p].hand
    BY <1>0, <1>2, InHandFacts, QueuedFrom
  <1>5. Range(queue') \subseteq All /\ Range(ledger') \subseteq All
    BY <1>0, <1>2, <1>4, HandsFacts
  <1> QED BY <1>0, <1>2, <1>3, <1>5, EchoStays

LEMMA EchoReport ==
    ASSUME EchoInv, OnlyHooks, NEW p \in Procs, Report(p)
    PROVE  EchoInv'
  <1>0. TypeInv /\ TypeInv' /\ Unheard /\ Split
    BY TypeReport DEF EchoInv
  <1>1. PICK shown \in SUBSET local[p].hand :
            Become(p, [step |-> IF shown = local[p].hand THEN "print" ELSE "unmark",
                       hand |-> shown, rest |-> local[p].hand \ shown])
    BY DEF Report
  <1>2. PICK l : l = [step |-> IF shown = local[p].hand THEN "print" ELSE "unmark",
                      hand |-> shown, rest |-> local[p].hand \ shown]
    OBVIOUS
  <1>3. local' = [local EXCEPT ![p] = l]
    BY <1>1, <1>2 DEF Become
  <1>4. /\ local[p].step = "report"
        /\ UNCHANGED <<setting, graph, queue, ledger, printed, scans>>
    BY DEF Report, topology, files, history, counts
  <1>5. /\ l.step \in {"print", "unmark"} /\ l.hand \cup l.rest = local[p].hand
        /\ l.step = "print" => l.hand = local[p].hand
        /\ l.hand \cap l.rest = {}
    BY <1>1, <1>2
  <1>6. Told(l) = local[p].hand /\ Told(local[p]) = local[p].hand
    BY <1>4, <1>5 DEF Told
  <1>7. \A w \in Told(l) : w \in Range(ledger') /\ ~Printed(w)
                           /\ \A q \in Procs : q # p => w \notin Told(local[q])
    BY <1>0, <1>4, <1>6 DEF Unheard, Split
  <1>8. l.hand \cup l.rest \subseteq All /\ Range(ledger') \subseteq All /\ Range(queue') \subseteq All
    BY <1>0, <1>4, <1>5, HandsFacts
  <1> QED BY <1>0, <1>3, <1>4, <1>5, <1>7, <1>8, EchoStays

LEMMA EchoUnmark ==
    ASSUME EchoInv, OnlyHooks, NEW p \in Procs, Unmark(p)
    PROVE  EchoInv'
  <1>0. TypeInv /\ TypeInv' /\ TypeOK /\ Unheard /\ Split
    BY TypeUnmark DEF EchoInv, TypeInv
  <1>1. PICK l : l = [local[p] EXCEPT !.step = "requeue"]
    OBVIOUS
  <1>2. /\ l.step = "requeue" /\ l.hand = local[p].hand /\ l.rest = local[p].rest
        /\ local[p].step = "unmark" /\ local' = [local EXCEPT ![p] = l]
    BY <1>0, <1>1, InHandFacts DEF Unmark, Go, TypeOK, Local
  <1>3. /\ UNCHANGED <<setting, graph, queue, printed, scans>>
        /\ ledger' = Without(ledger, local[p].rest)
    BY DEF Unmark, topology, history, counts
  <1>4. Told(l) = l.hand /\ Told(local[p]) = l.hand \cup l.rest /\ l.hand \cap l.rest = {}
    BY <1>0, <1>2 DEF Told, Split
  <1>5. Range(ledger') = Range(ledger) \ l.rest
    <2>1. ledger \in Seq(Transient)
      BY <1>0 DEF TypeOK
    <2> QED BY <1>2, <1>3, <2>1, WithoutFacts
  <1>6. \A w \in Told(l) : w \in Range(ledger') /\ ~Printed(w)
                           /\ \A q \in Procs : q # p => w \notin Told(local[q])
    BY <1>0, <1>4, <1>5 DEF Unheard, Split
  <1>7. l.hand \cup l.rest \subseteq All /\ Range(ledger') \subseteq All /\ Range(queue') \subseteq All
    BY <1>0, <1>2, <1>3, <1>5, HandsFacts
  <1>8. \A w \in Range(ledger) : w \notin Range(ledger') => w \in Told(local[p]) /\ w \notin Told(l)
    BY <1>4, <1>5
  <1> QED BY <1>0, <1>2, <1>3, <1>4, <1>6, <1>7, <1>8, EchoStays

LEMMA EchoRequeue ==
    ASSUME EchoInv, OnlyHooks, NEW p \in Procs, Requeue(p)
    PROVE  EchoInv'
  <1>0. TypeInv /\ TypeInv' /\ Unheard /\ Split
    BY TypeRequeue DEF EchoInv
  <1>1. PICK l : l = [local[p] EXCEPT !.step = "print", !.rest = {}]
    OBVIOUS
  <1>2. /\ l.step = "print" /\ l.hand = local[p].hand /\ l.rest = {}
        /\ local[p].step = "requeue" /\ local' = [local EXCEPT ![p] = l]
    BY <1>0, <1>1, InHandFacts DEF Requeue, Become, Local
  <1>3. /\ UNCHANGED <<setting, graph, printed, scans, ledger>>
        /\ queue' = Queued(local[p].rest)
    BY DEF Requeue, topology, counts
  <1>4. Told(l) = l.hand /\ Told(local[p]) = l.hand
    BY <1>2 DEF Told
  <1>5. \A w \in Told(l) : w \in Range(ledger') /\ ~Printed(w)
                           /\ \A q \in Procs : q # p => w \notin Told(local[q])
    BY <1>0, <1>3, <1>4 DEF Unheard, Split
  <1>6. Range(queue') \subseteq Range(queue) \cup local[p].rest
    BY <1>0, <1>3, InHandFacts, QueuedFrom
  <1>7. l.hand \cup l.rest \subseteq All /\ Range(ledger') \subseteq All /\ Range(queue') \subseteq All
    BY <1>0, <1>2, <1>3, <1>6, HandsFacts
  <1>8. l.hand \cap l.rest = {} /\ ledger' = ledger
    BY <1>2, <1>3
  <1>9. UNCHANGED <<setting, graph, printed, scans>> /\ local' = [local EXCEPT ![p] = l]
    BY <1>2, <1>3
  <1> QED BY <1>0, <1>5, <1>7, <1>8, <1>9, EchoStays

\* While the ledger has room it keeps what it has.
LEMMA MarkedInFull ==
    ASSUME TypeInv, NEW ws \in SUBSET Transient, IsFiniteSet(ws),
           NEW S, IsFiniteSet(S), Range(ledger) \cup ws \subseteq S, Cardinality(S) <= MaxReported
    PROVE  Range(Marked(ws)) = Range(ledger) \cup ws
  <1>0. ledger \in Seq(Transient) /\ IsInjective(ledger)
    BY DEF TypeInv, TypeOK
  <1>1. PICK old \in Seq(Transient) : old = Without(ledger, ws)
    BY <1>0, WithoutFacts
  <1>2. Range(old) = Range(ledger) \ ws /\ IsInjective(old)
    BY <1>0, <1>1, WithoutFacts
  <1>3. PICK new \in Seq(Transient) : new = SetToSeq(ws)
    BY ListFacts
  <1>4. Range(new) = ws /\ IsInjective(new)
    BY <1>3, ListFacts
  <1>5. PICK all \in Seq(Transient) : all = old \o new
    BY ConcatFacts
  <1>6. Range(all) = Range(ledger) \cup ws
    BY <1>2, <1>4, <1>5, ConcatFacts
  <1>7. IsInjective(all)
    BY <1>2, <1>4, <1>5, ConcatFacts
  <1>8. Len(all) <= MaxReported
    <2>1. Len(all) = Cardinality(Range(all))
      BY <1>7, InjectiveLength
    <2>2. Cardinality(Range(all)) <= Cardinality(S) /\ IsFiniteSet(Range(all))
      BY <1>6, FS_Subset
    <2>3. Cardinality(S) \in Nat /\ Cardinality(Range(all)) \in Nat /\ MaxReported \in Nat
      BY <2>2, TransientsAssumption, FS_CardinalityType
    <2> QED BY <2>1, <2>2, <2>3
  <1>9. ~(Len(all) > MaxReported)
    <2>1. Len(all) \in Nat /\ MaxReported \in Nat
      BY TransientsAssumption
    <2> QED BY <1>8, <2>1
  <1>10. Marked(ws) = all
    BY <1>1, <1>3, <1>5, <1>9 DEF Marked
  <1> QED BY <1>6, <1>10

LEMMA EchoDrain ==
    ASSUME Roomy, EchoInv, OnlyHooks, NEW p \in Reporters, Drain(p)
    PROVE  EchoInv'
  <1>0. p \in Procs /\ TypeInv /\ TypeInv' /\ Recorded /\ Unheard /\ Counted
    BY TypeDrain DEF EchoInv, Procs
  <1>1. PICK drained : drained = Unshown(Range(queue))
    OBVIOUS
  <1>2. PICK l : l = IF drained = {} THEN Idle
                     ELSE [step |-> "report", hand |-> drained, rest |-> {}]
    OBVIOUS
  <1>3. /\ UNCHANGED <<setting, graph, printed, scans>>
        /\ queue' = <<>> /\ ledger' = Marked(drained)
        /\ local' = [local EXCEPT ![p] = l] /\ local[p] = Idle
    BY <1>1, <1>2 DEF Drain, Fetching, topology, history, counts, Become
  <1>4. /\ drained \in SUBSET Transient /\ IsFiniteSet(drained)
        /\ drained \subseteq Range(queue) /\ drained \cap Range(ledger) = {}
    <2>1. drained \in SUBSET Range(queue) /\ Few(Range(queue)) /\ Range(queue) \in SUBSET Transient
      BY <1>0, <1>1, InHandFacts, Queueful
    <2>2. drained \cap Range(ledger) = {}
      BY <1>1 DEF Unshown
    <2> QED BY <2>1, <2>2, FS_Subset DEF Few
  <1>5. /\ l.hand = drained /\ l.rest = {} /\ Told(l) = drained
        /\ Told(local[p]) = {}
    <2>1. CASE drained = {}
      BY <1>2, <1>3, <2>1 DEF Told, Idle
    <2>2. CASE drained # {}
      <3>1. l = [step |-> "report", hand |-> drained, rest |-> {}]
        BY <1>2, <2>2
      <3>2. Told(local[p]) = {}
        BY <1>3 DEF Told, Idle
      <3> QED BY <3>1, <3>2 DEF Told
    <2> QED BY <2>1, <2>2
  <1>6. Range(ledger) \cup drained \subseteq All
    BY <1>0, <1>4, HandsFacts
  <1>7. Cardinality(All) <= MaxReported
    BY <1>0, CountedFits DEF EchoInv
  <1>8. Range(ledger') = Range(ledger) \cup drained
    BY <1>0, <1>3, <1>4, <1>6, <1>7, MarkedInFull DEF Counted
  <1>9. ASSUME NEW w \in drained
        PROVE  /\ w \in Range(ledger') /\ ~Printed(w)
               /\ \A q \in Procs : q # p => w \notin Told(local[q])
    BY <1>0, <1>4, <1>8 DEF Recorded, Unheard
  <1>10. Range(queue') = {}
    BY <1>3 DEF Range
  <1>11. l.hand \cup l.rest \subseteq All /\ Range(ledger') \subseteq All /\ Range(queue') \subseteq All
    BY <1>5, <1>6, <1>8, <1>10
  <1>12. l.hand \cap l.rest = {} /\ Range(ledger) \subseteq Range(ledger')
    BY <1>5, <1>8
  <1> QED BY <1>0, <1>3, <1>5, <1>9, <1>11, <1>12, EchoStays

LEMMA EchoKill ==
    ASSUME EchoInv, OnlyHooks, NEW p \in Procs, Kill(p)
    PROVE  EchoInv'
  <1>0. TypeInv /\ TypeInv' /\ Unheard /\ Split
    BY TypeKill DEF EchoInv
  <1>1. UNCHANGED <<setting, graph, ledger, printed, scans>>
    BY DEF Kill, topology, history
  <1>2. Range(ledger') \subseteq All
    BY <1>0, <1>1, HandsFacts
  <1>3. Range(queue') \subseteq All
    <2>1. queue' = queue \/ queue' = <<>>
      BY DEF Kill
    <2>2. Range(queue) \subseteq All /\ Range(<<>>) = {}
      BY <1>0, HandsFacts DEF Range
    <2> QED BY <2>1, <2>2
  <1>4. CASE local' = [local EXCEPT ![p] = Idle]
    <2>1. Told(Idle) = {} /\ Idle.hand = {} /\ Idle.rest = {}
      BY DEF Told, Idle
    <2> QED BY <1>0, <1>1, <1>2, <1>3, <1>4, <2>1, EchoStays
  <1>5. CASE local' = local
    <2>1. PICK l : l = local[p]
      OBVIOUS
    <2>2. local' = [local EXCEPT ![p] = l]
      BY <1>0, <1>5, <2>1 DEF TypeInv, TypeOK
    <2>3. l.hand \cup l.rest \subseteq All /\ l.hand \cap l.rest = {}
      BY <1>0, <2>1, HandsFacts DEF Split
    <2>4. \A w \in Told(l) : w \in Range(ledger') /\ ~Printed(w)
                             /\ \A q \in Procs : q # p => w \notin Told(local[q])
      BY <1>0, <1>1, <2>1 DEF Unheard, Split
    <2> QED BY <1>0, <1>1, <1>2, <1>3, <2>2, <2>3, <2>4, EchoStays
  <1> QED BY <1>4, <1>5 DEF Kill, Become

\* What a hook's output adds to what the agent was shown.
LEMMA Shown ==
    ASSUME TypeInv, NEW ws \in SUBSET Transient, Few(ws), Show(ws)
    PROVE  /\ \A x \in Pairs : Range(Appended(x)) = {StateOf(w) : w \in {v \in ws : v.id = x}}
           /\ \A w \in Transient : Printed(w)' <=> Printed(w) \/ w \in ws
  <1> DEFINE Seen(x) == {StateOf(w) : w \in {v \in ws : v.id = x}}
  <1>0. \A x \in Pairs : printed[x] \in Seq(State)
    BY DEF TypeInv, TypeOK
  <1>1. \A x \in Pairs : Seen(x) \in SUBSET State /\ IsFiniteSet(Seen(x))
    <2> TAKE x \in Pairs
    <2>1. PICK mine : mine = {v \in ws : v.id = x}
      OBVIOUS
    <2>2. IsFiniteSet(mine) /\ mine \in SUBSET Transient
      <3>1. mine \subseteq ws /\ IsFiniteSet(ws)
        BY <2>1 DEF Few
      <3> QED BY <3>1, FS_Subset
    <2>3. \A w \in mine : StateOf(w) \in State
      BY <2>2 DEF StateOf, Transient, State
    <2>4. PICK f : f = [w \in mine |-> StateOf(w)]
      OBVIOUS
    <2>5. Seen(x) = {StateOf(w) : w \in mine}
      BY <2>1
    <2>6. f \in Surjection(mine, Seen(x))
      BY <2>4, <2>5 DEF Surjection
    <2> HIDE DEF Seen
    <2> QED BY <2>2, <2>3, <2>5, <2>6, FS_Surjection
  <1>2. printed' = [x \in Pairs |-> printed[x] \o SetToSeq(Seen(x))]
    BY DEF Show
  <1> HIDE DEF Seen
  <1>3. ASSUME NEW x \in Pairs
        PROVE  /\ Range(Appended(x)) = Seen(x)
               /\ Range(printed'[x]) = Range(printed[x]) \cup Seen(x)
    <2>1. PICK t \in Seq(State) : t = SetToSeq(Seen(x))
      BY <1>1, ListFacts
    <2>2. Range(t) = Seen(x)
      BY <1>1, <2>1, ListFacts
    <2>3. PICK s \in Seq(State) : s = printed[x]
      BY <1>0
    <2>4. printed'[x] = s \o t
      BY <1>2, <2>1, <2>3
    <2>5. Range(s \o t) = Range(s) \cup Range(t)
      BY ConcatFacts
    <2>6. SubSeq(s \o t, Len(s) + 1, Len(s \o t)) = t
      BY TailOfConcat
    <2> QED BY <2>2, <2>3, <2>4, <2>5, <2>6 DEF Appended
  <1>4. ASSUME NEW w \in Transient
        PROVE  StateOf(w) \in Seen(w.id) <=> w \in ws
    <2>1. ASSUME NEW v \in ws, v.id = w.id, StateOf(v) = StateOf(w)  PROVE v = w
      <3>1. v \in Transient
        OBVIOUS
      <3>2. v.callee = w.callee /\ v.caller = w.caller
        <4>1. StateOf(v).callee = v.callee /\ StateOf(v).caller = v.caller
              /\ StateOf(w).callee = w.callee /\ StateOf(w).caller = w.caller
          BY DEF StateOf
        <4> QED BY <2>1, <4>1
      <3> QED BY <2>1, <3>1, <3>2 DEF Transient
    <2> QED BY <2>1 DEF Seen
  <1>5. \A w \in Transient : Printed(w)' <=> Printed(w) \/ w \in ws
    <2> TAKE w \in Transient
    <2>1. w.id \in Pairs
      BY DEF Transient
    <2> QED BY <1>3, <1>4, <2>1 DEF Printed
  <1> QED BY <1>3, <1>5 DEF Seen

LEMMA EchoDeliver ==
    ASSUME EchoInv, OnlyHooks, NEW p \in Procs, Deliver(p)
    PROVE  /\ EchoInv'
           /\ \A x \in Pairs : Range(Appended(x)) \cap Range(printed[x]) = {}
  <1>0. TypeInv /\ TypeInv' /\ Steady /\ Counted /\ Recorded /\ Unheard /\ Split
    BY TypeDeliver DEF EchoInv
  <1>1. PICK hand \in SUBSET Transient : hand = local[p].hand
    BY <1>0, InHandFacts
  <1>2. /\ Few(hand) /\ Show(hand) /\ local' = [local EXCEPT ![p] = Idle]
        /\ UNCHANGED <<setting, graph, queue, ledger, scans>>
        /\ Told(local[p]) = hand /\ Told(Idle) = {} /\ Idle.hand = {} /\ Idle.rest = {}
    BY <1>0, <1>1, InHandFacts DEF Deliver, Become, Idle, Told, topology, files, counts
  <1>3. /\ \A x \in Pairs : Range(Appended(x)) = {StateOf(w) : w \in {v \in hand : v.id = x}}
        /\ \A w \in Transient : Printed(w)' <=> Printed(w) \/ w \in hand
    BY <1>0, <1>2, Shown
  <1>4. \A x \in Pairs : Range(Appended(x)) \cap Range(printed[x]) = {}
    <2>1. \A w \in hand : ~Printed(w)
      BY <1>0, <1>2 DEF Unheard
    <2> QED BY <1>3, <2>1 DEF Printed
  <1>5. \A q \in Procs : local'[q] = IF q = p THEN Idle ELSE local[q]
    BY <1>0, <1>2, Others
  <1>6. All' \subseteq All
    <2>1. Range(ledger') \subseteq All /\ Range(queue') \subseteq All
      BY <1>0, <1>2, HandsFacts
    <2> QED BY <1>0, <1>2, <2>1, AllShrinks
  <1>7. Steady'
    BY <1>0, <1>2, <1>6 DEF Steady
  <1>8. Counted'
    BY <1>0, <1>2, <1>6, CountedStays
  <1>9. Recorded'
    BY <1>0, <1>2, <1>3 DEF Recorded, Unheard
  <1>10. Unheard'
    <2> SUFFICES ASSUME NEW q \in Procs, NEW w \in Told(local'[q])
                 PROVE  w \in Range(ledger) /\ ~Printed(w)'
      BY <1>2 DEF Unheard, Told
    <2>1. q # p /\ w \in Told(local[q])
      BY <1>2, <1>5
    <2>2. w \in Transient /\ w \notin hand
      BY <1>0, <1>2, <2>1, ToldFacts DEF Split
    <2> QED BY <1>0, <1>3, <2>1, <2>2 DEF Unheard
  <1>11. Split'
    <2>1. ASSUME NEW q \in Procs, NEW r \in Procs, q # r
          PROVE  Told(local'[q]) \cap Told(local'[r]) = {}
      BY <1>0, <1>2, <1>5, <2>1 DEF Split
    <2>2. \A q \in Procs : local'[q].hand \cap local'[q].rest = {}
      BY <1>0, <1>2, <1>5 DEF Split
    <2> QED BY <2>1, <2>2 DEF Split, Told
  <1>12. (scans <= MaxScans)'
    BY <1>2 DEF EchoInv
  <1> QED BY <1>0, <1>4, <1>7, <1>8, <1>9, <1>10, <1>11, <1>12 DEF EchoInv

LEMMA EchoScan ==
    ASSUME EchoInv, OnlyHooks, NEW p \in Scanners, Scan(p)
    PROVE  EchoInv'
  <1>0. p \in Procs /\ TypeInv /\ TypeInv' /\ Steady /\ Counted /\ Recorded /\ Unheard /\ Split
    BY TypeScan DEF EchoInv, Procs
  <1>1. PICK moved : moved = {x \in Pairs : graph'[x].callee # graph[x].callee}
    OBVIOUS
  <1>2. PICK raised \in SUBSET (moved \cup standing) :
            Become(p, [step |-> "refresh", rest |-> {}, hand |-> {Of(x)' : x \in raised}])
    BY ZenonT(60), <1>1 DEF Scan
  <1>3. /\ UNCHANGED <<setting, queue, ledger, printed>>
        /\ graph' \in [Pairs -> State] /\ local[p] = Idle
        /\ scans < MaxScans /\ scans' = scans + 1
        /\ "edited" \in setting \/ \A x \in Pairs : graph'[x].caller = graph[x].caller
    BY DEF Scan, files
  <1>4. \A x \in Pairs : graph'[x].caller = graph[x].caller
    BY <1>3 DEF OnlyHooks
  <1>5. PICK hand : hand = {[id |-> x, callee |-> graph'[x].callee, caller |-> graph'[x].caller] :
                                x \in raised}
    OBVIOUS
  <1>6. PICK l : l = [step |-> "refresh", rest |-> {}, hand |-> hand]
    OBVIOUS
  <1>7. local' = [local EXCEPT ![p] = l]
    BY <1>2, <1>5, <1>6 DEF Become, Of
  <1>8. Told(l) = {} /\ l.hand = hand /\ l.rest = {} /\ Told(local[p]) = {}
    BY <1>3, <1>6 DEF Told, Idle
  <1>9. \A q \in Procs : local'[q] = IF q = p THEN l ELSE local[q]
    BY <1>0, <1>7, Others
  <1>10. raised \in SUBSET Pairs
    <2>1. moved \subseteq Pairs /\ standing \subseteq Pairs
      BY <1>0, <1>1 DEF TypeInv, TypeOK
    <2> QED BY <1>2, <2>1
  <1>11. IsFiniteSet(hand) /\ Cardinality(hand) <= Cardinality(Pairs)
    <2>1. PICK f : f = [x \in raised |-> [id |-> x, callee |-> graph'[x].callee,
                                          caller |-> graph'[x].caller]]
      OBVIOUS
    <2>2. f \in Surjection(raised, hand)
      BY <1>5, <2>1 DEF Surjection
    <2>3. IsFiniteSet(Pairs)
      BY TransientsAssumption
    <2>4. IsFiniteSet(raised) /\ Cardinality(raised) <= Cardinality(Pairs)
      BY <1>10, <2>3, FS_Subset
    <2>5. IsFiniteSet(hand) /\ Cardinality(hand) <= Cardinality(raised)
      BY <2>2, <2>4, FS_Surjection
    <2>6. Cardinality(hand) \in Nat /\ Cardinality(raised) \in Nat /\ Cardinality(Pairs) \in Nat
      BY <2>3, <2>4, <2>5, FS_CardinalityType
    <2> QED BY <2>4, <2>5, <2>6
  <1>12. All' \subseteq All \cup hand
    <2>1. \A q \in Procs : local'[q].hand \cup local'[q].rest \subseteq All \cup hand
      BY <1>0, <1>8, <1>9, HandsFacts
    <2>2. InHand' \subseteq All \cup hand
      BY <2>1 DEF InHand
    <2>3. Range(ledger') \subseteq All /\ Range(queue') \subseteq All
      BY <1>0, <1>3, HandsFacts
    <2> QED BY <2>2, <2>3 DEF All
  <1>13. Steady'
    <2> SUFFICES ASSUME NEW w \in All'  PROVE w.caller = graph'[w.id].caller
      BY DEF Steady
    <2>1. CASE w \in All
      <3>1. w.id \in Pairs /\ w.caller = graph[w.id].caller
        BY <1>0, <2>1, HandsFacts DEF Steady, Transient
      <3> QED BY <1>4, <3>1
    <2>2. CASE w \in hand
      BY <1>5, <2>2
    <2> QED BY <1>12, <2>1, <2>2
  <1>14. Counted'
    <2>1. PICK n \in Nat : n = Cardinality(Pairs)
      BY TransientsAssumption, FS_CardinalityType
    <2>2. PICK k \in Nat : k = Cardinality(All)
      BY <1>0, FS_CardinalityType DEF Counted
    <2>3. PICK h \in Nat : h = Cardinality(hand)
      BY <1>11, FS_CardinalityType
    <2>4. IsFiniteSet(All \cup hand) /\ Cardinality(All \cup hand) <= k + h
      <3>1. /\ IsFiniteSet(All \cup hand)
            /\ Cardinality(All \cup hand) = Cardinality(All) + Cardinality(hand) - Cardinality(All \cap hand)
        BY <1>0, <1>11, FS_Union DEF Counted
      <3>2. Cardinality(All \cap hand) \in Nat
        <4>1. All \cap hand \in SUBSET hand
          OBVIOUS
        <4>2. IsFiniteSet(All \cap hand)
          BY <1>11, <4>1, FS_Subset
        <4> QED BY <4>2, FS_CardinalityType
      <3> QED BY <2>2, <2>3, <3>1, <3>2
    <2>5. IsFiniteSet(All') /\ Cardinality(All') <= Cardinality(All \cup hand)
      BY <1>12, <2>4, FS_Subset
    <2>6. Cardinality(All') \in Nat /\ Cardinality(All \cup hand) \in Nat
      BY <2>4, <2>5, FS_CardinalityType
    <2>7. h <= n /\ k <= n * scans
      BY <1>0, <1>11, <2>1, <2>2, <2>3 DEF Counted
    <2>8. scans \in Nat
      BY <1>0 DEF TypeInv, TypeOK
    <2>9. n * (scans + 1) = n * scans + n
      BY <2>8
    <2>10. n * scans \in Nat
      BY <2>8
    <2>11. Cardinality(All') <= n * (scans + 1)
      BY ONLY <2>4, <2>5, <2>6, <2>7, <2>9, <2>10, n \in Nat, k \in Nat, h \in Nat
    <2> QED BY <1>3, <2>1, <2>5, <2>11 DEF Counted
  <1>15. Recorded'
    BY <1>0, <1>3 DEF Recorded, Printed
  <1>16. \A q \in Procs : Told(local'[q]) = Told(local[q])
    BY <1>8, <1>9
  <1>17. Unheard'
    <2> SUFFICES ASSUME NEW q \in Procs, NEW w \in Told(local'[q])
                 PROVE  w \in Range(ledger') /\ ~Printed(w)'
      BY DEF Unheard, Told
    <2>1. w \in Told(local[q])
      BY <1>16
    <2> QED BY <1>0, <1>3, <2>1 DEF Unheard, Printed
  <1>18. Split'
    <2>1. \A q, r \in Procs : q # r => Told(local'[q]) \cap Told(local'[r]) = {}
      BY <1>0, <1>16 DEF Split
    <2>2. \A q \in Procs : local'[q].hand \cap local'[q].rest = {}
      BY <1>0, <1>8, <1>9 DEF Split
    <2> QED BY <2>1, <2>2 DEF Split, Told
  <1>19. (scans <= MaxScans)'
    <2>1. scans \in Nat /\ MaxScans \in Nat
      BY <1>0, TransientsAssumption DEF TypeInv, TypeOK
    <2> QED BY <1>3, <2>1
  <1> QED BY <1>0, <1>13, <1>14, <1>15, <1>17, <1>18, <1>19 DEF EchoInv

LEMMA EchoInit == Init => EchoInv
  <1> SUFFICES ASSUME Init  PROVE EchoInv
    OBVIOUS
  <1>1. Range(ledger) = {} /\ Range(queue) = {}
    BY DEF Init, Range
  <1>2. \A p \in Procs : local[p] = Idle /\ local[p].hand = {} /\ local[p].rest = {}
    BY DEF Init, Idle
  <1>3. All = {}
    BY <1>1, <1>2 DEF All, InHand
  <1>4. Counted
    <2>1. PICK n \in Nat : n = Cardinality(Pairs)
      BY TransientsAssumption, FS_CardinalityType
    <2>2. IsFiniteSet(All) /\ Cardinality(All) = 0 /\ scans = 0
      BY <1>3, FS_EmptySet DEF Init
    <2>3. n * 0 = 0
      OBVIOUS
    <2> QED BY <2>1, <2>2, <2>3 DEF Counted
  <1>5. Steady
    BY <1>3 DEF Steady
  <1>6. Recorded
    <2> SUFFICES ASSUME NEW w \in Transient  PROVE ~Printed(w)
      BY DEF Recorded
    <2>1. printed[w.id] = <<>>
      BY DEF Init, Transient
    <2> QED BY <2>1 DEF Printed, Range
  <1>7. Unheard /\ Split
    BY <1>2 DEF Unheard, Split, Told, Idle
  <1>8. scans <= MaxScans
    BY TransientsAssumption DEF Init
  <1> QED BY <1>4, <1>5, <1>6, <1>7, <1>8, TypeInit DEF EchoInv

\* Where not only hooks read, of the invariant only the bound on the scans is left.
LEMMA ScansBounded ==
    ASSUME TypeInv, scans <= MaxScans, [Next]_vars
    PROVE  setting' = setting /\ (scans <= MaxScans)'
  <1>0. scans \in Nat /\ MaxScans \in Nat
    BY TransientsAssumption DEF TypeInv, TypeOK
  <1>1. CASE UNCHANGED vars
    BY <1>1 DEF vars, topology, counts
  <1>2. ASSUME NEW p \in Procs, Handle(p) \/ Kill(p)  PROVE UNCHANGED <<setting, scans>>
    BY <1>2 DEF Handle, RefreshTransientCallers, QueueTransients, Report, Unmark, Requeue, Deliver,
       Page, RemoveTransients, Kill, topology, counts
  <1>3. ASSUME NEW p \in Reporters, Drain(p) \/ Peek(p)  PROVE UNCHANGED <<setting, scans>>
    BY <1>3 DEF Drain, Peek, topology, counts
  <1>4. ASSUME NEW p \in Scanners, Scan(p)
        PROVE  setting' = setting /\ scans' = scans + 1 /\ scans < MaxScans
    BY <1>4 DEF Scan
  <1> QED BY <1>0, <1>1, <1>2, <1>3, <1>4 DEF Next

LEMMA NobodyPages ==
    ASSUME TypeInv, OnlyHooks, NEW p \in Procs
    PROVE  local[p].step \notin {"page", "remove"}
  BY InHandFacts DEF OnlyHooks, Fits

LEMMA EchoStep == Roomy /\ EchoInv /\ [Next]_vars => EchoInv'
  <1> SUFFICES ASSUME Roomy, EchoInv, [Next]_vars  PROVE EchoInv'
    OBVIOUS
  <1>0. TypeInv /\ TypeInv' /\ setting' = setting /\ (scans <= MaxScans)'
    BY TypeStep, ScansBounded DEF EchoInv
  <1>1. CASE ~OnlyHooks
    BY <1>0, <1>1 DEF EchoInv, OnlyHooks
  <1>2. CASE OnlyHooks
    <2>1. CASE UNCHANGED vars
      BY <1>0, <2>1 DEF vars, topology, files, history, counts, EchoInv, OnlyHooks, Steady, Counted,
         Recorded, Unheard, Split, All, InHand, Printed, Told
    <2>2. ASSUME NEW p \in Procs, Handle(p)  PROVE EchoInv'
      <3>1. ~Page(p) /\ ~RemoveTransients(p)
        BY <1>0, <1>2, NobodyPages DEF Page, RemoveTransients
      <3> QED BY <1>2, <2>2, <3>1, EchoRefresh, EchoQueue, EchoReport, EchoUnmark, EchoRequeue,
             EchoDeliver DEF Handle
    <2>3. ASSUME NEW p \in Procs, Kill(p)  PROVE EchoInv'
      BY <1>2, <2>3, EchoKill
    <2>4. ASSUME NEW p \in Scanners, Scan(p)  PROVE EchoInv'
      BY <1>2, <2>4, EchoScan
    <2>5. ASSUME NEW p \in Reporters, Drain(p) \/ Peek(p)  PROVE EchoInv'
      <3>1. ~Peek(p)
        BY <1>2 DEF Peek, Fetching, OnlyHooks
      <3> QED BY <1>2, <2>5, <3>1, EchoDrain
    <2> QED BY <2>1, <2>2, <2>3, <2>4, <2>5 DEF Next
  <1> QED BY <1>1, <1>2

\* What a step that shows nothing adds.
LEMMA NothingShown ==
    ASSUME TypeInv, printed' = printed, NEW x \in Pairs
    PROVE  Range(Appended(x)) = {} /\ Len(printed'[x]) = Len(printed[x])
  <1>1. PICK s \in Seq(State) : s = printed[x]
    BY DEF TypeInv, TypeOK
  <1>2. SubSeq(s, Len(s) + 1, Len(s)) = <<>>
    BY <1>1
  <1> QED BY <1>1, <1>2 DEF Appended, Range

LEMMA NothingEchoes ==
    ASSUME EchoInv, [Next]_vars, OnlyHooks, NEW x \in Pairs
    PROVE  Range(Appended(x)) \cap Range(printed[x]) = {}
  <1>0. TypeInv
    BY DEF EchoInv
  <1>1. ASSUME NEW p \in Procs, Deliver(p)  PROVE Range(Appended(x)) \cap Range(printed[x]) = {}
    BY <1>1, EchoDeliver
  <1>2. CASE printed' = printed
    BY <1>0, <1>2, NothingShown
  <1>3. (\E p \in Procs : Deliver(p)) \/ printed' = printed
    <2>1. CASE UNCHANGED vars
      BY <2>1 DEF vars, history
    <2>2. ASSUME NEW p \in Procs, Handle(p)  PROVE Deliver(p) \/ printed' = printed
      <3>1. ~Page(p)
        BY <1>0, NobodyPages DEF Page
      <3> QED BY <2>2, <3>1 DEF Handle, RefreshTransientCallers, QueueTransients, Report, Unmark,
             Requeue, RemoveTransients, history
    <2>3. ASSUME NEW p \in Procs, Kill(p)  PROVE printed' = printed
      BY <2>3 DEF Kill, history
    <2>4. ASSUME NEW p \in Scanners, Scan(p)  PROVE printed' = printed
      BY <2>4 DEF Scan
    <2>5. ASSUME NEW p \in Reporters, Drain(p) \/ Peek(p)  PROVE printed' = printed
      BY <2>5 DEF Drain, Peek, history
    <2> QED BY <2>1, <2>2, <2>3, <2>4, <2>5 DEF Next
  <1> QED BY <1>1, <1>2, <1>3

\* Where hooks are the only readers and callers stay as they are, the agent is shown no pair
\* twice in one state, however scans, drains, cut pages and kills interleave, as long as nothing
\* was pruned from the ledger (markReportedTransients, DrainTransients, RequeueTransients).
THEOREM NeverEchoed == Roomy => (Spec => NoEcho)
  <1> DEFINE Fresh == OnlyHooks => \A x \in Pairs : Range(Appended(x)) \cap Range(printed[x]) = {}
  <1>1. ASSUME Roomy, EchoInv, [Next]_vars  PROVE EchoInv' /\ Fresh
    BY <1>1, EchoStep, NothingEchoes
  <1> SUFFICES ASSUME Roomy  PROVE Spec => NoEcho
    OBVIOUS
  <1>2. EchoInv /\ [Next]_vars => EchoInv' /\ Fresh
    BY <1>1
  <1>3. Spec => [][Fresh]_vars
    BY EchoInit, <1>2, PTL DEF Spec
  <1> QED BY <1>3 DEF NoEcho

-----------------------------------------------------------------------------
(* Nobody is told the same thing twice in a row.                           *)

\* Nothing runs beside anything else, where scans and reports do not meet: one process scans, and
\* there readers wait for each other, nobody dies and nobody prints what its own scan found.
OneAtATime ==
    /\ \A p, q \in Scanners : p = q
    /\ \A s \in Settings : "meet" \notin s => s \cap {"crowd", "print_own", "kill"} = {}

\* What the one process at work, whose state is l, says of the files.
LastSaid(x) == Last(printed[x]).callee
Removed(l) == IF l.step = "remove" THEN About(l.hand) ELSE {}
Waiting(l) == Range(queue) \cup Told(l) \cup l.rest
Extra(l) == IF l.step \in {"refresh", "queue"} THEN l.hand
            ELSE IF l.step = "requeue" THEN l.rest ELSE {}

\* What was last printed of a pair is the last the ledger has of it, but for what is marked and
\* not yet printed.
Stands(l, v) ==
    /\ v \in Range(ledger) \ Told(l)
    /\ \A w \in Range(ledger) \ Told(l) : w.id = v.id => ~Before(ledger, v, w)
Remembered(l) ==
    \A x \in Pairs : printed[x] # <<>> /\ x \notin Removed(l) =>
        \E v \in Transient : v.id = x /\ v.callee = LastSaid(x) /\ Stands(l, v)

\* What waits differs in the callee from what was last printed, unless its removal is under way.
News(l) ==
    \A w \in Waiting(l) : printed[w.id] # <<>> /\ w.id \notin Removed(l) => w.callee # LastSaid(w.id)
JustSaid(l) ==
    l.step = "remove" =>
        \A w \in l.hand : printed[w.id] # <<>> /\ LastSaid(w.id) = w.callee

\* A page is of the queue; what was marked is at the ledger's end, and of pairs of its own.
Paged(l) == l.step \in {"page", "remove"} => l.hand \subseteq Range(queue)
AtTheEnd(l) == \A w \in Told(l) : w \in Range(ledger) /\ Closes(ledger, w)
Away(l) ==
    /\ \A w \in Range(queue), v \in Told(l) : w.id # v.id
    /\ \A w \in l.rest, v \in l.hand : w.id # v.id

\* A scan queues the graph's states; by then the ledger has followed the callers' edits.
Following(l) ==
    /\ l.step \in {"refresh", "queue"} => \A w \in l.hand : w = Of(w.id)
    /\ l.step = "queue" =>
         \A x \in Pairs : printed[x] # <<>> /\ LastSaid(x) = graph[x].callee => Of(x) \in Range(ledger)

\* Every raise takes at most one place in the files.
Measured(l) == Len(ledger) + Len(queue) + Cardinality(Extra(l)) <= Cardinality(Pairs) * scans

Orderly(l) ==
    /\ Remembered(l) /\ News(l) /\ JustSaid(l) /\ Paged(l)
    /\ AtTheEnd(l) /\ Away(l) /\ Following(l) /\ Measured(l)

Sole == \A p, q \in Procs : local[p] # Idle /\ local[q] # Idle => p = q
OthersRest(p) == \A q \in Procs : q # p => local[q] = Idle

NagInv ==
    /\ TypeInv
    /\ scans <= MaxScans
    /\ "meet" \notin setting =>
         /\ Sole
         /\ \A p \in Procs, l \in Local : local[p] = l /\ OthersRest(p) => Orderly(l)

LEMMA UnionSize ==
    ASSUME NEW S, NEW T, IsFiniteSet(S), IsFiniteSet(T)
    PROVE  /\ IsFiniteSet(S \cup T)
           /\ Cardinality(S \cup T) \in Nat /\ Cardinality(S) \in Nat /\ Cardinality(T) \in Nat
           /\ Cardinality(S \cup T) <= Cardinality(S) + Cardinality(T)
  <1>1. /\ IsFiniteSet(S \cup T)
        /\ Cardinality(S \cup T) = Cardinality(S) + Cardinality(T) - Cardinality(S \cap T)
    BY FS_Union
  <1>2. IsFiniteSet(S \cap T)
    <2>1. S \cap T \in SUBSET S
      OBVIOUS
    <2> QED BY <2>1, FS_Subset
  <1>3. /\ Cardinality(S \cap T) \in Nat /\ Cardinality(S \cup T) \in Nat
        /\ Cardinality(S) \in Nat /\ Cardinality(T) \in Nat
    BY <1>1, <1>2, FS_CardinalityType
  <1> QED BY <1>1, <1>3

\* Without loses a place for each of what is there.
LEMMA PartSize ==
    ASSUME NEW S, IsFiniteSet(S), NEW T \in SUBSET S
    PROVE  /\ IsFiniteSet(S \ T) /\ Cardinality(S \ T) \in Nat /\ Cardinality(T) \in Nat
           /\ Cardinality(S) \in Nat
           /\ Cardinality(S \ T) + Cardinality(T) = Cardinality(S)
  <1>1. IsFiniteSet(S \ T) /\ Cardinality(S \ T) = Cardinality(S) - Cardinality(S \cap T)
    BY FS_Difference
  <1>2. S \cap T = T /\ IsFiniteSet(T)
    BY FS_Subset
  <1>3. Cardinality(T) \in Nat /\ Cardinality(S) \in Nat /\ Cardinality(S \ T) \in Nat
    BY <1>1, <1>2, FS_CardinalityType
  <1>4. Cardinality(S \ T) = Cardinality(S) - Cardinality(T)
    BY <1>1, <1>2
  <1>5. Cardinality(S \ T) + Cardinality(T) = Cardinality(S)
    BY ONLY <1>3, <1>4
  <1> QED BY <1>1, <1>3, <1>5

LEMMA DistinctIsInjective ==
    ASSUME NEW s, Distinct(s)
    PROVE  IsInjective(s)
  BY DEF Distinct, IsInjective

\* What a section of QueueTransients leaves in the queue, and how much.
LEMMA QueuedFresh ==
    ASSUME TypeInv, NEW fresh \in SUBSET Transient, Few(fresh)
    PROVE  /\ \A e \in Range(Queued(fresh)) :
                IF e.id \in About(fresh) THEN e \in fresh /\ e \notin Range(ledger)
                                        ELSE e \in Range(queue)
           /\ Len(Queued(fresh)) <= Len(queue) + Cardinality(fresh)
  <1>1. TypeOK /\ IsFiniteSet(fresh) /\ Unique(fresh)
    BY DEF TypeInv, Few
  <1>2. PICK q \in Seq(Transient) : q = Queued(fresh)
    BY <1>1, QueuedFacts
  <1>3. Distinct(q) /\ Range(q) \subseteq Range(Merged(fresh))
    BY <1>1, <1>2, QueuedFacts
  <1>4. \A e \in Range(q) :
            IF e.id \in About(fresh) THEN e \in fresh /\ e \notin Range(ledger)
                                    ELSE e \in Range(queue)
    BY <1>1, <1>3, MergedFacts
  <1>5. queue \in Seq(Transient) /\ Distinct(queue)
    BY <1>1 DEF TypeOK, Distinct
  <1>6. /\ IsFiniteSet(Range(q)) /\ Cardinality(Range(q)) = Len(q)
        /\ IsFiniteSet(Range(queue)) /\ Cardinality(Range(queue)) = Len(queue)
    BY <1>3, <1>5, DistinctIsInjective, InjectiveLength
  <1>7. Range(q) \in SUBSET (Range(queue) \cup fresh)
    BY <1>4
  <1>8. /\ IsFiniteSet(Range(queue) \cup fresh) /\ Cardinality(Range(queue) \cup fresh) \in Nat
        /\ Cardinality(fresh) \in Nat
        /\ Cardinality(Range(queue) \cup fresh) <= Cardinality(Range(queue)) + Cardinality(fresh)
    BY <1>1, <1>6, UnionSize
  <1>9. Cardinality(Range(q)) <= Cardinality(Range(queue) \cup fresh)
    BY <1>7, <1>8, FS_Subset
  <1>10. Len(q) \in Nat /\ Len(queue) \in Nat
    BY <1>5
  <1>11. Len(q) <= Len(queue) + Cardinality(fresh)
    BY <1>6, <1>8, <1>9, <1>10
  <1> QED BY <1>2, <1>4, <1>11

\* What is marked goes to the ledger's end, and the rest keeps its order.
LEMMA MarkedOrder ==
    ASSUME TypeInv, NEW ws \in SUBSET Transient, Few(ws),
           Len(ledger) + Cardinality(ws) <= MaxReported
    PROVE  /\ Range(Marked(ws)) = Range(ledger) \cup ws
           /\ Len(Marked(ws)) <= Len(ledger) + Cardinality(ws)
           /\ \A w \in ws : Closes(Marked(ws), w)
           /\ \A v, w : v \notin ws /\ w \notin ws /\ Before(Marked(ws), v, w) => Before(ledger, v, w)
  <1>0. ledger \in Seq(Transient) /\ IsFiniteSet(ws) /\ Unique(ws)
    BY DEF TypeInv, TypeOK, Few
  <1>1. PICK old \in Seq(Transient) : old = Without(ledger, ws)
    BY <1>0, WithoutFacts
  <1>2. Range(old) = Range(ledger) \ ws /\ Len(old) <= Len(ledger)
    BY <1>0, <1>1, WithoutFacts
  <1>3. PICK new \in Seq(Transient) : new = SetToSeq(ws)
    BY <1>0, ListFacts
  <1>4. Range(new) = ws /\ IsInjective(new)
    BY <1>0, <1>3, ListFacts
  <1>5. Len(new) = Cardinality(ws)
    BY <1>4, InjectiveLength
  <1>6. PICK all \in Seq(Transient) : all = old \o new
    BY ConcatFacts
  <1>7. Range(all) = Range(ledger) \cup ws
    BY <1>2, <1>4, <1>6, ConcatFacts
  <1>8. Len(all) = Len(old) + Len(new) /\ Len(all) \in Nat /\ Len(old) \in Nat /\ Len(new) \in Nat
        /\ Len(ledger) \in Nat
    BY <1>0, <1>6
  <1>9. Len(all) <= Len(ledger) + Cardinality(ws)
    BY <1>2, <1>5, <1>8
  <1>10. ~(Len(all) > MaxReported)
    <2>1. MaxReported \in Nat
      BY TransientsAssumption
    <2> QED BY <1>5, <1>8, <1>9, <2>1
  <1>11. Marked(ws) = all
    BY <1>1, <1>3, <1>6, <1>10 DEF Marked
  <1>12. ASSUME NEW v, NEW w, Before(all, v, w)
         PROVE  \/ Before(ledger, v, w) /\ v \notin ws /\ w \notin ws
                \/ v \notin ws /\ w \in ws
                \/ v \in ws /\ w \in ws /\ v # w
    <2>1. \/ Before(old, v, w)
          \/ v \in Range(old) /\ w \in Range(new)
          \/ Before(new, v, w)
      BY <1>6, <1>12, ConcatOrder
    <2>2. CASE Before(old, v, w)
      BY <1>0, <1>1, <2>2, WithoutOrder
    <2>3. CASE v \in Range(old) /\ w \in Range(new)
      BY <1>2, <1>4, <2>3
    <2>4. CASE Before(new, v, w)
      <3>1. PICK i \in DOMAIN new, j \in DOMAIN new : i < j /\ new[i] = v /\ new[j] = w
        BY <2>4 DEF Before
      <3>2. v \in ws /\ w \in ws
        BY <1>4, <3>1 DEF Range
      <3>3. i \in Nat /\ j \in Nat
        OBVIOUS
      <3>4. i # j
        BY <3>1, <3>3
      <3>5. v # w
        BY <1>4, <3>1, <3>4 DEF IsInjective
      <3> QED BY <3>2, <3>5
    <2> QED BY <2>1, <2>2, <2>3, <2>4
  <1>13. \A w \in ws : Closes(all, w)
    <2> SUFFICES ASSUME NEW v \in ws, NEW w, w.id = v.id, Before(all, v, w)  PROVE FALSE
      BY DEF Closes
    <2>1. w \in ws /\ v # w
      BY <1>12
    <2> QED BY <1>0, <2>1 DEF Unique
  <1> QED BY <1>7, <1>9, <1>11, <1>12, <1>13

\* What a report shows last of a pair, and first of what it adds.
LEMMA ShownLast ==
    ASSUME TypeInv, NEW ws \in SUBSET Transient, Few(ws), Show(ws)
    PROVE  /\ \A x \in Pairs \ About(ws) : printed'[x] = printed[x]
           /\ \A w \in ws : /\ printed'[w.id] # <<>> /\ Last(printed'[w.id]).callee = w.callee
                            /\ Head(Appended(w.id)).callee = w.callee
  <1> DEFINE Seen(x) == {StateOf(w) : w \in {v \in ws : v.id = x}}
  <1>0. \A x \in Pairs : printed[x] \in Seq(State)
    BY DEF TypeInv, TypeOK
  <1>1. printed' = [x \in Pairs |-> printed[x] \o SetToSeq(Seen(x))]
    BY DEF Show
  <1>2. ASSUME NEW x \in Pairs \ About(ws)  PROVE printed'[x] = printed[x]
    <2>1. PICK s \in Seq(State) : s = printed[x]
      BY <1>0
    <2>2. Seen(x) = {}
      BY DEF About
    <2> HIDE DEF Seen
    <2>3. PICK t \in Seq(State) : t = SetToSeq({})
      BY FS_EmptySet, ListFacts
    <2>4. Range(t) = {} /\ IsInjective(t)
      BY <2>3, FS_EmptySet, ListFacts
    <2>5. Len(t) = 0
      BY <2>4, InjectiveLength, FS_EmptySet
    <2>6. t = <<>>
      BY <2>5
    <2>7. printed'[x] = s \o t
      BY <1>1, <2>1, <2>2, <2>3
    <2>8. s \o t = s
      BY <2>6
    <2> QED BY <2>1, <2>7, <2>8
  <1>3. ASSUME NEW w \in ws
        PROVE  /\ printed'[w.id] # <<>> /\ Last(printed'[w.id]).callee = w.callee
               /\ Head(Appended(w.id)).callee = w.callee
    <2>0. w.id \in Pairs /\ StateOf(w) \in State
      BY DEF Transient, StateOf, State
    <2>1. PICK s \in Seq(State) : s = printed[w.id]
      BY <1>0, <2>0
    <2>2. Seen(w.id) = {StateOf(w)}
      BY DEF Few, Unique
    <2> HIDE DEF Seen
    <2>3. IsFiniteSet({StateOf(w)}) /\ Cardinality({StateOf(w)}) = 1
      BY FS_Singleton
    <2>4. PICK t \in Seq(State) : t = SetToSeq({StateOf(w)})
      BY <2>0, <2>3, ListFacts
    <2>5. Range(t) = {StateOf(w)} /\ IsInjective(t)
      BY <2>0, <2>3, <2>4, ListFacts
    <2>6. Len(t) = 1
      BY <2>3, <2>5, InjectiveLength
    <2>7. t[1] = StateOf(w)
      BY <2>5, <2>6 DEF Range
    <2>8. printed'[w.id] = s \o t
      BY <1>1, <2>0, <2>1, <2>2, <2>4
    <2>9. Appended(w.id) = t
      <3>1. SubSeq(s \o t, Len(s) + 1, Len(s \o t)) = t
        BY TailOfConcat
      <3> QED BY <2>1, <2>8, <3>1 DEF Appended
    <2>10. Head(t) = StateOf(w)
      BY <2>6, <2>7
    <2>11. (s \o t) # <<>> /\ Last(s \o t) = StateOf(w)
      <3>1. PICK u \in Seq(State) : u = s \o t
        <4>1. s \o t \in Seq(State)
          OBVIOUS
        <4> QED BY <4>1
      <3>2. /\ Len(u) = Len(s) + Len(t) /\ Len(s) \in Nat
            /\ \A i \in 1 .. Len(t) : u[i + Len(s)] = t[i]
        BY <3>1
      <3>3. 1 \in 1 .. Len(t) /\ Len(u) = 1 + Len(s) /\ Len(u) # 0
        BY <2>6, <3>2
      <3>4. u[Len(u)] = StateOf(w)
        BY <2>7, <3>2, <3>3
      <3>5. u # <<>>
        BY <3>3
      <3> QED BY <3>1, <3>4, <3>5 DEF Last
    <2>12. StateOf(w).callee = w.callee
      BY DEF StateOf
    <2> QED BY <2>8, <2>9, <2>10, <2>11, <2>12
  <1> QED BY <1>2, <1>3

-----------------------------------------------------------------------------
(* One step, with nobody beside it.                                        *)

\* Where scans and reports do not meet.
LEMMA Calmly ==
    ASSUME OneAtATime, TypeInv, "meet" \notin setting
    PROVE  setting \cap {"crowd", "print_own", "kill"} = {}
  BY DEF OneAtATime, TypeInv, TypeOK

LEMMA NagActor ==
    ASSUME NagInv, "meet" \notin setting, NEW p \in Procs, local[p].step # "idle"
    PROVE  OthersRest(p) /\ Orderly(local[p])
  <1>1. local[p] # Idle
    BY DEF Idle
  <1>2. OthersRest(p)
    BY <1>1 DEF NagInv, Sole, OthersRest
  <1>3. local[p] \in Local
    BY InHandFacts DEF NagInv
  <1> QED BY <1>2, <1>3 DEF NagInv

\* Who begins finds nobody at work.
LEMMA NagStarter ==
    ASSUME OneAtATime, NagInv, "meet" \notin setting, NEW p \in Procs,
           \/ p \in Scanners /\ Scan(p)
           \/ p \in Reporters /\ \E what \in Happenings : Fetching(p, what)
    PROVE  OthersRest(p) /\ Orderly(Idle) /\ local[p] = Idle
  <1>1. local[p] = Idle
    BY DEF Scan, Fetching
  <1>2. CASE p \in Scanners /\ Scan(p)
    <2>1. ~Busy(Reporters)
      BY <1>2 DEF Scan
    <2>2. OthersRest(p)
      BY <1>2, <2>1 DEF OthersRest, Busy, Procs, OneAtATime
    <2> QED BY <1>1, <2>2, Rested DEF NagInv
  <1>3. CASE p \in Reporters /\ \E what \in Happenings : Fetching(p, what)
    <2>1. "crowd" \notin setting
      BY Calmly DEF NagInv
    <2>2. ~Busy(Scanners) /\ ~Busy(Reporters)
      BY <1>3, <2>1 DEF Fetching
    <2>3. OthersRest(p)
      BY <2>2 DEF OthersRest, Busy, Procs
    <2> QED BY <1>1, <2>3, Rested DEF NagInv
  <1> QED BY <1>2, <1>3

LEMMA NagStays ==
    ASSUME NagInv, TypeInv', setting' = setting, (scans <= MaxScans)', "meet" \notin setting,
           NEW p \in Procs, OthersRest(p),
           NEW l, local' = [local EXCEPT ![p] = l], Orderly(l)'
    PROVE  NagInv'
  <1>0. TypeInv
    BY DEF NagInv
  <1>1. \A q \in Procs : local'[q] = IF q = p THEN l ELSE Idle
    <2>1. \A q \in Procs : local'[q] = IF q = p THEN l ELSE local[q]
      BY <1>0, Others
    <2> QED BY <2>1 DEF OthersRest
  <1>2. Sole'
    BY <1>1 DEF Sole
  <1>3. ASSUME NEW q \in Procs, NEW k \in Local, local'[q] = k, OthersRest(q)'
        PROVE  Orderly(k)'
    <2>1. k = l
      BY <1>1, <1>3 DEF OthersRest
    <2> QED BY <2>1
  <1> QED BY <1>2, <1>3 DEF NagInv

\* The files as they are, and as much told of them.
LEMMA OrderlySame ==
    ASSUME NEW k, NEW l, Orderly(k), UNCHANGED <<queue, ledger, printed>>,
           Told(l) = Told(k), l.rest \subseteq Told(k) \cup k.rest,
           k.step # "remove", l.step # "remove"
    PROVE  (Remembered(l) /\ News(l) /\ JustSaid(l) /\ AtTheEnd(l))'
  <1>0. Remembered(k) /\ News(k) /\ AtTheEnd(k)
    BY DEF Orderly
  <1>1. Removed(l) = {} /\ Removed(k) = {}
    BY DEF Removed
  <1>2. Remembered(l)'
    BY <1>0, <1>1 DEF Remembered, Stands, LastSaid
  <1>3. Range(queue) \cup Told(l) \cup l.rest \subseteq Waiting(k)
    BY DEF Waiting
  <1>4. News(l)'
    BY <1>0, <1>1, <1>3 DEF News, Waiting, LastSaid
  <1>5. AtTheEnd(l)'
    BY <1>0 DEF AtTheEnd
  <1> QED BY <1>2, <1>4, <1>5 DEF JustSaid

LEMMA Sizes ==
    ASSUME TypeInv
    PROVE  /\ Len(ledger) \in Nat /\ Len(queue) \in Nat /\ scans \in Nat /\ Cardinality(Pairs) \in Nat
           /\ Cardinality(Pairs) * scans \in Nat /\ Cardinality({}) = 0 /\ MaxReported \in Nat
           /\ IsFiniteSet(Range(queue)) /\ Cardinality(Range(queue)) = Len(queue)
           /\ IsFiniteSet(Range(ledger)) /\ Cardinality(Range(ledger)) = Len(ledger)
  <1>1. /\ queue \in Seq(Transient) /\ ledger \in Seq(Transient) /\ scans \in Nat
        /\ Distinct(queue) /\ IsInjective(ledger)
    BY DEF TypeInv, TypeOK, Distinct
  <1>2. Cardinality(Pairs) \in Nat /\ MaxReported \in Nat
    BY TransientsAssumption, FS_CardinalityType
  <1>3. IsInjective(queue)
    BY <1>1, DistinctIsInjective
  <1>4. Cardinality(Pairs) * scans \in Nat
    BY <1>1, <1>2
  <1> QED BY <1>1, <1>2, <1>3, <1>4, InjectiveLength, FS_EmptySet

\* As long as no more was raised than the ledger can take.
LEMMA RoomLeft ==
    ASSUME Roomy, NagInv, NEW l, Measured(l), Extra(l) = {}, NEW ws \in SUBSET Range(queue)
    PROVE  /\ IsFiniteSet(ws) /\ Cardinality(ws) \in Nat /\ Cardinality(ws) <= Len(queue)
           /\ Len(ledger) + Cardinality(ws) <= MaxReported
  <1>0. TypeInv
    BY DEF NagInv
  <1>1. PICK n \in Nat : n = Cardinality(Pairs)
    BY <1>0, Sizes
  <1>2. PICK a \in Nat, b \in Nat : a = Len(ledger) /\ b = Len(queue)
    BY <1>0, Sizes
  <1>3. IsFiniteSet(ws) /\ Cardinality(ws) \in Nat /\ Cardinality(ws) <= Len(queue)
    <2>1. IsFiniteSet(Range(queue)) /\ Cardinality(Range(queue)) = Len(queue)
      BY <1>0, Sizes
    <2>2. IsFiniteSet(ws) /\ Cardinality(ws) <= Cardinality(Range(queue))
      BY <2>1, FS_Subset
    <2> QED BY <2>1, <2>2, FS_CardinalityType
  <1>4. scans \in Nat /\ MaxScans \in Nat /\ MaxReported \in Nat /\ scans <= MaxScans
    BY <1>0, Sizes, TransientsAssumption DEF NagInv
  <1>5. n * scans <= n * MaxScans
    BY <1>4
  <1>6. a + b + 0 <= n * scans /\ n * MaxScans <= MaxReported
    BY <1>0, <1>1, <1>2, Sizes DEF Measured, Roomy
  <1>7. n * scans \in Nat /\ n * MaxScans \in Nat
    BY <1>4
  <1>8. a + b <= MaxReported
    BY ONLY <1>4, <1>5, <1>6, <1>7, a \in Nat, b \in Nat
  <1> QED BY <1>2, <1>3, <1>4, <1>8

LEMMA NagScan ==
    ASSUME OneAtATime, NagInv, "meet" \notin setting, NEW p \in Scanners, Scan(p)
    PROVE  NagInv'
  <1>0. p \in Procs /\ TypeInv /\ TypeInv' /\ OthersRest(p) /\ Orderly(Idle) /\ local[p] = Idle
    BY TypeScan, NagStarter DEF NagInv, Procs
  <1>1. PICK moved : moved = {x \in Pairs : graph'[x].callee # graph[x].callee}
    OBVIOUS
  <1>2. PICK raised \in SUBSET (moved \cup standing) :
            Become(p, [step |-> "refresh", rest |-> {}, hand |-> {Of(x)' : x \in raised}])
    BY ZenonT(60), <1>1 DEF Scan
  <1>3. /\ UNCHANGED <<setting, queue, ledger, printed>>
        /\ scans < MaxScans /\ scans' = scans + 1
    BY DEF Scan, files
  <1>4. PICK hand : hand = {[id |-> x, callee |-> graph'[x].callee, caller |-> graph'[x].caller] :
                                x \in raised}
    OBVIOUS
  <1>5. PICK l : l = [step |-> "refresh", rest |-> {}, hand |-> hand]
    OBVIOUS
  <1>6. local' = [local EXCEPT ![p] = l]
    BY <1>2, <1>4, <1>5 DEF Become, Of
  <1>7. /\ Told(l) = {} /\ Told(Idle) = {} /\ l.rest = {} /\ Idle.step = "idle"
        /\ l.step = "refresh" /\ l.hand = hand /\ Extra(l) = hand /\ Extra(Idle) = {}
    BY <1>5 DEF Told, Idle, Extra
  <1>8. (Remembered(l) /\ News(l) /\ JustSaid(l) /\ AtTheEnd(l))'
    BY <1>0, <1>3, <1>7, OrderlySame
  <1>9. Following(l)'
    <2> SUFFICES ASSUME NEW w \in hand
                 PROVE  w = [id |-> w.id, callee |-> graph'[w.id].callee, caller |-> graph'[w.id].caller]
      BY <1>7 DEF Following, Of
    <2> QED BY <1>4
  <1>10. raised \in SUBSET Pairs
    <2>1. moved \subseteq Pairs /\ standing \subseteq Pairs
      BY <1>0, <1>1 DEF TypeInv, TypeOK
    <2> QED BY <1>2, <2>1
  <1>11. Cardinality(hand) \in Nat /\ Cardinality(hand) <= Cardinality(Pairs)
    <2>1. PICK f : f = [x \in raised |-> [id |-> x, callee |-> graph'[x].callee,
                                          caller |-> graph'[x].caller]]
      OBVIOUS
    <2>2. f \in Surjection(raised, hand)
      BY <1>4, <2>1 DEF Surjection
    <2>3. IsFiniteSet(Pairs)
      BY TransientsAssumption
    <2>4. IsFiniteSet(raised) /\ Cardinality(raised) <= Cardinality(Pairs)
      BY <1>10, <2>3, FS_Subset
    <2>5. IsFiniteSet(hand) /\ Cardinality(hand) <= Cardinality(raised)
      BY <2>2, <2>4, FS_Surjection
    <2>6. Cardinality(hand) \in Nat /\ Cardinality(raised) \in Nat /\ Cardinality(Pairs) \in Nat
      BY <2>3, <2>4, <2>5, FS_CardinalityType
    <2> QED BY <2>4, <2>5, <2>6
  <1>12. Measured(l)'
    <2>1. PICK n \in Nat : n = Cardinality(Pairs)
      BY <1>0, Sizes
    <2>2. PICK a \in Nat, b \in Nat, h \in Nat : a = Len(ledger) /\ b = Len(queue) /\ h = Cardinality(hand)
      BY <1>0, <1>11, Sizes
    <2>3. a + b + 0 <= n * scans /\ h <= n
      BY <1>0, <1>7, <1>11, <2>1, <2>2, Sizes DEF Orderly, Measured
    <2>4. scans \in Nat /\ n * scans \in Nat
      BY <1>0, <2>1, Sizes
    <2>5. n * (scans + 1) = n * scans + n
      BY <2>4
    <2>6. a + b + h <= n * (scans + 1)
      BY ONLY <2>3, <2>4, <2>5, a \in Nat, b \in Nat, h \in Nat, n \in Nat
    <2> QED BY <1>3, <1>7, <2>1, <2>2, <2>6 DEF Measured, Extra
  <1>13. (Paged(l) /\ Away(l))'
    BY <1>7 DEF Paged, Away, Told
  <1>14. Orderly(l)'
    BY <1>8, <1>9, <1>12, <1>13 DEF Orderly
  <1>15. (scans <= MaxScans)'
    <2>1. scans \in Nat /\ MaxScans \in Nat
      BY <1>0, Sizes, TransientsAssumption
    <2> QED BY <1>3, <2>1
  <1> QED BY <1>0, <1>3, <1>6, <1>14, <1>15, NagStays

LEMMA NagRefresh ==
    ASSUME NagInv, "meet" \notin setting, NEW p \in Procs, RefreshTransientCallers(p)
    PROVE  NagInv'
  <1>0. TypeInv /\ TypeInv' /\ TypeOK /\ OthersRest(p) /\ Orderly(local[p])
    BY TypeRefresh, NagActor DEF NagInv, TypeInv, RefreshTransientCallers
  <1>1. PICK k : k = local[p]
    OBVIOUS
  <1>2. PICK l : l = [local[p] EXCEPT !.step = "queue"]
    OBVIOUS
  <1>3. /\ l.step = "queue" /\ l.hand = k.hand /\ l.rest = k.rest
        /\ k.step = "refresh" /\ k.rest = {} /\ local' = [local EXCEPT ![p] = l]
    BY <1>0, <1>1, <1>2, InHandFacts DEF RefreshTransientCallers, Go, TypeOK, Local, Fits
  <1>4. /\ UNCHANGED <<setting, graph, printed, scans>>
        /\ queue' = RefreshedQueue /\ ledger' = RefreshedLedger
    BY DEF RefreshTransientCallers, topology, history, counts
  <1>5. /\ Told(l) = {} /\ Told(k) = {} /\ Removed(l) = {} /\ Removed(k) = {}
        /\ Extra(l) = Extra(k)
    BY <1>3 DEF Told, Removed, Extra
  <1>6. ASSUME NEW x \in Pairs, printed[x] # <<>>
        PROVE  \E v \in Transient : /\ v.id = x /\ v.callee = LastSaid(x)
                                    /\ Refreshed(v) \in Range(ledger') /\ Closes(ledger', Refreshed(v))
    <2>1. PICK v \in Transient : v.id = x /\ v.callee = LastSaid(x) /\ Stands(k, v)
      BY <1>0, <1>1, <1>5, <1>6 DEF Orderly, Remembered
    <2>2. v \in Range(ledger) /\ Closes(ledger, v)
      BY <1>5, <2>1 DEF Stands, Closes
    <2> QED BY <1>0, <1>4, <2>1, <2>2, RefreshedLedgerFacts
  <1>7. Remembered(l)'
    <2> SUFFICES ASSUME NEW x \in Pairs, printed[x] # <<>>
                 PROVE  \E v \in Transient : v.id = x /\ v.callee = LastSaid(x)' /\ Stands(l, v)'
      BY <1>4 DEF Remembered
    <2>1. PICK v \in Transient : /\ v.id = x /\ v.callee = LastSaid(x)
                                 /\ Refreshed(v) \in Range(ledger') /\ Closes(ledger', Refreshed(v))
      BY <1>6
    <2>2. PICK u \in Transient : u = Refreshed(v) /\ Alike(u, v)
      BY <1>0, RefreshedFacts
    <2>3. Stands(l, u)'
      BY <1>5, <2>1, <2>2 DEF Stands, Closes
    <2> QED BY <1>4, <2>1, <2>2, <2>3 DEF Alike, LastSaid
  <1>8. News(l)'
    <2> SUFFICES ASSUME NEW v \in Range(queue'), printed[v.id] # <<>>
                 PROVE  v.callee # LastSaid(v.id)
      BY <1>3, <1>4, <1>5 DEF News, Waiting, LastSaid
    <2>1. PICK w \in Range(queue) : Alike(v, w)
      BY <1>0, <1>4, RefreshedQueueFacts
    <2> QED BY <1>0, <1>1, <1>5, <2>1 DEF Orderly, News, Waiting, Alike
  <1>9. Following(l)'
    <2>1. \A w \in l.hand : w = Of(w.id)'
      BY <1>0, <1>1, <1>3, <1>4 DEF Orderly, Following, Of
    <2>2. ASSUME NEW x \in Pairs, printed[x] # <<>>, LastSaid(x) = graph[x].callee
          PROVE  Of(x) \in Range(ledger')
      <3>1. PICK v \in Transient : /\ v.id = x /\ v.callee = LastSaid(x)
                                   /\ Refreshed(v) \in Range(ledger')
        BY <1>6, <2>2
      <3> QED BY <2>2, <3>1 DEF Refreshed
    <2> QED BY <1>4, <2>1, <2>2 DEF Following, LastSaid, Of
  <1>10. Measured(l)'
    <2>1. Len(ledger') <= Len(ledger) /\ Len(queue') = Len(queue)
      BY <1>0, <1>4, RefreshedLedgerFacts, RefreshedQueueFacts
    <2>2. Len(ledger') \in Nat
      BY <1>0, Sizes DEF TypeInv, TypeOK
    <2>3. Cardinality(Extra(k)) \in Nat
      BY <1>0, <1>1, <1>3, InHandFacts, FS_CardinalityType DEF Few, Extra
    <2>4. Len(ledger) + Len(queue) + Cardinality(Extra(k)) <= Cardinality(Pairs) * scans
      BY <1>0, <1>1 DEF Orderly, Measured
    <2>5. PICK a, b, c, h, m : /\ a = Len(ledger') /\ b = Len(ledger) /\ c = Len(queue)
                               /\ h = Cardinality(Extra(k)) /\ m = Cardinality(Pairs) * scans
      OBVIOUS
    <2>6. a \in Nat /\ b \in Nat /\ c \in Nat /\ h \in Nat /\ m \in Nat
      BY <1>0, <2>2, <2>3, <2>5, Sizes
    <2>7. a + c + h <= m
      BY <2>1, <2>4, <2>5, <2>6
    <2>8. Extra(l)' = Extra(k)
      BY <1>5 DEF Extra
    <2> QED BY <1>4, <2>1, <2>5, <2>7, <2>8 DEF Measured
  <1>11. (JustSaid(l) /\ Paged(l) /\ AtTheEnd(l) /\ Away(l))'
    BY <1>3, <1>5 DEF JustSaid, Paged, AtTheEnd, Away, Told
  <1>12. Orderly(l)'
    BY <1>7, <1>8, <1>9, <1>10, <1>11 DEF Orderly
  <1>13. (scans <= MaxScans)'
    BY <1>4 DEF NagInv
  <1> QED BY <1>0, <1>3, <1>4, <1>12, <1>13, NagStays

LEMMA NagReport ==
    ASSUME NagInv, "meet" \notin setting, NEW p \in Procs, Report(p)
    PROVE  NagInv'
  <1>0. TypeInv /\ TypeInv' /\ OthersRest(p) /\ Orderly(local[p])
    BY TypeReport, NagActor DEF NagInv, Report
  <1>1. PICK shown \in SUBSET local[p].hand :
            Become(p, [step |-> IF shown = local[p].hand THEN "print" ELSE "unmark",
                       hand |-> shown, rest |-> local[p].hand \ shown])
    BY DEF Report
  <1>2. PICK k : k = local[p]
    OBVIOUS
  <1>3. PICK l : l = [step |-> IF shown = k.hand THEN "print" ELSE "unmark",
                      hand |-> shown, rest |-> k.hand \ shown]
    OBVIOUS
  <1>4. /\ local' = [local EXCEPT ![p] = l] /\ k.step = "report" /\ Few(k.hand) /\ Orderly(k)
        /\ UNCHANGED <<setting, graph, queue, ledger, printed, scans>>
    BY <1>0, <1>1, <1>2, <1>3, InHandFacts DEF Report, Become, topology, files, history, counts
  <1>5. /\ l.step \in {"print", "unmark"} /\ l.hand = shown /\ l.rest = k.hand \ shown
        /\ l.step = "print" => l.hand = k.hand
    BY <1>3
  <1>6. shown \subseteq k.hand
    BY <1>1, <1>2
  <1>7. Told(l) = k.hand /\ Told(k) = k.hand /\ Extra(l) = {} /\ Extra(k) = {}
    BY <1>4, <1>5, <1>6 DEF Told, Extra
  <1>8. (Remembered(l) /\ News(l) /\ JustSaid(l) /\ AtTheEnd(l))'
    <2>1. l.rest \subseteq Told(k) \cup k.rest /\ k.step # "remove" /\ l.step # "remove"
      BY <1>4, <1>5, <1>7
    <2>2. Told(l) = Told(k) /\ UNCHANGED <<queue, ledger, printed>>
      BY <1>4, <1>7
    <2> QED BY <1>4, <2>1, <2>2, OrderlySame
  <1>9. Away(l)'
    <2>1. \A w \in Range(queue), v \in k.hand : w.id # v.id
      BY <1>4, <1>7 DEF Orderly, Away
    <2>2. \A w \in l.rest, v \in l.hand : w.id # v.id
      BY <1>4, <1>5, <1>6 DEF Few, Unique
    <2> QED BY <1>4, <1>7, <2>1, <2>2 DEF Away, Told
  <1>10. Measured(l)'
    BY <1>4, <1>7 DEF Orderly, Measured, Extra
  <1>11. (Paged(l) /\ Following(l))'
    BY <1>5 DEF Paged, Following
  <1>12. Orderly(l)'
    BY <1>8, <1>9, <1>10, <1>11 DEF Orderly
  <1>13. (scans <= MaxScans)'
    BY <1>4 DEF NagInv
  <1> QED BY <1>0, <1>4, <1>12, <1>13, NagStays

LEMMA NagPeek ==
    ASSUME OneAtATime, NagInv, "meet" \notin setting, NEW p \in Reporters, Peek(p)
    PROVE  NagInv'
  <1>0. p \in Procs /\ TypeInv /\ TypeInv' /\ OthersRest(p) /\ Orderly(Idle)
    <2>1. \E what \in Happenings : Fetching(p, what)
      BY DEF Peek, Happenings
    <2> QED BY <2>1, TypePeek, NagStarter DEF NagInv, Procs
  <1>1. PICK l : l = [step |-> "page", hand |-> Range(queue), rest |-> {}]
    OBVIOUS
  <1>2. /\ local' = [local EXCEPT ![p] = l]
        /\ UNCHANGED <<setting, graph, queue, ledger, printed, scans>>
    BY <1>1 DEF Peek, Become, topology, files, history, counts
  <1>3. /\ l.step = "page" /\ l.hand = Range(queue) /\ l.rest = {} /\ Idle.step = "idle"
        /\ Told(l) = {} /\ Told(Idle) = {} /\ Extra(l) = {} /\ Extra(Idle) = {}
    BY <1>1 DEF Told, Extra, Idle
  <1>4. (Remembered(l) /\ News(l) /\ JustSaid(l) /\ AtTheEnd(l))'
    BY <1>0, <1>2, <1>3, OrderlySame
  <1>5. (Paged(l) /\ Away(l) /\ Following(l))'
    BY <1>2, <1>3 DEF Paged, Away, Following, Told
  <1>6. Measured(l)'
    BY <1>0, <1>2, <1>3 DEF Orderly, Measured, Extra
  <1>7. Orderly(l)'
    BY <1>4, <1>5, <1>6 DEF Orderly
  <1>8. (scans <= MaxScans)'
    BY <1>2 DEF NagInv
  <1> QED BY <1>0, <1>2, <1>7, <1>8, NagStays

LEMMA NagQueue ==
    ASSUME OneAtATime, NagInv, "meet" \notin setting, NEW p \in Procs, QueueTransients(p)
    PROVE  NagInv'
  <1>0. TypeInv /\ TypeInv' /\ OthersRest(p) /\ Orderly(local[p])
    BY TypeQueue, NagActor DEF NagInv, QueueTransients
  <1>1. PICK k : k = local[p]
    OBVIOUS
  <1>2. "print_own" \notin setting
    BY <1>0, Calmly
  <1>3. /\ k.step = "queue" /\ k.hand \in SUBSET Transient /\ Few(k.hand) /\ Orderly(k)
        /\ queue' = Queued(k.hand) /\ local' = [local EXCEPT ![p] = Idle]
        /\ UNCHANGED <<setting, graph, ledger, printed, scans>>
    BY <1>0, <1>1, <1>2, InHandFacts DEF QueueTransients, Become, topology, counts
  <1>4. /\ Told(Idle) = {} /\ Told(k) = {} /\ Extra(Idle) = {} /\ Extra(k) = k.hand
        /\ Removed(Idle) = {} /\ Removed(k) = {} /\ Idle.step = "idle" /\ Idle.rest = {}
    BY <1>3 DEF Told, Extra, Removed, Idle
  <1>5. /\ \A e \in Range(queue') :
              IF e.id \in About(k.hand) THEN e \in k.hand /\ e \notin Range(ledger)
                                        ELSE e \in Range(queue)
        /\ Len(queue') <= Len(queue) + Cardinality(k.hand)
    BY <1>0, <1>3, QueuedFresh
  <1>6. Remembered(Idle)'
    <2>1. Remembered(k)
      BY <1>3 DEF Orderly
    <2> QED BY <1>3, <1>4, <2>1 DEF Remembered, Stands, LastSaid, Told, Removed
  <1>7. News(Idle)'
    <2> SUFFICES ASSUME NEW w \in Range(queue'), printed[w.id] # <<>>
                 PROVE  w.callee # LastSaid(w.id)
      BY <1>3, <1>4 DEF News, Waiting, LastSaid, Told, Removed
    <2>1. CASE w.id \in About(k.hand)
      <3>1. w \in k.hand /\ w \notin Range(ledger)
        BY <1>5, <2>1
      <3>2. w = Of(w.id) /\ w.id \in Pairs
        BY <1>3, <3>1 DEF Orderly, Following, Transient
      <3>3. LastSaid(w.id) # graph[w.id].callee
        BY <1>3, <3>1, <3>2 DEF Orderly, Following
      <3>4. Of(w.id).callee = graph[w.id].callee
        BY DEF Of
      <3> QED BY <3>2, <3>3, <3>4
    <2>2. CASE w.id \notin About(k.hand)
      BY <1>3, <1>4, <1>5, <2>2 DEF Orderly, News, Waiting
    <2> QED BY <2>1, <2>2
  <1>8. Measured(Idle)'
    <2>1. Len(queue') \in Nat
      BY <1>0 DEF TypeInv, TypeOK
    <2>2. Cardinality(k.hand) \in Nat
      BY <1>3, FS_CardinalityType DEF Few
    <2>3. Len(ledger) + Len(queue) + Cardinality(k.hand) <= Cardinality(Pairs) * scans
      BY <1>3, <1>4 DEF Orderly, Measured
    <2>4. PICK a, b, c, h, m : /\ a = Len(ledger) /\ b = Len(queue) /\ c = Len(queue')
                               /\ h = Cardinality(k.hand) /\ m = Cardinality(Pairs) * scans
      OBVIOUS
    <2>5. a \in Nat /\ b \in Nat /\ c \in Nat /\ h \in Nat /\ m \in Nat
      BY <1>0, <2>1, <2>2, <2>4, Sizes
    <2>6. a + c + 0 <= m
      BY <1>5, <2>3, <2>4, <2>5
    <2>7. Cardinality({}) = 0
      BY <1>0, Sizes
    <2> QED BY <1>3, <1>4, <2>4, <2>6, <2>7 DEF Measured, Extra
  <1>9. (JustSaid(Idle) /\ Paged(Idle) /\ AtTheEnd(Idle) /\ Away(Idle) /\ Following(Idle))'
    BY <1>4 DEF JustSaid, Paged, AtTheEnd, Away, Following, Told
  <1>10. Orderly(Idle)'
    BY <1>6, <1>7, <1>8, <1>9 DEF Orderly
  <1>11. (scans <= MaxScans)'
    BY <1>3 DEF NagInv
  <1> QED BY <1>0, <1>3, <1>10, <1>11, NagStays

LEMMA NagUnmark ==
    ASSUME NagInv, "meet" \notin setting, NEW p \in Procs, Unmark(p)
    PROVE  NagInv'
  <1>0. TypeInv /\ TypeInv' /\ OthersRest(p) /\ Orderly(local[p])
    BY TypeUnmark, NagActor DEF NagInv, Unmark
  <1>1. PICK k : k = local[p]
    OBVIOUS
  <1>2. PICK l : l = [local[p] EXCEPT !.step = "requeue"]
    OBVIOUS
  <1>3. /\ l.step = "requeue" /\ l.hand = k.hand /\ l.rest = k.rest
        /\ k.step = "unmark" /\ local' = [local EXCEPT ![p] = l] /\ Orderly(k)
        /\ ledger \in Seq(Transient) /\ IsInjective(ledger)
    BY <1>0, <1>1, <1>2, InHandFacts DEF Unmark, Go, TypeInv, TypeOK, Local
  <1>4. UNCHANGED <<setting, graph, queue, printed, scans>> /\ ledger' = Without(ledger, k.rest)
    BY <1>1 DEF Unmark, topology, history, counts
  <1>5. /\ Told(l) = k.hand /\ Told(k) = k.hand \cup k.rest /\ Extra(l) = k.rest /\ Extra(k) = {}
        /\ Removed(l) = {} /\ Removed(k) = {} /\ Waiting(l) \subseteq Waiting(k)
    BY <1>3 DEF Told, Extra, Removed, Waiting
  <1>6. k.hand \cap k.rest = {}
    BY <1>3 DEF Orderly, Away
  <1>7. Range(ledger') = Range(ledger) \ k.rest /\ IsInjective(ledger') /\ ledger' \in Seq(Transient)
    BY <1>3, <1>4, WithoutFacts
  <1>8. \A v, w : Before(ledger', v, w) => Before(ledger, v, w)
    BY <1>3, <1>4, WithoutOrder
  <1>9. Remembered(l)'
    <2>1. Remembered(k)
      BY <1>3 DEF Orderly
    <2>2. Range(ledger') \ Told(l) = Range(ledger) \ Told(k)
      BY <1>5, <1>6, <1>7
    <2>3. \A v : Stands(k, v) => Stands(l, v)'
      BY <1>8, <2>2 DEF Stands, Told
    <2> QED BY <1>4, <1>5, <2>1, <2>3 DEF Remembered, LastSaid, Removed
  <1>10. News(l)'
    <2>1. News(k)
      BY <1>3 DEF Orderly
    <2>2. Waiting(l)' = Waiting(l)
      BY <1>4 DEF Waiting, Told
    <2> QED BY <1>4, <1>5, <2>1, <2>2 DEF News, LastSaid, Removed
  <1>11. AtTheEnd(l)'
    <2>1. AtTheEnd(k)
      BY <1>3 DEF Orderly
    <2>2. \A w \in k.hand : w \in Range(ledger') /\ Closes(ledger', w)
      BY <1>5, <1>6, <1>7, <1>8, <2>1 DEF AtTheEnd, Closes
    <2> QED BY <1>3, <2>2 DEF AtTheEnd, Told
  <1>12. Away(l)'
    BY <1>3, <1>4, <1>5 DEF Orderly, Away, Told
  <1>13. Measured(l)'
    <2>1. k.rest \in SUBSET Range(ledger)
      BY <1>3, <1>5 DEF Orderly, AtTheEnd
    <2>2. /\ IsFiniteSet(Range(ledger)) /\ Cardinality(Range(ledger)) = Len(ledger)
          /\ Cardinality(Range(ledger')) = Len(ledger')
      BY <1>3, <1>7, InjectiveLength
    <2>3. Len(ledger') + Cardinality(k.rest) = Len(ledger)
      BY <1>7, <2>1, <2>2, PartSize
    <2>4. Len(ledger) + Len(queue) + Cardinality({}) <= Cardinality(Pairs) * scans
      BY <1>3, <1>5 DEF Orderly, Measured
    <2>5. PICK a, b, c, h, m : /\ a = Len(ledger) /\ b = Len(queue) /\ c = Len(ledger')
                               /\ h = Cardinality(k.rest) /\ m = Cardinality(Pairs) * scans
      OBVIOUS
    <2>6. a \in Nat /\ b \in Nat /\ c \in Nat /\ h \in Nat /\ m \in Nat
      BY <1>0, <1>7, <2>1, <2>2, <2>5, Sizes, PartSize
    <2>7. c + b + h <= m
      BY <1>0, <2>3, <2>4, <2>5, <2>6, Sizes
    <2>8. Extra(l)' = k.rest
      BY <1>5 DEF Extra
    <2> QED BY <1>4, <2>5, <2>7, <2>8 DEF Measured
  <1>14. (JustSaid(l) /\ Paged(l) /\ Following(l))'
    BY <1>3 DEF JustSaid, Paged, Following
  <1>15. Orderly(l)'
    BY <1>9, <1>10, <1>11, <1>12, <1>13, <1>14 DEF Orderly
  <1>16. (scans <= MaxScans)'
    BY <1>4 DEF NagInv
  <1> QED BY <1>0, <1>3, <1>4, <1>15, <1>16, NagStays

LEMMA NagRequeue ==
    ASSUME NagInv, "meet" \notin setting, NEW p \in Procs, Requeue(p)
    PROVE  NagInv'
  <1>0. TypeInv /\ TypeInv' /\ OthersRest(p) /\ Orderly(local[p])
    BY TypeRequeue, NagActor DEF NagInv, Requeue
  <1>1. PICK k : k = local[p]
    OBVIOUS
  <1>2. PICK l : l = [local[p] EXCEPT !.step = "print", !.rest = {}]
    OBVIOUS
  <1>3. /\ l.step = "print" /\ l.hand = k.hand /\ l.rest = {}
        /\ k.step = "requeue" /\ k.rest \in SUBSET Transient /\ Few(k.rest)
        /\ local' = [local EXCEPT ![p] = l] /\ Orderly(k)
    BY <1>0, <1>1, <1>2, InHandFacts DEF Requeue, Become, Local
  <1>4. UNCHANGED <<setting, graph, ledger, printed, scans>> /\ queue' = Queued(k.rest)
    BY <1>1 DEF Requeue, topology, counts
  <1>5. /\ Told(l) = k.hand /\ Told(k) = k.hand /\ Extra(l) = {} /\ Extra(k) = k.rest
        /\ Removed(l) = {} /\ Removed(k) = {}
    BY <1>3 DEF Told, Extra, Removed
  <1>6. /\ \A e \in Range(queue') : e \in k.rest \/ e \in Range(queue)
        /\ Len(queue') <= Len(queue) + Cardinality(k.rest)
    BY <1>0, <1>3, <1>4, QueuedFresh
  <1>7. Remembered(l)'
    <2>1. Remembered(k)
      BY <1>3 DEF Orderly
    <2> QED BY <1>4, <1>5, <2>1 DEF Remembered, Stands, LastSaid, Told, Removed
  <1>8. News(l)'
    <2>1. News(k)
      BY <1>3 DEF Orderly
    <2>2. Waiting(l)' \subseteq Waiting(k)
      BY <1>3, <1>5, <1>6 DEF Waiting, Told
    <2> QED BY <1>4, <1>5, <2>1, <2>2 DEF News, LastSaid, Removed
  <1>9. AtTheEnd(l)'
    BY <1>3, <1>4, <1>5 DEF Orderly, AtTheEnd, Told
  <1>10. Away(l)'
    <2>1. \A w \in Range(queue'), v \in k.hand : w.id # v.id
      BY <1>3, <1>5, <1>6 DEF Orderly, Away
    <2> QED BY <1>3, <1>5, <2>1 DEF Away, Told
  <1>11. Measured(l)'
    <2>1. Len(queue') \in Nat
      BY <1>0 DEF TypeInv, TypeOK
    <2>2. Cardinality(k.rest) \in Nat
      BY <1>3, FS_CardinalityType DEF Few
    <2>3. Len(ledger) + Len(queue) + Cardinality(k.rest) <= Cardinality(Pairs) * scans
      BY <1>3, <1>5 DEF Orderly, Measured
    <2>4. PICK a, b, c, h, m : /\ a = Len(ledger) /\ b = Len(queue) /\ c = Len(queue')
                               /\ h = Cardinality(k.rest) /\ m = Cardinality(Pairs) * scans
      OBVIOUS
    <2>5. a \in Nat /\ b \in Nat /\ c \in Nat /\ h \in Nat /\ m \in Nat
      BY <1>0, <2>1, <2>2, <2>4, Sizes
    <2>6. a + c + 0 <= m
      BY <1>6, <2>3, <2>4, <2>5
    <2>7. Cardinality({}) = 0
      BY <1>0, Sizes
    <2> QED BY <1>4, <1>5, <2>4, <2>6, <2>7 DEF Measured, Extra
  <1>12. (JustSaid(l) /\ Paged(l) /\ Following(l))'
    BY <1>3 DEF JustSaid, Paged, Following
  <1>13. Orderly(l)'
    BY <1>7, <1>8, <1>9, <1>10, <1>11, <1>12 DEF Orderly
  <1>14. (scans <= MaxScans)'
    BY <1>4 DEF NagInv
  <1> QED BY <1>0, <1>3, <1>4, <1>13, <1>14, NagStays

\* What Deliver and Page may add: News of it was right.
LEMMA NewsIsNew ==
    ASSUME TypeInv, NEW k, News(k), Removed(k) = {},
           NEW ws \in SUBSET Transient, Few(ws), ws \subseteq Waiting(k), Show(ws),
           NEW x \in Pairs, Len(printed'[x]) > Len(printed[x]), printed[x] # <<>>
    PROVE  Head(Appended(x)).callee # Last(printed[x]).callee
  <1>1. x \in About(ws)
    <2> SUFFICES ASSUME x \notin About(ws)  PROVE FALSE
      OBVIOUS
    <2>1. printed'[x] = printed[x]
      BY ShownLast
    <2>2. Len(printed[x]) \in Nat
      BY DEF TypeInv, TypeOK
    <2> QED BY <2>1, <2>2
  <1>2. PICK w \in ws : w.id = x
    BY <1>1 DEF About
  <1>3. Head(Appended(x)).callee = w.callee
    BY <1>2, ShownLast
  <1>4. w.callee # LastSaid(x)
    BY <1>2 DEF News
  <1> QED BY <1>3, <1>4 DEF LastSaid

LEMMA NagDeliver ==
    ASSUME NagInv, "meet" \notin setting, NEW p \in Procs, Deliver(p)
    PROVE  /\ NagInv'
           /\ \A x \in Pairs : Len(printed'[x]) > Len(printed[x]) /\ printed[x] # <<>>
                => Head(Appended(x)).callee # Last(printed[x]).callee
  <1>0. TypeInv /\ TypeInv' /\ OthersRest(p) /\ Orderly(local[p])
    BY TypeDeliver, NagActor DEF NagInv, Deliver
  <1>1. PICK k : k = local[p]
    OBVIOUS
  <1>2. /\ k.step = "print" /\ k.hand \in SUBSET Transient /\ Few(k.hand) /\ Orderly(k)
        /\ Show(k.hand) /\ local' = [local EXCEPT ![p] = Idle]
        /\ UNCHANGED <<setting, graph, queue, ledger, scans>>
    BY <1>0, <1>1, InHandFacts DEF Deliver, Become, topology, files, counts
  <1>3. /\ Told(Idle) = {} /\ Told(k) = k.hand /\ Extra(Idle) = {} /\ Extra(k) = {}
        /\ Removed(Idle) = {} /\ Removed(k) = {} /\ Idle.step = "idle" /\ Idle.rest = {}
    BY <1>2 DEF Told, Extra, Removed, Idle
  <1>4. /\ \A x \in Pairs \ About(k.hand) : printed'[x] = printed[x]
        /\ \A w \in k.hand : Last(printed'[w.id]).callee = w.callee
    BY <1>0, <1>2, ShownLast
  <1>5. \A w \in k.hand : w \in Transient /\ w \in Range(ledger) /\ Closes(ledger, w)
    BY <1>2, <1>3 DEF Orderly, AtTheEnd
  <1>6. Remembered(Idle)'
    <2> SUFFICES ASSUME NEW x \in Pairs, printed'[x] # <<>>
                 PROVE  \E v \in Transient : v.id = x /\ v.callee = LastSaid(x)' /\ Stands(Idle, v)'
      BY DEF Remembered
    <2>1. CASE x \in About(k.hand)
      <3>1. PICK w \in k.hand : w.id = x
        BY <2>1 DEF About
      <3>2. LastSaid(x)' = w.callee
        BY <1>4, <3>1 DEF LastSaid
      <3>3. Stands(Idle, w)'
        BY <1>2, <1>3, <1>5 DEF Stands, Closes, Told
      <3> QED BY <1>5, <3>1, <3>2, <3>3
    <2>2. CASE x \notin About(k.hand)
      <3>1. printed'[x] = printed[x]
        BY <1>4, <2>2
      <3>2. PICK v \in Transient : v.id = x /\ v.callee = LastSaid(x) /\ Stands(k, v)
        BY <1>2, <1>3, <3>1 DEF Orderly, Remembered
      <3>3. \A w \in Range(ledger) : w.id = x => w \notin k.hand
        BY <2>2 DEF About
      <3>4. Stands(Idle, v)'
        BY <1>2, <1>3, <3>2, <3>3 DEF Stands, Told
      <3> QED BY <3>1, <3>2, <3>4 DEF LastSaid
    <2> QED BY <2>1, <2>2
  <1>7. News(Idle)'
    <2> SUFFICES ASSUME NEW w \in Range(queue), printed'[w.id] # <<>>
                 PROVE  w.callee # LastSaid(w.id)'
      BY <1>2, <1>3 DEF News, Waiting, Told
    <2>1. w.id \notin About(k.hand) /\ w.id \in Pairs
      <3>1. w \in Transient
        BY <1>0, InHandFacts, Queueful
      <3> QED BY <1>2, <1>3, <3>1 DEF Orderly, Away, About, Transient
    <2>2. printed'[w.id] = printed[w.id]
      BY <1>4, <2>1
    <2> QED BY <1>2, <1>3, <2>2 DEF Orderly, News, Waiting, LastSaid
  <1>8. Measured(Idle)'
    BY <1>2, <1>3 DEF Orderly, Measured, Extra
  <1>9. (JustSaid(Idle) /\ Paged(Idle) /\ AtTheEnd(Idle) /\ Away(Idle) /\ Following(Idle))'
    BY <1>3 DEF JustSaid, Paged, AtTheEnd, Away, Following, Told
  <1>10. Orderly(Idle)'
    BY <1>6, <1>7, <1>8, <1>9 DEF Orderly
  <1>11. (scans <= MaxScans)'
    BY <1>2 DEF NagInv
  <1>12. NagInv'
    BY <1>0, <1>2, <1>10, <1>11, NagStays
  <1>13. k.hand \subseteq Waiting(k) /\ News(k)
    BY <1>2, <1>3 DEF Waiting, Orderly
  <1> QED BY <1>0, <1>2, <1>3, <1>12, <1>13, NewsIsNew

LEMMA NagPage ==
    ASSUME NagInv, "meet" \notin setting, NEW p \in Procs, Page(p)
    PROVE  /\ NagInv'
           /\ \A x \in Pairs : Len(printed'[x]) > Len(printed[x]) /\ printed[x] # <<>>
                => Head(Appended(x)).callee # Last(printed[x]).callee
  <1>0. TypeInv /\ TypeInv' /\ OthersRest(p) /\ Orderly(local[p])
    BY TypePage, NagActor DEF NagInv, Page
  <1>1. PICK shown \in SUBSET local[p].hand :
            /\ Show(shown)
            /\ Become(p, IF shown = {} THEN Idle
                         ELSE [step |-> "remove", hand |-> shown, rest |-> {}])
    BY DEF Page
  <1>2. PICK k : k = local[p]
    OBVIOUS
  <1>3. PICK l : l = IF shown = {} THEN Idle
                     ELSE [step |-> "remove", hand |-> shown, rest |-> {}]
    OBVIOUS
  <1>4. /\ k.step = "page" /\ Orderly(k) /\ k.hand \in SUBSET Transient /\ Few(k.hand)
        /\ Show(shown) /\ local' = [local EXCEPT ![p] = l]
        /\ UNCHANGED <<setting, graph, queue, ledger, scans>>
    BY <1>0, <1>1, <1>2, <1>3, InHandFacts DEF Page, Become, topology, files, counts
  <1>5. shown \subseteq Range(queue) /\ shown \in SUBSET Transient /\ Few(shown)
    BY <1>1, <1>2, <1>4, FewFacts DEF Orderly, Paged
  <1>6. /\ l.hand = shown /\ l.rest = {} /\ Told(l) = {} /\ Extra(l) = {} /\ Removed(l) = About(shown)
        /\ l.step \in {"idle", "remove"}
    <2>1. CASE shown = {}
      BY <1>3, <2>1 DEF Idle, Told, Extra, Removed, About
    <2>2. CASE shown # {}
      <3>1. l = [step |-> "remove", hand |-> shown, rest |-> {}]
        BY <1>3, <2>2
      <3> QED BY <3>1 DEF Told, Extra, Removed
    <2> QED BY <2>1, <2>2
  <1>7. Told(k) = {} /\ Extra(k) = {} /\ Removed(k) = {}
    BY <1>4 DEF Told, Extra, Removed
  <1>8. /\ \A x \in Pairs \ About(shown) : printed'[x] = printed[x]
        /\ \A w \in shown : printed'[w.id] # <<>> /\ Last(printed'[w.id]).callee = w.callee
    BY <1>0, <1>4, <1>5, ShownLast
  <1>9. Remembered(l)'
    <2> SUFFICES ASSUME NEW x \in Pairs, printed'[x] # <<>>, x \notin About(shown)
                 PROVE  \E v \in Transient : v.id = x /\ v.callee = LastSaid(x)' /\ Stands(l, v)'
      BY <1>6 DEF Remembered, Removed
    <2>1. printed'[x] = printed[x]
      BY <1>8
    <2>2. PICK v \in Transient : v.id = x /\ v.callee = LastSaid(x) /\ Stands(k, v)
      BY <1>4, <1>7, <2>1 DEF Orderly, Remembered
    <2>3. Stands(l, v)'
      BY <1>4, <1>6, <1>7, <2>2 DEF Stands, Told
    <2> QED BY <2>1, <2>2, <2>3 DEF LastSaid
  <1>10. News(l)'
    <2> SUFFICES ASSUME NEW w \in Range(queue), printed'[w.id] # <<>>, w.id \notin About(shown)
                 PROVE  w.callee # LastSaid(w.id)'
      BY <1>4, <1>6 DEF News, Waiting, Told, Removed
    <2>1. w.id \in Pairs
      <3>1. w \in Transient
        BY <1>0, InHandFacts, Queueful
      <3> QED BY <3>1 DEF Transient
    <2>2. printed'[w.id] = printed[w.id]
      BY <1>8, <2>1
    <2> QED BY <1>4, <1>7, <2>2 DEF Orderly, News, Waiting, LastSaid
  <1>11. (JustSaid(l) /\ Paged(l))'
    BY <1>4, <1>5, <1>6, <1>8 DEF JustSaid, Paged, LastSaid
  <1>12. (AtTheEnd(l) /\ Away(l) /\ Following(l))'
    BY <1>6 DEF AtTheEnd, Away, Following, Told
  <1>13. Measured(l)'
    BY <1>4, <1>6, <1>7 DEF Orderly, Measured, Extra
  <1>14. Orderly(l)'
    BY <1>9, <1>10, <1>11, <1>12, <1>13 DEF Orderly
  <1>15. (scans <= MaxScans)'
    BY <1>4 DEF NagInv
  <1>16. NagInv'
    BY <1>0, <1>4, <1>14, <1>15, NagStays
  <1>17. shown \subseteq Waiting(k) /\ News(k)
    BY <1>4, <1>5 DEF Waiting, Orderly
  <1> QED BY <1>0, <1>4, <1>5, <1>7, <1>16, <1>17, NewsIsNew

LEMMA NagRemove ==
    ASSUME Roomy, NagInv, "meet" \notin setting, NEW p \in Procs, RemoveTransients(p)
    PROVE  NagInv'
  <1>0. TypeInv /\ TypeInv' /\ OthersRest(p) /\ Orderly(local[p])
    BY TypeRemove, NagActor DEF NagInv, RemoveTransients
  <1>1. PICK k : k = local[p]
    OBVIOUS
  <1>2. /\ k.step = "remove" /\ k.hand \in SUBSET Transient /\ Few(k.hand) /\ Orderly(k)
        /\ queue' = WithoutIds(queue, About(k.hand)) /\ ledger' = Marked(k.hand)
        /\ local' = [local EXCEPT ![p] = Idle]
        /\ UNCHANGED <<setting, graph, printed, scans>>
    BY <1>0, <1>1, InHandFacts DEF RemoveTransients, Become, topology, history, counts
  <1>3. k.rest = {} /\ k.hand \in SUBSET Range(queue)
    BY <1>0, <1>1, <1>2, InHandFacts DEF Fits, Orderly, Paged
  <1>4. /\ Told(Idle) = {} /\ Told(k) = {} /\ Extra(Idle) = {} /\ Extra(k) = {}
        /\ Removed(Idle) = {} /\ Removed(k) = About(k.hand) /\ Idle.step = "idle" /\ Idle.rest = {}
    BY <1>2 DEF Told, Extra, Removed, Idle
  <1>5. Len(ledger) + Cardinality(k.hand) <= MaxReported
    BY <1>2, <1>3, <1>4, RoomLeft DEF Orderly
  <1>6. /\ Range(ledger') = Range(ledger) \cup k.hand
        /\ Len(ledger') <= Len(ledger) + Cardinality(k.hand)
        /\ \A w \in k.hand : Closes(ledger', w)
        /\ \A v, w : v \notin k.hand /\ w \notin k.hand /\ Before(ledger', v, w) => Before(ledger, v, w)
    BY <1>0, <1>2, <1>5, MarkedOrder
  <1>7. /\ queue' \in Seq(Transient) /\ Distinct(queue')
        /\ Range(queue') = {e \in Range(queue) : e.id \notin About(k.hand)}
    <2>1. queue \in Seq(Transient) /\ Distinct(queue)
      BY <1>0 DEF TypeInv, TypeOK, Distinct
    <2> QED BY <1>2, <2>1, WithoutIdsFacts
  <1>8. Remembered(Idle)'
    <2> SUFFICES ASSUME NEW x \in Pairs, printed[x] # <<>>
                 PROVE  \E v \in Transient : v.id = x /\ v.callee = LastSaid(x) /\ Stands(Idle, v)'
      BY <1>2 DEF Remembered, LastSaid
    <2>1. CASE x \in About(k.hand)
      <3>1. PICK w \in k.hand : w.id = x
        BY <2>1 DEF About
      <3>2. LastSaid(x) = w.callee
        BY <1>2, <3>1 DEF Orderly, JustSaid
      <3>3. Stands(Idle, w)'
        BY <1>4, <1>6 DEF Stands, Closes, Told
      <3>4. w \in Transient
        BY <1>2
      <3> QED BY <3>1, <3>2, <3>3, <3>4
    <2>2. CASE x \notin About(k.hand)
      <3>1. PICK v \in Transient : v.id = x /\ v.callee = LastSaid(x) /\ Stands(k, v)
        BY <1>2, <1>4, <2>2 DEF Orderly, Remembered
      <3>2. \A w \in Range(ledger') : w.id = x => w \notin k.hand /\ w \in Range(ledger)
        BY <1>6, <2>2 DEF About
      <3>3. v \in Range(ledger')
        BY <1>6, <3>1 DEF Stands
      <3>4. Stands(Idle, v)'
        BY <1>4, <1>6, <3>1, <3>2, <3>3 DEF Stands, Told
      <3> QED BY <3>1, <3>4
    <2> QED BY <2>1, <2>2
  <1>9. News(Idle)'
    <2> SUFFICES ASSUME NEW w \in Range(queue'), printed[w.id] # <<>>
                 PROVE  w.callee # LastSaid(w.id)
      BY <1>2, <1>4 DEF News, Waiting, Told, LastSaid
    <2>1. w \in Range(queue) /\ w.id \notin About(k.hand)
      BY <1>7
    <2> QED BY <1>2, <1>4, <2>1 DEF Orderly, News, Waiting
  <1>10. Measured(Idle)'
    <2>1. /\ IsFiniteSet(Range(queue)) /\ Cardinality(Range(queue)) = Len(queue)
          /\ Cardinality(Range(queue')) = Len(queue')
      <3>1. IsInjective(queue')
        BY <1>7, DistinctIsInjective
      <3> QED BY <1>0, <1>7, <3>1, InjectiveLength, Sizes
    <2>2. Range(queue') \in SUBSET (Range(queue) \ k.hand)
      BY <1>7 DEF About
    <2>3. /\ IsFiniteSet(Range(queue) \ k.hand) /\ Cardinality(k.hand) \in Nat
          /\ Cardinality(Range(queue) \ k.hand) \in Nat
          /\ Cardinality(Range(queue) \ k.hand) + Cardinality(k.hand) = Len(queue)
      BY <1>3, <2>1, PartSize
    <2>4. Cardinality(Range(queue')) <= Cardinality(Range(queue) \ k.hand)
      BY <2>2, <2>3, FS_Subset
    <2>5. PICK a, a1, b, b1, h, r, m :
              /\ a = Len(ledger) /\ a1 = Len(ledger') /\ b = Len(queue) /\ b1 = Len(queue')
              /\ h = Cardinality(k.hand) /\ r = Cardinality(Range(queue) \ k.hand)
              /\ m = Cardinality(Pairs) * scans
      OBVIOUS
    <2>6. a1 \in Nat /\ b1 \in Nat
      BY <1>0, <2>5 DEF TypeInv, TypeOK
    <2>7. a \in Nat /\ b \in Nat /\ m \in Nat /\ h \in Nat /\ r \in Nat
      BY <1>0, <2>3, <2>5, Sizes
    <2>8. Len(ledger) + Len(queue) + Cardinality({}) <= Cardinality(Pairs) * scans /\ Cardinality({}) = 0
      BY <1>0, <1>2, <1>4, Sizes DEF Orderly, Measured
    <2>9. a + b + 0 <= m /\ a1 <= a + h /\ b1 <= r /\ r + h = b
      BY <1>6, <2>1, <2>3, <2>4, <2>5, <2>8
    <2>10. a1 + b1 + 0 <= m
      BY ONLY <2>6, <2>7, <2>9
    <2> QED BY <1>2, <1>4, <2>5, <2>8, <2>10 DEF Measured, Extra
  <1>11. (JustSaid(Idle) /\ Paged(Idle) /\ AtTheEnd(Idle) /\ Away(Idle) /\ Following(Idle))'
    BY <1>4 DEF JustSaid, Paged, AtTheEnd, Away, Following, Told
  <1>12. Orderly(Idle)'
    BY <1>8, <1>9, <1>10, <1>11 DEF Orderly
  <1>13. (scans <= MaxScans)'
    BY <1>2 DEF NagInv
  <1> QED BY <1>0, <1>2, <1>12, <1>13, NagStays

LEMMA NagDrain ==
    ASSUME Roomy, OneAtATime, NagInv, "meet" \notin setting, NEW p \in Reporters, Drain(p)
    PROVE  NagInv'
  <1>0. p \in Procs /\ TypeInv /\ TypeInv' /\ OthersRest(p) /\ Orderly(Idle)
    <2>1. \E what \in Happenings : Fetching(p, what)
      BY DEF Drain, Happenings
    <2> QED BY <2>1, TypeDrain, NagStarter DEF NagInv, Procs
  <1>1. PICK drained : drained = Unshown(Range(queue))
    OBVIOUS
  <1>2. PICK l : l = IF drained = {} THEN Idle
                     ELSE [step |-> "report", hand |-> drained, rest |-> {}]
    OBVIOUS
  <1>3. /\ UNCHANGED <<setting, graph, printed, scans>>
        /\ queue' = <<>> /\ ledger' = Marked(drained)
        /\ local' = [local EXCEPT ![p] = l]
    BY <1>1, <1>2 DEF Drain, topology, history, counts, Become
  <1>4. /\ drained \in SUBSET Transient /\ Few(drained)
        /\ drained \in SUBSET Range(queue) /\ drained \cap Range(ledger) = {}
    <2>1. drained \in SUBSET Range(queue) /\ Few(Range(queue)) /\ Range(queue) \in SUBSET Transient
      BY <1>0, <1>1, InHandFacts, Queueful
    <2>2. drained \cap Range(ledger) = {}
      BY <1>1 DEF Unshown
    <2> QED BY <2>1, <2>2, FewFacts
  <1>5. /\ l.rest = {} /\ Told(l) = drained /\ Extra(l) = {} /\ Removed(l) = {}
        /\ l.step \in {"idle", "report"}
    <2>1. CASE drained = {}
      BY <1>2, <2>1 DEF Told, Idle, Extra, Removed
    <2>2. CASE drained # {}
      <3>1. l = [step |-> "report", hand |-> drained, rest |-> {}]
        BY <1>2, <2>2
      <3> QED BY <3>1 DEF Told, Extra, Removed
    <2> QED BY <2>1, <2>2
  <1>6. Told(Idle) = {} /\ Extra(Idle) = {} /\ Removed(Idle) = {} /\ Idle.rest = {}
    BY DEF Told, Extra, Removed, Idle
  <1>7. /\ Cardinality(drained) \in Nat /\ Cardinality(drained) <= Len(queue)
        /\ Len(ledger) + Cardinality(drained) <= MaxReported
    BY <1>0, <1>4, <1>6, RoomLeft DEF Orderly
  <1>8. /\ Range(ledger') = Range(ledger) \cup drained
        /\ Len(ledger') <= Len(ledger) + Cardinality(drained)
        /\ \A w \in drained : Closes(ledger', w)
        /\ \A v, w : v \notin drained /\ w \notin drained /\ Before(ledger', v, w) => Before(ledger, v, w)
    BY <1>0, <1>3, <1>4, <1>7, MarkedOrder
  <1>9. Range(queue') = {} /\ Len(queue') = 0
    BY <1>3 DEF Range
  <1>10. Remembered(l)'
    <2>1. Remembered(Idle)
      BY <1>0 DEF Orderly
    <2>2. Range(ledger') \ Told(l) = Range(ledger) \ Told(Idle)
      BY <1>4, <1>5, <1>6, <1>8
    <2>3. \A v : Stands(Idle, v) => Stands(l, v)'
      <3> SUFFICES ASSUME NEW v, Stands(Idle, v)  PROVE Stands(l, v)'
        OBVIOUS
      <3>1. \A w \in Range(ledger) : w \notin drained
        BY <1>4
      <3> QED BY <1>6, <1>8, <2>2, <3>1 DEF Stands, Told
    <2> QED BY <1>3, <1>5, <1>6, <2>1, <2>3 DEF Remembered, LastSaid, Removed
  <1>11. News(l)'
    <2>1. News(Idle)
      BY <1>0 DEF Orderly
    <2>2. Waiting(l)' \subseteq Waiting(Idle)
      BY <1>4, <1>5, <1>9 DEF Waiting, Told
    <2> QED BY <1>3, <1>5, <1>6, <2>1, <2>2 DEF News, LastSaid, Removed
  <1>12. AtTheEnd(l)'
    BY <1>5, <1>8 DEF AtTheEnd, Told
  <1>13. Away(l)'
    BY <1>5, <1>9 DEF Away
  <1>14. Measured(l)'
    <2>1. Len(ledger) + Len(queue) + Cardinality({}) <= Cardinality(Pairs) * scans /\ Cardinality({}) = 0
      BY <1>0, <1>6, Sizes DEF Orderly, Measured
    <2>2. PICK a, a1, b, h, m :
              /\ a = Len(ledger) /\ a1 = Len(ledger') /\ b = Len(queue)
              /\ h = Cardinality(drained) /\ m = Cardinality(Pairs) * scans
      OBVIOUS
    <2>3. a1 \in Nat
      BY <1>0, <2>2 DEF TypeInv, TypeOK
    <2>4. a \in Nat /\ b \in Nat /\ m \in Nat /\ h \in Nat
      BY <1>0, <1>7, <2>2, Sizes
    <2>5. a + b + 0 <= m /\ a1 <= a + h /\ h <= b
      BY <1>7, <1>8, <2>1, <2>2
    <2>6. a1 + 0 + 0 <= m
      BY ONLY <2>3, <2>4, <2>5
    <2> QED BY <1>3, <1>5, <1>9, <2>1, <2>2, <2>6 DEF Measured, Extra
  <1>15. (JustSaid(l) /\ Paged(l) /\ Following(l))'
    BY <1>5 DEF JustSaid, Paged, Following
  <1>16. Orderly(l)'
    BY <1>10, <1>11, <1>12, <1>13, <1>14, <1>15 DEF Orderly
  <1>17. (scans <= MaxScans)'
    BY <1>3 DEF NagInv
  <1> QED BY <1>0, <1>3, <1>16, <1>17, NagStays

LEMMA NagInit == Init => NagInv
  <1> SUFFICES ASSUME Init  PROVE NagInv
    OBVIOUS
  <1>1. TypeInv /\ scans <= MaxScans /\ \A p \in Procs : local[p] = Idle
    BY TypeInit, TransientsAssumption DEF Init
  <1>2. /\ Range(queue) = {} /\ Range(ledger) = {} /\ Len(queue) = 0 /\ Len(ledger) = 0
        /\ \A x \in Pairs : printed[x] = <<>>
    BY DEF Init, Range
  <1>3. /\ Told(Idle) = {} /\ Extra(Idle) = {} /\ Removed(Idle) = {} /\ Waiting(Idle) = {}
        /\ Idle.step = "idle" /\ Idle.rest = {}
    BY <1>2 DEF Told, Extra, Removed, Waiting, Idle
  <1>4. Remembered(Idle) /\ News(Idle)
    BY <1>2, <1>3 DEF Remembered, News
  <1>5. JustSaid(Idle) /\ Paged(Idle) /\ AtTheEnd(Idle) /\ Away(Idle) /\ Following(Idle)
    BY <1>3 DEF JustSaid, Paged, AtTheEnd, Away, Following
  <1>6. Measured(Idle)
    <2>1. 0 <= Cardinality(Pairs) * scans
      BY <1>1, Sizes
    <2>2. Cardinality(Extra(Idle)) = 0
      BY <1>1, <1>3, Sizes
    <2> QED BY <1>2, <2>1, <2>2 DEF Measured
  <1> QED BY <1>1, <1>4, <1>5, <1>6 DEF NagInv, Sole, Orderly

LEMMA NagStep ==
    ASSUME Roomy, OneAtATime, NagInv, [Next]_vars
    PROVE  NagInv'
  <1>0. TypeInv /\ TypeInv' /\ setting' = setting /\ (scans <= MaxScans)'
    BY TypeStep, ScansBounded DEF NagInv
  <1>1. CASE "meet" \in setting
    BY <1>0, <1>1 DEF NagInv
  <1>2. CASE "meet" \notin setting
    <2>1. CASE UNCHANGED vars
      BY <1>0, <2>1 DEF vars, topology, files, history, counts, NagInv, Sole, OthersRest, Orderly,
         Remembered, News, JustSaid, Paged, AtTheEnd, Away, Following, Measured, Stands, LastSaid,
         Removed, Waiting, Extra, Told, Of
    <2>2. ASSUME NEW p \in Procs, Handle(p)  PROVE NagInv'
      BY <1>2, <2>2, NagRefresh, NagQueue, NagReport, NagUnmark, NagRequeue, NagDeliver, NagPage,
         NagRemove DEF Handle
    <2>3. ASSUME NEW p \in Procs, Kill(p)  PROVE NagInv'
      BY <1>0, <1>2, <2>3, Calmly DEF Kill
    <2>4. ASSUME NEW p \in Scanners, Scan(p)  PROVE NagInv'
      BY <1>2, <2>4, NagScan
    <2>5. ASSUME NEW p \in Reporters, Drain(p) \/ Peek(p)  PROVE NagInv'
      BY <1>2, <2>5, NagDrain, NagPeek
    <2> QED BY <2>1, <2>2, <2>3, <2>4, <2>5 DEF Next
  <1> QED BY <1>1, <1>2

LEMMA NothingNags ==
    ASSUME NagInv, [Next]_vars, "meet" \notin setting, NEW x \in Pairs,
           Len(printed'[x]) > Len(printed[x]), printed[x] # <<>>
    PROVE  Head(Appended(x)).callee # Last(printed[x]).callee
  <1>1. CASE \E p \in Procs : Deliver(p) \/ Page(p)
    BY <1>1, NagDeliver, NagPage
  <1>2. printed' # printed
    <2>1. Len(printed[x]) \in Nat
      BY DEF NagInv, TypeInv, TypeOK
    <2> QED BY <2>1
  <1>3. \E p \in Procs : Deliver(p) \/ Page(p)
    <2>1. CASE UNCHANGED vars
      BY <1>2, <2>1 DEF vars, history
    <2>2. ASSUME NEW p \in Procs, Handle(p)  PROVE Deliver(p) \/ Page(p)
      BY <1>2, <2>2 DEF Handle, RefreshTransientCallers, QueueTransients, Report, Unmark,
         Requeue, RemoveTransients, history
    <2>3. ASSUME NEW p \in Procs, Kill(p)  PROVE FALSE
      BY <1>2, <2>3 DEF Kill, history
    <2>4. ASSUME NEW p \in Scanners, Scan(p)  PROVE FALSE
      BY <1>2, <2>4 DEF Scan
    <2>5. ASSUME NEW p \in Reporters, Drain(p) \/ Peek(p)  PROVE FALSE
      BY <1>2, <2>5 DEF Drain, Peek, history
    <2> QED BY <2>1, <2>2, <2>3, <2>4, <2>5 DEF Next
  <1> QED BY <1>1, <1>3

\* Where one process is at work at a time, two reports in a row about a pair differ in the callee,
\* whatever is edited, cut short or paged through, as long as nothing was pruned from the ledger
\* (RefreshTransientCallers, QueueTransients, RequeueTransients, RemoveTransients).
THEOREM NeverNagged == Roomy /\ OneAtATime => (Spec => NoNag)
  <1> DEFINE Differs == "meet" \notin setting => \A x \in Pairs :
                Len(printed'[x]) > Len(printed[x]) /\ printed[x] # <<>>
                    => Head(Appended(x)).callee # Last(printed[x]).callee
  <1>1. ASSUME Roomy, OneAtATime, NagInv, [Next]_vars  PROVE NagInv' /\ Differs
    BY <1>1, NagStep, NothingNags
  <1> SUFFICES ASSUME Roomy, OneAtATime  PROVE Spec => NoNag
    OBVIOUS
  <1>2. NagInv /\ [Next]_vars => NagInv' /\ Differs
    BY <1>1
  <1>3. Spec => [][Differs]_vars
    BY NagInit, <1>2, PTL DEF Spec
  <1> QED BY <1>3 DEF NoNag
=============================================================================
