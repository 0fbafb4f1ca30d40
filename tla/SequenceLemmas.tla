---------------------------- MODULE SequenceLemmas ----------------------------
(* What is in a sequence and how often, as messages are put in a queue, taken *)
(* from it and moved between queues.                                          *)
EXTENDS Integers, Sequences, FiniteSets, FiniteSetTheorems, SequenceTheorems, WellFoundedInduction, TLAPS

\* What a sequence holds once one is appended, ...
LEMMA RangeAppend ==
    ASSUME NEW S, NEW s \in Seq(S), NEW e \in S
    PROVE  Range(Append(s, e)) = Range(s) \cup {e}
<1>1. /\ DOMAIN s = 1..Len(s) /\ Len(s) \in Nat
      /\ DOMAIN Append(s, e) = 1..Len(s) + 1
      /\ Append(s, e)[Len(s) + 1] = e
      /\ \A i \in 1..Len(s) : Append(s, e)[i] = s[i]
  OBVIOUS
<1>2. ASSUME NEW x \in Range(Append(s, e)) PROVE x \in Range(s) \cup {e}
  <2>1. PICK i \in 1..Len(s) + 1 : x = Append(s, e)[i]
    BY <1>1 DEF Range
  <2> QED BY <1>1, <2>1 DEF Range
<1>3. ASSUME NEW x \in Range(s) PROVE x \in Range(Append(s, e))
  <2>1. PICK i \in 1..Len(s) : x = s[i]
    BY <1>1 DEF Range
  <2>2. i \in DOMAIN Append(s, e) /\ Append(s, e)[i] = x
    BY <1>1, <2>1
  <2> QED BY <2>2 DEF Range
<1>4. e \in Range(Append(s, e))
  BY <1>1 DEF Range
<1> QED BY <1>2, <1>3, <1>4

\* ... once two are joined, ...
LEMMA RangeConcat ==
    ASSUME NEW S, NEW s \in Seq(S), NEW t \in Seq(S)
    PROVE  Range(s \o t) = Range(s) \cup Range(t)
<1>1. /\ DOMAIN s = 1..Len(s) /\ Len(s) \in Nat
      /\ DOMAIN t = 1..Len(t) /\ Len(t) \in Nat
      /\ DOMAIN (s \o t) = 1..Len(s) + Len(t)
      /\ \A i \in 1..Len(s) + Len(t) :
            (s \o t)[i] = IF i <= Len(s) THEN s[i] ELSE t[i - Len(s)]
  OBVIOUS
<1>2. ASSUME NEW x \in Range(s \o t) PROVE x \in Range(s) \cup Range(t)
  <2>1. PICK i \in 1..Len(s) + Len(t) : x = (s \o t)[i]
    BY <1>1 DEF Range
  <2>2. CASE i <= Len(s)
    BY <1>1, <2>1, <2>2 DEF Range
  <2>3. CASE ~(i <= Len(s))
    <3>1. i - Len(s) \in DOMAIN t /\ x = t[i - Len(s)]
      BY <1>1, <2>1, <2>3
    <3> QED BY <3>1 DEF Range
  <2> QED BY <2>2, <2>3
<1>3. ASSUME NEW x \in Range(s) PROVE x \in Range(s \o t)
  <2>1. PICK i \in 1..Len(s) : x = s[i]
    BY <1>1 DEF Range
  <2>2. i \in DOMAIN (s \o t) /\ (s \o t)[i] = x
    BY <1>1, <2>1
  <2> QED BY <2>2 DEF Range
<1>4. ASSUME NEW x \in Range(t) PROVE x \in Range(s \o t)
  <2>1. PICK i \in 1..Len(t) : x = t[i]
    BY <1>1 DEF Range
  <2>2. i + Len(s) \in DOMAIN (s \o t) /\ (s \o t)[i + Len(s)] = x
    BY <1>1, <2>1
  <2> QED BY <2>2 DEF Range
<1> QED BY <1>2, <1>3, <1>4

\* ... and once the first is taken off.
LEMMA RangeTail ==
    ASSUME NEW S, NEW s \in Seq(S), s # <<>>
    PROVE  Range(s) = {Head(s)} \cup Range(Tail(s))
<1>1. /\ DOMAIN s = 1..Len(s) /\ Len(s) \in Nat /\ Len(s) >= 1
      /\ Tail(s) \in Seq(S)
      /\ DOMAIN Tail(s) = 1..Len(s) - 1
      /\ \A i \in 1..Len(s) - 1 : Tail(s)[i] = s[i + 1]
      /\ Head(s) = s[1]
  OBVIOUS
<1>2. ASSUME NEW x \in Range(s), x # Head(s) PROVE x \in Range(Tail(s))
  <2>1. PICK i \in 1..Len(s) : x = s[i]
    BY <1>1, <1>2 DEF Range
  <2>2. i - 1 \in DOMAIN Tail(s) /\ Tail(s)[i - 1] = x
    BY <1>1, <1>2, <2>1
  <2> QED BY <2>2 DEF Range
<1>3. ASSUME NEW x \in Range(Tail(s)) PROVE x \in Range(s)
  <2>1. PICK i \in 1..Len(s) - 1 : x = Tail(s)[i]
    BY <1>1, <1>3 DEF Range
  <2>2. i + 1 \in DOMAIN s /\ s[i + 1] = x
    BY <1>1, <2>1
  <2> QED BY <2>2 DEF Range
<1>4. Head(s) \in Range(s)
  BY <1>1 DEF Range
<1> QED BY <1>2, <1>3, <1>4

LEMMA RangeEmpty == Range(<<>>) = {}
BY DEF Range

-----------------------------------------------------------------------------
Occurrences(s, T) == Cardinality({i \in DOMAIN s : s[i] \in T})

\* A count is a number, zero if and only if no element of T occurs.
LEMMA CountType ==
    ASSUME NEW S, NEW s \in Seq(S), NEW T
    PROVE  /\ IsFiniteSet({i \in DOMAIN s : s[i] \in T})
           /\ Occurrences(s, T) \in Nat
           /\ Occurrences(s, T) = 0 <=> \A i \in DOMAIN s : s[i] \notin T
<1> DEFINE P == {i \in DOMAIN s : s[i] \in T}
<1>1. IsFiniteSet(P)
  <2>1. DOMAIN s = 1..Len(s) /\ Len(s) \in Nat
    OBVIOUS
  <2>2. IsFiniteSet(1..Len(s))
    BY <2>1, FS_Interval
  <2> QED BY <2>1, <2>2, FS_Subset
<1>2. Cardinality(P) \in Nat /\ (Cardinality(P) = 0 <=> P = {})
  BY <1>1, FS_CardinalityType, FS_EmptySet
<1> QED BY <1>1, <1>2 DEF Occurrences

LEMMA CountEmpty == ASSUME NEW T PROVE Occurrences(<<>>, T) = 0
<1>1. {i \in DOMAIN <<>> : <<>>[i] \in T} = {}
  OBVIOUS
<1> QED BY <1>1, FS_EmptySet DEF Occurrences

\* Appending one counts it.
LEMMA CountAppend ==
    ASSUME NEW S, NEW s \in Seq(S), NEW e \in S, NEW T
    PROVE  Occurrences(Append(s, e), T) = Occurrences(s, T) + (IF e \in T THEN 1 ELSE 0)
<1> DEFINE P == {i \in DOMAIN s : s[i] \in T}
           Q == {i \in DOMAIN Append(s, e) : Append(s, e)[i] \in T}
<1>1. /\ DOMAIN s = 1..Len(s) /\ Len(s) \in Nat
      /\ DOMAIN Append(s, e) = 1..Len(s) + 1
      /\ Append(s, e)[Len(s) + 1] = e
      /\ \A i \in 1..Len(s) : Append(s, e)[i] = s[i]
  OBVIOUS
<1>0. Occurrences(s, T) = Cardinality(P) /\ Occurrences(Append(s, e), T) = Cardinality(Q)
  BY Zenon DEF Occurrences
<1>2. IsFiniteSet(P) /\ Cardinality(P) \in Nat /\ Len(s) + 1 \notin P
  <2>1. IsFiniteSet(P) /\ Cardinality(P) \in Nat
    BY CountType, Zenon DEF Occurrences
  <2>2. Len(s) + 1 \notin P
    BY <1>1
  <2> QED BY <2>1, <2>2
<1>3. CASE e \in T
  <2>1. Q = P \cup {Len(s) + 1}
    BY <1>1, <1>3
  <2>2. Cardinality(Q) = Cardinality(P) + 1
    BY <1>2, <2>1, FS_AddElement
  <2> QED BY <1>0, <1>2, <1>3, <2>2
<1>4. CASE e \notin T
  <2>1. Q = P
    BY <1>1, <1>4
  <2> HIDE DEF P, Q
  <2> QED BY <1>0, <1>2, <1>4, <2>1
<1> QED BY <1>3, <1>4

\* Taking the first one uncounts it.
LEMMA CountTail ==
    ASSUME NEW S, NEW s \in Seq(S), s # <<>>, NEW T
    PROVE  Occurrences(s, T) = Occurrences(Tail(s), T) + (IF Head(s) \in T THEN 1 ELSE 0)
<1> DEFINE P == {i \in DOMAIN s : s[i] \in T}
           Q == {i \in DOMAIN Tail(s) : Tail(s)[i] \in T}
           R == {i \in P : i # 1}
           f == [i \in Q |-> i + 1]
<1>1. /\ DOMAIN s = 1..Len(s) /\ Len(s) \in Nat /\ Len(s) >= 1
      /\ Tail(s) \in Seq(S)
      /\ DOMAIN Tail(s) = 1..Len(s) - 1
      /\ \A i \in 1..Len(s) - 1 : Tail(s)[i] = s[i + 1]
      /\ Head(s) = s[1]
  OBVIOUS
<1>0. Occurrences(s, T) = Cardinality(P) /\ Occurrences(Tail(s), T) = Cardinality(Q)
  BY Zenon DEF Occurrences
<1>2. IsFiniteSet(P) /\ IsFiniteSet(Q)
  BY <1>1, CountType, Zenon
<1>3. f \in Bijection(Q, R)
  <2>1. \A i \in Q : f[i] \in R
    BY <1>1
  <2>2. \A i, j \in Q : f[i] = f[j] => i = j
    BY <1>1
  <2>3. \A k \in R : \E i \in Q : f[i] = k
    <3> SUFFICES ASSUME NEW k \in R PROVE \E i \in Q : f[i] = k
      OBVIOUS
    <3>1. k - 1 \in Q /\ f[k - 1] = k
      BY <1>1
    <3> QED BY <3>1
  <2> QED BY <2>1, <2>2, <2>3 DEF Bijection, Injection, Surjection, IsInjective
<1>4. Cardinality(Q) = Cardinality(R)
  BY <1>2, <1>3, FS_Bijection DEF ExistsBijection
<1>5. CASE Head(s) \in T
  <2>1. 1 \in P /\ R = P \ {1}
    BY <1>1, <1>5
  <2>2. Cardinality(R) = Cardinality(P) - 1
    BY <1>2, <2>1, FS_RemoveElement
  <2>3. Cardinality(P) \in Nat
    BY <1>2, FS_CardinalityType
  <2> HIDE DEF P, Q, R
  <2> QED BY <1>0, <1>4, <1>5, <2>2, <2>3
<1>6. CASE Head(s) \notin T
  <2>1. R = P
    BY <1>1, <1>6
  <2>2. Cardinality(P) \in Nat
    BY <1>2, FS_CardinalityType
  <2> HIDE DEF P, Q, R
  <2> QED BY <1>0, <1>4, <1>6, <2>1, <2>2
<1> QED BY <1>5, <1>6

\* Joining two adds their counts.
LEMMA CountConcat ==
    ASSUME NEW S, NEW s \in Seq(S), NEW t \in Seq(S), NEW T
    PROVE  Occurrences(s \o t, T) = Occurrences(s, T) + Occurrences(t, T)
<1> DEFINE P == {i \in DOMAIN s : s[i] \in T}
           Q == {i \in DOMAIN t : t[i] \in T}
           R == {i \in DOMAIN (s \o t) : (s \o t)[i] \in T}
           U == R \ P
           f == [i \in Q |-> i + Len(s)]
<1>1. /\ DOMAIN s = 1..Len(s) /\ Len(s) \in Nat
      /\ DOMAIN t = 1..Len(t) /\ Len(t) \in Nat
      /\ s \o t \in Seq(S)
      /\ DOMAIN (s \o t) = 1..Len(s) + Len(t)
      /\ \A i \in 1..Len(s) + Len(t) :
            (s \o t)[i] = IF i <= Len(s) THEN s[i] ELSE t[i - Len(s)]
  OBVIOUS
<1>0. /\ Occurrences(s, T) = Cardinality(P) /\ Occurrences(t, T) = Cardinality(Q)
      /\ Occurrences(s \o t, T) = Cardinality(R)
  BY Zenon DEF Occurrences
<1>2. IsFiniteSet(P) /\ IsFiniteSet(Q) /\ IsFiniteSet(R)
  BY <1>1, CountType, Zenon
<1>3. P \subseteq R /\ \A k \in U : k > Len(s)
  BY <1>1
<1>4. f \in Bijection(Q, U)
  <2>1. \A i \in Q : f[i] \in U
    BY <1>1
  <2>2. \A i, j \in Q : f[i] = f[j] => i = j
    BY <1>1
  <2>3. \A k \in U : \E i \in Q : f[i] = k
    <3> SUFFICES ASSUME NEW k \in U PROVE \E i \in Q : f[i] = k
      OBVIOUS
    <3>1. k - Len(s) \in Q /\ f[k - Len(s)] = k
      BY <1>1, <1>3
    <3> QED BY <3>1
  <2> QED BY <2>1, <2>2, <2>3 DEF Bijection, Injection, Surjection, IsInjective
<1>5. IsFiniteSet(U) /\ R = P \cup U /\ P \cap U = {}
  <2>1. IsFiniteSet(U)
    BY <1>2, FS_Subset
  <2> QED BY <1>3, <2>1
<1>6. Cardinality(Q) = Cardinality(U)
  BY <1>2, <1>4, FS_Bijection DEF ExistsBijection
<1> HIDE DEF P, Q, R, U
<1>7. Cardinality(R) = Cardinality(P) + Cardinality(U)
  <2>1. Cardinality(P \cup U) = Cardinality(P) + Cardinality(U) - Cardinality(P \cap U)
    BY <1>2, <1>5, FS_Union
  <2>2. Cardinality(P \cap U) = 0
    BY <1>5, FS_EmptySet
  <2>3. Cardinality(P) \in Nat /\ Cardinality(U) \in Nat
    BY <1>2, <1>5, FS_CardinalityType
  <2> QED BY <1>5, <2>1, <2>2, <2>3
<1> QED BY <1>0, <1>6, <1>7

\* What no two places hold occurs once at most.
LEMMA CountOnce ==
    ASSUME NEW S, NEW s \in Seq(S), NEW T,
           \A i, j \in DOMAIN s : s[i] \in T /\ s[j] \in T => i = j
    PROVE  Occurrences(s, T) <= 1
<1> DEFINE P == {i \in DOMAIN s : s[i] \in T}
<1>0. Occurrences(s, T) = Cardinality(P)
  BY Zenon DEF Occurrences
<1>1. CASE P = {}
  <2>1. Cardinality(P) = 0
    BY <1>1, FS_EmptySet
  <2> HIDE DEF P
  <2> QED BY <1>0, <2>1
<1>2. CASE P # {}
  <2>1. PICK i \in P : P = {i}
    BY <1>2
  <2>2. Cardinality(P) = 1
    BY <2>1, FS_Singleton
  <2> HIDE DEF P
  <2> QED BY <1>0, <2>2
<1> QED BY <1>1, <1>2
-----------------------------------------------------------------------------
\* Where the items of a sequence stand once one is appended ...
LEMMA AppendAt ==
    ASSUME NEW S, NEW s \in Seq(S), NEW e \in S
    PROVE  /\ Append(s, e) \in Seq(S)
           /\ Len(s) \in Nat /\ Len(s) + 1 \in DOMAIN Append(s, e)
           /\ Append(s, e)[Len(s) + 1] = e
           /\ \A i \in DOMAIN s : /\ i \in Nat /\ i < Len(s) + 1
                                  /\ i \in DOMAIN Append(s, e) /\ Append(s, e)[i] = s[i]
           /\ \A i \in DOMAIN Append(s, e) :
                 \/ i = Len(s) + 1
                 \/ i \in DOMAIN s /\ Append(s, e)[i] = s[i]
<1>1. Append(s, e) \in Seq(S) /\ Len(s) \in Nat /\ DOMAIN s = 1..Len(s)
  OBVIOUS
<1>2. DOMAIN Append(s, e) = 1..Len(s) + 1 /\ Append(s, e)[Len(s) + 1] = e
  OBVIOUS
<1>3. \A i \in 1..Len(s) : Append(s, e)[i] = s[i]
  OBVIOUS
<1> QED BY <1>1, <1>2, <1>3

\* ... or the first is taken.
LEMMA TailAt ==
    ASSUME NEW S, NEW s \in Seq(S), s # <<>>
    PROVE  /\ Tail(s) \in Seq(S)
           /\ 1 \in DOMAIN s /\ Head(s) = s[1] /\ Head(s) \in S
           /\ \A i \in DOMAIN Tail(s) : i \in Nat \ {0} /\ i + 1 \in DOMAIN s /\ Tail(s)[i] = s[i + 1]
           /\ \A i \in DOMAIN s :
                 i = 1 \/ (i \in Nat /\ i > 1 /\ i - 1 \in DOMAIN Tail(s) /\ Tail(s)[i - 1] = s[i])
<1>1. /\ Len(s) \in Nat \ {0} /\ DOMAIN s = 1..Len(s)
      /\ Tail(s) \in Seq(S) /\ DOMAIN Tail(s) = 1..Len(s) - 1
  OBVIOUS
<1>2. Head(s) = s[1] /\ s[1] \in S
  BY <1>1
<1>3. \A i \in 1..Len(s) - 1 : Tail(s)[i] = s[i + 1]
  BY <1>1
<1>4. ASSUME NEW i \in DOMAIN s, i # 1
      PROVE  i > 1 /\ i - 1 \in 1..Len(s) - 1 /\ Tail(s)[i - 1] = s[i]
  BY <1>1, <1>3, <1>4
<1> QED BY <1>1, <1>2, <1>3, <1>4

-----------------------------------------------------------------------------
\* What holds of 0 and of the next of every number it holds of holds of all: a
\* set of numbers that is not Nat would leave out a least one.
LEMMA NatSetInduction ==
    ASSUME NEW T, 0 \in T, \A n \in Nat : n \in T => n + 1 \in T
    PROVE  Nat \subseteq T
<1> DEFINE Out == {n \in Nat : n \notin T}
<1>1. SUFFICES ASSUME Out # {} PROVE FALSE
  OBVIOUS
<1> DEFINE R == OpToRel(<, Nat)
<1>2. PICK k \in Out : \A j \in Out : <<j, k>> \notin R
  <2>1. IsWellFoundedOn(R, Nat)
    BY NatLessThanWellFounded, Zenon
  <2>2. Out \subseteq Nat
    OBVIOUS
  <2> HIDE DEF R, Out
  <2> QED BY <1>1, <2>1, <2>2, WFMin
<1>3. R = {ss \in Nat \X Nat : ss[1] < ss[2]}
  BY Zenon DEF OpToRel
<1>4. k \in Nat /\ k # 0 /\ k - 1 \in Nat /\ k - 1 < k
  <2>1. k \in Nat /\ k \notin T
    OBVIOUS
  <2> QED BY <2>1
<1>5. k - 1 \notin Out
  <2>1. <<k - 1, k>> \in {ss \in Nat \X Nat : ss[1] < ss[2]}
    BY <1>4
  <2> HIDE DEF R, Out
  <2> QED BY <1>2, <1>3, <2>1
<1>6. k - 1 \in T
  BY <1>4, <1>5
<1>7. k \in T
  BY <1>4, <1>6
<1> QED BY <1>7

\* What a recursion over 0..n, with its steps in S, defines.
Steps(f, base, step, n) ==
    /\ f[0] = base
    /\ \A i \in 1..n : f[i] = step[<<i, f[i - 1]>>]

LEMMA RecursionIsDefined ==
    ASSUME NEW S, NEW base \in S, NEW step \in [Nat \X S -> S], NEW n \in Nat
    PROVE  \E f \in [0..n -> S] : Steps(f, base, step, n)
<1> DEFINE T == {k \in Nat : \E f \in [0..k -> S] : Steps(f, base, step, k)}
<1>1. 0 \in T
  <2> DEFINE f == [i \in 0..0 |-> base]
  <2>1. f \in [0..0 -> S] /\ f[0] = base /\ \A i \in 1..0 : FALSE
    OBVIOUS
  <2>2. Steps(f, base, step, 0)
    BY <2>1 DEF Steps
  <2> QED BY <2>1, <2>2
<1>2. ASSUME NEW k \in Nat, k \in T PROVE k + 1 \in T
  <2>1. PICK f \in [0..k -> S] : Steps(f, base, step, k)
    BY <1>2
  <2> DEFINE g == [i \in 0..(k + 1) |-> IF i <= k THEN f[i] ELSE step[<<k + 1, f[k]>>]]
  <2>2. step[<<k + 1, f[k]>>] \in S
    <3>1. f[k] \in S /\ k + 1 \in Nat
      OBVIOUS
    <3>2. <<k + 1, f[k]>> \in Nat \X S
      BY <3>1
    <3> QED BY <3>2
  <2>3. g \in [0..(k + 1) -> S]
    BY <2>2
  <2>4. ASSUME NEW i \in 1..(k + 1) PROVE g[i] = step[<<i, g[i - 1]>>]
    <3>1. CASE i <= k
      <4>1. i \in 1..k /\ i \in 0..(k + 1) /\ i - 1 \in 0..(k + 1) /\ i - 1 <= k
        BY <3>1
      <4>2. g[i] = f[i] /\ g[i - 1] = f[i - 1]
        BY <3>1, <4>1
      <4>3. f[i] = step[<<i, f[i - 1]>>]
        BY <2>1, <4>1 DEF Steps
      <4> QED BY <4>2, <4>3
    <3>2. CASE i = k + 1
      <4>1. g[k + 1] = step[<<k + 1, f[k]>>]
        OBVIOUS
      <4>2. g[k] = f[k] /\ i - 1 = k
        BY <3>2
      <4> QED BY <3>2, <4>1, <4>2
    <3> QED BY <3>1, <3>2
  <2>5. g[0] = base
    BY <2>1 DEF Steps
  <2>6. Steps(g, base, step, k + 1)
    <3> HIDE DEF g
    <3> QED BY <2>4, <2>5 DEF Steps
  <2> HIDE DEF g
  <2> QED BY <2>3, <2>6
<1>3. Nat \subseteq T
  <2> HIDE DEF T
  <2> QED BY <1>1, <1>2, NatSetInduction
<1> QED BY <1>3

\* A set of numbers has a least member, ...
LEMMA LeastExists ==
    ASSUME NEW S, S \subseteq Nat, S # {}
    PROVE  \E x \in S : \A y \in S : x <= y
<1>1. SUFFICES ASSUME \A x \in S : \E y \in S : ~(x <= y) PROVE FALSE
  BY Zenon
<1> DEFINE T == {n \in Nat : \A m \in S : n <= m}
<1>2. 0 \in T
  OBVIOUS
<1>3. ASSUME NEW n \in Nat, n \in T PROVE n + 1 \in T
  <2>1. n \notin S
    BY <1>1, <1>3
  <2>2. ASSUME NEW m \in S PROVE n + 1 <= m
    <3>1. n <= m /\ m # n /\ m \in Nat
      BY <1>3, <2>1
    <3> QED BY <3>1
  <2> QED BY <2>2
<1> HIDE DEF T
<1>4. Nat \subseteq T
  BY <1>2, <1>3, NatSetInduction
<1>5. PICK k \in S : TRUE
  OBVIOUS
<1>6. k + 1 \in T
  BY <1>4, <1>5
<1>7. k + 1 <= k /\ k \in Nat
  BY <1>5, <1>6 DEF T
<1> QED BY <1>7

\* ... and one that a number bounds has a greatest.
LEMMA GreatestExists ==
    ASSUME NEW b \in Nat, NEW S, S \subseteq 0..b, S # {}
    PROVE  \E x \in S : \A y \in S : y <= x
<1> DEFINE T == {b - x : x \in S}
<1>1. T \subseteq Nat /\ T # {}
  <2>1. \A x \in S : b - x \in Nat
    OBVIOUS
  <2> QED BY <2>1
<1>2. PICK k \in T : \A m \in T : k <= m
  BY <1>1, LeastExists, Zenon
<1>3. PICK x \in S : k = b - x
  BY <1>2
<1>4. ASSUME NEW y \in S PROVE y <= x
  <2>1. b - x <= b - y
    BY <1>2, <1>3, <1>4
  <2> QED BY <2>1
<1> QED BY <1>4

=============================================================================
