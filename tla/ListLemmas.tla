----------------------------- MODULE ListLemmas -----------------------------
(***************************************************************************)
(* Facts about sequences and finite sets of numbers, for the proofs about  *)
(* the lists and the command table.                                        *)
(***************************************************************************)
EXTENDS Integers, Sequences, SequencesExt, SequenceTheorems, FiniteSetTheorems, TLAPS

\* Taking the i-th element out of a sequence shifts the later ones down.
LEMMA RemoveAtFacts ==
    ASSUME NEW S, NEW s \in Seq(S), NEW i \in DOMAIN s
    PROVE  /\ RemoveAt(s, i) \in Seq(S)
           /\ Len(RemoveAt(s, i)) = Len(s) - 1
           /\ \A k \in 1..(Len(s) - 1) :
                RemoveAt(s, i)[k] = IF k < i THEN s[k] ELSE s[k + 1]
<1> DEFINE f == SubSeq(s, 1, i - 1)
           g == SubSeq(s, i + 1, Len(s))
<1>1. /\ f \in Seq(S) /\ Len(f) = i - 1
      /\ \A k \in 1..(i - 1) : f[k] = s[k]
  BY SubSeqProperties, LenProperties
<1>2. /\ g \in Seq(S) /\ Len(g) = Len(s) - i
      /\ \A k \in 1..(Len(s) - i) : g[k] = s[i + k]
  BY SubSeqProperties, LenProperties
<1> HIDE DEF f, g
<1>3. /\ f \o g \in Seq(S)
      /\ Len(f \o g) = Len(f) + Len(g)
      /\ \A k \in 1..(Len(f) + Len(g)) :
           (f \o g)[k] = IF k <= Len(f) THEN f[k] ELSE g[k - Len(f)]
  BY <1>1, <1>2, ConcatProperties
<1>4. i \in 1..Len(s) /\ Len(s) \in Nat
  BY LenProperties
<1>5. Len(f) + Len(g) = Len(s) - 1
  BY <1>1, <1>2, <1>4
<1>6. ASSUME NEW k \in 1..(Len(s) - 1)
      PROVE  (f \o g)[k] = IF k < i THEN s[k] ELSE s[k + 1]
  <2>1. CASE k < i
    BY <1>1, <1>3, <1>4, <1>5, <2>1
  <2>2. CASE ~(k < i)
    <3>1. k - (i - 1) \in 1..(Len(s) - i)
      BY <1>4, <2>2
    <3>2. g[k - (i - 1)] = s[i + (k - (i - 1))]
      BY <1>2, <3>1
    <3>3. i + (k - (i - 1)) = k + 1
      BY <1>4
    <3> QED  BY <1>1, <1>3, <1>4, <1>5, <2>2, <3>2, <3>3
  <2> QED  BY <2>1, <2>2
<1>7. RemoveAt(s, i) = f \o g
  BY DEF RemoveAt, f, g
<1> QED  BY <1>3, <1>5, <1>6, <1>7

\* What membership of a sequence without repetitions becomes.
LEMMA RemoveAtMembers ==
    ASSUME NEW S, NEW s \in Seq(S), NEW i \in DOMAIN s,
           \A j, k \in DOMAIN s : s[j] = s[k] => j = k
    PROVE  /\ ToSet(RemoveAt(s, i)) = ToSet(s) \ {s[i]}
           /\ \A j, k \in DOMAIN RemoveAt(s, i) :
                RemoveAt(s, i)[j] = RemoveAt(s, i)[k] => j = k
<1> DEFINE t == RemoveAt(s, i)
<1>1. /\ t \in Seq(S) /\ Len(t) = Len(s) - 1
      /\ \A k \in 1..(Len(s) - 1) : t[k] = IF k < i THEN s[k] ELSE s[k + 1]
  BY RemoveAtFacts
<1>2. /\ Len(s) \in Nat /\ DOMAIN s = 1..Len(s) /\ DOMAIN t = 1..(Len(s) - 1)
      /\ i \in 1..Len(s)
  BY <1>1, LenProperties
<1> HIDE DEF t
<1>3. ASSUME NEW x \in ToSet(t)
      PROVE  x \in ToSet(s) \ {s[i]}
  <2>1. PICK k \in 1..(Len(s) - 1) : t[k] = x
    BY <1>2 DEF ToSet
  <2>2. x = IF k < i THEN s[k] ELSE s[k + 1]
    BY <1>1, <2>1
  <2>3. k \in DOMAIN s /\ k + 1 \in DOMAIN s
    BY <1>2
  <2> QED  BY <1>2, <2>2, <2>3 DEF ToSet
<1>4. ASSUME NEW x \in ToSet(s) \ {s[i]}
      PROVE  x \in ToSet(t)
  <2>1. PICK k \in 1..Len(s) : s[k] = x
    BY <1>2 DEF ToSet
  <2>2. CASE k < i
    BY <1>1, <1>2, <2>1, <2>2 DEF ToSet
  <2>3. CASE k > i
    <3>1. k - 1 \in 1..(Len(s) - 1) /\ ~(k - 1 < i) /\ (k - 1) + 1 = k
      BY <1>2, <2>3
    <3>2. t[k - 1] = s[k]
      BY <1>1, <3>1
    <3> QED  BY <1>2, <2>1, <3>1, <3>2 DEF ToSet
  <2> QED  BY <1>2, <2>1, <2>2, <2>3
<1>5. ASSUME NEW j \in DOMAIN t, NEW k \in DOMAIN t, t[j] = t[k]
      PROVE  j = k
  BY <1>1, <1>2, <1>5
<1> QED  BY <1>3, <1>4, <1>5 DEF t

\* Appending what is not there.
LEMMA AppendMembers ==
    ASSUME NEW S, NEW s \in Seq(S), NEW x \in S, x \notin ToSet(s),
           \A j, k \in DOMAIN s : s[j] = s[k] => j = k
    PROVE  /\ Append(s, x) \in Seq(S)
           /\ ToSet(Append(s, x)) = ToSet(s) \cup {x}
           /\ \A j, k \in DOMAIN Append(s, x) :
                Append(s, x)[j] = Append(s, x)[k] => j = k
<1>1. /\ Len(s) \in Nat /\ DOMAIN s = 1..Len(s)
      /\ Append(s, x) \in Seq(S) /\ Len(Append(s, x)) = Len(s) + 1
      /\ DOMAIN Append(s, x) = 1..(Len(s) + 1)
      /\ Append(s, x)[Len(s) + 1] = x
      /\ \A k \in 1..Len(s) : Append(s, x)[k] = s[k]
  BY LenProperties, AppendProperties
<1>2. \A k \in 1..Len(s) : s[k] \in ToSet(s) /\ s[k] # x
  BY <1>1 DEF ToSet
<1>3. \A k \in 1..(Len(s) + 1) : k \in 1..Len(s) \/ k = Len(s) + 1
  BY <1>1
<1>4. ToSet(Append(s, x)) \subseteq ToSet(s) \cup {x}
  BY <1>1, <1>2, <1>3 DEF ToSet
<1>5. ToSet(s) \cup {x} \subseteq ToSet(Append(s, x))
  <2>1. \A k \in 1..Len(s) : k \in 1..(Len(s) + 1)
    BY <1>1
  <2>2. Len(s) + 1 \in 1..(Len(s) + 1)
    BY <1>1
  <2> QED  BY <1>1, <2>1, <2>2 DEF ToSet
<1> QED  BY <1>1, <1>2, <1>3, <1>4, <1>5
-----------------------------------------------------------------------------
\* Counting the elements up to each one numbers a finite set of numbers.
LEMMA RankFacts ==
    ASSUME NEW P, IsFiniteSet(P), P \subseteq Nat
    PROVE  LET Rank(i) == Cardinality({j \in P : j <= i})
           IN  /\ \A i \in P : Rank(i) \in 1..Cardinality(P)
               /\ \A h, i \in P : h < i => Rank(h) < Rank(i)
               /\ \A k \in 1..Cardinality(P) : \E i \in P : Rank(i) = k
<1> DEFINE Up(i) == {j \in P : j <= i}
           Rank(i) == Cardinality(Up(i))
           c == Cardinality(P)
           r == [i \in P |-> Rank(i)]
<1>1. c \in Nat
  BY FS_CardinalityType
<1>2. \A i \in P : Up(i) \in SUBSET P /\ i \in Up(i)
  OBVIOUS
<1>3. \A i \in P : IsFiniteSet(Up(i)) /\ Rank(i) \in Nat /\ Rank(i) <= c
  BY <1>2, FS_Subset, FS_CardinalityType
<1>4. ASSUME NEW i \in P PROVE Rank(i) # 0
  BY <1>2, <1>3, FS_EmptySet
<1>5. ASSUME NEW h \in P, NEW i \in P, h < i PROVE Rank(h) < Rank(i)
  <2>1. h \in Nat /\ i \in Nat
    OBVIOUS
  <2>2. Up(h) \in SUBSET Up(i) /\ i \notin Up(h)
    <3>1. \A j \in P : j \in Nat /\ (j <= h => j <= i)
      BY <1>5, <2>1
    <3>2. ~(i <= h)
      BY <1>5, <2>1
    <3> QED  BY <3>1, <3>2
  <2>3. Up(h) # Up(i)
    BY <1>2, <2>2
  <2>4. Rank(h) <= Rank(i) /\ Rank(h) # Rank(i)
    BY <1>3, <2>2, <2>3, FS_Subset
  <2>5. Rank(h) \in Nat /\ Rank(i) \in Nat
    BY <1>3
  <2> HIDE DEF Rank
  <2> QED  BY <2>4, <2>5
<1>6. \A i \in P : Rank(i) \in 1..c
  <2> HIDE DEF Rank, c
  <2> SUFFICES ASSUME NEW i \in P PROVE Rank(i) \in 1..c
    OBVIOUS
  <2>1. Rank(i) \in Nat /\ Rank(i) <= c /\ Rank(i) # 0
    BY <1>3, <1>4 DEF Rank, c
  <2> QED  BY <1>1, <2>1
<1> HIDE DEF Rank, c
<1>7. r \in Injection(P, 1..c)
  <2>1. r \in [P -> 1..c]
    BY <1>6
  <2>2. ASSUME NEW h \in P, NEW i \in P, r[h] = r[i] PROVE h = i
    <3>1. Rank(h) = Rank(i) /\ h \in Nat /\ i \in Nat /\ Rank(h) \in Nat
      BY <1>3, <2>2
    <3>2. ~(h < i) /\ ~(i < h)
      BY <1>5, <3>1
    <3> QED  BY <3>1, <3>2
  <2> QED  BY <2>1, <2>2 DEF Injection, IsInjective
<1>8. IsFiniteSet(1..c) /\ Cardinality(1..c) = c
  BY <1>1, FS_Interval
<1>9. r \in Surjection(P, 1..c)
  BY <1>7, <1>8, FS_Injection DEF c
<1>10. \A k \in 1..c : \E i \in P : Rank(i) = k
  BY <1>9 DEF Surjection
<1> QED  BY <1>5, <1>6, <1>10 DEF Rank, c

\* The first element with a property, where there is one.
LEMMA FirstFacts ==
    ASSUME NEW P, IsFiniteSet(P), P \subseteq Nat, P # {}
    PROVE  \E i \in P : \A j \in P : i <= j
<1> DEFINE Rank(i) == Cardinality({j \in P : j <= i})
           c == Cardinality(P)
<1>1. c \in Nat /\ c # 0
  BY FS_CardinalityType, FS_EmptySet
<1>2. /\ \A i \in P : Rank(i) \in 1..c
      /\ \A h, i \in P : h < i => Rank(h) < Rank(i)
      /\ \A k \in 1..c : \E i \in P : Rank(i) = k
  BY RankFacts
<1> HIDE DEF Rank, c
<1>3. PICK i \in P : Rank(i) = 1
  BY <1>1, <1>2
<1>4. ASSUME NEW j \in P, j < i PROVE FALSE
  <2>1. Rank(j) \in 1..c /\ Rank(j) < 1
    BY <1>2, <1>3, <1>4
  <2> QED  BY <1>1, <2>1
<1>5. \A j \in P : j \in Nat /\ i \in Nat
  OBVIOUS
<1> QED  BY <1>4, <1>5

LEMMA ReverseFacts ==
    ASSUME NEW S, NEW s \in Seq(S), IsInjective(s)
    PROVE  Reverse(s) \in Seq(S) /\ ToSet(Reverse(s)) = ToSet(s) /\ IsInjective(Reverse(s))
<1>1. DOMAIN s = 1..Len(s) /\ Len(s) \in Nat
  BY LenProperties
<1>2. /\ DOMAIN Reverse(s) = 1..Len(s)
      /\ \A k \in 1..Len(s) : /\ Reverse(s)[k] = s[(Len(s) - k) + 1]
                              /\ (Len(s) - k) + 1 \in 1..Len(s)
  BY <1>1 DEF Reverse
<1>3. \A k \in 1..Len(s) : s[(Len(s) - k) + 1] \in S
  BY <1>1, <1>2, ElementOfSeq
<1>4. Reverse(s) \in Seq(S)
  BY <1>1, <1>3, IsASeq DEF Reverse
<1>5. ASSUME NEW k \in 1..Len(s) PROVE s[k] \in ToSet(Reverse(s))
  <2>1. (Len(s) - k) + 1 \in 1..Len(s) /\ (Len(s) - ((Len(s) - k) + 1)) + 1 = k
    BY <1>1
  <2> QED  BY <1>2, <2>1 DEF ToSet
<1>6. ToSet(Reverse(s)) = ToSet(s)
  BY <1>1, <1>2, <1>5 DEF ToSet
<1>7. ASSUME NEW j \in 1..Len(s), NEW k \in 1..Len(s), Reverse(s)[j] = Reverse(s)[k]
      PROVE  j = k
  <2>1. (Len(s) - j) + 1 = (Len(s) - k) + 1
    BY <1>1, <1>2, <1>7 DEF IsInjective
  <2> QED  BY <1>1, <2>1
<1> QED  BY <1>2, <1>4, <1>6, <1>7 DEF IsInjective

\* A sequence in front of another that shares nothing with it.
LEMMA ConcatFacts ==
    ASSUME NEW S, NEW s \in Seq(S), NEW t \in Seq(S), IsInjective(s), IsInjective(t),
           ToSet(s) \cap ToSet(t) = {}
    PROVE  /\ s \o t \in Seq(S) /\ ToSet(s \o t) = ToSet(s) \cup ToSet(t)
           /\ IsInjective(s \o t)
           /\ DOMAIN (s \o t) = 1..(Len(s) + Len(t))
           /\ \A k \in 1..(Len(s) + Len(t)) :
                \/ k \in DOMAIN s /\ (s \o t)[k] = s[k]
                \/ Len(s) < k /\ k - Len(s) \in DOMAIN t /\ (s \o t)[k] = t[k - Len(s)]
<1>1. /\ DOMAIN s = 1..Len(s) /\ Len(s) \in Nat /\ DOMAIN t = 1..Len(t) /\ Len(t) \in Nat
      /\ s \o t \in Seq(S) /\ Len(s \o t) = Len(s) + Len(t)
      /\ DOMAIN (s \o t) = 1..(Len(s) + Len(t))
      /\ \A k \in 1..(Len(s) + Len(t)) :
           (s \o t)[k] = IF k <= Len(s) THEN s[k] ELSE t[k - Len(s)]
  BY LenProperties, ConcatProperties
<1>2. ASSUME NEW k \in 1..(Len(s) + Len(t))
      PROVE  \/ k \in DOMAIN s /\ (s \o t)[k] = s[k]
             \/ Len(s) < k /\ k - Len(s) \in DOMAIN t /\ (s \o t)[k] = t[k - Len(s)]
  BY <1>1
<1>3. ToSet(s \o t) \subseteq ToSet(s) \cup ToSet(t)
  BY <1>1, <1>2 DEF ToSet
<1>4. ASSUME NEW k \in DOMAIN s PROVE s[k] \in ToSet(s \o t)
  <2>1. k \in 1..(Len(s) + Len(t)) /\ (s \o t)[k] = s[k]
    BY <1>1
  <2> QED  BY <1>1, <2>1 DEF ToSet
<1>5. ASSUME NEW k \in DOMAIN t PROVE t[k] \in ToSet(s \o t)
  <2>1. Len(s) + k \in 1..(Len(s) + Len(t)) /\ ~(Len(s) + k <= Len(s)) /\ (Len(s) + k) - Len(s) = k
    BY <1>1
  <2>2. (s \o t)[Len(s) + k] = t[k]
    BY <1>1, <2>1
  <2> QED  BY <1>1, <2>1, <2>2 DEF ToSet
<1>6. ASSUME NEW j \in 1..(Len(s) + Len(t)), NEW k \in 1..(Len(s) + Len(t)),
             (s \o t)[j] = (s \o t)[k]
      PROVE  j = k
  <2>1. CASE j \in DOMAIN s /\ k \in DOMAIN s
    BY <1>1, <1>6, <2>1 DEF IsInjective
  <2>2. CASE j \notin DOMAIN s /\ k \notin DOMAIN s
    <3>1. j - Len(s) = k - Len(s)
      BY <1>2, <1>6, <2>2 DEF IsInjective
    <3> QED  BY <1>1, <3>1
  <2>3. CASE j \in DOMAIN s /\ k \notin DOMAIN s
    <3>1. (s \o t)[j] \in ToSet(s) /\ (s \o t)[k] \in ToSet(t)
      BY <1>1, <1>2, <2>3 DEF ToSet
    <3> QED  BY <1>6, <3>1
  <2>4. CASE j \notin DOMAIN s /\ k \in DOMAIN s
    <3>1. (s \o t)[k] \in ToSet(s) /\ (s \o t)[j] \in ToSet(t)
      BY <1>1, <1>2, <2>4 DEF ToSet
    <3> QED  BY <1>6, <3>1
  <2> QED  BY <2>1, <2>2, <2>3, <2>4
<1>7. IsInjective(s \o t)
  BY <1>1, <1>6 DEF IsInjective
<1>8. ToSet(s) \cup ToSet(t) \subseteq ToSet(s \o t)
  BY <1>4, <1>5 DEF ToSet
<1> QED  BY <1>1, <1>2, <1>3, <1>7, <1>8

\* How many records of a sequence have a name, when one is added or taken out.
Named(s, m) == {i \in DOMAIN s : s[i].name = m}

LEMMA NamedFinite ==
    ASSUME NEW S, NEW s \in Seq(S), NEW m
    PROVE  IsFiniteSet(Named(s, m)) /\ Cardinality(Named(s, m)) \in Nat
<1>1. DOMAIN s = 1..Len(s) /\ Len(s) \in Nat
  BY LenProperties
<1>2. IsFiniteSet(DOMAIN s) /\ Named(s, m) \in SUBSET DOMAIN s
  BY <1>1, FS_Interval DEF Named
<1> QED  BY <1>2, FS_Subset, FS_CardinalityType

LEMMA NamedAppend ==
    ASSUME NEW S, NEW s \in Seq(S), NEW r \in S, NEW m
    PROVE  Cardinality(Named(Append(s, r), m)) =
             Cardinality(Named(s, m)) + IF r.name = m THEN 1 ELSE 0
<1>1. /\ DOMAIN s = 1..Len(s) /\ Len(s) \in Nat
      /\ DOMAIN Append(s, r) = 1..(Len(s) + 1)
      /\ Append(s, r)[Len(s) + 1] = r
      /\ \A k \in 1..Len(s) : Append(s, r)[k] = s[k]
  BY LenProperties, AppendProperties
<1>2. /\ \A k \in 1..(Len(s) + 1) : k \in 1..Len(s) \/ k = Len(s) + 1
      /\ Len(s) + 1 \notin 1..Len(s) /\ Len(s) + 1 \in 1..(Len(s) + 1)
      /\ \A k \in 1..Len(s) : k \in 1..(Len(s) + 1)
  BY <1>1
<1>3. Named(Append(s, r), m) = Named(s, m) \cup (IF r.name = m THEN {Len(s) + 1} ELSE {})
  BY <1>1, <1>2 DEF Named
<1>4. Len(s) + 1 \notin Named(s, m)
  BY <1>1, <1>2 DEF Named
<1>5. CASE r.name = m
  BY <1>3, <1>4, <1>5, NamedFinite, FS_AddElement
<1>6. CASE r.name # m
  BY <1>3, <1>6, NamedFinite
<1> QED  BY <1>5, <1>6

LEMMA NamedRemove ==
    ASSUME NEW S, NEW s \in Seq(S), NEW i \in DOMAIN s, NEW m
    PROVE  Cardinality(Named(RemoveAt(s, i), m)) =
             Cardinality(Named(s, m)) - IF s[i].name = m THEN 1 ELSE 0
<1> DEFINE t == RemoveAt(s, i)
           A == Named(t, m)
           B == Named(s, m) \ {i}
           f == [k \in A |-> IF k < i THEN k ELSE k + 1]
<1>1. /\ DOMAIN s = 1..Len(s) /\ Len(s) \in Nat /\ i \in 1..Len(s)
      /\ t \in Seq(S) /\ DOMAIN t = 1..(Len(s) - 1)
      /\ \A k \in 1..(Len(s) - 1) : t[k] = IF k < i THEN s[k] ELSE s[k + 1]
  BY LenProperties, RemoveAtFacts
<1> HIDE DEF t
<1>2. \A k \in A : /\ k \in 1..(Len(s) - 1) /\ t[k].name = m
                   /\ t[k] = IF k < i THEN s[k] ELSE s[k + 1]
  BY <1>1 DEF Named
<1>3. ASSUME NEW k \in A PROVE f[k] \in B
  <2>1. (k < i => k \in DOMAIN s /\ k # i) /\ (~(k < i) => k + 1 \in DOMAIN s /\ k + 1 # i)
    BY <1>1, <1>2
  <2> QED  BY <1>2, <2>1 DEF Named
<1>4. ASSUME NEW k \in A, NEW h \in A, f[k] = f[h] PROVE k = h
  BY <1>1, <1>2, <1>4
<1>5. ASSUME NEW j \in B PROVE \E k \in A : f[k] = j
  <2>1. j \in 1..Len(s) /\ j # i /\ s[j].name = m
    BY <1>1 DEF Named
  <2>2. CASE j < i
    <3>1. j \in 1..(Len(s) - 1)
      BY <1>1, <2>1, <2>2
    <3>2. j \in A
      BY <1>1, <2>1, <2>2, <3>1 DEF Named
    <3> QED  BY <2>2, <3>2
  <2>3. CASE ~(j < i)
    <3>1. j - 1 \in 1..(Len(s) - 1) /\ ~(j - 1 < i) /\ (j - 1) + 1 = j
      BY <1>1, <2>1, <2>3
    <3>2. t[j - 1] = s[j]
      BY <1>1, <3>1
    <3>3. j - 1 \in A
      BY <1>1, <2>1, <3>1, <3>2 DEF Named
    <3> QED  BY <3>1, <3>3
  <2> QED  BY <2>2, <2>3
<1>6. f \in Bijection(A, B)
  <2>1. f \in [A -> B]
    BY <1>3
  <2> QED  BY <1>4, <1>5, <2>1 DEF Bijection, Injection, Surjection, IsInjective
<1>7. IsFiniteSet(A) /\ IsFiniteSet(Named(s, m)) /\ Cardinality(Named(s, m)) \in Nat
  BY <1>1, NamedFinite
<1>8. Cardinality(A) = Cardinality(B)
  BY <1>6, <1>7, FS_Bijection DEF ExistsBijection
<1>9. i \in Named(s, m) <=> s[i].name = m
  BY DEF Named
<1>10. Cardinality(B) = IF i \in Named(s, m) THEN Cardinality(Named(s, m)) - 1
                       ELSE Cardinality(Named(s, m))
  BY <1>7, FS_RemoveElement
<1> HIDE DEF A, B
<1>11. Cardinality(A) = Cardinality(Named(s, m)) - IF s[i].name = m THEN 1 ELSE 0
  BY <1>7, <1>8, <1>9, <1>10
<1> QED  BY <1>11 DEF A, t
=============================================================================
