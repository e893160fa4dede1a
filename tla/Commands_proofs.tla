-------------------------- MODULE Commands_proofs --------------------------
(***************************************************************************)
(* What TLAPS proves of CommandTable: any number of modules, of commands   *)
(* in them and of buckets, loaded and unloaded while commands are run.     *)
(* And, from "The files the program says things with" on, of Dfile: any    *)
(* files, loaded, unloaded and reloaded while they change on disk.         *)
(***************************************************************************)
EXTENDS CommandTable, Dfile, ListLemmas, TLAPS

\* Keep keeps what it should, in order.
LEMMA KeepFacts ==
    ASSUME NEW S, NEW s \in Seq(S), NEW T
    PROVE  /\ Keep(s, T) \in Seq(S)
           /\ ToSet(Keep(s, T)) = ToSet(s) \cap T
           /\ \E f \in [DOMAIN Keep(s, T) -> DOMAIN s] :
                /\ \A k \in DOMAIN Keep(s, T) : Keep(s, T)[k] = s[f[k]]
                /\ \A j, k \in DOMAIN Keep(s, T) : j < k => f[j] < f[k]
<1> DEFINE P == {i \in DOMAIN s : s[i] \in T}
           Rank(i) == Cardinality({j \in P : j <= i})
           c == Cardinality(P)
           At(k) == CHOOSE i \in P : Rank(i) = k
<1>1. DOMAIN s = 1..Len(s) /\ Len(s) \in Nat
  BY LenProperties
<1>2. IsFiniteSet(P) /\ P \subseteq Nat
  <2>1. IsFiniteSet(1..Len(s))
    BY <1>1, FS_Interval
  <2> QED  BY <1>1, <2>1, FS_Subset
<1>3. /\ c \in Nat
      /\ \A i \in P : Rank(i) \in 1..c
      /\ \A h, i \in P : h < i => Rank(h) < Rank(i)
      /\ \A k \in 1..c : \E i \in P : Rank(i) = k
  BY <1>2, RankFacts, FS_CardinalityType
<1>4. Keep(s, T) = [k \in 1..c |-> s[At(k)]]
  BY DEF Keep
<1> HIDE DEF Rank, c
<1>5. \A k \in 1..c : At(k) \in P /\ Rank(At(k)) = k
  BY <1>3
<1> HIDE DEF At
<1>6. /\ DOMAIN Keep(s, T) = 1..c
      /\ \A k \in 1..c : Keep(s, T)[k] = s[At(k)] /\ At(k) \in DOMAIN s /\ s[At(k)] \in T
  BY <1>4, <1>5
<1>7. Keep(s, T) \in Seq(S)
  <2>1. \A k \in 1..c : s[At(k)] \in S
    BY <1>6, <1>1, ElementOfSeq
  <2> QED  BY <1>3, <1>4, <2>1, IsASeq
<1>8. ToSet(Keep(s, T)) = ToSet(s) \cap T
  <2>1. ASSUME NEW i \in P PROVE s[i] \in ToSet(Keep(s, T))
    <3>1. Rank(i) \in 1..c /\ Rank(At(Rank(i))) = Rank(i) /\ At(Rank(i)) \in P
      BY <1>3, <1>5
    <3>2. At(Rank(i)) = i
      <4>1. i \in Nat /\ At(Rank(i)) \in Nat /\ Rank(i) \in Nat
        BY <1>2, <3>1
      <4> QED  BY <1>3, <3>1, <4>1
    <3> QED  BY <1>6, <3>1, <3>2 DEF ToSet
  <2> QED  BY <1>6, <2>1 DEF ToSet
<1>9. ASSUME NEW j \in 1..c, NEW k \in 1..c, j < k PROVE At(j) < At(k)
  <2>1. /\ At(j) \in P /\ At(k) \in P /\ At(j) \in Nat /\ At(k) \in Nat
        /\ Rank(At(j)) = j /\ Rank(At(k)) = k
    BY <1>2, <1>5
  <2>2. ~(At(k) < At(j)) /\ At(j) # At(k)
    BY <1>3, <1>9, <2>1
  <2> QED  BY <2>1, <2>2
<1>10. [k \in 1..c |-> At(k)] \in [1..c -> DOMAIN s]
  BY <1>6
<1> DEFINE f == [k \in 1..c |-> At(k)]
<1>11. /\ f \in [DOMAIN Keep(s, T) -> DOMAIN s]
       /\ \A k \in DOMAIN Keep(s, T) : Keep(s, T)[k] = s[f[k]]
       /\ \A j, k \in DOMAIN Keep(s, T) : j < k => f[j] < f[k]
  BY <1>6, <1>9, <1>10
<1> HIDE DEF f
<1> QED  BY <1>7, <1>8, <1>11
LEMMA KeepInjective ==
    ASSUME NEW S, NEW s \in Seq(S), NEW T, IsInjective(s)
    PROVE  IsInjective(Keep(s, T))
<1>1. PICK f \in [DOMAIN Keep(s, T) -> DOMAIN s] :
        /\ \A k \in DOMAIN Keep(s, T) : Keep(s, T)[k] = s[f[k]]
        /\ \A j, k \in DOMAIN Keep(s, T) : j < k => f[j] < f[k]
  BY KeepFacts
<1>2. /\ DOMAIN s = 1..Len(s) /\ DOMAIN Keep(s, T) = 1..Len(Keep(s, T))
      /\ Len(s) \in Nat /\ Len(Keep(s, T)) \in Nat
  BY KeepFacts, LenProperties
<1>3. ASSUME NEW j \in DOMAIN Keep(s, T), NEW k \in DOMAIN Keep(s, T),
             Keep(s, T)[j] = Keep(s, T)[k]
      PROVE  j = k
  <2>1. f[j] = f[k]
    BY <1>1, <1>3 DEF IsInjective
  <2>2. j \in Nat /\ k \in Nat /\ f[j] \in Nat /\ f[k] \in Nat
    BY <1>2
  <2>3. ~(j < k) /\ ~(k < j)
    BY <1>1, <2>1, <2>2
  <2> QED  BY <2>2, <2>3
<1> QED  BY <1>3 DEF IsInjective

-----------------------------------------------------------------------------
(* The inductive invariant.                                                *)

\* n is an entry of the i-th module of a list.
Of(ms, n, i) == n \in ToSet(ms[i].comm)

\* A module's cells hold the keys it registers, and no cell is used twice.
CellsInv ==
    /\ \A i \in DOMAIN mod_list :
         /\ DOMAIN mod_list[i].comm = DOMAIN Registered[mod_list[i].name]
         /\ \A k \in DOMAIN mod_list[i].comm :
              key[mod_list[i].comm[k]] = Registered[mod_list[i].name][k]
         /\ IsInjective(mod_list[i].comm)
    /\ \A i, j \in DOMAIN mod_list : \A n \in Cell : Of(mod_list, n, i) /\ Of(mod_list, n, j) => i = j

\* An entry found earlier in a chain was loaded later, or with what is found later; the
\* program's own are behind every module's.
OrderInv ==
    \A b \in Bucket : \A x, y \in DOMAIN comm_hash[b] : x < y =>
        \A j \in DOMAIN mod_list : Of(mod_list, comm_hash[b][y], j) =>
            \E i \in DOMAIN mod_list : j <= i /\ Of(mod_list, comm_hash[b][x], i)

ChainsInv ==
    \A b \in Bucket :
        /\ IsInjective(comm_hash[b])
        /\ ToSet(comm_hash[b]) = {n \in Static \cup Used : HashOf(n) = b}

CountInv == \A m \in Module : dlcount[m] = Cardinality(Named(mod_list, m))

TableTypes ==
    /\ mod_list \in Seq([name : Module, comm : Seq(Cell)])
    /\ comm_hash \in [Bucket -> Seq(Static \cup Cell)]
    /\ key \in [Cell -> Word \cup {NULL}]
    /\ dlcount \in [Module -> Nat]

TableInv == TableTypes /\ ChainsInv /\ CountInv /\ CellsInv /\ OrderInv

\* run_command has found no match in the chain before the entry it stands on.
WalkInv ==
    /\ pc \in {"walk", "call"} =>
         /\ command \in Word
         /\ LET s == comm_hash[comm_hash_num[command]]
            IN  IF comm = NULL
                THEN pc = "walk" /\ \A x \in DOMAIN s : ~Matches(s[x])
                ELSE \E x \in DOMAIN s : s[x] = comm /\ \A y \in DOMAIN s : y < x => ~Matches(s[y])
    /\ pc = "call" => Matches(comm)

IInv == TypeOK /\ TableInv /\ WalkInv /\ (comm # NULL => comm \in Static \cup Used)
-----------------------------------------------------------------------------
(* insmod and main: a module is loaded.                                    *)

LEMMA ModFacts ==
    ASSUME TableTypes
    PROVE  /\ DOMAIN mod_list = 1..Len(mod_list) /\ Len(mod_list) \in Nat
           /\ \A i \in DOMAIN mod_list : /\ mod_list[i] \in [name : Module, comm : Seq(Cell)]
                                         /\ mod_list[i].name \in Module
                                         /\ mod_list[i].comm \in Seq(Cell)
                                         /\ ToSet(mod_list[i].comm) \subseteq Cell
           /\ Used = {n \in Cell : \E i \in DOMAIN mod_list : Of(mod_list, n, i)}
<1>1. /\ DOMAIN mod_list = 1..Len(mod_list) /\ Len(mod_list) \in Nat
      /\ \A i \in DOMAIN mod_list : mod_list[i] \in [name : Module, comm : Seq(Cell)]
  BY LenProperties, ElementOfSeq DEF TableTypes
<1>2. \A i \in DOMAIN mod_list : /\ mod_list[i].name \in Module
                                 /\ mod_list[i].comm \in Seq(Cell)
  BY <1>1
<1>3. \A i \in DOMAIN mod_list : ToSet(mod_list[i].comm) \subseteq Cell
  BY <1>2, ElementOfSeq, LenProperties DEF ToSet
<1> QED  BY <1>1, <1>2, <1>3 DEF Used, Of

LEMMA LoadTable ==
    ASSUME TableInv, NEW m \in Module, mod_load(m)
    PROVE  TableInv' /\ Used \subseteq Used'
<1> USE DEF TableInv
<1>1. PICK cs \in [DOMAIN Registered[m] -> Cell \ Used] :
        /\ IsInjective(cs)
        /\ mod_list' = Append(mod_list, [name |-> m, comm |-> cs])
        /\ key' = [c \in Cell |-> IF c \in ToSet(cs)
                                  THEN Registered[m][CHOOSE i \in DOMAIN cs : cs[i] = c]
                                  ELSE key[c]]
        /\ comm_hash' = [b \in Bucket |-> comm_hash_add(m, cs, b)]
        /\ dlcount' = [dlcount EXCEPT ![m] = @ + 1]
  BY DEF mod_load
<1>0. PICK N \in Nat : N = Len(mod_list) + 1
  BY ModFacts
<1>2. /\ Registered[m] \in Seq(Word) /\ DOMAIN cs = DOMAIN Registered[m]
      /\ DOMAIN Registered[m] = 1..Len(Registered[m]) /\ Len(Registered[m]) \in Nat
      /\ \A k \in DOMAIN cs : Registered[m][k] \in Word /\ cs[k] \in Cell /\ cs[k] \notin Used
  BY TableAssumption, LenProperties, ElementOfSeq
<1>3. cs \in Seq(Cell) /\ ToSet(cs) \subseteq Cell /\ ToSet(cs) \cap Used = {}
  BY <1>2, IsASeq DEF ToSet
<1>4. /\ DOMAIN mod_list = 1..Len(mod_list) /\ Len(mod_list) \in Nat
      /\ DOMAIN mod_list' = 1..N /\ N \in DOMAIN mod_list'
      /\ mod_list'[N] = [name |-> m, comm |-> cs]
      /\ \A i \in DOMAIN mod_list : i \in DOMAIN mod_list' /\ mod_list'[i] = mod_list[i] /\ i < N
      /\ \A i \in DOMAIN mod_list' : i \in DOMAIN mod_list \/ i = N
      /\ mod_list' \in Seq([name : Module, comm : Seq(Cell)])
  <2>1. [name |-> m, comm |-> cs] \in [name : Module, comm : Seq(Cell)]
    BY <1>3
  <2>2. mod_list \in Seq([name : Module, comm : Seq(Cell)])
    BY DEF TableTypes
  <2>3. /\ DOMAIN mod_list = 1..Len(mod_list) /\ Len(mod_list) \in Nat
        /\ mod_list' \in Seq([name : Module, comm : Seq(Cell)])
        /\ DOMAIN mod_list' = 1..N
        /\ mod_list'[N] = [name |-> m, comm |-> cs]
        /\ \A i \in 1..Len(mod_list) : mod_list'[i] = mod_list[i]
    BY <1>0, <1>1, <2>1, <2>2, LenProperties, AppendProperties
  <2> QED  BY <1>0, <2>3
<1>5. \A n : /\ \A i \in DOMAIN mod_list : Of(mod_list', n, i) <=> Of(mod_list, n, i)
             /\ Of(mod_list', n, N) <=> n \in ToSet(cs)
  BY <1>4 DEF Of
<1>6. /\ \A n \in Cell : n \in Used' <=> n \in Used \/ n \in ToSet(cs)
      /\ Used \subseteq Cell
  <2>1. \A n : n \in Used' <=> \E i \in DOMAIN mod_list' : Of(mod_list', n, i)
    BY DEF Used, Of
  <2>2. /\ \A n : n \in Used <=> \E i \in DOMAIN mod_list : Of(mod_list, n, i)
        /\ Used \subseteq Cell
    BY ModFacts DEF Used, Of
  <2> QED  BY <1>4, <1>5, <2>1, <2>2
<1>7. /\ \A k \in DOMAIN cs : key'[cs[k]] = Registered[m][k]
      /\ \A n \in Cell : n \notin ToSet(cs) => key'[n] = key[n]
      /\ key' \in [Cell -> Word \cup {NULL}]
  <2>1. ASSUME NEW c \in ToSet(cs), NEW k \in DOMAIN cs, cs[k] = c
        PROVE  (CHOOSE i \in DOMAIN cs : cs[i] = c) = k
    BY <1>1, <2>1 DEF IsInjective
  <2>2. \A k \in DOMAIN cs : cs[k] \in ToSet(cs)
    BY DEF ToSet
  <2>3. \A k \in DOMAIN cs : key'[cs[k]] = Registered[m][k]
    BY <1>1, <1>2, <2>1, <2>2
  <2>4. \A n \in Cell : n \notin ToSet(cs) => key'[n] = key[n]
    BY <1>1
  <2>5. ASSUME NEW n \in Cell PROVE key'[n] \in Word \cup {NULL}
    <3>1. CASE n \in ToSet(cs)
      <4>1. PICK k \in DOMAIN cs : cs[k] = n
        BY <3>1 DEF ToSet
      <4> QED  BY <1>2, <2>3, <4>1
    <3>2. CASE n \notin ToSet(cs)
      BY <2>4, <3>2 DEF TableTypes
    <3> QED  BY <3>1, <3>2
  <2>6. key' = [n \in Cell |-> key'[n]]
    BY <1>1
  <2> QED  BY <2>3, <2>4, <2>5, <2>6
<1>8. /\ \A k \in DOMAIN cs : HashOf(cs[k])' = comm_hash_num[Registered[m][k]]
      /\ \A n \in Static \cup Used : HashOf(n)' = HashOf(n)
  <2>1. \A k \in DOMAIN cs : cs[k] \notin Static
    BY <1>2, TableAssumption
  <2> QED  BY <1>3, <1>6, <1>7, <2>1 DEF HashOf, Key
<1>9. ASSUME NEW b \in Bucket
      PROVE  LET new == Reverse(Keep(cs, InBucket(m, cs, b)))
             IN  /\ new \in Seq(Static \cup Cell) /\ comm_hash[b] \in Seq(Static \cup Cell)
                 /\ IsInjective(new) /\ IsInjective(comm_hash[b])
                 /\ ToSet(new) = {n \in ToSet(cs) : HashOf(n)' = b}
                 /\ ToSet(new) \cap ToSet(comm_hash[b]) = {}
                 /\ comm_hash'[b] = new \o comm_hash[b]
  <2> DEFINE kept == Keep(cs, InBucket(m, cs, b))
  <2>1. /\ kept \in Seq(Cell) /\ ToSet(kept) = ToSet(cs) \cap InBucket(m, cs, b)
    BY <1>3, KeepFacts
  <2>2. IsInjective(kept)
    BY <1>1, <1>3, KeepInjective
  <2> HIDE DEF kept
  <2>3. /\ Reverse(kept) \in Seq(Cell) /\ ToSet(Reverse(kept)) = ToSet(kept)
        /\ IsInjective(Reverse(kept))
    BY <2>1, <2>2, ReverseFacts
  <2>4. Reverse(kept) \in Seq(Static \cup Cell)
    BY <2>3
  <2>5. InBucket(m, cs, b) = {n \in ToSet(cs) : HashOf(n)' = b}
    BY <1>2, <1>8 DEF InBucket, ToSet
  <2>6. ToSet(kept) = {n \in ToSet(cs) : HashOf(n)' = b}
    BY <2>1, <2>5
  <2>7. /\ comm_hash[b] \in Seq(Static \cup Cell) /\ IsInjective(comm_hash[b])
        /\ ToSet(comm_hash[b]) \subseteq Static \cup Used
    BY DEF TableTypes, ChainsInv
  <2>8. ToSet(kept) \cap ToSet(comm_hash[b]) = {}
    BY <1>3, <2>6, <2>7, TableAssumption
  <2>9. comm_hash'[b] = Reverse(kept) \o comm_hash[b]
    BY <1>1 DEF comm_hash_add, kept
  <2> QED  BY <2>3, <2>4, <2>6, <2>7, <2>8, <2>9 DEF kept
<1>10. ChainsInv' /\ comm_hash' \in [Bucket -> Seq(Static \cup Cell)]
  <2> SUFFICES ASSUME NEW b \in Bucket
               PROVE  /\ comm_hash'[b] \in Seq(Static \cup Cell) /\ IsInjective(comm_hash'[b])
                      /\ ToSet(comm_hash'[b]) = {n \in Static \cup Used' : HashOf(n)' = b}
    BY <1>1 DEF ChainsInv
  <2>1. /\ comm_hash'[b] \in Seq(Static \cup Cell) /\ IsInjective(comm_hash'[b])
        /\ ToSet(comm_hash'[b]) = {n \in ToSet(cs) : HashOf(n)' = b} \cup ToSet(comm_hash[b])
    <3> DEFINE new == Reverse(Keep(cs, InBucket(m, cs, b)))
    <3>1. /\ new \in Seq(Static \cup Cell) /\ comm_hash[b] \in Seq(Static \cup Cell)
          /\ IsInjective(new) /\ IsInjective(comm_hash[b])
          /\ ToSet(new) = {n \in ToSet(cs) : HashOf(n)' = b}
          /\ ToSet(new) \cap ToSet(comm_hash[b]) = {}
          /\ comm_hash'[b] = new \o comm_hash[b]
      BY <1>9
    <3> HIDE DEF new
    <3>2. /\ new \o comm_hash[b] \in Seq(Static \cup Cell) /\ IsInjective(new \o comm_hash[b])
          /\ ToSet(new \o comm_hash[b]) = ToSet(new) \cup ToSet(comm_hash[b])
      BY <3>1, ConcatFacts
    <3> QED  BY <3>1, <3>2
  <2>2. ToSet(comm_hash[b]) = {n \in Static \cup Used : HashOf(n) = b}
    BY DEF ChainsInv
  <2>3. Used' \subseteq Cell /\ Used' = Used \cup ToSet(cs)
    <3>1. Used' \subseteq Cell
      BY <1>3, <1>4, <1>5, ModFacts DEF Used, Of
    <3> QED  BY <1>3, <1>6, <3>1
  <2> QED  BY <1>8, <2>1, <2>2, <2>3
<1>11. CellsInv'
  <2>1. ASSUME NEW i \in DOMAIN mod_list'
        PROVE  /\ DOMAIN mod_list'[i].comm = DOMAIN Registered[mod_list'[i].name]
               /\ \A k \in DOMAIN mod_list'[i].comm :
                    key'[mod_list'[i].comm[k]] = Registered[mod_list'[i].name][k]
               /\ IsInjective(mod_list'[i].comm)
    <3>1. CASE i \in DOMAIN mod_list
      <4>1. \A k \in DOMAIN mod_list[i].comm : /\ mod_list[i].comm[k] \in Used
                                               /\ mod_list[i].comm[k] \in Cell
        BY <3>1, ModFacts DEF Of, ToSet
      <4>2. \A k \in DOMAIN mod_list[i].comm :
               key'[mod_list[i].comm[k]] = key[mod_list[i].comm[k]]
        BY <1>3, <1>7, <4>1
      <4> QED  BY <1>4, <3>1, <4>2 DEF CellsInv
    <3>2. CASE i = N
      <4>1. mod_list'[i].comm = cs /\ mod_list'[i].name = m
        BY <1>4, <3>2
      <4> QED  BY <1>1, <1>2, <1>7, <4>1
    <3> QED  BY <1>4, <3>1, <3>2
  <2>2. ASSUME NEW i \in DOMAIN mod_list', NEW j \in DOMAIN mod_list', NEW n \in Cell,
               Of(mod_list', n, i), Of(mod_list', n, j)
        PROVE  i = j
    <3>1. \A h \in DOMAIN mod_list : Of(mod_list, n, h) => n \in Used
      BY ModFacts
    <3>2. /\ i \in DOMAIN mod_list => Of(mod_list, n, i)
          /\ j \in DOMAIN mod_list => Of(mod_list, n, j)
          /\ i = N => n \in ToSet(cs)
          /\ j = N => n \in ToSet(cs)
      BY <1>5, <2>2
    <3>3. n \in ToSet(cs) => n \notin Used
      BY <1>3
    <3>4. (i \in DOMAIN mod_list \/ i = N) /\ (j \in DOMAIN mod_list \/ j = N)
      BY <1>4
    <3> QED  BY <3>1, <3>2, <3>3, <3>4 DEF CellsInv
  <2> QED  BY <2>1, <2>2 DEF CellsInv
<1>12. OrderInv'
  <2> SUFFICES ASSUME NEW b \in Bucket, NEW x \in DOMAIN comm_hash'[b],
                      NEW y \in DOMAIN comm_hash'[b], x < y,
                      NEW j \in DOMAIN mod_list', Of(mod_list', comm_hash'[b][y], j)
               PROVE  \E i \in DOMAIN mod_list' : j <= i /\ Of(mod_list', comm_hash'[b][x], i)
    BY DEF OrderInv
  <2> DEFINE new == Reverse(Keep(cs, InBucket(m, cs, b)))
             old == comm_hash[b]
             chain == comm_hash'[b]
  <2>1. /\ new \in Seq(Static \cup Cell) /\ old \in Seq(Static \cup Cell)
        /\ IsInjective(new) /\ IsInjective(old) /\ ToSet(new) \subseteq ToSet(cs)
        /\ ToSet(new) \cap ToSet(old) = {} /\ chain = new \o old
    BY <1>9
  <2> HIDE DEF new, old, chain
  <2>2. /\ DOMAIN chain = 1..(Len(new) + Len(old))
        /\ \A k \in DOMAIN chain :
             \/ k \in DOMAIN new /\ chain[k] = new[k]
             \/ Len(new) < k /\ k - Len(new) \in DOMAIN old /\ chain[k] = old[k - Len(new)]
        /\ DOMAIN new = 1..Len(new) /\ Len(new) \in Nat /\ Len(old) \in Nat
        /\ DOMAIN old = 1..Len(old)
    BY <2>1, ConcatFacts, LenProperties
  <2>3. x \in DOMAIN chain /\ y \in DOMAIN chain
    BY DEF chain
  <2>4. CASE x \in DOMAIN new /\ chain[x] = new[x]
    <3>1. Of(mod_list', chain[x], N)
      BY <1>5, <2>1, <2>4 DEF chain, ToSet
    <3>2. j <= N /\ N \in DOMAIN mod_list'
      BY <1>4
    <3> QED  BY <3>1, <3>2 DEF chain
  <2>5. CASE Len(new) < x /\ x - Len(new) \in DOMAIN old /\ chain[x] = old[x - Len(new)]
    <3>1. y - Len(new) \in DOMAIN old /\ chain[y] = old[y - Len(new)]
      BY <2>2, <2>3, <2>5
    <3>2. x - Len(new) < y - Len(new)
      BY <2>2, <2>3
    <3>3. chain[y] \notin ToSet(cs)
      <4>1. chain[y] \in ToSet(old)
        BY <3>1 DEF ToSet
      <4>2. ToSet(old) \subseteq Static \cup Used
        BY DEF old, ChainsInv
      <4> QED  BY <1>3, <4>1, <4>2, TableAssumption
    <3>4. j \in DOMAIN mod_list /\ Of(mod_list, chain[y], j)
      BY <1>4, <1>5, <3>3 DEF chain
    <3>5. PICK i \in DOMAIN mod_list : j <= i /\ Of(mod_list, chain[x], i)
      BY <2>5, <3>1, <3>2, <3>4 DEF OrderInv, old
    <3> QED  BY <1>4, <1>5, <3>5 DEF chain
  <2> QED  BY <2>2, <2>3, <2>4, <2>5
<1>13. CountInv' /\ dlcount' \in [Module -> Nat]
  <2> DEFINE r == [name |-> m, comm |-> cs]
  <2>1. r \in [name : Module, comm : Seq(Cell)] /\ r.name = m
    BY <1>3
  <2> HIDE DEF r
  <2>2. /\ mod_list \in Seq([name : Module, comm : Seq(Cell)]) /\ mod_list' = Append(mod_list, r)
        /\ dlcount \in [Module -> Nat]
    BY <1>1 DEF TableTypes, r
  <2>3. ASSUME NEW l \in Module
        PROVE  dlcount'[l] = Cardinality(Named(mod_list', l)) /\ dlcount'[l] \in Nat
    <3>1. Cardinality(Named(mod_list', l)) =
             Cardinality(Named(mod_list, l)) + IF m = l THEN 1 ELSE 0
      <4>1. Cardinality(Named(Append(mod_list, r), l)) =
               Cardinality(Named(mod_list, l)) + IF r.name = l THEN 1 ELSE 0
        BY <2>1, <2>2, NamedAppend
      <4> QED  BY <2>1, <2>2, <4>1
    <3>2. dlcount[l] = Cardinality(Named(mod_list, l)) /\ dlcount[l] \in Nat
      BY <2>2 DEF CountInv
    <3>3. dlcount'[l] = IF l = m THEN dlcount[l] + 1 ELSE dlcount[l]
      BY <1>1, <2>2
    <3> QED  BY <3>1, <3>2, <3>3
  <2> QED  BY <1>1, <2>2, <2>3 DEF CountInv, Named
<1>14. TableTypes'
  BY <1>4, <1>7, <1>10, <1>13 DEF TableTypes
<1> QED  BY <1>6, <1>10, <1>11, <1>12, <1>13, <1>14
-----------------------------------------------------------------------------
(* rmmod: a module is unloaded.                                            *)

LEMMA UnloadTable ==
    ASSUME TableInv, NEW m \in Module, mod_unload(m), NEW h \in DOMAIN mod_list,
           mod_list[h].name = m
    PROVE  TableInv'
<1> USE DEF TableInv
<1>1. /\ DOMAIN mod_list = 1..Len(mod_list) /\ Len(mod_list) \in Nat
      /\ \A i \in DOMAIN mod_list : /\ mod_list[i].comm \in Seq(Cell)
                                    /\ ToSet(mod_list[i].comm) \subseteq Cell
      /\ \A n : n \in Used <=> \E i \in DOMAIN mod_list : Of(mod_list, n, i)
      /\ Used \subseteq Cell
      /\ mod_list \in Seq([name : Module, comm : Seq(Cell)])
  BY ModFacts DEF Used, Of, TableTypes
<1>2. PICK i \in DOMAIN mod_list :
        /\ mod_list[i].name = m
        /\ mod_list' = RemoveAt(mod_list, i)
        /\ comm_hash' = [b \in Bucket |-> comm_hash_del(mod_list[i].comm, b)]
        /\ dlcount' = [dlcount EXCEPT ![m] = @ - 1]
        /\ UNCHANGED key
  <2> DEFINE P == Named(mod_list, m)
             Leads(j) == mod_list[j].name = m /\ \A k \in 1..j - 1 : mod_list[k].name # m
  <2>1. IsFiniteSet(P) /\ P \subseteq Nat /\ P # {}
    <3>1. IsFiniteSet(Named(mod_list, m))
      BY <1>1, NamedFinite
    <3> QED  BY <1>1, <3>1 DEF Named
  <2>2. PICK j \in P : \A k \in P : j <= k
    BY <2>1, FirstFacts
  <2>3. j \in DOMAIN mod_list /\ Leads(j)
    <3>1. j \in DOMAIN mod_list /\ mod_list[j].name = m
      BY DEF Named
    <3>2. ASSUME NEW k \in 1..j - 1, mod_list[k].name = m PROVE FALSE
      <4>1. k \in DOMAIN mod_list /\ ~(j <= k)
        BY <1>1, <3>1
      <4> QED  BY <2>2, <3>2, <4>1 DEF Named
    <3> QED  BY <3>1, <3>2
  <2> QED  BY <2>3 DEF mod_unload
<1> DEFINE cs == mod_list[i].comm
<1>3. /\ mod_list' \in Seq([name : Module, comm : Seq(Cell)])
      /\ DOMAIN mod_list' = 1..(Len(mod_list) - 1)
      /\ \A k \in DOMAIN mod_list' : mod_list'[k] = IF k < i THEN mod_list[k] ELSE mod_list[k + 1]
  <2>1. /\ RemoveAt(mod_list, i) \in Seq([name : Module, comm : Seq(Cell)])
        /\ Len(RemoveAt(mod_list, i)) = Len(mod_list) - 1
        /\ \A k \in 1..(Len(mod_list) - 1) :
             RemoveAt(mod_list, i)[k] = IF k < i THEN mod_list[k] ELSE mod_list[k + 1]
    BY <1>1, RemoveAtFacts
  <2> QED  BY <1>2, <2>1, LenProperties
\* Where an entry of the old list stands in the new one, and the other way round.
<1>4. \A k \in DOMAIN mod_list' : \E j \in DOMAIN mod_list :
        j # i /\ mod_list'[k] = mod_list[j] /\ j = IF k < i THEN k ELSE k + 1
  <2> SUFFICES ASSUME NEW k \in DOMAIN mod_list'
               PROVE  \E j \in DOMAIN mod_list :
                        j # i /\ mod_list'[k] = mod_list[j] /\ j = IF k < i THEN k ELSE k + 1
    OBVIOUS
  <2>1. CASE k < i
    BY <1>1, <1>3, <2>1
  <2>2. CASE ~(k < i)
    <3>1. k + 1 \in DOMAIN mod_list /\ k + 1 # i
      BY <1>1, <1>3, <2>2
    <3> QED  BY <1>3, <2>2, <3>1
  <2> QED  BY <2>1, <2>2
<1>5. \A j \in DOMAIN mod_list \ {i} : \E k \in DOMAIN mod_list' :
        mod_list'[k] = mod_list[j] /\ k = IF j < i THEN j ELSE j - 1
  <2> SUFFICES ASSUME NEW j \in DOMAIN mod_list \ {i}
               PROVE  \E k \in DOMAIN mod_list' :
                        mod_list'[k] = mod_list[j] /\ k = IF j < i THEN j ELSE j - 1
    OBVIOUS
  <2>1. CASE j < i
    <3>1. j \in DOMAIN mod_list'
      BY <1>1, <1>3, <2>1
    <3> QED  BY <1>3, <2>1, <3>1
  <2>2. CASE ~(j < i)
    <3>1. j - 1 \in DOMAIN mod_list' /\ ~(j - 1 < i) /\ (j - 1) + 1 = j
      BY <1>1, <1>3, <2>2
    <3>2. mod_list'[j - 1] = mod_list[j]
      BY <1>3, <3>1
    <3> QED  BY <2>2, <3>1, <3>2
  <2> QED  BY <2>1, <2>2
<1>6. \A n : /\ n \in Used' <=> n \in Used /\ n \notin ToSet(cs)
             /\ HashOf(n)' = HashOf(n)
  <2> SUFFICES ASSUME NEW n PROVE n \in Used' <=> n \in Used /\ n \notin ToSet(cs)
    BY <1>2 DEF HashOf, Key
  <2>1. n \in Used' <=> \E k \in DOMAIN mod_list' : Of(mod_list', n, k)
    BY DEF Used, Of
  <2>2. ASSUME n \in Used' PROVE n \in Used /\ n \notin ToSet(cs)
    <3>1. PICK k \in DOMAIN mod_list' : Of(mod_list', n, k)
      BY <2>1, <2>2
    <3>2. PICK j \in DOMAIN mod_list : j # i /\ Of(mod_list, n, j)
      BY <1>4, <3>1 DEF Of
    <3>3. n \in Used /\ n \in Cell
      BY <1>1, <3>2
    <3>4. ~Of(mod_list, n, i)
      BY <3>2, <3>3 DEF CellsInv
    <3> QED  BY <3>3, <3>4 DEF Of
  <2>3. ASSUME n \in Used, n \notin ToSet(cs) PROVE n \in Used'
    <3>1. PICK j \in DOMAIN mod_list : Of(mod_list, n, j)
      BY <1>1, <2>3
    <3>2. j \in DOMAIN mod_list \ {i}
      BY <2>3, <3>1 DEF Of
    <3>3. PICK k \in DOMAIN mod_list' : mod_list'[k] = mod_list[j]
      BY <1>5, <3>2
    <3> QED  BY <2>1, <3>1, <3>3 DEF Of
  <2> QED  BY <2>2, <2>3
<1>7. ASSUME NEW b \in Bucket
      PROVE  /\ comm_hash'[b] = Keep(comm_hash[b], {n \in ToSet(comm_hash[b]) : n \notin ToSet(cs)})
             /\ comm_hash[b] \in Seq(Static \cup Cell) /\ IsInjective(comm_hash[b])
             /\ ToSet(comm_hash[b]) = {n \in Static \cup Used : HashOf(n) = b}
  <2>1. /\ comm_hash[b] \in Seq(Static \cup Cell) /\ IsInjective(comm_hash[b])
        /\ ToSet(comm_hash[b]) = {n \in Static \cup Used : HashOf(n) = b}
    BY DEF TableTypes, ChainsInv
  <2>2. {n \in ToSet(comm_hash[b]) : ~(n \in ToSet(cs) /\ HashOf(n) = b)}
          = {n \in ToSet(comm_hash[b]) : n \notin ToSet(cs)}
    BY <2>1
  <2>3. comm_hash'[b] = Keep(comm_hash[b],
                             {n \in ToSet(comm_hash[b]) : ~(n \in ToSet(cs) /\ HashOf(n) = b)})
    BY <1>2 DEF comm_hash_del
  <2> QED  BY <2>1, <2>2, <2>3
<1> DEFINE Left(b) == {n \in ToSet(comm_hash[b]) : n \notin ToSet(cs)}
<1>8. ASSUME NEW b \in Bucket
      PROVE  /\ comm_hash'[b] \in Seq(Static \cup Cell) /\ IsInjective(comm_hash'[b])
             /\ ToSet(comm_hash'[b]) = ToSet(comm_hash[b]) \cap Left(b)
             /\ \E f \in [DOMAIN comm_hash'[b] -> DOMAIN comm_hash[b]] :
                  /\ \A g \in DOMAIN comm_hash'[b] : comm_hash'[b][g] = comm_hash[b][f[g]]
                  /\ \A e, g \in DOMAIN comm_hash'[b] : e < g => f[e] < f[g]
  <2> DEFINE s == comm_hash[b]
             T == Left(b)
  <2>1. s \in Seq(Static \cup Cell) /\ IsInjective(s) /\ comm_hash'[b] = Keep(s, T)
    BY <1>7
  <2> HIDE DEF s, T
  <2>2. IsInjective(Keep(s, T))
    BY <2>1, KeepInjective
  <2>3. /\ Keep(s, T) \in Seq(Static \cup Cell)
        /\ ToSet(Keep(s, T)) = ToSet(s) \cap T
        /\ \E f \in [DOMAIN Keep(s, T) -> DOMAIN s] :
             /\ \A k \in DOMAIN Keep(s, T) : Keep(s, T)[k] = s[f[k]]
             /\ \A j, k \in DOMAIN Keep(s, T) : j < k => f[j] < f[k]
    BY <2>1, KeepFacts
  <2>4. /\ comm_hash'[b] \in Seq(Static \cup Cell) /\ IsInjective(comm_hash'[b])
        /\ ToSet(comm_hash'[b]) = ToSet(s) \cap T
        /\ \E f \in [DOMAIN comm_hash'[b] -> DOMAIN s] :
             /\ \A g \in DOMAIN comm_hash'[b] : comm_hash'[b][g] = s[f[g]]
             /\ \A e, g \in DOMAIN comm_hash'[b] : e < g => f[e] < f[g]
    BY <2>1, <2>2, <2>3
  <2> QED  BY <2>4 DEF s, T
<1>9. ChainsInv' /\ comm_hash' \in [Bucket -> Seq(Static \cup Cell)]
  <2> SUFFICES ASSUME NEW b \in Bucket
               PROVE  /\ comm_hash'[b] \in Seq(Static \cup Cell) /\ IsInjective(comm_hash'[b])
                      /\ ToSet(comm_hash'[b]) = {n \in Static \cup Used' : HashOf(n)' = b}
    BY <1>2 DEF ChainsInv
  <2>1. /\ comm_hash'[b] \in Seq(Static \cup Cell) /\ IsInjective(comm_hash'[b])
        /\ ToSet(comm_hash'[b]) = ToSet(comm_hash[b]) \cap Left(b)
    BY <1>8
  <2>2. \A n \in Static : n \notin ToSet(cs)
    BY <1>1, TableAssumption
  <2> QED  BY <1>6, <1>7, <2>1, <2>2
<1>10. CellsInv'
  <2>1. ASSUME NEW k \in DOMAIN mod_list'
        PROVE  /\ DOMAIN mod_list'[k].comm = DOMAIN Registered[mod_list'[k].name]
               /\ \A l \in DOMAIN mod_list'[k].comm :
                    key'[mod_list'[k].comm[l]] = Registered[mod_list'[k].name][l]
               /\ IsInjective(mod_list'[k].comm)
    <3>1. PICK j \in DOMAIN mod_list : mod_list'[k] = mod_list[j]
      BY <1>4
    <3> QED  BY <1>2, <3>1 DEF CellsInv
  <2>2. ASSUME NEW k \in DOMAIN mod_list', NEW l \in DOMAIN mod_list', NEW n \in Cell,
               Of(mod_list', n, k), Of(mod_list', n, l)
        PROVE  k = l
    <3>1. PICK j \in DOMAIN mod_list :
             j # i /\ mod_list'[k] = mod_list[j] /\ j = IF k < i THEN k ELSE k + 1
      BY <1>4
    <3>2. PICK g \in DOMAIN mod_list :
             g # i /\ mod_list'[l] = mod_list[g] /\ g = IF l < i THEN l ELSE l + 1
      BY <1>4
    <3>3. j = g
      BY <2>2, <3>1, <3>2 DEF CellsInv, Of
    <3>4. k \in Nat /\ l \in Nat /\ i \in Nat
      <4>1. /\ k \in 1..(Len(mod_list) - 1) /\ l \in 1..(Len(mod_list) - 1)
            /\ i \in 1..Len(mod_list) /\ Len(mod_list) \in Nat
        BY <1>1, <1>3
      <4> QED  BY <4>1
    <3> QED  BY <3>1, <3>2, <3>3, <3>4
  <2> QED  BY <2>1, <2>2 DEF CellsInv
<1>11. OrderInv'
  <2> SUFFICES ASSUME NEW b \in Bucket, NEW x \in DOMAIN comm_hash'[b],
                      NEW y \in DOMAIN comm_hash'[b], x < y,
                      NEW l \in DOMAIN mod_list', Of(mod_list', comm_hash'[b][y], l)
               PROVE  \E k \in DOMAIN mod_list' : l <= k /\ Of(mod_list', comm_hash'[b][x], k)
    BY DEF OrderInv
  <2>1. PICK f \in [DOMAIN comm_hash'[b] -> DOMAIN comm_hash[b]] :
          /\ \A g \in DOMAIN comm_hash'[b] : comm_hash'[b][g] = comm_hash[b][f[g]]
          /\ \A e, g \in DOMAIN comm_hash'[b] : e < g => f[e] < f[g]
    BY <1>8
  <2>2. PICK j \in DOMAIN mod_list :
          j # i /\ mod_list'[l] = mod_list[j] /\ j = IF l < i THEN l ELSE l + 1
    BY <1>4
  <2>3. Of(mod_list, comm_hash[b][f[y]], j) /\ f[x] < f[y]
    BY <2>1, <2>2 DEF Of
  <2>4. PICK g \in DOMAIN mod_list : j <= g /\ Of(mod_list, comm_hash[b][f[x]], g)
    BY <2>1, <2>3 DEF OrderInv
  <2>5. g # i
    <3>1. ToSet(comm_hash'[b]) = ToSet(comm_hash[b]) \cap Left(b)
      BY <1>8
    <3>2. comm_hash'[b][x] \in ToSet(comm_hash'[b])
      BY DEF ToSet
    <3>3. comm_hash[b][f[x]] \notin ToSet(cs)
      BY <2>1, <3>1, <3>2
    <3> QED  BY <2>4, <3>3 DEF Of
  <2>6. PICK k \in DOMAIN mod_list' : mod_list'[k] = mod_list[g] /\ k = IF g < i THEN g ELSE g - 1
    BY <1>5, <2>5
  <2>7. l <= k
    BY <1>1, <1>3, <2>2, <2>4, <2>5, <2>6
  <2> QED  BY <2>1, <2>4, <2>6, <2>7 DEF Of
<1>12. CountInv' /\ dlcount' \in [Module -> Nat]
  <2>1. dlcount \in [Module -> Nat]
    BY DEF TableTypes
  <2>2. ASSUME NEW l \in Module
        PROVE  dlcount'[l] = Cardinality(Named(mod_list', l)) /\ dlcount'[l] \in Nat
    <3>1. Cardinality(Named(mod_list', l)) =
             Cardinality(Named(mod_list, l)) - IF mod_list[i].name = l THEN 1 ELSE 0
      <4>1. Cardinality(Named(RemoveAt(mod_list, i), l)) =
               Cardinality(Named(mod_list, l)) - IF mod_list[i].name = l THEN 1 ELSE 0
        BY <1>1, NamedRemove
      <4> QED  BY <1>2, <4>1
    <3>2. dlcount[l] = Cardinality(Named(mod_list, l)) /\ dlcount[l] \in Nat
      BY <2>1 DEF CountInv
    <3>3. dlcount'[l] = IF l = m THEN dlcount[l] - 1 ELSE dlcount[l]
      BY <1>2, <2>1
    <3>4. Cardinality(Named(mod_list', l)) \in Nat
      BY <1>3, NamedFinite
    <3> QED  BY <1>2, <3>1, <3>2, <3>3, <3>4
  <2> QED  BY <1>2, <2>1, <2>2 DEF CountInv
<1>13. TableTypes'
  BY <1>2, <1>3, <1>9, <1>12 DEF TableTypes
<1> QED  BY <1>9, <1>10, <1>11, <1>12, <1>13
-----------------------------------------------------------------------------
(* Start-up, and run_command's walk.                                       *)

LEMMA StaticFacts ==
    ASSUME NEW b \in Bucket
    PROVE  /\ StaticChain(b) \in Seq(Static) /\ IsInjective(StaticChain(b))
           /\ ToSet(StaticChain(b)) = {n \in Static : comm_hash_num[n] = b}
<1> DEFINE s == <<"rmmod", "insmod">>
           T == {n \in Static : comm_hash_num[n] = b}
<1>1. s \in Seq(Static) /\ IsInjective(s) /\ ToSet(s) = Static
  <2>1. /\ s \in Seq(Static) /\ DOMAIN s = 1..2 /\ s[1] = "rmmod" /\ s[2] = "insmod"
    BY DEF Static
  <2>2. 1..2 = {1, 2}
    OBVIOUS
  <2> HIDE DEF s
  <2> QED  BY <2>1, <2>2 DEF IsInjective, ToSet, Static
<1>2. StaticChain(b) = Keep(s, T)
  BY DEF StaticChain
<1> HIDE DEF s, T
<1>3. Keep(s, T) \in Seq(Static) /\ IsInjective(Keep(s, T)) /\ ToSet(Keep(s, T)) = ToSet(s) \cap T
  BY <1>1, KeepFacts, KeepInjective
<1> QED  BY <1>1, <1>2, <1>3 DEF T

LEMMA InitInv == Init => IInv
<1> SUFFICES ASSUME Init PROVE IInv
  OBVIOUS
<1>1. mod_list = << >> /\ DOMAIN mod_list = {} /\ Used = {}
  BY DEF Init, Used
<1>2. mod_list \in Seq([name : Module, comm : Seq(Cell)]) /\ todo \in Seq(Module)
  <2>1. \A S : << >> \in Seq(S)
    OBVIOUS
  <2> QED  BY <1>1, <2>1, TableAssumption DEF Init
<1>3. \A b \in Bucket : /\ comm_hash[b] \in Seq(Static \cup Cell) /\ IsInjective(comm_hash[b])
                        /\ ToSet(comm_hash[b]) = {n \in Static : comm_hash_num[n] = b}
  <2> SUFFICES ASSUME NEW b \in Bucket
               PROVE  /\ comm_hash[b] \in Seq(Static \cup Cell) /\ IsInjective(comm_hash[b])
                      /\ ToSet(comm_hash[b]) = {n \in Static : comm_hash_num[n] = b}
    OBVIOUS
  <2>1. comm_hash[b] = StaticChain(b)
    BY DEF Init
  <2>2. StaticChain(b) \in Seq(Static \cup Cell)
    BY StaticFacts
  <2> QED  BY <2>1, <2>2, StaticFacts
<1>4. TableTypes
  <2>1. comm_hash \in [Bucket -> Seq(Static \cup Cell)]
    BY <1>3 DEF Init
  <2> QED  BY <1>2, <2>1 DEF TableTypes, Init
<1>5. ChainsInv
  BY <1>1, <1>3 DEF ChainsInv, HashOf, Key
<1>6. CountInv
  <2>1. \A m : Named(mod_list, m) = {}
    BY <1>1 DEF Named
  <2> QED  BY <2>1, FS_EmptySet DEF CountInv, Init
<1>7. CellsInv /\ OrderInv
  BY <1>1 DEF CellsInv, OrderInv
<1>8. TypeOK
  BY <1>2, <1>4 DEF TypeOK, TableTypes, Init
<1>9. WalkInv /\ comm = NULL
  BY DEF Init, WalkInv
<1> QED  BY <1>4, <1>5, <1>6, <1>7, <1>8, <1>9 DEF IInv, TableInv

LEMMA SameTable ==
    ASSUME TableInv, UNCHANGED table
    PROVE  TableInv' /\ Used' = Used
BY DEF TableInv, TableTypes, ChainsInv, CountInv, CellsInv, OrderInv, table, Used, HashOf, Key

\* What the entry run_command stands on tells of the chain it walks along.
LEMMA WalkFacts ==
    ASSUME IInv, pc \in {"walk", "call"}
    PROVE  /\ command \in Word /\ comm_hash_num[command] \in Bucket
           /\ LET s == comm_hash[comm_hash_num[command]]
              IN  /\ s \in Seq(Static \cup Cell) /\ IsInjective(s)
                  /\ DOMAIN s = 1..Len(s) /\ Len(s) \in Nat
                  /\ ToSet(s) = {n \in Static \cup Used : HashOf(n) = comm_hash_num[command]}
                  /\ NULL \notin ToSet(s) /\ Used \subseteq Cell
<1>1. command \in Word /\ comm_hash_num[command] \in Bucket
  BY TableAssumption DEF IInv, WalkInv
<1>2. Used \subseteq Cell
  BY ModFacts DEF IInv, TableInv
<1> QED  BY <1>1, <1>2, TableAssumption, LenProperties DEF IInv, TableInv, TableTypes, ChainsInv

LEMMA NextInFacts ==
    ASSUME NEW s, IsInjective(s), NEW x \in DOMAIN s
    PROVE  NextIn(s, s[x]) = IF x < Len(s) THEN s[x + 1] ELSE NULL
<1> DEFINE i == CHOOSE j \in DOMAIN s : s[j] = s[x]
<1>1. i = x
  BY DEF IsInjective
<1>2. NextIn(s, s[x]) = IF i < Len(s) THEN s[i + 1] ELSE NULL
  BY DEF NextIn
<1> HIDE DEF i
<1> QED  BY <1>1, <1>2

LEMMA RunStep ==
    ASSUME IInv, NEW w \in Word, NEW p \in Privs, run_command(w, p)
    PROVE  IInv'
<1> DEFINE s == comm_hash[comm_hash_num[w]]
<1>1. TableInv' /\ Used' = Used
  BY SameTable DEF IInv, run_command
<1>2. /\ command' = w /\ comm' = FirstOf(s) /\ pc' = "walk" /\ comm_hash' = comm_hash
  BY DEF run_command, table
<1>3. comm_hash_num[w] \in Bucket
  BY TableAssumption
<1>4. /\ s \in Seq(Static \cup Cell) /\ DOMAIN s = 1..Len(s) /\ Len(s) \in Nat
      /\ ToSet(s) \subseteq Static \cup Used
      /\ Used \subseteq Cell
  BY <1>3, ModFacts, LenProperties DEF IInv, TableInv, TableTypes, ChainsInv
<1>5. comm_hash'[comm_hash_num[command']] = s
  BY <1>2
<1>6. CASE s = << >>
  <2>1. comm' = NULL /\ \A x \in DOMAIN s : FALSE
    BY <1>2, <1>6 DEF FirstOf
  <2>2. WalkInv'
    BY <1>2, <1>5, <2>1 DEF WalkInv
  <2> QED  BY <1>1, <1>2, <2>1, <2>2 DEF IInv, TypeOK, TableInv, TableTypes, run_command
<1>7. CASE s # << >>
  <2>1. 1 \in DOMAIN s /\ comm' = s[1]
    BY <1>2, <1>4, <1>7 DEF FirstOf
  <2>2. comm' \in Static \cup Used /\ comm' # NULL
    BY <1>4, <2>1, TableAssumption DEF ToSet
  <2>3. \A y \in DOMAIN s : ~(y < 1)
    BY <1>4
  <2>4. WalkInv'
    BY <1>2, <1>5, <2>1, <2>2, <2>3 DEF WalkInv
  <2> QED  BY <1>1, <1>2, <1>4, <2>2, <2>4 DEF IInv, TypeOK, TableInv, TableTypes, run_command
<1> QED  BY <1>6, <1>7

LEMMA PassStep ==
    ASSUME IInv, Pass
    PROVE  IInv'
<1> DEFINE b == comm_hash_num[command]
           s == comm_hash[b]
<1>1. TableInv' /\ Used' = Used
  BY SameTable DEF IInv, Pass
<1>2. /\ pc = "walk" /\ comm # NULL /\ command' = command /\ comm_hash' = comm_hash
      /\ \A n : Matches(n)' <=> Matches(n)
  BY DEF Pass, table, Matches, Key
<1>3. /\ command \in Word /\ b \in Bucket
      /\ s \in Seq(Static \cup Cell) /\ IsInjective(s)
      /\ DOMAIN s = 1..Len(s) /\ Len(s) \in Nat
      /\ ToSet(s) = {n \in Static \cup Used : HashOf(n) = b}
      /\ NULL \notin ToSet(s) /\ Used \subseteq Cell
  BY <1>2, WalkFacts
<1>4. PICK x \in DOMAIN s : s[x] = comm /\ \A y \in DOMAIN s : y < x => ~Matches(s[y])
  BY <1>2 DEF IInv, WalkInv
<1>5. comm_hash'[comm_hash_num[command']] = s
  BY <1>2
<1>6. CASE Matches(comm) /\ pc' = "call" /\ UNCHANGED comm
  <2>1. WalkInv'
    BY <1>2, <1>3, <1>4, <1>5, <1>6 DEF WalkInv
  <2> QED  BY <1>1, <1>2, <1>6, <2>1 DEF IInv, TypeOK, TableInv, TableTypes, Pass
<1>7. CASE ~Matches(comm) /\ UNCHANGED pc /\ comm' = NextIn(comm_hash[HashOf(comm)], comm)
  <2>1. HashOf(comm) = b
    BY <1>3, <1>4 DEF ToSet
  <2>2. NextIn(s, s[x]) = IF x < Len(s) THEN s[x + 1] ELSE NULL
    BY <1>3, NextInFacts
  <2>3. comm' = IF x < Len(s) THEN s[x + 1] ELSE NULL
    <3>1. comm' = NextIn(s, comm) /\ s[x] = comm
      BY <1>4, <1>7, <2>1
    <3> HIDE DEF s
    <3> QED  BY <2>2, <3>1
  <2>4. \A y \in DOMAIN s : y <= x => ~Matches(s[y])
    <3>1. \A y \in DOMAIN s : y <= x => y < x \/ y = x
      BY <1>3
    <3> QED  BY <1>4, <1>7, <3>1
  <2>5. CASE x < Len(s)
    <3>1. x + 1 \in DOMAIN s /\ comm' = s[x + 1] /\ \A y \in DOMAIN s : y < x + 1 => y <= x
      BY <1>3, <2>3, <2>5
    <3>2. comm' \in ToSet(s) /\ comm' # NULL
      BY <1>3, <3>1 DEF ToSet
    <3>3. WalkInv'
      BY <1>2, <1>3, <1>5, <1>7, <2>4, <3>1, <3>2 DEF WalkInv
    <3>4. comm' \in Static \cup Used
      BY <1>3, <3>2
    <3> QED  BY <1>1, <1>2, <1>3, <1>7, <3>3, <3>4 DEF IInv, TypeOK, TableInv, TableTypes, Pass
  <2>6. CASE ~(x < Len(s))
    <3>1. comm' = NULL /\ \A y \in DOMAIN s : y <= x
      BY <1>3, <2>3, <2>6
    <3>2. WalkInv'
      BY <1>2, <1>3, <1>5, <1>7, <2>4, <3>1 DEF WalkInv
    <3> QED  BY <1>1, <1>2, <1>7, <3>1, <3>2 DEF IInv, TypeOK, TableInv, TableTypes, Pass
  <2> QED  BY <2>5, <2>6
<1> QED  BY <1>6, <1>7 DEF Pass

\* The steps that change the table, and those that only change where the program is.
LEMMA OtherStep ==
    ASSUME IInv, main \/ NotFound \/ Call \/ After \/ (\E m \in Module : insmod(m) \/ rmmod(m))
    PROVE  IInv'
<1> USE DEF IInv
<1>1. CASE main
  <2>1. CASE todo = << >> /\ pc' = "idle" /\ UNCHANGED <<table, todo>>
    <3>1. TableInv' /\ Used' = Used
      BY <2>1, SameTable DEF table
    <3> QED  BY <1>1, <2>1, <3>1 DEF main, walk, WalkInv, TypeOK, TableInv, TableTypes
  <2>2. CASE todo # << >> /\ mod_load(Head(todo)) /\ todo' = Tail(todo) /\ UNCHANGED pc
    <3>1. Head(todo) \in Module /\ Tail(todo) \in Seq(Module)
      BY <2>2, HeadTailProperties DEF TypeOK
    <3>2. TableInv' /\ Used \subseteq Used'
      BY <2>2, <3>1, LoadTable
    <3> QED  BY <1>1, <2>2, <3>1, <3>2 DEF main, walk, WalkInv, TypeOK, TableInv, TableTypes
  <2> QED  BY <1>1, <2>1, <2>2 DEF main
<1>2. CASE NotFound \/ Call \/ After
  <2>1. TableInv' /\ Used' = Used
    BY <1>2, SameTable DEF NotFound, Call, After
  <2>2. WalkInv'
    BY <1>2 DEF WalkInv, NotFound, Call, After
  <2> QED  BY <1>2, <2>1, <2>2 DEF NotFound, Call, After, walk, TypeOK, TableInv, TableTypes
<1>3. ASSUME NEW m \in Module, insmod(m)
      PROVE  IInv'
  <2>1. CASE m \notin Absent /\ mod_load(m) /\ pc' = "next"
    <3>1. TableInv' /\ Used \subseteq Used'
      BY <2>1, LoadTable
    <3> QED  BY <1>3, <2>1, <3>1 DEF insmod, walk, WalkInv, TypeOK, TableInv, TableTypes
  <2>2. CASE m \in Absent /\ pc' \in {"next", "crashed"} /\ UNCHANGED table
    <3>1. TableInv' /\ Used' = Used
      BY <2>2, SameTable
    <3> QED  BY <1>3, <2>2, <3>1 DEF insmod, walk, WalkInv, TypeOK, TableInv, TableTypes
  <2> QED  BY <1>3, <2>1, <2>2 DEF insmod
<1>4. ASSUME NEW m \in Module, rmmod(m)
      PROVE  IInv'
  <2>1. TableInv'
    <3>1. ASSUME NEW h \in DOMAIN mod_list, mod_list[h].name = m, mod_unload(m)
          PROVE  TableInv'
      BY <3>1, UnloadTable
    <3> QED  BY <1>4, <3>1, SameTable DEF rmmod
  <2>2. comm' = comm /\ comm \in Static
    BY <1>4 DEF rmmod, walk, Static
  <2> QED  BY <1>4, <2>1, <2>2 DEF rmmod, walk, WalkInv, TypeOK, TableInv, TableTypes
<1> QED  BY <1>1, <1>2, <1>3, <1>4

LEMMA TableStep == IInv /\ [Next]_vars => IInv' \/ Init'
<1> SUFFICES ASSUME IInv, [Next]_vars PROVE IInv' \/ Init'
  OBVIOUS
<1>1. CASE UNCHANGED vars
  <2>1. TableInv' /\ Used' = Used
    BY <1>1, SameTable DEF IInv, vars, table
  <2>2. WalkInv'
    BY <1>1 DEF IInv, WalkInv, vars, table, walk, Matches, Key
  <2> QED  BY <1>1, <2>1, <2>2 DEF IInv, TypeOK, TableInv, TableTypes, vars, walk
<1>2. CASE Restart
  BY <1>2 DEF Restart, Init
<1>3. ASSUME NEW w \in Word, NEW p \in Privs, run_command(w, p)
      PROVE  IInv'
  BY <1>3, RunStep
<1> QED  BY <1>1, <1>2, <1>3, PassStep, OtherStep DEF Next

LEMMA TableInvariant == Spec => []IInv
<1>1. Init' => IInv'
  BY InitInv, PTL
<1> QED  BY <1>1, InitInv, TableStep, PTL DEF Spec

-----------------------------------------------------------------------------
(* What the invariant says.                                                *)

\* The chains hold the program's commands and those of the modules loaded, each once
\* and in its bucket, however often insmod and rmmod are run; a library is open once
\* for each module of its name; and run_command stands on an entry of the table, also
\* when the command it ran has changed it.
THEOREM ChainsExact == Spec => []TableExact
<1>1. IInv => TableExact
  BY DEF IInv, TableInv, TableExact, ChainsInv, CountInv, Named
<1> QED  BY <1>1, TableInvariant, PTL

\* A command typed as it is registered runs the entry that was registered last.
THEOREM NewestRuns == Spec => []RunsNewest
<1>1. ASSUME IInv PROVE RunsNewest
  <2> DEFINE b == comm_hash_num[command]
             s == comm_hash[b]
  <2>1. \A n \in Static \cup Used : Key(n) = LowerCase[Key(n)]
    <3>1. ASSUME NEW i \in DOMAIN mod_list, NEW n, Of(mod_list, n, i)
          PROVE  key[n] = LowerCase[key[n]]
      <4>1. PICK k \in DOMAIN mod_list[i].comm : mod_list[i].comm[k] = n
        BY <3>1 DEF Of, ToSet
      <4>2. mod_list[i].name \in Module
        BY <1>1, ModFacts DEF IInv, TableInv
      <4> QED  BY <1>1, <4>1, <4>2, KeyAssumption DEF IInv, TableInv, CellsInv
    <3>2. \A n \in Used : \E i \in DOMAIN mod_list : Of(mod_list, n, i)
      BY DEF Used, Of
    <3> QED  BY <3>1, <3>2, KeyAssumption DEF Key
  <2>2. ASSUME pc = "call", NEW i \in DOMAIN mod_list, NEW c \in ToSet(mod_list[i].comm),
               key[c] = command
        PROVE  \E j \in DOMAIN mod_list : j >= i /\ comm \in ToSet(mod_list[j].comm)
    <3>1. /\ b \in Bucket /\ s \in Seq(Static \cup Cell) /\ DOMAIN s = 1..Len(s) /\ Len(s) \in Nat
          /\ ToSet(s) = {n \in Static \cup Used : HashOf(n) = b} /\ Used \subseteq Cell
      BY <1>1, <2>2, WalkFacts
    <3>2. c \in Used /\ c \notin Static /\ Key(c) = command
      BY <2>2, <3>1, TableAssumption DEF Used, Key
    <3>3. PICK y \in DOMAIN s : s[y] = c
      BY <3>1, <3>2 DEF ToSet, HashOf
    <3>4. Matches(comm) /\ comm # NULL
      BY <1>1, <2>2 DEF IInv, WalkInv
    <3>5. PICK x \in DOMAIN s : s[x] = comm /\ \A z \in DOMAIN s : z < x => ~Matches(s[z])
      BY <1>1, <2>2, <3>4 DEF IInv, WalkInv
    <3>6. LowerCase[command] = command
      BY <2>1, <3>2
    <3>7. Matches(c)
      BY <3>2, <3>4, <3>6 DEF Matches
    <3>8. x < y \/ x = y
      BY <3>1, <3>3, <3>5, <3>7
    <3>9. CASE x = y
      <4>1. i >= i
        BY <1>1, ModFacts DEF IInv, TableInv
      <4> QED  BY <2>2, <3>3, <3>5, <3>9, <4>1
    <3>10. CASE x < y
      <4>1. PICK j \in DOMAIN mod_list : i <= j /\ Of(mod_list, s[x], j)
        BY <1>1, <2>2, <3>1, <3>3, <3>10 DEF IInv, TableInv, OrderInv, Of
      <4>2. j >= i
        BY <1>1, <4>1, ModFacts DEF IInv, TableInv
      <4> QED  BY <3>5, <4>1, <4>2 DEF Of
    <3> QED  BY <3>8, <3>9, <3>10
  <2>3. ASSUME pc = "walk", comm = NULL, NEW n \in Static \cup Used,
               Key(n) = command, Level[Key(n)] \in privs
        PROVE  FALSE
    <3>1. ToSet(s) = {e \in Static \cup Used : HashOf(e) = b}
      BY <1>1, <2>3, WalkFacts
    <3>2. PICK x \in DOMAIN s : s[x] = n
      BY <2>3, <3>1 DEF ToSet, HashOf
    <3>3. LowerCase[command] = command
      BY <2>1, <2>3
    <3>4. Matches(n)
      BY <2>3, <3>3 DEF Matches
    <3> QED  BY <1>1, <2>3, <3>2, <3>4 DEF IInv, WalkInv
  <2> QED  BY <2>2, <2>3 DEF RunsNewest
<1>2. IInv => RunsNewest
  BY <1>1
<1> QED  BY <1>2, TableInvariant, PTL
-----------------------------------------------------------------------------
(* The files the program says things with.                                 *)

DFILE == [name : File, system : BOOLEAN, data : Block]
Text == Version \cup {Empty, Nil}

Data(l) == {l[i].data : i \in DOMAIN l}

\* Every entry of l has a block of its own, and memory t is allocated to those and to
\* what is leaked.
Owns(l, t, lost) ==
    /\ l \in Seq(DFILE) /\ t \in [Block -> Text] /\ lost \subseteq Block
    /\ \A i, j \in DOMAIN l : l[i].data = l[j].data => i = j
    /\ Data(l) \cap lost = {}
    /\ Data(l) \cup lost = {b \in Block : t[b] # Nil}

\* Where start-up and a reload are.
LoopInv ==
    /\ doing \in {"startup", "idle", "reload", "told"}
    /\ doing = "startup" => at \in 1..Len(dfile_hardload) + 1 /\ count = 0 /\ reread = {}
    /\ doing = "idle" => at = 1 /\ count = 0 /\ reread = {}
    /\ doing = "reload" => /\ at \in 1..Len(l_dfile) + 1 /\ count = at - 1
                         /\ reread = {l_dfile[i].data : i \in 1..at - 1}
    /\ doing = "told" => at = 1 /\ count = Len(l_dfile) /\ reread = Data(l_dfile)

\* A system file that was read has an entry of the system's, which no player can unload.
ServedInv ==
    /\ unread \subseteq System
    /\ \A i \in DOMAIN l_dfile : l_dfile[i].system => l_dfile[i].name \in System
    /\ \A f \in System \ unread :
         (doing = "startup" => \E k \in 1..at - 1 : dfile_hardload[k] = f) =>
             \E i \in DOMAIN l_dfile : l_dfile[i].name = f /\ l_dfile[i].system

DInv ==
    /\ disk \in [File -> Version \cup {Nil}]
    /\ Owns(l_dfile, text, leaked) /\ LoopInv /\ ServedInv

LEMMA OwnsFacts ==
    ASSUME NEW l, NEW t, NEW lost, Owns(l, t, lost)
    PROVE  /\ DOMAIN l = 1..Len(l) /\ Len(l) \in Nat
           /\ \A i \in DOMAIN l : /\ l[i] \in DFILE /\ l[i].name \in File
                                  /\ l[i].system \in BOOLEAN /\ l[i].data \in Block
                                  /\ t[l[i].data] # Nil
<1>1. /\ DOMAIN l = 1..Len(l) /\ Len(l) \in Nat
      /\ \A i \in DOMAIN l : l[i] \in DFILE
  BY LenProperties, ElementOfSeq DEF Owns
<1> QED  BY <1>1 DEF Owns, DFILE, Data

LEMMA AddOwned ==
    ASSUME NEW l, NEW t, NEW lost, Owns(l, t, lost),
           NEW r \in DFILE, t[r.data] = Nil, NEW v \in Text \ {Nil}
    PROVE  Owns(Append(l, r), [t EXCEPT ![r.data] = v], lost)
<1> DEFINE u == [t EXCEPT ![r.data] = v]
           k == Append(l, r)
<1>1. /\ DOMAIN l = 1..Len(l) /\ Len(l) \in Nat /\ r.data \in Block
      /\ \A i \in DOMAIN l : l[i].data # r.data
  BY OwnsFacts DEF DFILE
<1>2. /\ k \in Seq(DFILE) /\ DOMAIN k = 1..(Len(l) + 1) /\ k[Len(l) + 1] = r
      /\ \A i \in 1..Len(l) : k[i] = l[i]
  BY AppendProperties, LenProperties DEF Owns
<1>3. /\ u \in [Block -> Text] /\ u[r.data] = v /\ v # Nil
      /\ \A b \in Block \ {r.data} : u[b] = t[b]
  BY <1>1 DEF Owns
<1> HIDE DEF u, k
<1>4. /\ \A i \in DOMAIN k : i \in DOMAIN l \/ i = Len(l) + 1
      /\ \A i \in DOMAIN l : i \in DOMAIN k
      /\ Len(l) + 1 \in DOMAIN k /\ Len(l) + 1 \notin DOMAIN l
  BY <1>1, <1>2
<1>5. \A i, j \in DOMAIN k : k[i].data = k[j].data => i = j
  BY <1>1, <1>2, <1>4 DEF Owns
<1>6. Data(k) = Data(l) \cup {r.data}
  BY <1>1, <1>2, <1>4 DEF Data
<1>7. r.data \notin lost
  BY DEF Owns
<1> QED  BY <1>1, <1>2, <1>3, <1>5, <1>6, <1>7 DEF Owns, u, k

LEMMA LeakOwned ==
    ASSUME NEW l, NEW t, NEW lost, Owns(l, t, lost),
           NEW b \in Block, t[b] = Nil, NEW v \in Text \ {Nil}
    PROVE  Owns(l, [t EXCEPT ![b] = v], lost \cup {b})
BY DEF Owns, Data

LEMMA DropOwned ==
    ASSUME NEW l, NEW t, NEW lost, Owns(l, t, lost), NEW i \in DOMAIN l
    PROVE  /\ Owns(RemoveAt(l, i), [t EXCEPT ![l[i].data] = Nil], lost)
           /\ \A j \in DOMAIN l \ {i} : \E k \in DOMAIN RemoveAt(l, i) : RemoveAt(l, i)[k] = l[j]
           /\ \A k \in DOMAIN RemoveAt(l, i) : \E j \in DOMAIN l \ {i} : RemoveAt(l, i)[k] = l[j]
<1> DEFINE m == RemoveAt(l, i)
           d == l[i].data
           u == [t EXCEPT ![d] = Nil]
<1>1. /\ DOMAIN l = 1..Len(l) /\ Len(l) \in Nat /\ d \in Block
      /\ i \in 1..Len(l) /\ l \in Seq(DFILE)
  BY OwnsFacts DEF Owns
<1>2. /\ m \in Seq(DFILE) /\ Len(m) = Len(l) - 1 /\ DOMAIN m = 1..(Len(l) - 1)
      /\ \A k \in 1..(Len(l) - 1) : m[k] = IF k < i THEN l[k] ELSE l[k + 1]
  BY <1>1, RemoveAtFacts, LenProperties
<1>3. u \in [Block -> Text] /\ u[d] = Nil /\ \A b \in Block \ {d} : u[b] = t[b]
  BY <1>1 DEF Owns, Text
<1> HIDE DEF m, u
<1>4. ASSUME NEW j \in DOMAIN l \ {i} PROVE \E k \in DOMAIN m : m[k] = l[j]
  <2>1. CASE j < i
    <3>1. j \in DOMAIN m
      BY <1>1, <1>2, <2>1
    <3> QED  BY <1>2, <2>1, <3>1
  <2>2. CASE ~(j < i)
    <3>1. j - 1 \in DOMAIN m /\ ~(j - 1 < i) /\ (j - 1) + 1 = j
      BY <1>1, <1>2, <2>2
    <3> QED  BY <1>2, <3>1
  <2> QED  BY <2>1, <2>2
<1>5. ASSUME NEW k \in DOMAIN m PROVE \E j \in DOMAIN l \ {i} : m[k] = l[j]
  <2>1. CASE k < i
    <3>1. k \in DOMAIN l \ {i}
      BY <1>1, <1>2, <2>1
    <3> QED  BY <1>2, <2>1, <3>1
  <2>2. CASE ~(k < i)
    <3>1. k + 1 \in DOMAIN l \ {i}
      BY <1>1, <1>2, <2>2
    <3> QED  BY <1>2, <2>2, <3>1
  <2> QED  BY <2>1, <2>2
<1>6. Data(m) = Data(l) \ {d}
  BY <1>1, <1>4, <1>5 DEF Data, Owns
<1>7. ASSUME NEW j \in DOMAIN m, NEW k \in DOMAIN m, m[j].data = m[k].data
      PROVE  j = k
  <2> DEFINE Was(x) == IF x < i THEN x ELSE x + 1
  <2>1. Was(j) \in DOMAIN l /\ Was(k) \in DOMAIN l
    BY <1>1, <1>2
  <2>2. m[j] = l[Was(j)] /\ m[k] = l[Was(k)]
    BY <1>2
  <2>3. Was(j) = Was(k)
    BY <1>7, <2>1, <2>2 DEF Owns
  <2>4. j \in Int /\ k \in Int /\ i \in Int
    BY <1>1, <1>2
  <2> QED  BY <2>3, <2>4
<1>8. d \notin lost
  BY DEF Owns, Data
<1>9. Data(m) \cup lost = {b \in Block : u[b] # Nil}
  BY <1>1, <1>3, <1>6, <1>8 DEF Owns
<1>10. Owns(m, u, lost)
  BY <1>2, <1>3, <1>6, <1>7, <1>9 DEF Owns
<1> QED  BY <1>2, <1>4, <1>5, <1>10 DEF m, u

LEMMA ReplaceOwned ==
    ASSUME NEW l, NEW t, NEW lost, Owns(l, t, lost), NEW i \in DOMAIN l,
           NEW b \in Block, NEW v \in Text \ {Nil},
           [t EXCEPT ![l[i].data] = Nil][b] = Nil
    PROVE  Owns([l EXCEPT ![i].data = b],
                [[t EXCEPT ![l[i].data] = Nil] EXCEPT ![b] = v], lost)
<1> DEFINE m == [l EXCEPT ![i].data = b]
           d == l[i].data
           u == [[t EXCEPT ![d] = Nil] EXCEPT ![b] = v]
<1>1. /\ DOMAIN l = 1..Len(l) /\ Len(l) \in Nat /\ d \in Block
      /\ l \in Seq(DFILE) /\ \A j \in DOMAIN l : l[j] \in DFILE
  BY OwnsFacts DEF Owns
<1>2. /\ DOMAIN m = DOMAIN l /\ m[i] = [l[i] EXCEPT !.data = b]
      /\ \A j \in DOMAIN l \ {i} : m[j] = l[j]
  BY <1>1
<1>3. m[i] \in DFILE /\ m[i].data = b
  BY <1>1, <1>2 DEF DFILE
<1>4. m \in Seq(DFILE)
  <2>1. \A j \in 1..Len(l) : m[j] \in DFILE
    BY <1>1, <1>2, <1>3
  <2>2. m = [j \in 1..Len(l) |-> m[j]]
    BY <1>1
  <2> HIDE DEF m
  <2> QED  BY <1>1, <2>1, <2>2, IsASeq
<1>5. /\ u \in [Block -> Text] /\ u[b] = v /\ v # Nil
      /\ b # d => u[d] = Nil /\ t[b] = Nil
      /\ \A c \in Block \ {d, b} : u[c] = t[c]
  BY <1>1 DEF Owns, Text
<1> HIDE DEF m, u
<1>6. \A j \in DOMAIN l \ {i} : l[j].data # b /\ l[j].data # d
  <2>1. \A j \in DOMAIN l : t[l[j].data] # Nil
    BY OwnsFacts
  <2> QED  BY <1>5, <2>1 DEF Owns
<1>7. ASSUME NEW j \in DOMAIN m, NEW k \in DOMAIN m, m[j].data = m[k].data
      PROVE  j = k
  <2>1. CASE j # i /\ k # i
    <3>1. m[j].data = l[j].data /\ m[k].data = l[k].data
      BY <1>2, <2>1
    <3> QED  BY <1>2, <1>7, <3>1 DEF Owns
  <2>2. CASE j = i \/ k = i
    <3>1. \A x \in DOMAIN l \ {i} : m[x].data # b
      BY <1>2, <1>6
    <3> QED  BY <1>2, <1>3, <1>7, <2>2, <3>1
  <2> QED  BY <2>1, <2>2
<1>8. Data(m) = (Data(l) \ {d}) \cup {b}
  <2>1. ASSUME NEW x \in Data(m) PROVE x \in (Data(l) \ {d}) \cup {b}
    <3>1. PICK j \in DOMAIN m : m[j].data = x
      BY DEF Data
    <3>2. CASE j = i
      BY <1>3, <3>1, <3>2
    <3>3. CASE j # i
      BY <1>2, <1>6, <3>1, <3>3 DEF Data
    <3> QED  BY <3>2, <3>3
  <2>2. ASSUME NEW x \in (Data(l) \ {d}) \cup {b} PROVE x \in Data(m)
    <3>1. CASE x = b
      BY <1>2, <1>3, <3>1 DEF Data
    <3>2. CASE x \in Data(l) \ {d}
      <4>1. PICK j \in DOMAIN l : l[j].data = x
        BY <3>2 DEF Data
      <4>2. m[j].data = x /\ j \in DOMAIN m
        BY <1>2, <3>2, <4>1
      <4> QED  BY <4>2 DEF Data
    <3> QED  BY <2>2, <3>1, <3>2
  <2> QED  BY <2>1, <2>2
<1>9. d \in Data(l) /\ d \notin lost /\ b \notin lost
  BY <1>5 DEF Data, Owns
<1>10. Data(m) \cap lost = {} /\ Data(m) \cup lost = {c \in Block : u[c] # Nil}
  BY <1>1, <1>5, <1>8, <1>9 DEF Owns
<1> QED  BY <1>4, <1>5, <1>7, <1>10 DEF Owns, m, u

LEMMA ReadFacts ==
    ASSUME disk \in [File -> Version \cup {Nil}],
           NEW t, NEW b, NEW f \in File, ReadInto(t, b, f)
    PROVE  /\ t[b] = Nil /\ leaked' = leaked
           /\ \E v \in Text \ {Nil} : text' = [t EXCEPT ![b] = v]
<1>1. PICK v \in {disk[f], Empty} : text' = [t EXCEPT ![b] = v]
  BY DEF ReadInto
<1>2. v \in Text \ {Nil}
  BY DfileAssumption DEF ReadInto, Text
<1> QED  BY <1>1, <1>2 DEF ReadInto

LEMMA FailsOwned ==
    ASSUME NEW l, NEW t, NEW f, Owns(l, t, leaked), Fails(t, f)
    PROVE  Owns(l, text', leaked')
<1>1. CASE CannotOpen(t)
  BY <1>1 DEF CannotOpen
<1>2. ASSUME NEW b \in Block, ShortRead(t, b)
      PROVE  Owns(l, text', leaked')
  <2>1. Empty \in Text \ {Nil}
    BY DfileAssumption DEF Text
  <2>2. t[b] = Nil /\ text' = [t EXCEPT ![b] = Empty] /\ leaked' = leaked \cup {b}
    BY <1>2 DEF ShortRead
  <2> QED  BY <2>1, <2>2, LeakOwned
<1> QED  BY <1>1, <1>2 DEF Fails

\* What dfile_create leaves: an entry at the end, or the list as it was.
LEMMA CreateFacts ==
    ASSUME DInv, NEW f \in File, NEW system \in BOOLEAN,
           dfile_create(f, system)
    PROVE  /\ Owns(l_dfile', text', leaked')
           /\ \/ /\ Len(l_dfile') = Len(l_dfile) + 1
                 /\ \A i \in DOMAIN l_dfile : i \in DOMAIN l_dfile' /\ l_dfile'[i] = l_dfile[i]
                 /\ \A i \in DOMAIN l_dfile' : i \in DOMAIN l_dfile \/ l_dfile'[i].system = system
                 /\ \E i \in DOMAIN l_dfile' : l_dfile'[i].name = f /\ l_dfile'[i].system = system
                 /\ \A i \in DOMAIN l_dfile' : i \notin DOMAIN l_dfile => l_dfile'[i].name = f
                 /\ unread' = unread \ (IF system THEN {f} ELSE {})
              \/ l_dfile' = l_dfile /\ unread' = unread \cup (IF system THEN {f} ELSE {})
<1>1. ASSUME NEW b \in Block, ReadInto(text, b, f),
             l_dfile' = Append(l_dfile, [name |-> f, system |-> system, data |-> b])
      PROVE  /\ Owns(l_dfile', text', leaked')
             /\ Len(l_dfile') = Len(l_dfile) + 1
             /\ \A i \in DOMAIN l_dfile : i \in DOMAIN l_dfile' /\ l_dfile'[i] = l_dfile[i]
             /\ \A i \in DOMAIN l_dfile' : i \in DOMAIN l_dfile \/ l_dfile'[i].system = system
             /\ \E i \in DOMAIN l_dfile' : l_dfile'[i].name = f /\ l_dfile'[i].system = system
             /\ \A i \in DOMAIN l_dfile' : i \notin DOMAIN l_dfile => l_dfile'[i].name = f
  <2> DEFINE r == [name |-> f, system |-> system, data |-> b]
  <2>1. r \in DFILE /\ r.data = b /\ r.name = f /\ r.system = system
    BY DEF DFILE
  <2>2. PICK v \in Text \ {Nil} : /\ text[b] = Nil /\ leaked' = leaked
                                   /\ text' = [text EXCEPT ![b] = v]
    BY <1>1, ReadFacts DEF DInv
  <2>3. l_dfile' = Append(l_dfile, r)
    BY <1>1
  <2> HIDE DEF r
  <2>4. Owns(l_dfile', text', leaked')
    <3>1. Owns(Append(l_dfile, r), [text EXCEPT ![r.data] = v], leaked)
      BY <2>1, <2>2, AddOwned DEF DInv
    <3> QED  BY <2>1, <2>2, <2>3, <3>1
  <2>5. /\ DOMAIN l_dfile = 1..Len(l_dfile) /\ Len(l_dfile) \in Nat
        /\ DOMAIN l_dfile' = 1..(Len(l_dfile) + 1) /\ Len(l_dfile') = Len(l_dfile) + 1
        /\ l_dfile'[Len(l_dfile) + 1] = r
        /\ \A i \in 1..Len(l_dfile) : l_dfile'[i] = l_dfile[i]
    BY <2>1, <2>3, AppendProperties, LenProperties DEF DInv, Owns
  <2>6. /\ \A i \in DOMAIN l_dfile' : i \in DOMAIN l_dfile \/ i = Len(l_dfile) + 1
        /\ \A i \in DOMAIN l_dfile : i \in DOMAIN l_dfile'
        /\ Len(l_dfile) + 1 \in DOMAIN l_dfile'
    BY <2>5
  <2> QED  BY <2>1, <2>4, <2>5, <2>6
<1>2. ASSUME Fails(text, f), l_dfile' = l_dfile
      PROVE  Owns(l_dfile', text', leaked')
  <2>1. Owns(l_dfile, text, leaked)
    BY DEF DInv
  <2>2. Owns(l_dfile, text', leaked')
    BY <1>2, <2>1, FailsOwned
  <2> QED  BY <1>2, <2>2
<1> QED  BY <1>1, <1>2 DEF dfile_create

LEMMA StartStep ==
    ASSUME DInv, init_dfiles
    PROVE  DInv'
<1>1. doing = "startup" /\ disk' = disk /\ count' = count /\ reread' = reread
  BY DEF init_dfiles
<1>2. at \in 1..Len(dfile_hardload) + 1 /\ count = 0 /\ reread = {}
  BY <1>1 DEF DInv, LoopInv
<1>3. /\ dfile_hardload \in Seq(File) /\ DOMAIN dfile_hardload = 1..Len(dfile_hardload)
      /\ Len(dfile_hardload) \in Nat
      /\ \A f : f \in System <=> \E k \in 1..Len(dfile_hardload) : dfile_hardload[k] = f
  BY LenProperties, DfileAssumption DEF System, ToSet
<1>4. ASSUME at <= Len(dfile_hardload), dfile_create(dfile_hardload[at], TRUE),
             at' = at + 1, UNCHANGED doing
      PROVE  DInv'
  <2> DEFINE f == dfile_hardload[at]
  <2>1. f \in System /\ f \in File
    BY <1>2, <1>3, <1>4, ElementOfSeq
  <2>2. /\ Owns(l_dfile', text', leaked')
        /\ \/ /\ Len(l_dfile') = Len(l_dfile) + 1
              /\ \A i \in DOMAIN l_dfile : i \in DOMAIN l_dfile' /\ l_dfile'[i] = l_dfile[i]
              /\ \A i \in DOMAIN l_dfile' : i \in DOMAIN l_dfile \/ l_dfile'[i].system = TRUE
              /\ \E i \in DOMAIN l_dfile' : l_dfile'[i].name = f /\ l_dfile'[i].system = TRUE
              /\ \A i \in DOMAIN l_dfile' : i \notin DOMAIN l_dfile => l_dfile'[i].name = f
              /\ unread' = unread \ {f}
           \/ l_dfile' = l_dfile /\ unread' = unread \cup {f}
    BY <1>4, <2>1, CreateFacts
  <2>3. ASSUME NEW g, \E k \in 1..at' - 1 : dfile_hardload[k] = g
        PROVE  g = f \/ \E k \in 1..at - 1 : dfile_hardload[k] = g
    <3>1. PICK k \in 1..at' - 1 : dfile_hardload[k] = g
      BY <2>3
    <3>2. k = at \/ k \in 1..at - 1
      BY <1>2, <1>3, <1>4
    <3> QED  BY <3>1, <3>2
  <2> HIDE DEF f
  <2>4. ServedInv'
    <3>1. unread' \subseteq System
      BY <2>1, <2>2 DEF DInv, ServedInv
    <3>2. \A i \in DOMAIN l_dfile' : l_dfile'[i].system => l_dfile'[i].name \in System
      BY <2>1, <2>2 DEF DInv, ServedInv
    <3>3. ASSUME NEW g \in System \ unread', \E k \in 1..at' - 1 : dfile_hardload[k] = g
          PROVE  \E i \in DOMAIN l_dfile' : l_dfile'[i].name = g /\ l_dfile'[i].system
      <4>1. CASE g = f
        BY <2>2, <3>3, <4>1
      <4>2. CASE g # f
        <5>1. g \in System \ unread /\ \E k \in 1..at - 1 : dfile_hardload[k] = g
          BY <2>2, <2>3, <3>3, <4>2
        <5> QED  BY <1>1, <2>2, <5>1 DEF DInv, ServedInv
      <4> QED  BY <4>1, <4>2
    <3> QED  BY <1>1, <1>4, <3>1, <3>2, <3>3 DEF ServedInv
  <2>5. LoopInv'
    BY <1>1, <1>2, <1>3, <1>4 DEF LoopInv
  <2> QED  BY <1>1, <2>2, <2>4, <2>5 DEF DInv
<1>5. ASSUME at > Len(dfile_hardload), doing' = "idle", at' = 1,
             UNCHANGED <<l_dfile, text, leaked, unread>>
      PROVE  DInv'
  <2>1. 1..Len(dfile_hardload) = 1..at - 1
    BY <1>2, <1>3, <1>5
  <2>2. ServedInv'
    BY <1>1, <1>3, <1>5, <2>1 DEF DInv, ServedInv
  <2>3. LoopInv'
    BY <1>1, <1>2, <1>5 DEF LoopInv
  <2> QED  BY <1>1, <1>5, <2>2, <2>3 DEF DInv
<1> QED  BY <1>4, <1>5 DEF init_dfiles, memory

LEMMA LoadStep ==
    ASSUME DInv, NEW f \in File, load(f)
    PROVE  DInv'
<1>1. /\ doing = "idle" /\ dfile_create(f, FALSE)
      /\ UNCHANGED <<disk, doing, at, count, reread>>
  BY DEF load
<1>2. /\ Owns(l_dfile', text', leaked')
      /\ \/ /\ Len(l_dfile') = Len(l_dfile) + 1
            /\ \A i \in DOMAIN l_dfile : i \in DOMAIN l_dfile' /\ l_dfile'[i] = l_dfile[i]
            /\ \A i \in DOMAIN l_dfile' : i \in DOMAIN l_dfile \/ l_dfile'[i].system = FALSE
         \/ l_dfile' = l_dfile
      /\ unread' = unread
  <2>1. unread \ (IF FALSE THEN {f} ELSE {}) = unread /\ unread \cup (IF FALSE THEN {f} ELSE {}) = unread
    OBVIOUS
  <2> QED  BY <1>1, <2>1, CreateFacts
<1>3. ServedInv'
  BY <1>1, <1>2 DEF DInv, ServedInv
<1>4. LoopInv'
  BY <1>1 DEF DInv, LoopInv
<1> QED  BY <1>1, <1>2, <1>3, <1>4 DEF DInv

\* The first entry of a name that is on the list.
LEMMA FirstEntry ==
    ASSUME DInv, NEW f, NEW h \in DOMAIN l_dfile, l_dfile[h].name = f
    PROVE  First(f) \in DOMAIN l_dfile /\ l_dfile[First(f)].name = f
<1> DEFINE P == Named(l_dfile, f)
           Leads(j) == l_dfile[j].name = f /\ \A k \in 1..j - 1 : l_dfile[k].name # f
<1>1. DOMAIN l_dfile = 1..Len(l_dfile) /\ Len(l_dfile) \in Nat /\ l_dfile \in Seq(DFILE)
  BY OwnsFacts DEF DInv, Owns
<1>2. IsFiniteSet(P)
  BY <1>1, NamedFinite
<1>3. P \subseteq Nat /\ P # {}
  BY <1>1 DEF Named
<1>4. PICK j \in P : \A k \in P : j <= k
  BY <1>2, <1>3, FirstFacts
<1>5. j \in DOMAIN l_dfile /\ Leads(j)
  <2>1. j \in DOMAIN l_dfile /\ l_dfile[j].name = f
    BY DEF Named
  <2>2. ASSUME NEW k \in 1..j - 1, l_dfile[k].name = f PROVE FALSE
    <3>1. k \in DOMAIN l_dfile /\ ~(j <= k)
      BY <1>1, <2>1
    <3> QED  BY <1>4, <2>2, <3>1 DEF Named
  <2> QED  BY <2>1, <2>2
<1> QED  BY <1>5 DEF First

LEMMA UnloadStep ==
    ASSUME DInv, NEW f \in File, unload(f)
    PROVE  DInv'
<1> DEFINE i == First(f)
<1>1. /\ doing = "idle" /\ f \in {l_dfile[j].name : j \in DOMAIN l_dfile}
      /\ ~l_dfile[i].system
      /\ l_dfile' = RemoveAt(l_dfile, i)
      /\ text' = [text EXCEPT ![l_dfile[i].data] = Nil]
      /\ UNCHANGED <<disk, doing, at, count, leaked, reread, unread>>
  BY DEF unload
<1>2. i \in DOMAIN l_dfile
  BY <1>1, FirstEntry
<1> HIDE DEF i
<1>3. /\ Owns(l_dfile', text', leaked')
      /\ \A j \in DOMAIN l_dfile \ {i} : \E k \in DOMAIN l_dfile' : l_dfile'[k] = l_dfile[j]
      /\ \A k \in DOMAIN l_dfile' : \E j \in DOMAIN l_dfile \ {i} : l_dfile'[k] = l_dfile[j]
  <2>1. Owns(l_dfile, text, leaked) /\ leaked' = leaked
    BY <1>1 DEF DInv
  <2> DEFINE m == RemoveAt(l_dfile, i)
  <2>2. /\ Owns(m, [text EXCEPT ![l_dfile[i].data] = Nil], leaked)
        /\ \A j \in DOMAIN l_dfile \ {i} : \E k \in DOMAIN m : m[k] = l_dfile[j]
        /\ \A k \in DOMAIN m : \E j \in DOMAIN l_dfile \ {i} : m[k] = l_dfile[j]
    BY <1>2, <2>1, DropOwned
  <2>3. l_dfile' = m
    BY <1>1
  <2> HIDE DEF m
  <2> QED  BY <1>1, <2>1, <2>2, <2>3
<1>4. ServedInv'
  <2>1. ASSUME NEW k \in DOMAIN l_dfile', l_dfile'[k].system
        PROVE  l_dfile'[k].name \in System
    BY <1>3, <2>1 DEF DInv, ServedInv
  <2>2. ASSUME NEW g \in System \ unread
        PROVE  \E k \in DOMAIN l_dfile' : l_dfile'[k].name = g /\ l_dfile'[k].system
    <3>1. PICK j \in DOMAIN l_dfile : l_dfile[j].name = g /\ l_dfile[j].system
      BY <1>1 DEF DInv, ServedInv
    <3> QED  BY <1>1, <1>3, <3>1
  <2> QED  BY <1>1, <2>1, <2>2 DEF DInv, ServedInv
<1>5. LoopInv'
  BY <1>1 DEF DInv, LoopInv
<1> QED  BY <1>1, <1>3, <1>4, <1>5 DEF DInv

LEMMA ReloadFileStep ==
    ASSUME DInv, ReloadFile
    PROVE  DInv'
<1>1. PICK b \in Block :
        /\ doing = "reload" /\ at <= Len(l_dfile)
        /\ ReadInto(Given(at), b, l_dfile[at].name)
        /\ l_dfile' = [l_dfile EXCEPT ![at].data = b]
        /\ reread' = reread \cup {b}
        /\ unread' = unread \ Names(at)
        /\ at' = at + 1 /\ count' = count + 1 /\ UNCHANGED <<disk, doing>>
  BY DEF ReloadFile
<1>2. /\ at \in 1..Len(l_dfile) + 1 /\ count = at - 1
      /\ reread = {l_dfile[i].data : i \in 1..at - 1}
  BY <1>1 DEF DInv, LoopInv
<1>3. /\ DOMAIN l_dfile = 1..Len(l_dfile) /\ Len(l_dfile) \in Nat /\ l_dfile \in Seq(DFILE)
      /\ at \in DOMAIN l_dfile /\ l_dfile[at] \in DFILE /\ l_dfile[at].name \in File
      /\ at \in Nat
  <2>1. Owns(l_dfile, text, leaked)
    BY DEF DInv
  <2>2. /\ DOMAIN l_dfile = 1..Len(l_dfile) /\ Len(l_dfile) \in Nat /\ l_dfile \in Seq(DFILE)
    BY <2>1, OwnsFacts DEF Owns
  <2>3. at \in DOMAIN l_dfile /\ at \in Nat
    BY <1>1, <1>2, <2>2
  <2> QED  BY <2>1, <2>2, <2>3, OwnsFacts
<1>4. PICK v \in Text \ {Nil} : /\ Given(at)[b] = Nil /\ leaked' = leaked
                                 /\ text' = [Given(at) EXCEPT ![b] = v]
  BY <1>1, <1>3, ReadFacts DEF DInv
<1>5. Owns(l_dfile', text', leaked')
  BY <1>1, <1>3, <1>4, ReplaceOwned DEF DInv, Given
<1>6. /\ DOMAIN l_dfile' = DOMAIN l_dfile /\ Len(l_dfile') = Len(l_dfile)
      /\ l_dfile'[at].name = l_dfile[at].name /\ l_dfile'[at].system = l_dfile[at].system
      /\ l_dfile'[at].data = b
      /\ \A i \in DOMAIN l_dfile \ {at} : l_dfile'[i] = l_dfile[i]
  BY <1>1, <1>3 DEF DFILE
<1>7. LoopInv'
  <2>1. at' - 1 = at /\ count' = at' - 1 /\ at' \in 1..Len(l_dfile') + 1
    BY <1>1, <1>2, <1>3, <1>6
  <2>2. \A i \in 1..at - 1 : i \in DOMAIN l_dfile /\ i # at /\ l_dfile'[i].data = l_dfile[i].data
    <3>1. \A i \in 1..at - 1 : i \in DOMAIN l_dfile /\ i # at
      BY <1>3
    <3> QED  BY <1>6, <3>1
  <2>3. 1..at = 1..at - 1 \cup {at}
    BY <1>3
  <2>4. reread' = {l_dfile'[i].data : i \in 1..at}
    BY <1>1, <1>2, <1>6, <2>2, <2>3
  <2> QED  BY <1>1, <2>1, <2>4 DEF LoopInv
<1>8. ServedInv'
  <2>1. \A i \in DOMAIN l_dfile : l_dfile'[i].name = l_dfile[i].name /\ l_dfile'[i].system = l_dfile[i].system
    BY <1>6
  <2>2. ASSUME NEW f \in System, f \notin unread'
        PROVE  \E i \in DOMAIN l_dfile' : l_dfile'[i].name = f /\ l_dfile'[i].system
    <3>1. CASE f \in unread
      <4>1. f = l_dfile[at].name /\ l_dfile[at].system
        BY <1>1, <2>2, <3>1 DEF Names
      <4> QED  BY <1>3, <1>6, <2>1, <4>1
    <3>2. CASE f \notin unread
      BY <1>1, <1>6, <2>1, <3>2 DEF DInv, ServedInv
    <3> QED  BY <3>1, <3>2
  <2> QED  BY <1>1, <1>6, <2>1, <2>2 DEF DInv, ServedInv
<1> QED  BY <1>1, <1>5, <1>7, <1>8 DEF DInv

LEMMA ReloadDropStep ==
    ASSUME DInv, ReloadDrop
    PROVE  DInv'
<1>1. /\ doing = "reload" /\ at <= Len(l_dfile)
      /\ Fails(Given(at), l_dfile[at].name)
      /\ l_dfile' = RemoveAt(l_dfile, at)
      /\ unread' = unread \cup Names(at)
      /\ UNCHANGED <<disk, doing, at, count, reread>>
  BY DEF ReloadDrop
<1>2. /\ at \in 1..Len(l_dfile) + 1 /\ count = at - 1
      /\ reread = {l_dfile[i].data : i \in 1..at - 1}
  BY <1>1 DEF DInv, LoopInv
<1>3. /\ DOMAIN l_dfile = 1..Len(l_dfile) /\ Len(l_dfile) \in Nat /\ l_dfile \in Seq(DFILE)
      /\ at \in DOMAIN l_dfile
  BY <1>1, <1>2, OwnsFacts DEF DInv, Owns
<1>4. PICK i \in DOMAIN l_dfile : i = at
  BY <1>3
<1>5. /\ Owns(l_dfile', Given(at), leaked)
      /\ DOMAIN l_dfile' = 1..(Len(l_dfile) - 1)
      /\ \A k \in DOMAIN l_dfile' : l_dfile'[k] = IF k < i THEN l_dfile[k] ELSE l_dfile[k + 1]
      /\ \A j \in DOMAIN l_dfile \ {i} : \E k \in DOMAIN l_dfile' : l_dfile'[k] = l_dfile[j]
      /\ \A k \in DOMAIN l_dfile' : \E j \in DOMAIN l_dfile \ {i} : l_dfile'[k] = l_dfile[j]
  <2>1. Owns(l_dfile, text, leaked) /\ Given(at) = [text EXCEPT ![l_dfile[i].data] = Nil]
    BY <1>4 DEF DInv, Given
  <2> DEFINE m == RemoveAt(l_dfile, i)
  <2>2. Owns(m, [text EXCEPT ![l_dfile[i].data] = Nil], leaked)
    BY <1>4, <2>1, DropOwned
  <2>3. /\ DOMAIN m = 1..(Len(l_dfile) - 1)
        /\ \A k \in DOMAIN m : m[k] = IF k < i THEN l_dfile[k] ELSE l_dfile[k + 1]
    <3>1. /\ m \in Seq(DFILE) /\ Len(m) = Len(l_dfile) - 1
          /\ \A k \in 1..(Len(l_dfile) - 1) :
               m[k] = IF k < i THEN l_dfile[k] ELSE l_dfile[k + 1]
      BY <1>3, <1>4, RemoveAtFacts
    <3> HIDE DEF m
    <3>2. DOMAIN m = 1..(Len(l_dfile) - 1)
      BY <3>1, LenProperties
    <3> QED  BY <3>1, <3>2
  <2>4. /\ \A j \in DOMAIN l_dfile \ {i} : \E k \in DOMAIN m : m[k] = l_dfile[j]
        /\ \A k \in DOMAIN m : \E j \in DOMAIN l_dfile \ {i} : m[k] = l_dfile[j]
    BY <1>4, <2>1, DropOwned
  <2>5. l_dfile' = m
    BY <1>1, <1>4
  <2> HIDE DEF m
  <2> QED  BY <2>1, <2>2, <2>3, <2>4, <2>5
<1>6. Owns(l_dfile', text', leaked')
  BY <1>1, <1>5, FailsOwned
<1>7. LoopInv'
  <2>1. Len(l_dfile') = Len(l_dfile) - 1
    BY <1>1, <1>3, RemoveAtFacts
  <2>2. \A k \in 1..at - 1 : l_dfile'[k] = l_dfile[k]
    BY <1>3, <1>4, <1>5
  <2>3. at' \in 1..Len(l_dfile') + 1
    BY <1>1, <1>2, <1>3, <2>1
  <2>4. reread' = {l_dfile'[k].data : k \in 1..at' - 1}
    BY <1>1, <1>2, <2>2
  <2> QED  BY <1>1, <1>2, <2>3, <2>4 DEF LoopInv
<1>8. ServedInv'
  <2>1. Names(at) = IF l_dfile[i].system THEN {l_dfile[i].name} ELSE {}
    BY <1>4 DEF Names
  <2>2. ASSUME NEW f \in System, f \notin unread'
        PROVE  \E k \in DOMAIN l_dfile' : l_dfile'[k].name = f /\ l_dfile'[k].system
    <3>1. PICK j \in DOMAIN l_dfile : l_dfile[j].name = f /\ l_dfile[j].system
      BY <1>1, <2>2 DEF DInv, ServedInv
    <3>2. j # i
      BY <1>1, <2>1, <2>2, <3>1
    <3> QED  BY <1>5, <3>1, <3>2
  <2>3. \A k \in DOMAIN l_dfile' : l_dfile'[k].system => l_dfile'[k].name \in System
    BY <1>5 DEF DInv, ServedInv
  <2>4. unread' \subseteq System
    BY <1>1, <2>1 DEF DInv, ServedInv
  <2> QED  BY <2>2, <2>3, <2>4 DEF ServedInv
<1> QED  BY <1>1, <1>6, <1>7, <1>8 DEF DInv

\* Edits, the start of a reload and its end.
LEMMA StillStep ==
    ASSUME DInv,
           \/ reload \/ ReloadEnd \/ UNCHANGED dvars
           \/ \E f \in File, v \in Version \cup {Nil} : Edit(f, v)
    PROVE  DInv'
<1>1. UNCHANGED <<l_dfile, text, leaked, unread>>
  BY DEF reload, ReloadEnd, dvars, Edit, memory
<1>2. disk' \in [File -> Version \cup {Nil}]
  BY DEF reload, ReloadEnd, dvars, Edit, DInv
<1>3. DOMAIN l_dfile = 1..Len(l_dfile) /\ Len(l_dfile) \in Nat
  BY OwnsFacts DEF DInv
<1>4. LoopInv' /\ ServedInv'
  <2>1. CASE reload
    <3>1. 1..at' - 1 = {} /\ at' \in 1..Len(l_dfile') + 1 /\ count' = at' - 1
      BY <1>1, <1>3, <2>1 DEF reload
    <3> QED  BY <1>1, <2>1, <3>1 DEF reload, DInv, LoopInv, ServedInv
  <2>2. CASE ReloadEnd
    <3>1. CASE doing = "reload" /\ at > Len(l_dfile) /\ doing' = "told" /\ UNCHANGED <<count, reread>>
      <4>1. at = Len(l_dfile) + 1 /\ 1..at - 1 = DOMAIN l_dfile
        BY <1>3, <3>1 DEF DInv, LoopInv
      <4>2. count' = Len(l_dfile') /\ reread' = Data(l_dfile')
        BY <1>1, <1>3, <3>1, <4>1 DEF DInv, LoopInv, Data
      <4> QED  BY <1>1, <2>2, <3>1, <4>2 DEF ReloadEnd, DInv, LoopInv, ServedInv
    <3>2. CASE doing = "told" /\ doing' = "idle" /\ count' = 0 /\ reread' = {}
      BY <1>1, <2>2, <3>2 DEF ReloadEnd, DInv, LoopInv, ServedInv
    <3> QED  BY <2>2, <3>1, <3>2 DEF ReloadEnd
  <2>3. CASE UNCHANGED <<doing, at, count, reread>>
    BY <1>1, <2>3 DEF DInv, LoopInv, ServedInv
  <2> QED  BY <2>1, <2>2, <2>3 DEF Edit, dvars
<1> QED  BY <1>1, <1>2, <1>4 DEF DInv

LEMMA FilesStep ==
    ASSUME DInv, [DNext]_dvars
    PROVE  DInv'
BY StartStep, LoadStep, UnloadStep, ReloadFileStep, ReloadDropStep, StillStep DEF DNext

LEMMA FilesInit ==
    ASSUME DInit
    PROVE  DInv
<1>1. l_dfile = << >> /\ Len(l_dfile) = 0 /\ DOMAIN l_dfile = {} /\ Data(l_dfile) = {}
  BY DEF DInit, Data
<1>2. l_dfile \in Seq(DFILE)
  <2>1. \A S : << >> \in Seq(S)
    OBVIOUS
  <2> QED  BY <1>1, <2>1
<1>3. Owns(l_dfile, text, leaked)
  BY <1>1, <1>2 DEF Owns, DInit, Text
<1>4. at = 1 /\ at \in 1..Len(dfile_hardload) + 1
  <2>1. Len(dfile_hardload) \in Nat
    BY LenProperties, DfileAssumption
  <2> QED  BY <2>1 DEF DInit
<1> QED  BY <1>1, <1>3, <1>4 DEF DInv, LoopInv, ServedInv, DInit

LEMMA FilesInvariant == DSpec => []DInv
<1>1. DInit => DInv
  BY FilesInit
<1>2. DInv /\ [DNext]_dvars => DInv'
  BY FilesStep
<1> QED  BY <1>1, <1>2, PTL DEF DSpec

\* A file's text is its own and allocated, whatever players load and unload and whichever
\* reads fail, short ones included.
THEOREM FilesOwned == DSpec => []DataOwned
<1>1. DInv => DataOwned
  <2> SUFFICES ASSUME DInv PROVE DataOwned
    OBVIOUS
  <2>1. /\ DOMAIN l_dfile = 1..Len(l_dfile) /\ Len(l_dfile) \in Nat /\ Len(dfile_hardload) \in Nat
        /\ \A i \in DOMAIN l_dfile : l_dfile[i].data \in Block
    BY OwnsFacts, LenProperties, DfileAssumption DEF DInv
  <2>2. at \in 1..Len(l_dfile) + Len(dfile_hardload) + 1 /\ count \in 0..Len(l_dfile)
    BY <2>1 DEF DInv, LoopInv
  <2>3. reread \subseteq Block
    <3>1. doing = "reload" => \A i \in 1..at - 1 : i \in DOMAIN l_dfile
      BY <2>1 DEF DInv, LoopInv
    <3> QED  BY <2>1, <3>1 DEF DInv, LoopInv, Data
  <2>4. DTypeOK
    BY <2>2, <2>3 DEF DInv, Owns, LoopInv, ServedInv, DTypeOK, DFILE, Text
  <2>5. Data(l_dfile) \cup leaked = Block \ Free
    BY DEF DInv, Owns, Free
  <2> QED  BY <2>4, <2>5 DEF DataOwned, DInv, Owns, Data
<1> QED  BY <1>1, FilesInvariant, PTL

\* The program's messages are there but for those it failed to read when it last tried.
THEOREM FilesServed == DSpec => []SystemServed
<1>1. DInv => SystemServed
  <2> SUFFICES ASSUME DInv, doing # "startup", NEW f \in System \ unread
               PROVE  dfile_data(f) # Nil
    BY DEF SystemServed
  <2>1. PICK h \in DOMAIN l_dfile : l_dfile[h].name = f
    BY DEF DInv, ServedInv
  <2>2. First(f) \in DOMAIN l_dfile
    BY <2>1, FirstEntry
  <2>3. text[l_dfile[First(f)].data] # Nil
    BY <2>2, OwnsFacts DEF DInv
  <2> QED  BY <2>1, <2>3 DEF dfile_data
<1> QED  BY <1>1, FilesInvariant, PTL

\* When a player is told "Reloaded n files", the list is of n files, each read just now.
THEOREM FilesReloaded == DSpec => []ReloadReachesAll
<1>1. DInv => ReloadReachesAll
  BY DEF DInv, LoopInv, ReloadReachesAll, Data
<1> QED  BY <1>1, FilesInvariant, PTL
=============================================================================
