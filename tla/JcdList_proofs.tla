--------------------------- MODULE JcdList_proofs ---------------------------
(***************************************************************************)
(* Proofs about the linked list of src/list.c, for every heap and every    *)
(* set of data: the pointers realise the order of the calls, no statement  *)
(* goes through a dangling pointer, the list implements AbstractList, and  *)
(* every statement of a call leaves fewer of them to execute.              *)
(***************************************************************************)
EXTENDS JcdList, ListLemmas

\* The inductive invariant.  The three properties of the pointers are not
\* inductive alone: what a store does depends on what the cursors stand on,
\* which is CallState, and on the cells being distinct.
IInv ==
    /\ TypeOK
    /\ ForwardChain
    /\ BackwardChain
    /\ NoDuplicates
    /\ Accounted
    /\ CallState

-----------------------------------------------------------------------------

\* What the provers need to know of the history sequence.
LEMMA OrderFacts ==
    ASSUME TypeOK
    PROVE  /\ Len(order) \in Nat
           /\ DOMAIN order = 1..Len(order)
           /\ \A i \in DOMAIN order : order[i] \in Cell
           /\ order = << >> <=> Len(order) = 0
BY LenProperties DEF TypeOK

LEMMA InitIInv == Init => IInv
BY NullAssumption DEF Init, IInv, TypeOK, ForwardChain, BackwardChain, NoDuplicates,
    Accounted, CallState, Linked, InHand, Fresh, Pointer, Label

LEMMA AddAllocIInv ==
    ASSUME NEW c \in Cell, NEW d \in Data, IInv, AddAlloc(c, d)
    PROVE  IInv'
<1> USE NullAssumption
<1>0. /\ Len(order) \in Nat /\ DOMAIN order = 1..Len(order)
      /\ \A i \in DOMAIN order : order[i] \in Cell
      /\ order = << >> <=> Len(order) = 0
  BY OrderFacts DEF IInv
<1>1. TypeOK'
  BY <1>0 DEF IInv, AddAlloc, TypeOK, CallState, FindState, Pointer, Label, Accounted, InHand, ForwardChain
<1>2. ForwardChain'
  BY <1>0 DEF IInv, AddAlloc, TypeOK, ForwardChain, Fresh, NoDuplicates, CallState, Accounted, InHand, Linked
<1>3. BackwardChain'
  BY <1>0 DEF IInv, AddAlloc, TypeOK, BackwardChain, ForwardChain, NoDuplicates, CallState, Accounted, InHand, Linked
<1>4. NoDuplicates'
  BY <1>0 DEF IInv, AddAlloc, TypeOK, NoDuplicates, CallState, Accounted, InHand, Linked
<1>5. Accounted'
  BY <1>0 DEF IInv, AddAlloc, TypeOK, Accounted, InHand, Linked, CallState
<1>6. CallState'
  BY <1>0 DEF IInv, AddAlloc, TypeOK, CallState, FindState, ForwardChain, BackwardChain, Fresh, NoDuplicates, Accounted, InHand, Linked, Pointer
<1> QED  BY <1>1, <1>2, <1>3, <1>4, <1>5, <1>6 DEF IInv

LEMMA RemoveStartIInv ==
    ASSUME NEW d \in Data, IInv, RemoveStart(d)
    PROVE  IInv'
<1> USE NullAssumption
<1>0. /\ Len(order) \in Nat /\ DOMAIN order = 1..Len(order)
      /\ \A i \in DOMAIN order : order[i] \in Cell
      /\ order = << >> <=> Len(order) = 0
  BY OrderFacts DEF IInv
<1>1. TypeOK'
  BY <1>0 DEF IInv, RemoveStart, TypeOK, CallState, FindState, Pointer, Label, Accounted, InHand, ForwardChain
<1>2. ForwardChain'
  BY <1>0 DEF IInv, RemoveStart, TypeOK, ForwardChain, Fresh, NoDuplicates, CallState, Accounted, InHand, Linked
<1>3. BackwardChain'
  BY <1>0 DEF IInv, RemoveStart, TypeOK, BackwardChain, ForwardChain, NoDuplicates, CallState, Accounted, InHand, Linked
<1>4. NoDuplicates'
  BY <1>0 DEF IInv, RemoveStart, TypeOK, NoDuplicates, CallState, Accounted, InHand, Linked
<1>5. Accounted'
  BY <1>0 DEF IInv, RemoveStart, TypeOK, Accounted, InHand, Linked, CallState
<1>6. CallState'
  BY <1>0 DEF IInv, RemoveStart, TypeOK, CallState, FindState, ForwardChain, BackwardChain, Fresh, NoDuplicates, Accounted, InHand, Linked, Pointer
<1> QED  BY <1>1, <1>2, <1>3, <1>4, <1>5, <1>6 DEF IInv

LEMMA AddFirstIInv ==
    ASSUME IInv, AddFirst
    PROVE  IInv'
<1> USE NullAssumption
<1>0. /\ Len(order) \in Nat /\ DOMAIN order = 1..Len(order)
      /\ \A i \in DOMAIN order : order[i] \in Cell
      /\ order = << >> <=> Len(order) = 0
  BY OrderFacts DEF IInv
<1>1. TypeOK'
  BY <1>0 DEF IInv, AddFirst, TypeOK, CallState, FindState, Pointer, Label, Accounted, InHand, ForwardChain
<1>2. ForwardChain'
  BY <1>0 DEF IInv, AddFirst, TypeOK, ForwardChain, Fresh, NoDuplicates, CallState, Accounted, InHand, Linked
<1>3. BackwardChain'
  BY <1>0 DEF IInv, AddFirst, TypeOK, BackwardChain, ForwardChain, NoDuplicates, CallState, Accounted, InHand, Linked
<1>4. NoDuplicates'
  BY <1>0 DEF IInv, AddFirst, TypeOK, NoDuplicates, CallState, Accounted, InHand, Linked
<1>5. Accounted'
  BY <1>0 DEF IInv, AddFirst, TypeOK, Accounted, InHand, Linked, CallState
<1>6. CallState'
  BY <1>0 DEF IInv, AddFirst, TypeOK, CallState, FindState, ForwardChain, BackwardChain, Fresh, NoDuplicates, Accounted, InHand, Linked, Pointer
<1> QED  BY <1>1, <1>2, <1>3, <1>4, <1>5, <1>6 DEF IInv

LEMMA AddWalkIInv ==
    ASSUME IInv, AddWalk
    PROVE  IInv'
<1> USE NullAssumption
<1>0. /\ Len(order) \in Nat /\ DOMAIN order = 1..Len(order)
      /\ \A i \in DOMAIN order : order[i] \in Cell
      /\ order = << >> <=> Len(order) = 0
  BY OrderFacts DEF IInv
<1>1. TypeOK'
  BY <1>0 DEF IInv, AddWalk, TypeOK, CallState, FindState, Pointer, Label, Accounted, InHand, ForwardChain
<1>2. ForwardChain'
  BY <1>0 DEF IInv, AddWalk, TypeOK, ForwardChain, Fresh, NoDuplicates, CallState, Accounted, InHand, Linked
<1>3. BackwardChain'
  BY <1>0 DEF IInv, AddWalk, TypeOK, BackwardChain, ForwardChain, NoDuplicates, CallState, Accounted, InHand, Linked
<1>4. NoDuplicates'
  BY <1>0 DEF IInv, AddWalk, TypeOK, NoDuplicates, CallState, Accounted, InHand, Linked
<1>5. Accounted'
  BY <1>0 DEF IInv, AddWalk, TypeOK, Accounted, InHand, Linked, CallState
<1>6. CallState'
  <2>1. PICK k \in DOMAIN order : scan = order[k]
    BY DEF IInv, CallState, AddWalk
  <2>2. k + 1 \in DOMAIN order /\ next[scan] = order[k + 1]
    BY <1>0, <2>1 DEF IInv, AddWalk, ForwardChain, Fresh
  <2> QED  BY <2>2 DEF IInv, CallState, AddWalk
<1> QED  BY <1>1, <1>2, <1>3, <1>4, <1>5, <1>6 DEF IInv

LEMMA AddLinkIInv ==
    ASSUME IInv, AddLink
    PROVE  IInv'
<1> USE NullAssumption
<1>0. /\ Len(order) \in Nat /\ DOMAIN order = 1..Len(order)
      /\ \A i \in DOMAIN order : order[i] \in Cell
      /\ order = << >> <=> Len(order) = 0
  BY OrderFacts DEF IInv
<1> DEFINE L == Len(order)
<1>a. L \in DOMAIN order /\ scan = order[L]
  <2>1. PICK k \in DOMAIN order : scan = order[k]
    BY DEF IInv, CallState, AddLink
  <2>2. k = L
    <3>1. SUFFICES ASSUME k # L PROVE FALSE
      OBVIOUS
    <3>2. next[order[k]] = order[k + 1] /\ k + 1 \in DOMAIN order
      BY <1>0, <3>1 DEF IInv, AddLink, ForwardChain, Fresh
    <3> QED  BY <1>0, <2>1, <3>2 DEF AddLink
  <2> QED  BY <1>0, <2>1, <2>2
<1>b. /\ n \in Cell /\ n \notin Linked
      /\ \A i \in DOMAIN order : order[i] # n /\ data[order[i]] # data[n]
  BY <1>0 DEF IInv, CallState, Accounted, InHand, Linked, AddLink
<1>c. /\ order' \in Seq(Cell)
      /\ Len(order') = L + 1
      /\ DOMAIN order' = 1..(L + 1)
      /\ \A i \in 1..L : order'[i] = order[i]
      /\ order'[L + 1] = n
  BY <1>0, <1>b DEF IInv, TypeOK, AddLink
<1> HIDE DEF L
<1>d. /\ next' = [next EXCEPT ![order[L]] = n] /\ next \in [Cell -> Pointer]
      /\ L \in Nat /\ L > 0 /\ DOMAIN order = 1..L
  BY <1>0, <1>a DEF IInv, TypeOK, AddLink, L
<1>1. TypeOK'
  <2>1. next' \in [Cell -> Pointer]
    BY <1>b, <1>d DEF Pointer
  <2> QED  BY <1>c, <2>1 DEF IInv, AddLink, TypeOK, Label
<1>2. ForwardChain'
  <2>1. head = order[1]
    BY <1>0, <1>d DEF IInv, ForwardChain, L
  <2>2. ASSUME NEW i \in 1..L PROVE next'[order'[i]] = order'[i + 1]
    <3>1. CASE i = L
      BY <1>0, <1>c, <1>d, <3>1
    <3>2. CASE i # L
      <4>1. order[i] # order[L]
        BY <1>d, <3>2 DEF IInv, NoDuplicates
      <4>2. Fresh = 0
        BY DEF Fresh, AddLink
      <4>3. next[order[i]] = order[i + 1]
        <5>1. i \in DOMAIN order
          BY <1>d
        <5>2. i # Fresh
          BY <1>d, <4>2
        <5>3. i # Len(order)
          BY <3>2 DEF L
        <5> QED  BY <5>1, <5>2, <5>3 DEF IInv, ForwardChain
      <4> QED  BY <1>0, <1>c, <1>d, <3>2, <4>1, <4>3
    <3> QED  BY <3>1, <3>2
  <2> QED  BY <1>c, <1>d, <2>1, <2>2 DEF ForwardChain, Fresh, AddLink
<1>3. BackwardChain'
  BY <1>c, <1>d DEF IInv, AddLink, BackwardChain
<1>4. NoDuplicates'
  BY <1>b, <1>c, <1>d DEF IInv, AddLink, NoDuplicates
<1>5. Accounted'
  <2>1. Linked' = Linked \cup {n}
    BY <1>c, <1>d DEF Linked
  <2>2. InHand = {n} /\ InHand' = {}
    <3>1. pc = "walk" /\ pc' = "clear"
      BY DEF AddLink
    <3> QED  BY <3>1 DEF InHand
  <2>3. live = Linked \cup {n} /\ nodes = Len(order) + 1
    BY <2>2 DEF IInv, Accounted
  <2>4. nodes = Len(order')
    BY <1>c, <2>3 DEF L
  <2> QED  BY <1>0, <1>c, <2>1, <2>2, <2>3, <2>4 DEF Accounted, AddLink
<1>6. CallState'
  BY <1>a, <1>c, <1>d DEF AddLink, CallState
<1> QED  BY <1>1, <1>2, <1>3, <1>4, <1>5, <1>6 DEF IInv

LEMMA AddClearIInv ==
    ASSUME IInv, AddClear
    PROVE  IInv'
<1> USE NullAssumption
<1>0. /\ Len(order) \in Nat /\ DOMAIN order = 1..Len(order)
      /\ \A i \in DOMAIN order : order[i] \in Cell
      /\ order = << >> <=> Len(order) = 0
  BY OrderFacts DEF IInv
<1>1. TypeOK'
  BY <1>0 DEF IInv, AddClear, TypeOK, CallState, FindState, Pointer, Label, Accounted, InHand, ForwardChain
<1>2. ForwardChain'
  BY <1>0 DEF IInv, AddClear, TypeOK, ForwardChain, Fresh, NoDuplicates, CallState, Accounted, InHand, Linked
<1>3. BackwardChain'
  BY <1>0 DEF IInv, AddClear, TypeOK, BackwardChain, ForwardChain, NoDuplicates, CallState, Accounted, InHand, Linked
<1>4. NoDuplicates'
  BY <1>0 DEF IInv, AddClear, TypeOK, NoDuplicates, CallState, Accounted, InHand, Linked
<1>5. Accounted'
  BY <1>0 DEF IInv, AddClear, TypeOK, Accounted, InHand, Linked, CallState
<1>6. CallState'
  BY <1>0 DEF IInv, AddClear, TypeOK, CallState, FindState, ForwardChain, BackwardChain, Fresh, NoDuplicates, Accounted, InHand, Linked, Pointer
<1> QED  BY <1>1, <1>2, <1>3, <1>4, <1>5, <1>6 DEF IInv

LEMMA AddBackIInv ==
    ASSUME IInv, AddBack
    PROVE  IInv'
<1> USE NullAssumption
<1>0. /\ Len(order) \in Nat /\ DOMAIN order = 1..Len(order)
      /\ \A i \in DOMAIN order : order[i] \in Cell
      /\ order = << >> <=> Len(order) = 0
  BY OrderFacts DEF IInv
<1>1. TypeOK'
  BY <1>0 DEF IInv, AddBack, TypeOK, CallState, FindState, Pointer, Label, Accounted, InHand, ForwardChain
<1>2. ForwardChain'
  BY <1>0 DEF IInv, AddBack, TypeOK, ForwardChain, Fresh, NoDuplicates, CallState, Accounted, InHand, Linked
<1>3. BackwardChain'
  BY <1>0 DEF IInv, AddBack, TypeOK, BackwardChain, ForwardChain, NoDuplicates, CallState, Accounted, InHand, Linked
<1>4. NoDuplicates'
  BY <1>0 DEF IInv, AddBack, TypeOK, NoDuplicates, CallState, Accounted, InHand, Linked
<1>5. Accounted'
  BY <1>0 DEF IInv, AddBack, TypeOK, Accounted, InHand, Linked, CallState
<1>6. CallState'
  BY <1>0 DEF IInv, AddBack, TypeOK, CallState, FindState, ForwardChain, BackwardChain, Fresh, NoDuplicates, Accounted, InHand, Linked, Pointer
<1> QED  BY <1>1, <1>2, <1>3, <1>4, <1>5, <1>6 DEF IInv

LEMMA FindWalkIInv ==
    ASSUME IInv, FindWalk
    PROVE  IInv'
<1> USE NullAssumption
<1>0. /\ Len(order) \in Nat /\ DOMAIN order = 1..Len(order)
      /\ \A i \in DOMAIN order : order[i] \in Cell
      /\ order = << >> <=> Len(order) = 0
  BY OrderFacts DEF IInv
<1>1. TypeOK'
  BY <1>0 DEF IInv, FindWalk, TypeOK, CallState, FindState, Pointer, Label, Accounted, InHand, ForwardChain
<1>2. ForwardChain'
  BY <1>0 DEF IInv, FindWalk, TypeOK, ForwardChain, Fresh, NoDuplicates, CallState, Accounted, InHand, Linked
<1>3. BackwardChain'
  BY <1>0 DEF IInv, FindWalk, TypeOK, BackwardChain, ForwardChain, NoDuplicates, CallState, Accounted, InHand, Linked
<1>4. NoDuplicates'
  BY <1>0 DEF IInv, FindWalk, TypeOK, NoDuplicates, CallState, Accounted, InHand, Linked
<1>5. Accounted'
  BY <1>0 DEF IInv, FindWalk, TypeOK, Accounted, InHand, Linked, CallState
<1>6. CallState'
  BY <1>0 DEF IInv, FindWalk, TypeOK, CallState, FindState, ForwardChain, BackwardChain, Fresh, NoDuplicates, Accounted, InHand, Linked, Pointer
<1> QED  BY <1>1, <1>2, <1>3, <1>4, <1>5, <1>6 DEF IInv

LEMMA FindNoneIInv ==
    ASSUME IInv, FindNone
    PROVE  IInv'
<1> USE NullAssumption
<1>0. /\ Len(order) \in Nat /\ DOMAIN order = 1..Len(order)
      /\ \A i \in DOMAIN order : order[i] \in Cell
      /\ order = << >> <=> Len(order) = 0
  BY OrderFacts DEF IInv
<1>1. TypeOK'
  BY <1>0 DEF IInv, FindNone, TypeOK, CallState, FindState, Pointer, Label, Accounted, InHand, ForwardChain
<1>2. ForwardChain'
  BY <1>0 DEF IInv, FindNone, TypeOK, ForwardChain, Fresh, NoDuplicates, CallState, Accounted, InHand, Linked
<1>3. BackwardChain'
  BY <1>0 DEF IInv, FindNone, TypeOK, BackwardChain, ForwardChain, NoDuplicates, CallState, Accounted, InHand, Linked
<1>4. NoDuplicates'
  BY <1>0 DEF IInv, FindNone, TypeOK, NoDuplicates, CallState, Accounted, InHand, Linked
<1>5. Accounted'
  BY <1>0 DEF IInv, FindNone, TypeOK, Accounted, InHand, Linked, CallState
<1>6. CallState'
  BY <1>0 DEF IInv, FindNone, TypeOK, CallState, FindState, ForwardChain, BackwardChain, Fresh, NoDuplicates, Accounted, InHand, Linked, Pointer
<1> QED  BY <1>1, <1>2, <1>3, <1>4, <1>5, <1>6 DEF IInv

LEMMA FindHitIInv ==
    ASSUME IInv, FindHit
    PROVE  IInv'
<1> USE NullAssumption
<1>0. /\ Len(order) \in Nat /\ DOMAIN order = 1..Len(order)
      /\ \A i \in DOMAIN order : order[i] \in Cell
      /\ order = << >> <=> Len(order) = 0
  BY OrderFacts DEF IInv
<1>1. TypeOK'
  BY <1>0 DEF IInv, FindHit, TypeOK, CallState, FindState, Pointer, Label, Accounted, InHand, ForwardChain
<1>2. ForwardChain'
  BY <1>0 DEF IInv, FindHit, TypeOK, ForwardChain, Fresh, NoDuplicates, CallState, Accounted, InHand, Linked
<1>3. BackwardChain'
  BY <1>0 DEF IInv, FindHit, TypeOK, BackwardChain, ForwardChain, NoDuplicates, CallState, Accounted, InHand, Linked
<1>4. NoDuplicates'
  BY <1>0 DEF IInv, FindHit, TypeOK, NoDuplicates, CallState, Accounted, InHand, Linked
<1>5. Accounted'
  BY <1>0 DEF IInv, FindHit, TypeOK, Accounted, InHand, Linked, CallState
<1>6. CallState'
  BY <1>0 DEF IInv, FindHit, TypeOK, CallState, FindState, ForwardChain, BackwardChain, Fresh, NoDuplicates, Accounted, InHand, Linked, Pointer
<1> QED  BY <1>1, <1>2, <1>3, <1>4, <1>5, <1>6 DEF IInv

LEMMA BeheadIInv ==
    ASSUME IInv, Behead
    PROVE  IInv'
<1> USE NullAssumption
<1>0. /\ Len(order) \in Nat /\ DOMAIN order = 1..Len(order)
      /\ \A i \in DOMAIN order : order[i] \in Cell
      /\ order = << >> <=> Len(order) = 0
  BY OrderFacts DEF IInv
<1> DEFINE L == Len(order)
<1>a. L > 0 /\ out = order[1] /\ pc = "behead"
  BY <1>0 DEF IInv, CallState, Behead
<1>b. /\ order' \in Seq(Cell)
      /\ Len(order') = L - 1
      /\ DOMAIN order' = 1..(L - 1)
      /\ \A i \in 1..(L - 1) : order'[i] = order[i + 1]
  <2>1. order \in Seq(Cell) /\ 1 \in DOMAIN order
    BY <1>0, <1>a DEF IInv, TypeOK
  <2>2. order' = RemoveAt(order, 1)
    BY DEF Behead
  <2>3. /\ order' \in Seq(Cell)
        /\ Len(order') = L - 1
        /\ \A i \in 1..(L - 1) : order'[i] = IF i < 1 THEN order[i] ELSE order[i + 1]
    BY <2>1, <2>2, RemoveAtFacts, Zenon
  <2> QED  BY <1>0, <2>3, LenProperties
<1> HIDE DEF L
<1>c. L \in Nat /\ DOMAIN order = 1..L /\ (order' = << >> <=> L = 1)
  BY <1>0, <1>a, <1>b DEF L
<1>d. head' = IF L = 1 THEN NULL ELSE order[2]
  BY <1>0, <1>a, <1>c DEF IInv, ForwardChain, Fresh, Behead, L
<1>1. TypeOK'
  BY <1>0, <1>a, <1>b, <1>c, <1>d DEF IInv, Behead, TypeOK, Pointer, Label
<1>2. ForwardChain'
  <2>1. \A i \in 1..L : next[order[i]] = IF i = L THEN NULL ELSE order[i + 1]
    <3>1. Fresh = 0
      BY <1>a DEF Fresh
    <3>2. \A i \in DOMAIN order : i # Fresh
      BY <1>c, <3>1
    <3> QED  BY <1>0, <3>2 DEF IInv, ForwardChain, L
  <2> QED  BY <1>a, <1>b, <1>c, <1>d, <2>1 DEF Behead, ForwardChain, Fresh
<1>3. BackwardChain'
  <2>1. \A i \in 2..L : prev[order[i]] = order[i - 1]
    BY <1>a, <1>c DEF IInv, BackwardChain
  <2> QED  BY <1>a, <1>b, <1>c, <2>1 DEF Behead, BackwardChain
<1>4. NoDuplicates'
  BY <1>b, <1>c DEF IInv, Behead, NoDuplicates
<1>5. Accounted'
  <2>1. Linked = Linked' \cup {out}
    <3>1. ASSUME NEW i \in 2..L PROVE order[i] \in Linked'
      <4>1. i - 1 \in 1..(L - 1) /\ order'[i - 1] = order[(i - 1) + 1]
        BY <1>b, <1>c
      <4>2. (i - 1) + 1 = i
        BY <1>c
      <4> QED  BY <1>b, <4>1, <4>2 DEF Linked
    <3>2. ASSUME NEW i \in 1..(L - 1) PROVE order'[i] \in Linked
      <4>1. i + 1 \in DOMAIN order /\ order'[i] = order[i + 1]
        BY <1>b, <1>c
      <4> QED  BY <4>1 DEF Linked
    <3>3. \A x \in Linked : x \in Linked' \cup {out}
      <4>1. \A i \in 1..L : i = 1 \/ i \in 2..L
        BY <1>c
      <4> QED  BY <1>a, <1>c, <3>1, <4>1 DEF Linked
    <3>4. \A x \in Linked' : x \in Linked
      BY <1>b, <3>2 DEF Linked
    <3>5. out \in Linked
      BY <1>a, <1>c DEF Linked
    <3> QED  BY <3>3, <3>4, <3>5
  <2>2. out \notin Linked'
    BY <1>a, <1>b, <1>c DEF IInv, NoDuplicates, Linked
  <2>3. InHand = {} /\ InHand' = {out}
    BY DEF InHand, Behead
  <2> QED  BY <1>b, <1>c, <2>1, <2>2, <2>3 DEF IInv, Accounted, Behead, L
<1>6. CallState'
  BY <1>0 DEF IInv, Behead, TypeOK, CallState, FindState, ForwardChain, BackwardChain, Fresh, NoDuplicates, Accounted, InHand, Linked, Pointer
<1> QED  BY <1>1, <1>2, <1>3, <1>4, <1>5, <1>6 DEF IInv

LEMMA SeekWalkIInv ==
    ASSUME IInv, SeekWalk
    PROVE  IInv'
<1> USE NullAssumption
<1>0. /\ Len(order) \in Nat /\ DOMAIN order = 1..Len(order)
      /\ \A i \in DOMAIN order : order[i] \in Cell
      /\ order = << >> <=> Len(order) = 0
  BY OrderFacts DEF IInv
<1>1. TypeOK'
  BY <1>0 DEF IInv, SeekWalk, TypeOK, CallState, FindState, Pointer, Label, Accounted, InHand, ForwardChain
<1>2. ForwardChain'
  BY <1>0 DEF IInv, SeekWalk, TypeOK, ForwardChain, Fresh, NoDuplicates, CallState, Accounted, InHand, Linked
<1>3. BackwardChain'
  BY <1>0 DEF IInv, SeekWalk, TypeOK, BackwardChain, ForwardChain, NoDuplicates, CallState, Accounted, InHand, Linked
<1>4. NoDuplicates'
  BY <1>0 DEF IInv, SeekWalk, TypeOK, NoDuplicates, CallState, Accounted, InHand, Linked
<1>5. Accounted'
  BY <1>0 DEF IInv, SeekWalk, TypeOK, Accounted, InHand, Linked, CallState
<1>6. CallState'
  <2>1. PICK j \in DOMAIN order : \E k \in 1..j :
            j > 1 /\ out = order[j] /\ scan = order[k]
    BY DEF IInv, CallState, SeekWalk
  <2>3. PICK k \in 1..j : j > 1 /\ out = order[j] /\ scan = order[k]
    BY <2>1
  <2>2. k + 1 \in 1..j /\ next[scan] = order[k + 1]
    BY <1>0, <2>3 DEF IInv, SeekWalk, ForwardChain, Fresh
  <2> QED  BY <2>3, <2>2 DEF IInv, CallState, SeekWalk
<1> QED  BY <1>1, <1>2, <1>3, <1>4, <1>5, <1>6 DEF IInv

LEMMA SeekHitIInv ==
    ASSUME IInv, SeekHit
    PROVE  IInv'
<1> USE NullAssumption
<1>0. /\ Len(order) \in Nat /\ DOMAIN order = 1..Len(order)
      /\ \A i \in DOMAIN order : order[i] \in Cell
      /\ order = << >> <=> Len(order) = 0
  BY OrderFacts DEF IInv
<1>1. TypeOK'
  BY <1>0 DEF IInv, SeekHit, TypeOK, CallState, FindState, Pointer, Label, Accounted, InHand, ForwardChain
<1>2. ForwardChain'
  BY <1>0 DEF IInv, SeekHit, TypeOK, ForwardChain, Fresh, NoDuplicates, CallState, Accounted, InHand, Linked
<1>3. BackwardChain'
  BY <1>0 DEF IInv, SeekHit, TypeOK, BackwardChain, ForwardChain, NoDuplicates, CallState, Accounted, InHand, Linked
<1>4. NoDuplicates'
  BY <1>0 DEF IInv, SeekHit, TypeOK, NoDuplicates, CallState, Accounted, InHand, Linked
<1>5. Accounted'
  BY <1>0 DEF IInv, SeekHit, TypeOK, Accounted, InHand, Linked, CallState
<1>6. CallState'
  BY <1>0 DEF IInv, SeekHit, TypeOK, CallState, FindState, ForwardChain, BackwardChain, Fresh, NoDuplicates, Accounted, InHand, Linked, Pointer
<1> QED  BY <1>1, <1>2, <1>3, <1>4, <1>5, <1>6 DEF IInv

LEMMA BypassIInv ==
    ASSUME IInv, Bypass
    PROVE  IInv'
<1> USE NullAssumption
<1>0. /\ Len(order) \in Nat /\ DOMAIN order = 1..Len(order)
      /\ \A i \in DOMAIN order : order[i] \in Cell
      /\ order = << >> <=> Len(order) = 0
  BY OrderFacts DEF IInv
<1>1. TypeOK'
  BY <1>0 DEF IInv, Bypass, TypeOK, CallState, FindState, Pointer, Label, Accounted, InHand, ForwardChain
<1>2. ForwardChain'
  BY <1>0 DEF IInv, Bypass, TypeOK, ForwardChain, Fresh, NoDuplicates, CallState, Accounted, InHand, Linked
<1>3. BackwardChain'
  <2>1. PICK j \in DOMAIN order : j > 1 /\ out = order[j]
    BY DEF IInv, CallState, Bypass
  <2>2. next[out] = IF j = Len(order) THEN NULL ELSE order[j + 1]
    BY <1>0, <2>1 DEF IInv, ForwardChain, Fresh, Bypass
  <2>3. SUFFICES ASSUME NEW i \in DOMAIN order, i > 1
                 PROVE  IF order[i - 1] = out THEN prev'[order[i]] = prev'[out]
                                              ELSE prev'[order[i]] = order[i - 1]
    BY DEF BackwardChain, Bypass
  <2>4. prev[order[i]] = order[i - 1]
    BY <2>3 DEF IInv, BackwardChain, Bypass
  <2>5. CASE i = j + 1
    <3>1. order[i - 1] = out /\ order[i] # out /\ next[out] = order[i] /\ order[i] \in Cell
      BY <1>0, <2>1, <2>2, <2>3, <2>5 DEF IInv, NoDuplicates
    <3>2. prev' = [prev EXCEPT ![order[i]] = prev[out]]
      BY <3>1 DEF Bypass
    <3> QED  BY <1>0, <2>1, <3>1, <3>2 DEF IInv, TypeOK
  <2>6. CASE i # j + 1
    <3>1. order[i - 1] # out
      BY <1>0, <2>1, <2>3, <2>6 DEF IInv, NoDuplicates
    <3>2. next[out] # order[i]
      BY <1>0, <2>1, <2>2, <2>3, <2>6 DEF IInv, NoDuplicates
    <3>3. prev'[order[i]] = prev[order[i]]
      BY <1>0, <3>2 DEF Bypass, IInv, TypeOK
    <3> QED  BY <2>4, <3>1, <3>3
  <2> QED  BY <2>5, <2>6
<1>4. NoDuplicates'
  BY <1>0 DEF IInv, Bypass, TypeOK, NoDuplicates, CallState, Accounted, InHand, Linked
<1>5. Accounted'
  BY <1>0 DEF IInv, Bypass, TypeOK, Accounted, InHand, Linked, CallState
<1>6. CallState'
  BY <1>0 DEF IInv, Bypass, TypeOK, CallState, FindState, ForwardChain, BackwardChain, Fresh, NoDuplicates, Accounted, InHand, Linked, Pointer
<1> QED  BY <1>1, <1>2, <1>3, <1>4, <1>5, <1>6 DEF IInv

LEMMA UnlinkIInv ==
    ASSUME IInv, Unlink
    PROVE  IInv'
<1> USE NullAssumption
<1>0. /\ Len(order) \in Nat /\ DOMAIN order = 1..Len(order)
      /\ \A i \in DOMAIN order : order[i] \in Cell
      /\ order = << >> <=> Len(order) = 0
  BY OrderFacts DEF IInv
<1> DEFINE L == Len(order)
<1>a. PICK j \in DOMAIN order : j > 1 /\ out = order[j]
  BY DEF IInv, CallState, Unlink
<1>b. order' = RemoveAt(order, j)
  BY <1>a DEF IInv, NoDuplicates, Unlink
<1>c. /\ order' \in Seq(Cell)
      /\ Len(order') = L - 1
      /\ DOMAIN order' = 1..(L - 1)
      /\ \A i \in 1..(L - 1) : order'[i] = IF i < j THEN order[i] ELSE order[i + 1]
  <2>1. order \in Seq(Cell)
    BY DEF IInv, TypeOK
  <2>2. /\ order' \in Seq(Cell)
        /\ Len(order') = L - 1
        /\ \A i \in 1..(L - 1) : order'[i] = IF i < j THEN order[i] ELSE order[i + 1]
    BY <1>b, <2>1, RemoveAtFacts, Zenon
  <2> QED  BY <1>0, <2>2, LenProperties
<1> HIDE DEF L
<1>d. L \in Nat /\ DOMAIN order = 1..L /\ L > 1 /\ order' # << >> /\ j \in 2..L
  BY <1>0, <1>a, <1>c DEF L
<1>e. \A i, k \in 1..L : i # k => order[i] # order[k]
  BY <1>d DEF IInv, NoDuplicates
<1>f. \A i \in 1..L : next[order[i]] = IF i = L THEN NULL ELSE order[i + 1]
  BY <1>d DEF IInv, ForwardChain, Fresh, Unlink, L
<1>g. /\ prev[out] = order[j - 1]
      /\ \A i \in 2..L : i # j + 1 => prev[order[i]] = order[i - 1]
      /\ j < L => prev[order[j + 1]] = order[j - 1]
  <2>1. order[j - 1] # out
    BY <1>a, <1>d, <1>e
  <2>2. prev[out] = order[j - 1]
    BY <1>a, <1>d, <2>1 DEF IInv, BackwardChain, Unlink
  <2>3. \A i \in 2..L : i # j + 1 => order[i - 1] # out
    BY <1>a, <1>d, <1>e
  <2>4. j < L => j + 1 \in DOMAIN order /\ order[(j + 1) - 1] = out
    <3>1. (j + 1) - 1 = j
      BY <1>d
    <3> QED  BY <1>a, <1>d, <3>1
  <2>5. ASSUME NEW i \in 2..L
        PROVE  IF order[i - 1] = out THEN prev[order[i]] = prev[out]
                                     ELSE prev[order[i]] = order[i - 1]
    <3>1. i \in DOMAIN order /\ i > 1 /\ pc = "unlink"
      BY <1>d DEF Unlink
    <3> QED  BY <3>1 DEF IInv, BackwardChain
  <2>6. ASSUME NEW i \in 2..L, i # j + 1 PROVE prev[order[i]] = order[i - 1]
    BY <2>3, <2>5, <2>6
  <2>7. ASSUME j < L PROVE prev[order[j + 1]] = order[j - 1]
    <3>1. j + 1 \in 2..L
      BY <1>d, <2>7
    <3> QED  BY <2>2, <2>4, <2>5, <2>7, <3>1
  <2> QED  BY <2>2, <2>6, <2>7
<1>h. /\ order[j - 1] \in Cell
      /\ next' = [next EXCEPT ![order[j - 1]] = IF j = L THEN NULL ELSE order[j + 1]]
  <2>1. order[j - 1] \in Cell
    BY <1>0, <1>d
  <2>2. prev[out] = order[j - 1] /\ next[out] = IF j = L THEN NULL ELSE order[j + 1]
    BY <1>a, <1>d, <1>f, <1>g
  <2> QED  BY <2>1, <2>2 DEF Unlink
<1>1. TypeOK'
  BY <1>0, <1>c, <1>d, <1>h DEF IInv, Unlink, TypeOK, Pointer, Label
<1>2. ForwardChain'
  <2>1. head' = order'[1]
    BY <1>c, <1>d DEF IInv, ForwardChain, Unlink, L
  <2>2. ASSUME NEW i \in 1..(L - 1)
        PROVE  next'[order'[i]] = IF i = L - 1 THEN NULL ELSE order'[i + 1]
    <3>1. CASE i < j - 1
      BY <1>0, <1>c, <1>d, <1>e, <1>f, <1>h, <3>1 DEF IInv, TypeOK
    <3>2. CASE i = j - 1
      BY <1>0, <1>c, <1>d, <1>h, <3>2 DEF IInv, TypeOK
    <3>3. CASE i > j - 1
      <4>1. order'[i] = order[i + 1] /\ i + 1 \in 1..L /\ order[i + 1] # order[j - 1]
        BY <1>c, <1>d, <1>e, <3>3
      <4>2. next'[order[i + 1]] = next[order[i + 1]]
        BY <1>0, <1>d, <1>h, <4>1 DEF IInv, TypeOK
      <4>3. i # L - 1 => order'[i + 1] = order[(i + 1) + 1]
        BY <1>c, <1>d, <3>3
      <4> QED  BY <1>d, <1>f, <4>1, <4>2, <4>3
    <3> QED  BY <1>d, <3>1, <3>2, <3>3
  <2> QED  BY <1>c, <1>d, <2>1, <2>2 DEF ForwardChain, Fresh, Unlink
<1>3. BackwardChain'
  <2>1. SUFFICES ASSUME NEW i \in 2..(L - 1)
                 PROVE  prev[order'[i]] = order'[i - 1]
    BY <1>c, <1>d DEF BackwardChain, Unlink
  <2>2. CASE i < j
    BY <1>c, <1>d, <1>g, <2>2
  <2>3. CASE i = j
    BY <1>c, <1>d, <1>g, <2>3
  <2>4. CASE i > j
    <3>1. order'[i] = order[i + 1] /\ order'[i - 1] = order[(i - 1) + 1]
      BY <1>c, <1>d, <2>4
    <3>2. prev[order[i + 1]] = order[(i + 1) - 1]
      BY <1>d, <1>g, <2>4
    <3> QED  BY <3>1, <3>2
  <2> QED  BY <1>d, <2>2, <2>3, <2>4
<1>4. NoDuplicates'
  BY <1>c, <1>d DEF IInv, Unlink, NoDuplicates
<1>5. Accounted'
  <2>1. Linked = Linked' \cup {out}
    <3>1. ASSUME NEW i \in 1..L PROVE order[i] \in Linked' \cup {out}
      <4>1. CASE i < j
        BY <1>c, <1>d, <4>1 DEF Linked
      <4>2. CASE i = j
        BY <1>a, <4>2
      <4>3. CASE i > j
        <5>1. i - 1 \in 1..(L - 1) /\ order'[i - 1] = order[(i - 1) + 1]
          BY <1>c, <1>d, <4>3
        <5> QED  BY <1>c, <5>1 DEF Linked
      <4> QED  BY <1>d, <4>1, <4>2, <4>3
    <3>2. \A i \in 1..(L - 1) : order'[i] \in Linked
      BY <1>c, <1>d DEF Linked
    <3> QED  BY <1>a, <1>c, <1>d, <3>1, <3>2 DEF Linked
  <2>2. out \notin Linked'
    BY <1>a, <1>c, <1>d, <1>e DEF Linked
  <2>3. InHand = {} /\ InHand' = {out}
    BY DEF InHand, Unlink
  <2> QED  BY <1>c, <1>d, <2>1, <2>2, <2>3 DEF IInv, Accounted, Unlink, L
<1>6. CallState'
  BY <1>0 DEF IInv, Unlink, TypeOK, CallState, FindState, ForwardChain, BackwardChain, Fresh, NoDuplicates, Accounted, InHand, Linked, Pointer
<1> QED  BY <1>1, <1>2, <1>3, <1>4, <1>5, <1>6 DEF IInv

LEMMA FreeIInv ==
    ASSUME IInv, Free
    PROVE  IInv'
<1> USE NullAssumption
<1>0. /\ Len(order) \in Nat /\ DOMAIN order = 1..Len(order)
      /\ \A i \in DOMAIN order : order[i] \in Cell
      /\ order = << >> <=> Len(order) = 0
  BY OrderFacts DEF IInv
<1>a. InHand = {out} /\ InHand' = {} /\ Linked' = Linked
  BY DEF InHand, Free, Linked
<1>b. live' = Linked /\ nodes' = Len(order)
  <2>1. live = Linked \cup {out} /\ out \notin Linked
    BY <1>a DEF IInv, Accounted
  <2>2. nodes = Len(order) + 1
    BY <1>a DEF IInv, Accounted
  <2> QED  BY <1>0, <2>1, <2>2 DEF Free
<1>1. TypeOK'
  BY <1>0, <1>b DEF IInv, Free, TypeOK, Label
<1>2. ForwardChain'
  BY <1>0 DEF IInv, Free, TypeOK, ForwardChain, Fresh, NoDuplicates, CallState, Accounted, InHand, Linked
<1>3. BackwardChain'
  BY <1>0 DEF IInv, Free, TypeOK, BackwardChain, ForwardChain, NoDuplicates, CallState, Accounted, InHand, Linked
<1>4. NoDuplicates'
  BY <1>0 DEF IInv, Free, TypeOK, NoDuplicates, CallState, Accounted, InHand, Linked
<1>5. Accounted'
  BY <1>a, <1>b DEF Accounted, Free
<1>6. CallState'
  BY <1>0 DEF IInv, Free, TypeOK, CallState, FindState, ForwardChain, BackwardChain, Fresh, NoDuplicates, Accounted, InHand, Linked, Pointer
<1> QED  BY <1>1, <1>2, <1>3, <1>4, <1>5, <1>6 DEF IInv

-----------------------------------------------------------------------------

LEMMA StepIInv == IInv /\ [Next]_vars => IInv'
<1> SUFFICES ASSUME IInv, [Next]_vars PROVE IInv'
  OBVIOUS
<1>1. ASSUME NEW c \in Cell, NEW d \in Data, AddAlloc(c, d) PROVE IInv'
  BY <1>1, AddAllocIInv
<1>2. ASSUME NEW d \in Data, RemoveStart(d) PROVE IInv'
  BY <1>2, RemoveStartIInv
<1>3. CASE AddStep
  BY <1>3, AddFirstIInv, AddWalkIInv, AddLinkIInv, AddClearIInv, AddBackIInv DEF AddStep
<1>4. CASE RemoveStep
  BY <1>4, FindWalkIInv, FindNoneIInv, FindHitIInv, BeheadIInv, SeekWalkIInv,
     SeekHitIInv, BypassIInv, UnlinkIInv, FreeIInv DEF RemoveStep
<1>5. CASE UNCHANGED vars
  <2>1. TypeOK'
    BY <1>5 DEF vars, IInv, TypeOK
  <2>2. ForwardChain' /\ BackwardChain' /\ NoDuplicates'
    BY <1>5 DEF vars, IInv, ForwardChain, BackwardChain, NoDuplicates, Fresh
  <2>3. Accounted'
    BY <1>5 DEF vars, IInv, Accounted, Linked, InHand
  <2>4. CallState'
    BY <1>5 DEF vars, IInv, CallState, FindState
  <2> QED  BY <2>1, <2>2, <2>3, <2>4 DEF IInv
<1> QED  BY <1>1, <1>2, <1>3, <1>4, <1>5 DEF Next, Call

LEMMA Invariant == Spec => []IInv
BY InitIInv, StepIInv, PTL DEF Spec

\* The variables keep their types; nodes, an unsigned int in the code, never
\* goes below zero.
THEOREM ListTypeOK == Spec => []TypeOK
<1>1. IInv => TypeOK
  BY DEF IInv
<1> QED  BY <1>1, Invariant, PTL

\* Following next from l->head visits the linked cells in the order of the
\* list_add calls, whatever calls were made and however they interleaved.
THEOREM ListForwardChain == Spec => []ForwardChain
<1>1. IInv => ForwardChain
  BY DEF IInv
<1> QED  BY <1>1, Invariant, PTL

\* prev is right for every cell but the head, whose prev list_remove leaves stale.
THEOREM ListBackwardChain == Spec => []BackwardChain
<1>1. IInv => BackwardChain
  BY DEF IInv
<1> QED  BY <1>1, Invariant, PTL

\* list_remove frees exactly the node it unlinked, and nodes counts the rest.
THEOREM ListAccounted == Spec => []Accounted
<1>1. IInv => Accounted
  BY DEF IInv
<1> QED  BY <1>1, Invariant, PTL

\* No loop or store of list.c goes through a pointer to freed memory: the stale
\* prev of the head is never read.
THEOREM ListNoDangling == Spec => []NoDangling
<1>1. IInv => NoDangling
  <2> SUFFICES ASSUME IInv PROVE NoDangling
    OBVIOUS
  <2>1. /\ Len(order) \in Nat /\ DOMAIN order = 1..Len(order)
        /\ \A i \in DOMAIN order : order[i] \in Cell
        /\ order = << >> <=> Len(order) = 0
    BY OrderFacts DEF IInv
  <2>2. \A i \in DOMAIN order : order[i] \in live
    BY DEF IInv, Accounted, Linked
  <2>3. pc \in {"walk", "seek"} => scan \in live
    BY <2>1, <2>2 DEF IInv, CallState
  <2>4. pc = "find" => scan \in live \cup {NULL}
    BY <2>2 DEF IInv, CallState, FindState
  <2>5. pc \in {"clear", "back"} => n \in live
    BY <2>1, <2>2 DEF IInv, CallState
  <2>6. pc \in {"behead", "bypass", "unlink"} => out \in live
    BY <2>1, <2>2 DEF IInv, CallState
  <2>7. pc = "free" => out \in live
    BY DEF IInv, Accounted, InHand
  <2>8. ASSUME pc \in {"bypass", "unlink"}
        PROVE  prev[out] \in live /\ next[out] \in live \cup {NULL}
    <3>1. PICK j \in DOMAIN order : j > 1 /\ out = order[j]
      BY <2>8 DEF IInv, CallState
    <3>2. order[j - 1] # out
      BY <2>1, <3>1 DEF IInv, NoDuplicates
    <3>3. prev[out] = order[j - 1]
      BY <2>8, <3>1, <3>2 DEF IInv, BackwardChain
    <3>4. next[out] = IF j = Len(order) THEN NULL ELSE order[j + 1]
      BY <2>1, <2>8, <3>1 DEF IInv, ForwardChain, Fresh
    <3> QED  BY <2>1, <2>2, <3>1, <3>3, <3>4
  <2> QED  BY <2>3, <2>4, <2>5, <2>6, <2>7, <2>8 DEF NoDangling
<1> QED  BY <1>1, Invariant, PTL

-----------------------------------------------------------------------------
(* Refinement *)

\* The data of a sequence of cells are a sequence of data of the same length.
LEMMA MapFacts ==
    ASSUME NEW o \in Seq(Cell), NEW f \in [Cell -> Data]
    PROVE  LET m == [i \in DOMAIN o |-> f[o[i]]] IN
           /\ m \in Seq(Data)
           /\ Len(m) = Len(o)
           /\ DOMAIN m = DOMAIN o
           /\ \A i \in DOMAIN o : m[i] = f[o[i]]
<1> DEFINE m == [i \in DOMAIN o |-> f[o[i]]]
<1>1. /\ Len(o) \in Nat /\ DOMAIN o = 1..Len(o)
      /\ \A i \in DOMAIN o : o[i] \in Cell
  BY LenProperties
<1>2. \A i \in 1..Len(o) : f[o[i]] \in Data
  BY <1>1
<1>3. m = [i \in 1..Len(o) |-> f[o[i]]]
  BY <1>1
<1> QED  BY <1>1, <1>2, <1>3

\* The abstract contents of the list, before and after a step.
LEMMA ContentsFacts ==
    ASSUME IInv, IInv'
    PROVE  /\ /\ Contents \in Seq(Data)
              /\ Len(Contents) = Len(order)
              /\ DOMAIN Contents = DOMAIN order
              /\ \A i \in DOMAIN order : Contents[i] = data[order[i]]
           /\ /\ Contents' \in Seq(Data)
              /\ Len(Contents') = Len(order')
              /\ \A i \in DOMAIN order' : Contents'[i] = data'[order'[i]]
<1>1. order \in Seq(Cell) /\ data \in [Cell -> Data]
  BY DEF IInv, TypeOK
<1>2. order' \in Seq(Cell) /\ data' \in [Cell -> Data]
  BY DEF IInv, TypeOK
<1>3. /\ Contents = [i \in DOMAIN order |-> data[order[i]]]
      /\ Contents' = [i \in DOMAIN order' |-> data'[order'[i]]]
  BY DEF Contents
<1> QED  BY <1>1, <1>2, <1>3, MapFacts

LEMMA SequencesAgree ==
    ASSUME NEW s \in Seq(Data), NEW t \in Seq(Data), Len(s) = Len(t),
           \A i \in 1..Len(s) : s[i] = t[i]
    PROVE  s = t
BY SeqEqual

LEMMA ContentsSame ==
    ASSUME UNCHANGED <<data, order>>
    PROVE  Contents' = Contents
BY DEF Contents

\* A newly linked cell is a newly added datum ...
LEMMA ContentsAppend ==
    ASSUME IInv, IInv', data' = data, n \in Cell, order' = Append(order, n)
    PROVE  Contents' = Append(Contents, data[n])
<1> DEFINE t == Append(Contents, data[n])
<1>1. /\ Contents \in Seq(Data) /\ Len(Contents) = Len(order)
      /\ \A i \in DOMAIN order : Contents[i] = data[order[i]]
  BY ContentsFacts
<1>2. /\ Contents' \in Seq(Data) /\ Len(Contents') = Len(order')
      /\ \A i \in DOMAIN order' : Contents'[i] = data[order'[i]]
  BY ContentsFacts
<1>3. order \in Seq(Cell) /\ data[n] \in Data
  BY DEF IInv, TypeOK
<1>4. /\ Len(order') = Len(order) + 1
      /\ DOMAIN order' = 1..(Len(order) + 1)
      /\ \A i \in 1..(Len(order) + 1) :
           order'[i] = IF i = Len(order) + 1 THEN n ELSE order[i]
  BY <1>3
<1>5. /\ t \in Seq(Data) /\ Len(t) = Len(order) + 1
      /\ \A i \in 1..(Len(order) + 1) :
           t[i] = IF i = Len(order) + 1 THEN data[n] ELSE Contents[i]
  BY <1>1, <1>3
<1>6. Len(order) \in Nat /\ DOMAIN order = 1..Len(order)
  BY <1>3, LenProperties
<1> HIDE DEF t
<1>7. \A i \in 1..Len(t) : Contents'[i] = t[i]
  BY <1>1, <1>2, <1>4, <1>5, <1>6
<1>8. Contents' = t
  BY <1>2, <1>4, <1>5, <1>7, SequencesAgree
<1> QED  BY <1>8 DEF t

\* ... and a cell unlinked is a datum removed.
LEMMA ContentsRemove ==
    ASSUME IInv, IInv', data' = data, NEW j \in DOMAIN order,
           order' = RemoveAt(order, j)
    PROVE  Contents' = RemoveAt(Contents, j)
<1> DEFINE t == RemoveAt(Contents, j)
<1>1. /\ Contents \in Seq(Data) /\ Len(Contents) = Len(order)
      /\ DOMAIN Contents = DOMAIN order
      /\ \A i \in DOMAIN order : Contents[i] = data[order[i]]
  BY ContentsFacts
<1>2. /\ Contents' \in Seq(Data) /\ Len(Contents') = Len(order')
      /\ \A i \in DOMAIN order' : Contents'[i] = data[order'[i]]
  BY ContentsFacts
<1>3. order \in Seq(Cell) /\ order' \in Seq(Cell)
  BY DEF IInv, TypeOK
<1>4. /\ Len(order') = Len(order) - 1
      /\ \A i \in 1..(Len(order) - 1) :
           order'[i] = IF i < j THEN order[i] ELSE order[i + 1]
  BY <1>3, RemoveAtFacts
<1>5. /\ t \in Seq(Data) /\ Len(t) = Len(order) - 1
      /\ \A i \in 1..(Len(order) - 1) :
           t[i] = IF i < j THEN Contents[i] ELSE Contents[i + 1]
  <2>1. j \in DOMAIN Contents
    BY <1>1
  <2>2. /\ t \in Seq(Data) /\ Len(t) = Len(Contents) - 1
        /\ \A i \in 1..(Len(Contents) - 1) :
             t[i] = IF i < j THEN Contents[i] ELSE Contents[i + 1]
    BY <1>1, <2>1, RemoveAtFacts, Zenon
  <2> QED  BY <1>1, <2>2
<1>6. Len(order) \in Nat /\ DOMAIN order = 1..Len(order) /\ DOMAIN order' = 1..Len(order')
  BY <1>3, LenProperties
<1> HIDE DEF t
<1>7. ASSUME NEW i \in 1..Len(t) PROVE Contents'[i] = t[i]
  <2>1. /\ i \in DOMAIN order /\ i + 1 \in DOMAIN order /\ i \in DOMAIN order'
        /\ i \in 1..(Len(order) - 1)
    BY <1>4, <1>5, <1>6
  <2>2. Contents'[i] = data[IF i < j THEN order[i] ELSE order[i + 1]]
    BY <1>2, <1>4, <2>1
  <2>3. t[i] = IF i < j THEN data[order[i]] ELSE data[order[i + 1]]
    BY <1>1, <1>5, <2>1
  <2> QED  BY <2>2, <2>3
<1>8. Contents' = t
  BY <1>2, <1>4, <1>5, <1>7, SequencesAgree
<1> QED  BY <1>8 DEF t

\* Every step of the list is a step of the abstract list, or invisible to it.
LEMMA StepSimulation ==
    ASSUME IInv, IInv', [Next]_vars
    PROVE  [Abstract!ANext]_<<Contents, CallInProgress>>
<1> USE DEF CallInProgress
<1>a. ASSUME UNCHANGED <<data, order>>, CallInProgress' = CallInProgress
      PROVE  UNCHANGED <<Contents, CallInProgress>>
  BY <1>a, ContentsSame
<1>b. /\ arg \in Data
      /\ n \in Cell => data[n] \in Data
      /\ DOMAIN Contents = DOMAIN order
      /\ \A i \in DOMAIN order : Contents[i] = data[order[i]]
  BY ContentsFacts DEF IInv, TypeOK
<1>1. ASSUME NEW c \in Cell, NEW d \in Data, AddAlloc(c, d)
      PROVE  Abstract!ACallAdd(d)
  <2>1. Contents' = Contents
    <3>1. \A i \in DOMAIN order : order[i] \in live
      BY DEF IInv, Accounted, Linked
    <3>2. \A i \in DOMAIN order : data'[order[i]] = data[order[i]]
      BY <1>1, <3>1, OrderFacts DEF AddAlloc, IInv, TypeOK
    <3> QED  BY <1>1, <3>2 DEF AddAlloc, Contents
  <2>2. data'[n'] = d
    BY <1>1 DEF AddAlloc, IInv, TypeOK
  <2>3. ~Abstract!Holds(Contents, d)
    BY <1>1, <1>b DEF AddAlloc, Abstract!Holds
  <2> QED  BY <1>1, <2>1, <2>2, <2>3 DEF AddAlloc, Abstract!ACallAdd, Abstract!NoCall,
           Abstract!Calling
<1>2. CASE AddFirst
  <2>1. n \in Cell
    BY <1>2 DEF AddFirst, IInv, CallState
  <2>2. Contents' = Append(Contents, data[n])
    BY <1>2, <2>1, ContentsAppend DEF AddFirst
  <2>3. Abstract!AAdd(data[n])
    BY <1>2, <2>2 DEF AddFirst, Abstract!AAdd, Abstract!Calling
  <2> QED  BY <1>b, <2>1, <2>3 DEF Abstract!ANext
<1>3. CASE AddLink
  <2>1. n \in Cell
    BY <1>3 DEF AddLink, IInv, CallState
  <2>2. Contents' = Append(Contents, data[n])
    BY <1>3, <2>1, ContentsAppend DEF AddLink
  <2>3. Abstract!AAdd(data[n])
    BY <1>3, <2>2 DEF AddLink, Abstract!AAdd, Abstract!Calling
  <2> QED  BY <1>b, <2>1, <2>3 DEF Abstract!ANext
<1>4. CASE AddBack
  <2>1. n \in Cell
    BY <1>4, OrderFacts DEF AddBack, IInv, CallState
  <2>2. Contents' = Contents
    BY <1>4, ContentsSame DEF AddBack
  <2>3. Abstract!AReturn(data[n])
    BY <1>4, <2>2 DEF AddBack, Abstract!AReturn, Abstract!Calling, Abstract!NoCall
  <2> QED  BY <1>b, <2>1, <2>3 DEF Abstract!ANext
<1>5. CASE AddWalk \/ AddClear \/ FindWalk \/ FindHit \/ SeekWalk \/ SeekHit \/ Bypass
  <2>1. UNCHANGED <<data, order>> /\ CallInProgress' = CallInProgress
    BY <1>5 DEF AddWalk, AddClear, FindWalk, FindHit, SeekWalk, SeekHit, Bypass
  <2> QED  BY <1>a, <2>1
<1>6. ASSUME NEW d \in Data, RemoveStart(d)
      PROVE  Abstract!ACallRemove(d)
  <2>1. Contents' = Contents
    BY <1>6, ContentsSame DEF RemoveStart
  <2> QED  BY <1>6, <2>1 DEF RemoveStart, Abstract!ACallRemove, Abstract!NoCall,
           Abstract!Calling
<1>7. CASE FindNone
  <2>1. \A i \in DOMAIN order : data[order[i]] # arg
    BY <1>7, OrderFacts, NullAssumption DEF FindNone, IInv, CallState, FindState
  <2>2. ~Abstract!Holds(Contents, arg)
    BY <1>b, <2>1 DEF Abstract!Holds
  <2>3. Contents' = Contents
    BY <1>7, ContentsSame DEF FindNone
  <2>4. Abstract!AReturn(arg)
    BY <1>7, <2>2, <2>3 DEF FindNone, Abstract!AReturn, Abstract!Calling, Abstract!NoCall
  <2> QED  BY <1>b, <2>4 DEF Abstract!ANext
<1>8. CASE Behead \/ Unlink
  <2>1. PICK j \in DOMAIN order : order[j] = out /\ order' = RemoveAt(order, j)
    <3>1. CASE Behead
      <4>1. 1 \in DOMAIN order /\ order[1] = out
        BY <3>1, OrderFacts DEF Behead, IInv, CallState
      <4> QED  BY <3>1, <4>1 DEF Behead
    <3>2. CASE Unlink
      BY <3>2 DEF Unlink
    <3> QED  BY <1>8, <3>1, <3>2
  <2>2. data[out] = arg /\ data' = data
    BY <1>8 DEF Behead, Unlink, IInv, CallState
  <2>3. Contents' = RemoveAt(Contents, j)
    BY <2>1, <2>2, ContentsRemove
  <2>4. j \in DOMAIN Contents /\ Contents[j] = arg
    BY <1>b, <2>1, <2>2
  <2>5. Abstract!ARemove(arg)
    <3>1. /\ CallInProgress = Abstract!Calling("remove", arg, FALSE)
          /\ CallInProgress' = Abstract!Calling("remove", arg, TRUE)
      BY <1>8 DEF Behead, Unlink, Abstract!Calling
    <3> HIDE DEF CallInProgress
    <3>2. Contents' = Abstract!RemoveAt(Contents, j)
      BY <2>3 DEF RemoveAt, Abstract!RemoveAt
    <3> QED  BY <2>4, <3>1, <3>2 DEF Abstract!ARemove
  <2> QED  BY <1>b, <2>5 DEF Abstract!ANext
<1>9. CASE Free
  <2>1. Contents' = Contents
    BY <1>9, ContentsSame DEF Free
  <2>2. Abstract!AReturn(arg)
    BY <1>9, <2>1 DEF Free, Abstract!AReturn, Abstract!Calling, Abstract!NoCall
  <2> QED  BY <1>b, <2>2 DEF Abstract!ANext
<1>10. CASE UNCHANGED vars
  <2>1. UNCHANGED <<data, order>> /\ CallInProgress' = CallInProgress
    BY <1>10 DEF vars
  <2> QED  BY <1>a, <2>1
<1> HIDE DEF CallInProgress
<1> QED  BY <1>1, <1>2, <1>3, <1>4, <1>5, <1>6, <1>7, <1>8, <1>9, <1>10
         DEF Next, Call, AddStep, RemoveStep, Abstract!ANext

\* list.c implements the abstract list: every execution of list_add and
\* list_remove, pointer by pointer, is an execution of AbstractList.
THEOREM ListImplementsAbstractList == Spec => ImplementsAbstractList
<1>1. Init => Abstract!AInit
  BY DEF Init, Abstract!AInit, Abstract!NoCall, Contents, CallInProgress
<1>2. IInv /\ IInv' /\ [Next]_vars => [Abstract!ANext]_<<Contents, CallInProgress>>
  BY StepSimulation
<1> QED  BY <1>1, <1>2, Invariant, PTL DEF Spec, ImplementsAbstractList, Abstract!ASpec

-----------------------------------------------------------------------------
(* How long a call can run *)

\* Where a cell stands in a sequence of distinct cells.
PlaceOf(s, c) == CHOOSE k \in DOMAIN s : s[k] = c

\* The statements a call may still execute.  list_add walks from scan to the
\* last node; list_remove looks for the datum from scan on, and once it has
\* found it walks up to its node again, from the head.
StepsLeft ==
    CASE pc \in {"back", "free"}            -> 1
      [] pc \in {"clear", "behead", "unlink"} -> 2
      [] pc \in {"first", "bypass"}         -> 3
      [] pc = "walk" -> 3 + Len(order) - PlaceOf(order, scan)
      [] pc = "seek" -> 4 + Len(order) - PlaceOf(order, scan)
      [] pc = "find" -> IF scan = NULL THEN 1
                        ELSE 4 + 2 * Len(order) - PlaceOf(order, scan)
      [] OTHER -> 0

\* A linked cell has one place, because it is linked once.
LEMMA PlaceOfCell ==
    ASSUME IInv, NEW k \in DOMAIN order
    PROVE  PlaceOf(order, order[k]) = k
<1> DEFINE j == PlaceOf(order, order[k])
<1>1. j \in DOMAIN order /\ order[j] = order[k]
  BY DEF PlaceOf
<1> HIDE DEF j
<1>2. j = k
  BY <1>1 DEF IInv, NoDuplicates
<1> QED  BY <1>2 DEF j

\* The head, when there is one, stands first, and the cell after the k-th is
\* the k+1-st or NULL.
LEMMA NextPlace ==
    ASSUME IInv, pc \in {"walk", "find", "seek"}, NEW k \in DOMAIN order, scan = order[k]
    PROVE  /\ Len(order) \in Nat /\ k \in 1..Len(order)
           /\ PlaceOf(order, scan) = k
           /\ scan # NULL
           /\ IF k = Len(order) THEN next[scan] = NULL
              ELSE /\ k + 1 \in DOMAIN order
                   /\ next[scan] = order[k + 1]
                   /\ next[scan] # NULL
                   /\ PlaceOf(order, next[scan]) = k + 1
           /\ head = order[1] /\ head # NULL
           /\ PlaceOf(order, head) = 1
<1>1. /\ Len(order) \in Nat /\ DOMAIN order = 1..Len(order)
      /\ \A i \in DOMAIN order : order[i] \in Cell
      /\ order = << >> <=> Len(order) = 0
  BY OrderFacts DEF IInv
<1>2. PlaceOf(order, scan) = k
  BY PlaceOfCell
<1>3. scan # NULL
  BY <1>1, NullAssumption
<1>4. next[scan] = IF k = Len(order) THEN NULL ELSE order[k + 1]
  <2>1. Fresh = 0
    BY DEF Fresh
  <2>2. k # Fresh
    BY <1>1, <2>1
  <2> QED  BY <2>2 DEF IInv, ForwardChain
<1>5. ASSUME k # Len(order)
      PROVE  k + 1 \in DOMAIN order /\ PlaceOf(order, order[k + 1]) = k + 1
  <2>1. k + 1 \in DOMAIN order
    BY <1>1, <1>5
  <2> QED  BY <2>1, PlaceOfCell
<1>6. 1 \in DOMAIN order /\ head = order[1]
  BY <1>1 DEF IInv, ForwardChain
<1>7. PlaceOf(order, head) = 1
  BY <1>6, PlaceOfCell
<1> QED  BY <1>1, <1>2, <1>3, <1>4, <1>5, <1>6, <1>7, NullAssumption

LEMMA WalkingShrinks ==
    ASSUME IInv, AddWalk \/ SeekWalk
    PROVE  StepsLeft \in Nat /\ StepsLeft' \in Nat /\ StepsLeft' < StepsLeft
<1>1. CASE AddWalk
  <2>1. PICK k \in DOMAIN order : scan = order[k]
    BY <1>1 DEF AddWalk, IInv, CallState
  <2>2. pc = "walk" /\ pc' = "walk" /\ order' = order /\ scan' = next[scan]
        /\ next[scan] # NULL
    BY <1>1 DEF AddWalk
  <2>3. /\ Len(order) \in Nat /\ k \in 1..Len(order) /\ k # Len(order)
        /\ PlaceOf(order, scan) = k /\ PlaceOf(order, next[scan]) = k + 1
    BY <2>1, <2>2, NextPlace
  <2>4. StepsLeft = 3 + Len(order) - k /\ StepsLeft' = 3 + Len(order) - (k + 1)
    BY <2>2, <2>3 DEF StepsLeft
  <2> QED  BY <2>3, <2>4
<1>2. CASE SeekWalk
  <2>1. PICK j \in DOMAIN order : \E k \in 1..j :
                   j > 1 /\ out = order[j] /\ scan = order[k]
    BY <1>2 DEF SeekWalk, IInv, CallState
  <2>2. PICK k \in 1..j : out = order[j] /\ scan = order[k]
    BY <2>1
  <2>3. pc = "seek" /\ pc' = "seek" /\ order' = order /\ scan' = next[scan] /\ scan # out
    BY <1>2 DEF SeekWalk
  <2>4. Len(order) \in Nat /\ DOMAIN order = 1..Len(order)
    BY OrderFacts DEF IInv
  <2>5. j \in 1..Len(order) /\ k <= j /\ k \in 1..Len(order) /\ k # j
    BY <2>1, <2>2, <2>3, <2>4
  <2>6. k \in DOMAIN order /\ k # Len(order)
    <3>1. \A l \in Nat : j \in 1..l /\ k <= j /\ k \in 1..l /\ k # j => k # l
      OBVIOUS
    <3> QED  BY <2>4, <2>5, <3>1
  <2>7. PlaceOf(order, scan) = k /\ PlaceOf(order, next[scan]) = k + 1
    BY <2>2, <2>3, <2>6, NextPlace
  <2>8. StepsLeft = 4 + Len(order) - k /\ StepsLeft' = 4 + Len(order) - (k + 1)
    BY <2>3, <2>7 DEF StepsLeft
  <2> QED  BY <2>4, <2>5, <2>8
<1> QED  BY <1>1, <1>2

LEMMA FindingShrinks ==
    ASSUME IInv, FindWalk \/ FindNone \/ FindHit
    PROVE  StepsLeft \in Nat /\ StepsLeft' \in Nat /\ StepsLeft' < StepsLeft
<1>0. pc = "find"
  BY DEF FindWalk, FindNone, FindHit
<1>1. CASE FindNone
  <2>1. StepsLeft = 1 /\ StepsLeft' = 0
    BY <1>1 DEF FindNone, StepsLeft
  <2> QED  BY <2>1
<1>2. CASE FindWalk \/ FindHit
  <2>1. scan # NULL
    BY <1>2 DEF FindWalk, FindHit
  <2>2. PICK k \in DOMAIN order : scan = order[k]
    BY <1>0, <2>1 DEF IInv, CallState, FindState
  <2>3. /\ Len(order) \in Nat /\ k \in 1..Len(order)
        /\ PlaceOf(order, scan) = k
        /\ IF k = Len(order) THEN next[scan] = NULL
           ELSE next[scan] # NULL /\ PlaceOf(order, next[scan]) = k + 1
        /\ PlaceOf(order, head) = 1
    BY <1>0, <2>2, NextPlace
  <2>4. StepsLeft = 4 + 2 * Len(order) - k
    BY <1>0, <2>1, <2>3 DEF StepsLeft
  <2>5. CASE FindWalk
    <3>1. pc' = "find" /\ order' = order /\ scan' = next[scan]
      BY <2>5 DEF FindWalk
    <3>2. CASE k = Len(order)
      <4>1. StepsLeft' = 1
        BY <2>3, <3>1, <3>2 DEF StepsLeft
      <4> QED  BY <2>3, <2>4, <4>1
    <3>3. CASE k # Len(order)
      <4>1. StepsLeft' = 4 + 2 * Len(order) - (k + 1)
        BY <2>3, <3>1, <3>3 DEF StepsLeft
      <4> QED  BY <2>3, <2>4, <3>3, <4>1
    <3> QED  BY <3>2, <3>3
  <2>6. CASE FindHit
    <3>1. /\ order' = order /\ scan' = head
          /\ pc' = "behead" \/ pc' = "seek"
      BY <2>6 DEF FindHit
    <3>2. CASE pc' = "behead"
      <4>1. StepsLeft' = 2
        BY <3>2 DEF StepsLeft
      <4> QED  BY <2>3, <2>4, <4>1
    <3>3. CASE pc' = "seek"
      <4>1. StepsLeft' = 4 + Len(order) - 1
        BY <2>3, <3>1, <3>3 DEF StepsLeft
      <4> QED  BY <2>3, <2>4, <4>1
    <3> QED  BY <3>1, <3>2, <3>3
  <2> QED  BY <1>2, <2>5, <2>6
<1> QED  BY <1>1, <1>2

LEMMA StoringShrinks ==
    ASSUME IInv, \/ AddFirst \/ AddLink \/ AddClear \/ AddBack
                 \/ Behead \/ SeekHit \/ Bypass \/ Unlink \/ Free
    PROVE  StepsLeft \in Nat /\ StepsLeft' \in Nat /\ StepsLeft' < StepsLeft
<1>1. CASE AddFirst
  BY <1>1 DEF AddFirst, StepsLeft
<1>2. CASE AddLink
  <2>1. PICK k \in DOMAIN order : scan = order[k]
    BY <1>2 DEF AddLink, IInv, CallState
  <2>2. pc = "walk" /\ pc' = "clear"
    BY <1>2 DEF AddLink
  <2>3. Len(order) \in Nat /\ k \in 1..Len(order) /\ PlaceOf(order, scan) = k
    BY <2>1, <2>2, NextPlace
  <2>4. StepsLeft = 3 + Len(order) - k /\ StepsLeft' = 2
    BY <2>2, <2>3 DEF StepsLeft
  <2> QED  BY <2>3, <2>4
<1>3. CASE AddClear
  BY <1>3 DEF AddClear, StepsLeft
<1>4. CASE AddBack
  BY <1>4 DEF AddBack, StepsLeft
<1>5. CASE Behead
  BY <1>5 DEF Behead, StepsLeft
<1>6. CASE SeekHit
  <2>1. pc = "seek" /\ pc' = "bypass"
    BY <1>6 DEF SeekHit
  <2>2. PICK j \in DOMAIN order : \E k \in 1..j : scan = order[k]
    BY <2>1 DEF IInv, CallState
  <2>3. Len(order) \in Nat /\ DOMAIN order = 1..Len(order)
    BY OrderFacts DEF IInv
  <2>4. PICK k \in DOMAIN order : scan = order[k]
    BY <2>2, <2>3
  <2>5. k \in 1..Len(order) /\ PlaceOf(order, scan) = k
    BY <2>1, <2>4, NextPlace
  <2>6. StepsLeft = 4 + Len(order) - k /\ StepsLeft' = 3
    BY <2>1, <2>5 DEF StepsLeft
  <2> QED  BY <2>3, <2>5, <2>6
<1>7. CASE Bypass
  BY <1>7 DEF Bypass, StepsLeft
<1>8. CASE Unlink
  BY <1>8 DEF Unlink, StepsLeft
<1>9. CASE Free
  BY <1>9 DEF Free, StepsLeft
<1> QED  BY <1>1, <1>2, <1>3, <1>4, <1>5, <1>6, <1>7, <1>8, <1>9

\* A call that starts on a list of L nodes executes at most 2 L + 3 statements.
LEMMA CallBound ==
    ASSUME IInv, Call
    PROVE  StepsLeft' \in Nat /\ StepsLeft' <= 2 * Len(order') + 3
<1>1. /\ Len(order) \in Nat /\ DOMAIN order = 1..Len(order)
      /\ order = << >> <=> Len(order) = 0
  BY OrderFacts DEF IInv
<1>2. order' = order /\ scan' = head
  BY DEF Call, AddAlloc, RemoveStart
<1>3. \/ pc' = "first"
      \/ pc' = "walk" /\ head # NULL
      \/ pc' = "find"
  BY DEF Call, AddAlloc, RemoveStart
<1>4. IF order = << >> THEN head = NULL ELSE head = order[1]
  BY DEF IInv, ForwardChain
<1>5. CASE head = NULL
  <2>1. StepsLeft' = 3 \/ StepsLeft' = 1
    BY <1>2, <1>3, <1>5 DEF StepsLeft
  <2> QED  BY <1>1, <1>2, <2>1
<1>6. CASE head # NULL
  <2>1. 1 \in DOMAIN order /\ head = order[1]
    BY <1>1, <1>4, <1>6
  <2>2. PlaceOf(order, head) = 1
    BY <2>1, PlaceOfCell
  <2>3. \/ StepsLeft' = 3
        \/ StepsLeft' = 3 + Len(order) - 1
        \/ StepsLeft' = 4 + 2 * Len(order) - 1
    BY <1>2, <1>3, <1>6, <2>2 DEF StepsLeft
  <2> QED  BY <1>1, <1>2, <2>1, <2>3
<1> QED  BY <1>5, <1>6

\* None of the loops of list.c can run for ever, however long the list is: a
\* call on a list of L nodes begins with at most 2 L + 3 statements to execute,
\* and every statement leaves fewer.  With fairness this is CallsReturn.
THEOREM ListShrinks ==
    Spec => [][/\ AddStep \/ RemoveStep => StepsLeft' \in Nat /\ StepsLeft' < StepsLeft
               /\ Call => StepsLeft' \in Nat /\ StepsLeft' <= 2 * Len(order') + 3]_vars
<1>1. ASSUME IInv, [Next]_vars
      PROVE  [/\ AddStep \/ RemoveStep => StepsLeft' \in Nat /\ StepsLeft' < StepsLeft
              /\ Call => StepsLeft' \in Nat /\ StepsLeft' <= 2 * Len(order') + 3]_vars
  <2>1. AddStep \/ RemoveStep => StepsLeft' \in Nat /\ StepsLeft' < StepsLeft
    BY <1>1, WalkingShrinks, FindingShrinks, StoringShrinks DEF AddStep, RemoveStep
  <2>2. Call => StepsLeft' \in Nat /\ StepsLeft' <= 2 * Len(order') + 3
    BY <1>1, CallBound
  <2> QED  BY <2>1, <2>2
<1> QED  BY <1>1, Invariant, PTL DEF Spec
=============================================================================
