------------------------------ MODULE JcdList ------------------------------
(***************************************************************************)
(* The doubly linked list of src/list.c, pointer by pointer: one action    *)
(* per read or write of a shared pointer by list_add and list_remove.      *)
(*                                                                         *)
(* `order` is a history variable: the cells in the order in which they     *)
(* were linked.  The code keeps no such thing; the invariants say that the *)
(* pointers realise it, and the refinement says that it evolves as         *)
(* AbstractList demands.                                                   *)
(***************************************************************************)
EXTENDS Naturals, Sequences, SequencesExt

CONSTANTS
    Cell,           \* addresses malloc can return for a node
    Data,           \* addresses of the structures linked in
    NULL

ASSUME NullAssumption == NULL \notin Cell

VARIABLES
    head,           \* l->head
    next,           \* n->next of every cell, allocated or not
    prev,           \* n->prev of every cell
    data,           \* n->data of every cell
    live,           \* the cells malloc has given out and FREE has not taken back
    nodes,          \* l->nodes
    pc,             \* the next statement of the call in progress, or "idle"
    n,              \* list_add's new node
    scan,           \* the cursor of whichever loop is running
    out,            \* list_remove's victim
    arg,            \* the data list_remove was asked for
    order           \* history: the linked cells, oldest first

vars == <<head, next, prev, data, live, nodes, pc, n, scan, out, arg, order>>

Pointer == Cell \cup {NULL}
Label == {"idle", "first", "walk", "clear", "back",
          "find", "behead", "seek", "bypass", "unlink", "free"}

Init ==
    /\ head = NULL
    /\ next \in [Cell -> Pointer]          \* the heap holds whatever it holds
    /\ prev \in [Cell -> Pointer]
    /\ data \in [Cell -> Data]
    /\ live = {}
    /\ nodes = 0
    /\ pc = "idle"
    /\ n = NULL /\ scan = NULL /\ out = NULL
    /\ arg \in Data
    /\ order = << >>

-----------------------------------------------------------------------------
(* list_add *)

\* malloc a node, count it and fill in the data.  next and prev keep what the
\* memory held before.  Callers link in only structures they just allocated.
AddAlloc(c, d) ==
    /\ pc = "idle"
    /\ c \notin live
    /\ \A i \in DOMAIN order : data[order[i]] # d
    /\ live' = live \cup {c}
    /\ nodes' = nodes + 1
    /\ n' = c
    /\ data' = [data EXCEPT ![c] = d]
    /\ scan' = head
    /\ pc' = IF head = NULL THEN "first" ELSE "walk"
    /\ UNCHANGED <<head, next, prev, out, arg, order>>

\* The list was empty: l->head = n.
AddFirst ==
    /\ pc = "first"
    /\ head' = n
    /\ order' = Append(order, n)
    /\ pc' = "clear"
    /\ UNCHANGED <<next, prev, data, live, nodes, n, scan, out, arg>>

\* Not the last node yet: move on.
AddWalk ==
    /\ pc = "walk"
    /\ next[scan] # NULL
    /\ scan' = next[scan]
    /\ UNCHANGED <<head, next, prev, data, live, nodes, pc, n, out, arg, order>>

\* The last node: scan->next = n.
AddLink ==
    /\ pc = "walk"
    /\ next[scan] = NULL
    /\ next' = [next EXCEPT ![scan] = n]
    /\ order' = Append(order, n)
    /\ pc' = "clear"
    /\ UNCHANGED <<head, prev, data, live, nodes, n, scan, out, arg>>

\* Mutant: the node's next is never cleared.
AddClearForgotten ==
    /\ pc = "clear"
    /\ pc' = "back"
    /\ UNCHANGED <<head, next, prev, data, live, nodes, n, scan, out, arg, order>>

\* n->next = 0, after the node is already reachable.
AddClear ==
    /\ pc = "clear"
    /\ next' = [next EXCEPT ![n] = NULL]
    /\ pc' = "back"
    /\ UNCHANGED <<head, prev, data, live, nodes, n, scan, out, arg, order>>

\* n->prev = scan, or 0 for the first node (scan is NULL then).
AddBack ==
    /\ pc = "back"
    /\ prev' = [prev EXCEPT ![n] = scan]
    /\ pc' = "idle"
    /\ UNCHANGED <<head, next, data, live, nodes, n, scan, out, arg, order>>

-----------------------------------------------------------------------------
(* list_remove *)

RemoveStart(d) ==
    /\ pc = "idle"
    /\ arg' = d
    /\ scan' = head
    /\ pc' = "find"
    /\ UNCHANGED <<head, next, prev, data, live, nodes, n, out, order>>

\* Mutant: the loop starts over instead of moving on.
FindWalkStuck ==
    /\ pc = "find"
    /\ scan # NULL
    /\ data[scan] # arg
    /\ scan' = head
    /\ UNCHANGED <<head, next, prev, data, live, nodes, pc, n, out, arg, order>>

\* find_node_by_data: another node's data.
FindWalk ==
    /\ pc = "find"
    /\ scan # NULL
    /\ data[scan] # arg
    /\ scan' = next[scan]
    /\ UNCHANGED <<head, next, prev, data, live, nodes, pc, n, out, arg, order>>

\* "no out in list_remove": nothing is changed.
FindNone ==
    /\ pc = "find"
    /\ scan = NULL
    /\ pc' = "idle"
    /\ UNCHANGED <<head, next, prev, data, live, nodes, n, scan, out, arg, order>>

\* Mutant: find_node_by_data returns the first node, whatever its data.
FindHitAnything ==
    /\ pc = "find"
    /\ scan # NULL
    /\ out' = scan
    /\ scan' = head
    /\ pc' = IF scan = head THEN "behead" ELSE "seek"
    /\ UNCHANGED <<head, next, prev, data, live, nodes, n, arg, order>>

\* Mutant: the head is unlinked like any other node, through its stale prev.
FindHitNoHead ==
    /\ pc = "find"
    /\ scan # NULL
    /\ data[scan] = arg
    /\ out' = scan
    /\ scan' = head
    /\ pc' = "seek"
    /\ UNCHANGED <<head, next, prev, data, live, nodes, n, arg, order>>

FindHit ==
    /\ pc = "find"
    /\ scan # NULL
    /\ data[scan] = arg
    /\ out' = scan
    /\ scan' = head
    /\ pc' = IF scan = head THEN "behead" ELSE "seek"
    /\ UNCHANGED <<head, next, prev, data, live, nodes, n, arg, order>>

\* l->head = out->next.  The new head's prev still points at the old one.
Behead ==
    /\ pc = "behead"
    /\ head' = next[out]
    /\ order' = RemoveAt(order, 1)
    /\ pc' = "free"
    /\ UNCHANGED <<next, prev, data, live, nodes, n, scan, out, arg>>

\* The second walk, up to the node already found.
SeekWalk ==
    /\ pc = "seek"
    /\ scan # out
    /\ scan' = next[scan]
    /\ UNCHANGED <<head, next, prev, data, live, nodes, pc, n, out, arg, order>>

SeekHit ==
    /\ pc = "seek"
    /\ scan = out
    /\ pc' = "bypass"
    /\ UNCHANGED <<head, next, prev, data, live, nodes, n, scan, out, arg, order>>

\* Mutant: the successor keeps its old prev.
BypassForgotten ==
    /\ pc = "bypass"
    /\ pc' = "unlink"
    /\ UNCHANGED <<head, next, prev, data, live, nodes, n, scan, out, arg, order>>

\* if(out->next) out->next->prev = out->prev
Bypass ==
    /\ pc = "bypass"
    /\ prev' = IF next[out] = NULL THEN prev
               ELSE [prev EXCEPT ![next[out]] = prev[out]]
    /\ pc' = "unlink"
    /\ UNCHANGED <<head, next, data, live, nodes, n, scan, out, arg, order>>

\* if(out->prev) out->prev->next = out->next, which may be 0
Unlink ==
    /\ pc = "unlink"
    /\ next' = IF prev[out] = NULL THEN next
               ELSE [next EXCEPT ![prev[out]] = next[out]]
    /\ \E i \in DOMAIN order : order[i] = out /\ order' = RemoveAt(order, i)
    /\ pc' = "free"
    /\ UNCHANGED <<head, prev, data, live, nodes, n, scan, out, arg>>

\* Mutant: the count is not kept.
FreeUncounted ==
    /\ pc = "free"
    /\ live' = live \ {out}
    /\ pc' = "idle"
    /\ UNCHANGED <<head, next, prev, data, nodes, n, scan, out, arg, order>>

\* Mutant: list_remove counts the node down, and so does its caller.
FreeCountedTwice ==
    /\ pc = "free"
    /\ nodes' = nodes - 2
    /\ live' = live \ {out}
    /\ pc' = "idle"
    /\ UNCHANGED <<head, next, prev, data, n, scan, out, arg, order>>

Free ==
    /\ pc = "free"
    /\ nodes' = nodes - 1
    /\ live' = live \ {out}
    /\ pc' = "idle"
    /\ UNCHANGED <<head, next, prev, data, n, scan, out, arg, order>>

-----------------------------------------------------------------------------

AddStep == AddFirst \/ AddWalk \/ AddLink \/ AddClear \/ AddBack
RemoveStep == \/ FindWalk \/ FindNone \/ FindHit \/ Behead
              \/ SeekWalk \/ SeekHit \/ Bypass \/ Unlink \/ Free

Call == \/ \E c \in Cell, d \in Data : AddAlloc(c, d)
        \/ \E d \in Data : RemoveStart(d)

Next == Call \/ AddStep \/ RemoveStep

\* A call in progress keeps running; nothing obliges anyone to make a call.
Spec == Init /\ [][Next]_vars /\ WF_vars(AddStep \/ RemoveStep)

-----------------------------------------------------------------------------
(* Properties *)

Linked == {order[i] : i \in DOMAIN order}

TypeOK ==
    /\ head \in Pointer
    /\ next \in [Cell -> Pointer]
    /\ prev \in [Cell -> Pointer]
    /\ data \in [Cell -> Data]
    /\ live \subseteq Cell
    /\ nodes \in Nat
    /\ pc \in Label
    /\ n \in Pointer /\ scan \in Pointer /\ out \in Pointer
    /\ arg \in Data
    /\ order \in Seq(Cell)

\* The cell a new node at the end of the list is still to be finished by.
Fresh == IF pc = "clear" THEN Len(order) ELSE 0

\* Starting at l->head and following next visits the linked cells in the order
\* they were added and ends at 0; only a node just linked has no next yet.
ForwardChain ==
    /\ head = IF order = << >> THEN NULL ELSE order[1]
    /\ \A i \in DOMAIN order :
         i # Fresh => next[order[i]] = IF i = Len(order) THEN NULL ELSE order[i + 1]

\* prev is the cell before, for every cell but the head: list_remove leaves the
\* head's prev pointing at freed memory and must therefore never read it.
BackwardChain ==
    \A i \in DOMAIN order :
        (i > 1 /\ ~(pc \in {"clear", "back"} /\ i = Len(order)))
            => IF pc = "unlink" /\ order[i - 1] = out
               THEN prev[order[i]] = prev[out]
               ELSE prev[order[i]] = order[i - 1]

\* Each cell is linked at most once, and so is each datum.
NoDuplicates ==
    \A i, j \in DOMAIN order :
        i # j => order[i] # order[j] /\ data[order[i]] # data[order[j]]

\* Memory is neither leaked nor shared: apart from the node a call has in hand,
\* the allocated cells are the linked ones, and nodes counts them.
InHand ==
    IF pc \in {"first", "walk"} THEN {n} ELSE IF pc = "free" THEN {out} ELSE {}

Accounted ==
    /\ live = Linked \cup InHand
    /\ InHand \cap Linked = {}
    /\ nodes = Len(order) + (IF InHand = {} THEN 0 ELSE 1)

\* Where each call has got to: what its cursors stand on at each label.
FindState ==
    \/ scan = NULL /\ \A i \in DOMAIN order : data[order[i]] # arg
    \/ \E k \in DOMAIN order : /\ scan = order[k]
                               /\ \A i \in 1..(k - 1) : data[order[i]] # arg

CallState ==
    /\ pc \in {"first", "walk"} =>
         n \in Cell /\ \A i \in DOMAIN order : data[order[i]] # data[n]
    /\ pc = "first" => order = << >> /\ scan = NULL
    /\ pc = "walk" => \E k \in DOMAIN order : scan = order[k]
    /\ pc \in {"clear", "back"} =>
         /\ order # << >>
         /\ n = order[Len(order)]
         /\ scan = IF Len(order) = 1 THEN NULL ELSE order[Len(order) - 1]
    /\ pc = "find" => FindState
    /\ pc = "behead" => order # << >> /\ out = order[1]
    /\ pc = "seek" => \E j \in DOMAIN order : \E k \in 1..j :
                        j > 1 /\ out = order[j] /\ scan = order[k]
    /\ pc \in {"bypass", "unlink"} =>
         \E j \in DOMAIN order : j > 1 /\ out = order[j]
    /\ pc \in {"behead", "seek", "bypass", "unlink"} => data[out] = arg
    /\ pc = "free" => out \in Cell

\* No statement reads or writes through a pointer to memory that is not
\* allocated: neither the cursors, nor out, nor out's neighbours.
NoDangling ==
    /\ pc \in {"walk", "seek"} => scan \in live
    /\ pc = "find" => scan \in live \cup {NULL}
    /\ pc \in {"clear", "back"} => n \in live
    /\ pc \in {"behead", "bypass", "unlink", "free"} => out \in live
    /\ pc \in {"bypass", "unlink"} => /\ prev[out] \in live
                                      /\ next[out] \in live \cup {NULL}

\* The list of data behind the pointers, and the call in progress as its caller
\* sees it: list_add takes effect when the node becomes reachable, list_remove
\* when it stops being so.
Contents == [i \in DOMAIN order |-> data[order[i]]]

CallInProgress ==
    CASE pc = "idle"              -> [op |-> "none"]
      [] pc \in {"first", "walk"} -> [op |-> "add", d |-> data[n], done |-> FALSE]
      [] pc \in {"clear", "back"} -> [op |-> "add", d |-> data[n], done |-> TRUE]
      [] pc = "free"              -> [op |-> "remove", d |-> arg, done |-> TRUE]
      [] OTHER                    -> [op |-> "remove", d |-> arg, done |-> FALSE]

Abstract == INSTANCE AbstractList WITH seq <- Contents, call <- CallInProgress

\* list.c implements the abstract list: additions keep the order of the calls
\* and a removal takes out exactly the datum asked for.
ImplementsAbstractList == Abstract!ASpec

\* Every call returns: none of the three loops of list.c can run for ever.
CallsReturn == [](pc # "idle" => <>(pc = "idle"))
=============================================================================
