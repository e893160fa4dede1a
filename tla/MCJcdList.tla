----------------------------- MODULE MCJcdList -----------------------------
(* Instance of JcdList for TLC: three cells, three data. *)
EXTENDS JcdList

\* The initial heap is stale memory in which every cell points at the same
\* cell; cells freed and allocated again hold every other kind of stale pointer.
MCInit ==
    /\ Init
    /\ \E c \in Cell, d \in Data :
         /\ next = [x \in Cell |-> c]
         /\ prev = [x \in Cell |-> c]
         /\ data = [x \in Cell |-> d]
         /\ arg = d

MCSpec == MCInit /\ [][Next]_vars /\ WF_vars(AddStep \/ RemoveStep)
=============================================================================
