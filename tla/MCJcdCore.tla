----------------------------- MODULE MCJcdCore -----------------------------
(***************************************************************************)
(* JcdCore for TLC: names that differ in case, a record kept in mixed      *)
(* case, two interfaces that count their connections from 0 and from -1.   *)
(* Every name fits into lower_name.                                        *)
(***************************************************************************)
EXTENDS JcdCore, TLC

MCLowerCase == [n \in Name |-> IF n = "Alice" THEN "alice" ELSE n]
MCStored == [n \in Name |-> {n}]

\* alice has no record, or one in either spelling; there is one under every other name
\* in lower case, which keeps the words with a meaning out of the queue.
Records(spelling) ==
    [n \in Name |-> CASE n = "alice" -> spelling [] n = "Alice" -> "" [] OTHER -> n]

MCInitFiles == {Records(""), Records("alice"), Records("Alice")}
MCConnections0 == [i \in Interface |-> 1 - i]
=============================================================================
