-------------------------- MODULE MCPlayerRecord --------------------------
(* The records people write for the two files of one player. *)
EXTENDS PlayerRecord

MCLowerCase == [n \in Name |-> "alice"]

Good == <<Line("name", "Alice"), Line("title", "mine"), Line("prompt", "hm: "),
          Line("flags", {"CWW"})>>

\* Too long a title, a BEL in the prompt, a type that is none of its key's.
Bad == <<Line("name", "alice"), [Line("title", "mine") EXCEPT !.form = "long"],
         [Line("prompt", "hm: ") EXCEPT !.form = "bel"],
         [Line("flags", {"AUTO_TERM"}) EXCEPT !.type = "string"]>>

\* A title twice, an empty one, and more lines than are read.
Long == <<Line("title", "newbie"), Line("title", "mine"),
          [Line("title", "cut") EXCEPT !.form = "empty"],
          [Line("prompt", "hm: ") EXCEPT !.form = "long"], Line("name", "alice")>>

MCHandmade == {Good, Bad, Long}
=============================================================================
