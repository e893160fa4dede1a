-------------------------- MODULE MCCommandTable --------------------------
(* Two buckets of 197, two or three commands of each module, every level. *)
EXTENDS CommandTable, TLC

CONSTANTS c1, c2, c3, c4, c5, c6

MCStartup == <<"stat.so", "commands.so">>
MCRegistered == ("stat.so" :> <<"ifconfig", "save">>) @@ ("commands.so" :> <<"who">>)
                @@ ("comm_engine.so" :> << >>)
MCLevel == [k \in {"insmod", "rmmod", "ifconfig", "save", "who"} |->
              CASE k \in Static -> "LOWER_ADMIN" [] k = "ifconfig" -> "SAGE"
                [] OTHER -> "NEWBIE"]
MCLowerCase == [w \in Word |-> IF w = "WHO" THEN "who" ELSE IF w = "Save" THEN "save" ELSE w]

\* Save shares a bucket with save here, as it may; WHO is in the other one.
MChash == [w \in Word |-> IF w \in {"insmod", "who", "ifconfig"} THEN 1 ELSE 2]

MCPrivs == {{"NEWBIE"}, {"NEWBIE", "SAGE"}, {"NEWBIE", "LOWER_ADMIN"}}
MCSymmetry == Permutations(Cell)
=============================================================================
