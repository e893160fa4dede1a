--------------------------- MODULE CommandTable ---------------------------
(***************************************************************************)
(* The commands a player can run: the hash table, the modules that put     *)
(* commands in it while the program runs (src/elf.c), and run_command's    *)
(* walk along a chain of it (src/parse.c), which insmod and rmmod change   *)
(* under it.                                                               *)
(*                                                                         *)
(* A chain is a sequence, first entry first.  An entry that a module       *)
(* registered is a cell of memory; insmod's and rmmod's are the program's. *)
(***************************************************************************)
EXTENDS Integers, Sequences, FiniteSets, SequencesExt

CONSTANTS
    Cell,           \* the memory for entries
    NULL,
    Bucket,         \* 0..C_BUCKETS - 1
    Module,         \* accepted_modules
    Absent,         \* those of them there is no file for
    Startup,        \* what main loads, in order
    Registered,     \* what reg of a module registers: its keys, in order
    Level,          \* the level of a key, insmod's and rmmod's included
    Word,           \* what a player may type
    LowerCase,      \* a word in lower case
    comm_hash_num,  \* a word's bucket
    Privs           \* the sets of levels players have

Static == {"insmod", "rmmod"}

ASSUME TableAssumption ==
    /\ Absent \subseteq Module
    /\ Startup \in Seq(Module \ Absent)
    /\ Registered \in [Module -> Seq(Word)]
    /\ Static \subseteq Word
    /\ LowerCase \in [Word -> Word]
    /\ comm_hash_num \in [Word -> Bucket]
    /\ Cell \cap Static = {} /\ NULL \notin Cell \cup Static

\* A key is written in lower case and belongs to one module.
ASSUME KeyAssumption ==
    /\ \A n \in Static : LowerCase[n] = n
    /\ \A m \in Module : \A i \in DOMAIN Registered[m] :
         LowerCase[Registered[m][i]] = Registered[m][i]
    /\ \A m, n \in Module : \A i \in DOMAIN Registered[m], j \in DOMAIN Registered[n] :
         Registered[m][i] = Registered[n][j] => m = n /\ i = j

VARIABLES
    mod_list,       \* the modules loaded, in that order: [name, comm]
    comm_hash,      \* the chain of each bucket
    key,            \* what a cell holds
    dlcount,        \* the loader's count of a library's openings
    todo,           \* what main has yet to load
    pc,             \* "startup", "idle", "walk", "call", "next", "crashed"
    command, privs, \* run_command's: what was typed, by whom
    comm            \* run_command's: the entry it stands on

table == <<mod_list, comm_hash, key, dlcount>>
walk == <<command, privs, comm>>
vars == <<table, todo, pc, walk>>

Used == UNION {ToSet(mod_list[i].comm) : i \in DOMAIN mod_list}
Key(n) == IF n \in Static THEN n ELSE key[n]
HashOf(n) == comm_hash_num[Key(n)]

\* comm->next of an entry in a chain.
NextIn(s, n) == LET i == CHOOSE j \in DOMAIN s : s[j] = n
                IN  IF i < Len(s) THEN s[i + 1] ELSE NULL
FirstOf(s) == IF s = << >> THEN NULL ELSE s[1]

-----------------------------------------------------------------------------

\* The elements of s that are in T, in the order they have there.
Keep(s, T) ==
    LET kept == {i \in DOMAIN s : s[i] \in T}
        At(k) == CHOOSE i \in kept : Cardinality({j \in kept : j <= i}) = k
    IN  [k \in 1..Cardinality(kept) |-> s[At(k)]]

\* main: an empty table with the static commands in it.
StaticChain(b) == Keep(<<"rmmod", "insmod">>, {n \in Static : comm_hash_num[n] = b})

Init ==
    /\ mod_list = << >>
    /\ comm_hash = [b \in Bucket |-> StaticChain(b)]
    /\ key = [c \in Cell |-> NULL]
    /\ dlcount = [m \in Module |-> 0]
    /\ todo = Startup
    /\ pc = "startup"
    /\ command = NULL /\ privs = {} /\ comm = NULL

\* The cells of cs whose key, of module m, is in bucket b.
InBucket(m, cs, b) == {cs[i] : i \in {j \in DOMAIN cs : comm_hash_num[Registered[m][j]] = b}}

\* Mutant: an entry is added at the end of its chain.
comm_hash_add_last(m, cs, b) == comm_hash[b] \o Keep(cs, InBucket(m, cs, b))

\* comm_hash_add of cs, one after the other, each at the head of its chain.
comm_hash_add(m, cs, b) == Reverse(Keep(cs, InBucket(m, cs, b))) \o comm_hash[b]

\* mod_load, dlopen succeeding: a list entry, and mod_comm_register for each key.
mod_load(m) ==
    \E cs \in [DOMAIN Registered[m] -> Cell \ Used] :
        /\ IsInjective(cs)
        /\ mod_list' = Append(mod_list, [name |-> m, comm |-> cs])
        /\ key' = [c \in Cell |-> IF c \in ToSet(cs)
                                  THEN Registered[m][CHOOSE i \in DOMAIN cs : cs[i] = c]
                                  ELSE key[c]]
        /\ comm_hash' = [b \in Bucket |-> comm_hash_add(m, cs, b)]
        /\ dlcount' = [dlcount EXCEPT ![m] = @ + 1]

\* Mutant: only a module's first command is taken out.
comm_hash_del_first(cs, b) ==
    IF cs = << >> THEN comm_hash[b] ELSE Keep(comm_hash[b], ToSet(comm_hash[b]) \ {cs[1]})

\* comm_hash_del of each of cs, found by the hash of its key.
comm_hash_del(cs, b) ==
    Keep(comm_hash[b], {n \in ToSet(comm_hash[b]) : ~(n \in ToSet(cs) /\ HashOf(n) = b)})

\* mod_unload: the first module of the name; its cells are free to be used again.
mod_unload(m) ==
    LET i == CHOOSE j \in DOMAIN mod_list :
                 mod_list[j].name = m /\ \A k \in 1..j - 1 : mod_list[k].name # m
    IN  /\ mod_list' = RemoveAt(mod_list, i)
        /\ comm_hash' = [b \in Bucket |-> comm_hash_del(mod_list[i].comm, b)]
        /\ dlcount' = [dlcount EXCEPT ![m] = @ - 1]
        /\ UNCHANGED key

main ==
    /\ pc = "startup"
    /\ \/ todo = << >> /\ pc' = "idle" /\ UNCHANGED <<table, todo>>
       \/ todo # << >> /\ mod_load(Head(todo)) /\ todo' = Tail(todo) /\ UNCHANGED pc
    /\ UNCHANGED walk

-----------------------------------------------------------------------------

run_command(w, p) ==
    /\ pc = "idle"
    /\ command' = w /\ privs' = p
    /\ comm' = FirstOf(comm_hash[comm_hash_num[w]])
    /\ pc' = "walk"
    /\ UNCHANGED <<table, todo>>

\* strcasecmp, and the levels.
Matches(n) == Level[Key(n)] \in privs /\ LowerCase[command] = Key(n)

\* Mutant: the walk ends at the first entry of another level.
PassDenied ==
    /\ pc = "walk" /\ comm # NULL
    /\ \/ Matches(comm) /\ pc' = "call" /\ UNCHANGED comm
       \/ /\ ~Matches(comm) /\ UNCHANGED pc
          /\ comm' = IF Level[Key(comm)] \in privs
                     THEN NextIn(comm_hash[HashOf(comm)], comm) ELSE NULL
    /\ UNCHANGED <<table, todo, command, privs>>

Pass ==
    /\ pc = "walk" /\ comm # NULL
    /\ \/ Matches(comm) /\ pc' = "call" /\ UNCHANGED comm
       \/ /\ ~Matches(comm) /\ UNCHANGED pc
          /\ comm' = NextIn(comm_hash[HashOf(comm)], comm)
    /\ UNCHANGED <<table, todo, command, privs>>

NotFound ==
    /\ pc = "walk" /\ comm = NULL
    /\ pc' = "idle" /\ command' = NULL /\ privs' = {}
    /\ UNCHANGED <<table, todo, comm>>

\* Any command of a module; those of the program with no argument, or none accepted.
Call ==
    /\ pc = "call"
    /\ pc' = "next"
    /\ UNCHANGED <<table, todo, walk>>

\* safe_module_load: dlopen of an absent module fails, and strcpy writes "bad"
\* through a name that was never set.  That is the end of the program, or mod_unload
\* finds the entry by what was written and takes it away again.  That the four bytes
\* may fall on something in use is left out.
insmod(m) ==
    /\ pc = "call" /\ comm = "insmod"
    /\ \/ m \notin Absent /\ mod_load(m) /\ pc' = "next"
       \/ m \in Absent /\ pc' \in {"next", "crashed"} /\ UNCHANGED table
    /\ UNCHANGED <<todo, walk>>

\* safe_module_unload.
rmmod(m) ==
    /\ pc = "call" /\ comm = "rmmod"
    /\ \/ (\E i \in DOMAIN mod_list : mod_list[i].name = m) /\ mod_unload(m)
       \/ (\A i \in DOMAIN mod_list : mod_list[i].name # m) /\ UNCHANGED table
    /\ pc' = "next"
    /\ UNCHANGED <<todo, walk>>

\* comm = comm->next is read after the command has returned, and the loop ends.
After ==
    /\ pc = "next"
    /\ pc' = "idle" /\ command' = NULL /\ privs' = {} /\ comm' = NULL
    /\ UNCHANGED <<table, todo>>

\* signal_EXIT ended the program; it is started again.
Restart ==
    /\ pc = "crashed"
    /\ mod_list' = << >>
    /\ comm_hash' = [b \in Bucket |-> StaticChain(b)]
    /\ key' = [c \in Cell |-> NULL]
    /\ dlcount' = [m \in Module |-> 0]
    /\ todo' = Startup /\ pc' = "startup"
    /\ command' = NULL /\ privs' = {} /\ comm' = NULL

Next ==
    \/ main \/ Pass \/ NotFound \/ Call \/ After \/ Restart
    \/ \E w \in Word, p \in Privs : run_command(w, p)
    \/ \E m \in Module : insmod(m) \/ rmmod(m)

Spec == Init /\ [][Next]_vars

-----------------------------------------------------------------------------
(* Properties.                                                             *)

TypeOK ==
    /\ mod_list \in Seq([name : Module, comm : Seq(Cell)])
    /\ comm_hash \in [Bucket -> Seq(Static \cup Cell)]
    /\ key \in [Cell -> Word \cup {NULL}]
    /\ dlcount \in [Module -> Nat]
    /\ todo \in Seq(Module)
    /\ pc \in {"startup", "idle", "walk", "call", "next", "crashed"}
    /\ command \in Word \cup {NULL} /\ privs \in Privs \cup {{}}
    /\ comm \in Static \cup Cell \cup {NULL}

\* The chains hold the program's commands and those of the modules loaded, each
\* once and in its bucket; a library is open once for each module of its name; and
\* the entry run_command stands on is one of them, also after the command has
\* returned and the table may have changed (src/elf.c:230, src/parse.c:102).
TableExact ==
    /\ TypeOK
    /\ \A b \in Bucket :
         /\ IsInjective(comm_hash[b])
         /\ ToSet(comm_hash[b]) = {n \in Static \cup Used : HashOf(n) = b}
    /\ \A m \in Module : dlcount[m] = Cardinality({i \in DOMAIN mod_list : mod_list[i].name = m})
    /\ comm # NULL => comm \in Static \cup Used

\* A command typed as it is registered runs the entry that was registered last, if
\* the player has its level, and is only not found if none of his level is
\* registered (src/parse.c:75, src/elf.c:291).
RunsNewest ==
    /\ pc = "call" =>
        \A i \in DOMAIN mod_list : \A c \in ToSet(mod_list[i].comm) :
            key[c] = command =>
                \E j \in DOMAIN mod_list : j >= i /\ comm \in ToSet(mod_list[j].comm)
    /\ pc = "walk" /\ comm = NULL =>
        \A n \in Static \cup Used : ~(Key(n) = command /\ Level[Key(n)] \in privs)
=============================================================================
