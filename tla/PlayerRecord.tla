---------------------------- MODULE PlayerRecord ----------------------------
(***************************************************************************)
(* The settings of a player and the record they are kept in: load_player   *)
(* and save_player (src/entity.c, src/split.c), the terminal command that  *)
(* changes them (src/modules/stat.c), the screen size a client sends       *)
(* (src/handle.c), and what run_command does with the prompt meanwhile.    *)
(*                                                                         *)
(* One player, session after session.  Records are text files that people  *)
(* write too: no command makes a new one.                                  *)
(***************************************************************************)
EXTENDS Integers, Sequences, FiniteSets

CONSTANTS
    Name,           \* file names, and names as typed and as records spell them
    LowerCase,      \* [Name -> Name], lower_case
    Handmade,       \* the records people write
    Capacity,       \* how many lines the 1023 bytes are that are read
    Width,          \* screen widths a client may send or a player ask for
    NULL

(***************************************************************************)
(* A line: key, type and data between BELs.  form says what the data is    *)
(* like: "whole", "long" (the line is over MAX_LINE), "empty", or "bel"    *)
(* (it has a BEL in it).                                                   *)
(***************************************************************************)
TypeOf == [flags |-> "int", name |-> "string", title |-> "string", prompt |-> "string"]
Empty == ""
Flag == {"WRAP_PROMPT", "WW", "CWW", "AUTO_TERM"}
Title == {"newbie", "mine", "cut"}
Prompt == {"-> ", "hm: ", "cut", Empty}

\* Nine lines of at most MAX_LINE characters, which is what save writes, are read.
ASSUME CapacityAssumption == Capacity \in Nat /\ Capacity >= 4

ASSUME CaseAssumption ==
    /\ LowerCase \in [Name -> Name]
    /\ \A n \in Name : LowerCase[LowerCase[n]] = LowerCase[n]

ASSUME RecordAssumption ==
    /\ Width \subseteq Nat
    /\ NULL \notin Prompt
    /\ \A r \in Handmade : Len(r) \in Nat /\ DOMAIN r = 1..Len(r)
    /\ \A r \in Handmade : \A i \in DOMAIN r :
         /\ r[i].key \in DOMAIN TypeOf
         /\ r[i].form \in {"whole", "long", "empty", "bel"}
         /\ r[i].key = "flags" => r[i].form = "whole" /\ r[i].data \subseteq Flag
         /\ r[i].key = "name" => r[i].form = "whole" /\ r[i].data \in Name
         /\ r[i].key = "title" => r[i].data \in Title
         /\ r[i].key = "prompt" => r[i].data \in Prompt \ {Empty}

VARIABLES
    files,          \* lib/players: the lines of each record; NULL: there is none
    in,             \* he is logged in
    name,           \* p->name, and lower_name, which is spelled like it
    flags, title, prompt,
    width,          \* p->screen.width
    TEL_NAWS,       \* the client has told the width
    auto_term,      \* a detection of this session is counted; Timer counts it
    pr,             \* run_command's: the prompt it put aside; NULL: none
    step,           \* run_command's: "idle", "command", "done"
    saved           \* history: the settings at the last save under a name

player == <<name, flags, title, prompt, width, TEL_NAWS, auto_term>>
vars == <<files, in, player, pr, step, saved>>

-----------------------------------------------------------------------------
(* Reading a record.                                                       *)

\* Mutant: split keeps the empty field.
FieldsKept(l) == IF l.form = "bel" THEN 4 ELSE 3

\* split leaves out empty fields, and every BEL divides.
Fields(l) == IF l.form = "empty" THEN 2 ELSE IF l.form = "bel" THEN 4 ELSE 3

\* load_player and player_assign: exactly three fields, a key of the profile, its type.
Accepted(l) == Fields(l) = 3 /\ l.type = TypeOf[l.key]

\* get_line ends a line at MAX_LINE characters and skips the rest of it.
Data(l) == IF l.form = "long" THEN "cut" ELSE l.data

\* What is left of a field after all lines: the last that was accepted, or what
\* player_init had put there.
Assigned(r, k, default) ==
    LET at == {i \in DOMAIN r : i <= Capacity /\ r[i].key = k /\ Accepted(r[i])}
    IN  IF at = {} THEN default ELSE Data(r[CHOOSE i \in at : \A j \in at : j <= i])

\* save_player.  One of the fields left out, the password, is written as the memory was, as
\* nothing sets it.
Line(k, v) == [key |-> k, type |-> TypeOf[k], form |-> "whole", data |-> v]
Text(k, s) ==
    [key |-> k, type |-> TypeOf[k], form |-> IF s = Empty THEN "empty" ELSE "whole", data |-> s]

save_player == <<Line("flags", flags), Text("name", name), Text("title", title),
                 Text("prompt", prompt)>>

-----------------------------------------------------------------------------

Out ==
    /\ in = FALSE /\ name = Empty /\ flags = {} /\ title = "newbie" /\ prompt = "-> "
    /\ width = 80 /\ TEL_NAWS = FALSE /\ auto_term = FALSE /\ pr = NULL /\ step = "idle"

Init ==
    /\ files \in [Name -> Handmade \cup {NULL}]
    /\ Out
    /\ saved = [n \in Name |-> NULL]

\* Someone writes a record or takes one away.
Edit(n, r) ==
    /\ files' = [files EXCEPT ![n] = r]
    /\ saved' = [saved EXCEPT ![n] = NULL]
    /\ UNCHANGED <<in, player, pr, step>>

\* A session begins with what the file says.
Read(file) ==
    /\ ~in /\ files[file] # NULL
    /\ in' = TRUE
    /\ name' = Assigned(files[file], "name", Empty)
    /\ flags' = Assigned(files[file], "flags", {}) \cup {"WW"}
    /\ title' = Assigned(files[file], "title", "newbie")
    /\ prompt' = Assigned(files[file], "prompt", "-> ")
    /\ UNCHANGED <<files, width, TEL_NAWS, auto_term, pr, step, saved>>

\* Mutant: the file is looked for under the name as typed.
load_player_typed(t) == Read(t)

\* get_login: whatever the case of what is typed, the file read is the one in lower case.
load_player(t) == Read(LowerCase[t])

\* SOCK_read_post_sb: a width that is out of range is taken for 80.
NAWS(x) ==
    /\ step = "idle"
    /\ width' = IF x < 10 \/ x > 255 THEN 80 ELSE x
    /\ TEL_NAWS' = TRUE
    /\ flags' = IF in THEN (flags \ {"CWW"}) \cup {"WW"} ELSE flags
    /\ UNCHANGED <<files, in, name, title, prompt, auto_term, pr, step, saved>>

\* run_command, before and after the command: the prompt of a player with
\* WRAP_PROMPT is empty while it runs.
run_command ==
    /\ in /\ step = "idle" /\ step' = "command"
    /\ \/ "WRAP_PROMPT" \in flags /\ pr' = prompt /\ prompt' = Empty
       \/ "WRAP_PROMPT" \notin flags /\ UNCHANGED <<pr, prompt>>
    /\ UNCHANGED <<files, in, name, flags, title, width, TEL_NAWS, auto_term, saved>>

Return ==
    /\ step = "done" /\ step' = "idle"
    /\ \/ pr # NULL /\ prompt' = pr /\ pr' = NULL
       \/ pr = NULL /\ UNCHANGED <<pr, prompt>>
    /\ UNCHANGED <<files, in, name, flags, title, width, TEL_NAWS, auto_term, saved>>

-----------------------------------------------------------------------------
(* The commands.                                                           *)

Running == step = "command" /\ step' = "done" /\ UNCHANGED <<in, name, title, prompt, pr>>

\* terminal toggle wrap_prompt, and terminal auto-set.
term_toggle ==
    /\ Running
    /\ \/ flags' = flags \cup {"AUTO_TERM"} /\ auto_term' = TRUE
       \/ /\ flags' = (flags \ {"WRAP_PROMPT"}) \cup ({"WRAP_PROMPT"} \ flags)
          /\ UNCHANGED auto_term
    /\ UNCHANGED <<files, width, TEL_NAWS, saved>>

\* Mutant: the width is set before it is checked.
term_set_ww_early(x) ==
    /\ Running
    /\ width' = x
    /\ \/ x \in 10..255 /\ flags' = flags \cup {"WW", "CWW"} /\ TEL_NAWS' = FALSE
       \/ x \notin 10..255 /\ UNCHANGED <<flags, TEL_NAWS>>
    /\ UNCHANGED <<files, auto_term, saved>>

\* terminal set ww n.
term_set_ww(x) ==
    /\ Running
    /\ \/ x \in 10..255 /\ flags' = flags \cup {"WW", "CWW"} /\ width' = x /\ TEL_NAWS' = FALSE
       \/ x \notin 10..255 /\ UNCHANGED <<flags, width, TEL_NAWS>>
    /\ UNCHANGED <<files, auto_term, saved>>

\* terminal set ww off.
term_set_off ==
    /\ Running
    /\ flags' = flags \ {"WW", "CWW"}
    /\ UNCHANGED <<files, width, TEL_NAWS, auto_term, saved>>

\* timer_click ends a detection.
timer_click ==
    /\ auto_term /\ auto_term' = FALSE /\ flags' = flags \ {"AUTO_TERM"}
    /\ UNCHANGED <<files, in, name, title, prompt, width, TEL_NAWS, pr, step, saved>>

\* save: a file named by lower_name, if it has a name and fopen succeeds.  What
\* fprintf writes may not all reach the disk, and nothing tells.
comm_save ==
    /\ Running
    /\ \/ /\ name # Empty
          /\ files' = [files EXCEPT ![name] = save_player]
          /\ saved' = [saved EXCEPT ![name] =
               [flags |-> flags, title |-> title, prompt |-> IF pr = NULL THEN prompt ELSE pr]]
       \/ /\ name # Empty
          /\ \E n \in 0..Len(save_player) - 1 :
               files' = [files EXCEPT ![name] = SubSeq(save_player, 1, n)]
          /\ saved' = [saved EXCEPT ![name] = NULL]
       \/ UNCHANGED <<files, saved>>
    /\ UNCHANGED <<flags, width, TEL_NAWS, auto_term>>

\* Any other command.
Other == Running /\ UNCHANGED <<files, flags, width, TEL_NAWS, auto_term, saved>>

\* He leaves; the next session's player_init.
Leave ==
    /\ in /\ step = "idle"
    /\ in' = FALSE /\ name' = Empty /\ flags' = {} /\ title' = "newbie" /\ prompt' = "-> "
    /\ width' = 80 /\ TEL_NAWS' = FALSE /\ auto_term' = FALSE
    /\ UNCHANGED <<files, pr, step, saved>>

Next ==
    \/ run_command \/ Return \/ term_toggle \/ term_set_off \/ timer_click \/ comm_save
    \/ Other \/ Leave
    \/ \E x \in Width : NAWS(x) \/ term_set_ww(x)
    \/ \E t \in Name : load_player(t)
    \/ \E n \in Name, r \in Handmade \cup {NULL} : Edit(n, r)

Spec == Init /\ [][Next]_vars

-----------------------------------------------------------------------------
(* Properties.                                                             *)

\* "between 10 through 255", also when the client tells (src/modules/stat.c:294).
TypeOK ==
    /\ in \in BOOLEAN /\ TEL_NAWS \in BOOLEAN /\ auto_term \in BOOLEAN
    /\ name \in Name \cup {Empty} /\ flags \subseteq Flag
    /\ title \in Title /\ prompt \in Prompt /\ pr \in Prompt \cup {NULL}
    /\ width \in 10..255
    /\ step \in {"idle", "command", "done"}
    /\ DOMAIN files = Name /\ DOMAIN saved = Name

\* What a player saved is what he gets when he types his name, in any case: reading undoes
\* writing for all settings he can have, those of a cut or damaged record included, and what
\* anybody saves in another case, into another file, does not touch it (src/entity.c:211).
\* But for the prompt, if WRAP_PROMPT was on; and but for names his record spells with a
\* capital: save goes by that spelling (src/login.c:214), and no login reads its file.
SurvivesLogin ==
    [][\A t, n \in Name :
           load_player(t) /\ LowerCase[t] = LowerCase[n] /\ saved[n] # NULL /\ LowerCase[n] = n =>
               /\ name' = n
               /\ flags' = saved[n].flags \cup {"WW"}
               /\ title' = saved[n].title
               /\ "WRAP_PROMPT" \notin saved[n].flags => prompt' = saved[n].prompt]_vars

\* Nobody is left without a prompt: the one put aside during a command comes back
\* after it, and the empty one that save finds meanwhile is not read back
\* (src/parse.c:89, src/split.c:30).
PromptThere == step = "idle" => prompt # Empty
=============================================================================
