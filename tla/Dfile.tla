------------------------------- MODULE Dfile -------------------------------
(***************************************************************************)
(* The files whose text jcd keeps in memory (src/dfile.c): those it needs, *)
(* loaded at start-up, and what players load, unload and reload with dfile *)
(* (src/modules/commands.c).  The files on disk change at any time, also   *)
(* between two files of a reload.                                          *)
(***************************************************************************)
EXTENDS Integers, Sequences, FiniteSets, SequencesExt

CONSTANTS
    dfile_hardload, \* the system's files, in order
    File,           \* the names of files
    Version,        \* what a file on disk may say
    Block,          \* the memory for the texts
    Nil

System == ToSet(dfile_hardload)

\* What a block says if read failed, since -1 is no less than an unsigned size.
Empty == "empty"

ASSUME DfileAssumption ==
    /\ dfile_hardload \in Seq(File) /\ Nil \notin Version \cup {Empty}

VARIABLES
    disk,           \* what each file says; Nil: there is none
    l_dfile,        \* DFILEs in the order of the list: [name, system, data]
    text,           \* what a block of memory holds; Nil: it is not allocated
    doing,          \* "startup", "idle", "reload", "told"
    at,             \* start-up's next file, reload's next node
    count,          \* reload's: files it has read again
    leaked,         \* history: blocks a short read has left behind
    reread,         \* history: blocks this reload has filled
    unread          \* history: system files that could not be read when last tried

memory == <<l_dfile, text, leaked, unread>>
dvars == <<disk, memory, doing, at, count, reread>>

Free == {b \in Block : text[b] = Nil}

DInit ==
    /\ disk \in [File -> Version \cup {Nil}]
    /\ l_dfile = << >> /\ text = [b \in Block |-> Nil]
    /\ doing = "startup" /\ at = 1 /\ count = 0
    /\ leaked = {} /\ reread = {} /\ unread = {}

\* Someone changes, adds or removes a file.
Edit(f, v) ==
    /\ disk' = [disk EXCEPT ![f] = v]
    /\ UNCHANGED <<memory, doing, at, count, reread>>

-----------------------------------------------------------------------------
(* load_dfile, given what memory holds (t) once the old text is freed.     *)

\* open fails: no file, or no descriptor left.
CannotOpen(t) == text' = t /\ UNCHANGED leaked

\* Fewer bytes than lseek promised: the block is allocated, and forgotten.
ShortRead(t, b) ==
    /\ t[b] = Nil
    /\ text' = [t EXCEPT ![b] = Empty]
    /\ leaked' = leaked \cup {b}

ReadInto(t, b, f) ==
    /\ t[b] = Nil /\ disk[f] # Nil
    /\ \E v \in {disk[f], Empty} : text' = [t EXCEPT ![b] = v]
    /\ UNCHANGED leaked

Fails(t, f) == CannotOpen(t) \/ (disk[f] # Nil /\ \E b \in Block : ShortRead(t, b))

\* dfile_create; a failure takes the entry off the list again.
dfile_create(f, system) ==
    \/ \E b \in Block :
         /\ ReadInto(text, b, f)
         /\ l_dfile' = Append(l_dfile, [name |-> f, system |-> system, data |-> b])
         /\ unread' = unread \ (IF system THEN {f} ELSE {})
    \/ /\ Fails(text, f)
       /\ UNCHANGED l_dfile
       /\ unread' = unread \cup (IF system THEN {f} ELSE {})

init_dfiles ==
    /\ doing = "startup"
    /\ \/ /\ at <= Len(dfile_hardload)
          /\ dfile_create(dfile_hardload[at], TRUE)
          /\ at' = at + 1 /\ UNCHANGED doing
       \/ /\ at > Len(dfile_hardload)
          /\ doing' = "idle" /\ at' = 1 /\ UNCHANGED memory
    /\ UNCHANGED <<disk, count, reread>>

-----------------------------------------------------------------------------
(* comm_dfile.                                                             *)

\* load: stat finds the file, or nothing happens.
load(f) ==
    /\ doing = "idle" /\ disk[f] # Nil
    /\ dfile_create(f, FALSE)
    /\ UNCHANGED <<disk, doing, at, count, reread>>

First(f) == CHOOSE i \in DOMAIN l_dfile :
                l_dfile[i].name = f /\ \A j \in 1..i - 1 : l_dfile[j].name # f

\* Mutant: protected files are not looked for.
unload_any(f) ==
    /\ doing = "idle" /\ f \in {l_dfile[i].name : i \in DOMAIN l_dfile}
    /\ l_dfile' = RemoveAt(l_dfile, First(f))
    /\ text' = [text EXCEPT ![l_dfile[First(f)].data] = Nil]
    /\ UNCHANGED <<disk, doing, at, count, leaked, reread, unread>>

\* Mutant: the text is not given back.
unload_entry(f) ==
    /\ doing = "idle" /\ f \in {l_dfile[i].name : i \in DOMAIN l_dfile}
    /\ ~l_dfile[First(f)].system
    /\ l_dfile' = RemoveAt(l_dfile, First(f))
    /\ UNCHANGED <<disk, text, doing, at, count, leaked, reread, unread>>

\* unload: the first of the name, which must not be the system's.
unload(f) ==
    /\ doing = "idle" /\ f \in {l_dfile[i].name : i \in DOMAIN l_dfile}
    /\ ~l_dfile[First(f)].system
    /\ l_dfile' = RemoveAt(l_dfile, First(f))
    /\ text' = [text EXCEPT ![l_dfile[First(f)].data] = Nil]
    /\ UNCHANGED <<disk, doing, at, count, leaked, reread, unread>>

reload ==
    /\ doing = "idle"
    /\ doing' = "reload" /\ at' = 1 /\ count' = 0 /\ reread' = {}
    /\ UNCHANGED <<disk, memory>>

Names(i) == IF l_dfile[i].system THEN {l_dfile[i].name} ELSE {}
Given(i) == [text EXCEPT ![l_dfile[i].data] = Nil]

\* One turn of the loop: FREE(df->data), and load_dfile into a block of the moment.
ReloadFile ==
    /\ doing = "reload" /\ at <= Len(l_dfile)
    /\ \E b \in Block :
         /\ ReadInto(Given(at), b, l_dfile[at].name)
         /\ l_dfile' = [l_dfile EXCEPT ![at].data = b]
         /\ reread' = reread \cup {b}
    /\ unread' = unread \ Names(at)
    /\ at' = at + 1 /\ count' = count + 1
    /\ UNCHANGED <<disk, doing>>

\* Mutant: the loop goes on behind the node that follows.
ReloadDropSkipping ==
    /\ doing = "reload" /\ at <= Len(l_dfile)
    /\ Fails(Given(at), l_dfile[at].name)
    /\ l_dfile' = RemoveAt(l_dfile, at)
    /\ unread' = unread \cup Names(at)
    /\ at' = at + 1
    /\ UNCHANGED <<disk, doing, count, reread>>

\* The other: the entry, protected or not, leaves the list.  scan->next is read from
\* the freed node, where this build's free has not written over it.
ReloadDrop ==
    /\ doing = "reload" /\ at <= Len(l_dfile)
    /\ Fails(Given(at), l_dfile[at].name)
    /\ l_dfile' = RemoveAt(l_dfile, at)
    /\ unread' = unread \cup Names(at)
    /\ UNCHANGED <<disk, doing, at, count, reread>>

\* "Reloaded %i files."
ReloadEnd ==
    /\ \/ doing = "reload" /\ at > Len(l_dfile) /\ doing' = "told" /\ UNCHANGED <<count, reread>>
       \/ doing = "told" /\ doing' = "idle" /\ count' = 0 /\ reread' = {}
    /\ at' = 1
    /\ UNCHANGED <<disk, memory>>

DNext ==
    \/ init_dfiles \/ reload \/ ReloadFile \/ ReloadDrop \/ ReloadEnd
    \/ \E f \in File : load(f) \/ unload(f)
    \/ \E f \in File, v \in Version \cup {Nil} : Edit(f, v)

DSpec == DInit /\ [][DNext]_dvars

-----------------------------------------------------------------------------
(* Properties.                                                             *)

\* dfile_data: what a message of the program says; Nil, which prints nothing, when
\* it is not on the list.
dfile_data(f) == IF f \in {l_dfile[i].name : i \in DOMAIN l_dfile}
                 THEN text[l_dfile[First(f)].data] ELSE Nil

DTypeOK ==
    /\ disk \in [File -> Version \cup {Nil}]
    /\ l_dfile \in Seq([name : File, system : BOOLEAN, data : Block])
    /\ text \in [Block -> Version \cup {Empty, Nil}]
    /\ doing \in {"startup", "idle", "reload", "told"}
    /\ at \in 1..Len(l_dfile) + Len(dfile_hardload) + 1
    /\ count \in 0..Len(l_dfile)
    /\ leaked \subseteq Block /\ reread \subseteq Block /\ unread \subseteq System

\* A file's text is its own, allocated, and nothing else is allocated but what short
\* reads have leaked (src/dfile.c:79): nobody is told freed memory or another's text.
DataOwned ==
    LET owned == {l_dfile[i].data : i \in DOMAIN l_dfile}
    IN  /\ DTypeOK
        /\ \A i, j \in DOMAIN l_dfile : l_dfile[i].data = l_dfile[j].data => i = j
        /\ owned \cap leaked = {}
        /\ owned \cup leaked = Block \ Free

\* Whatever players load and unload, also under a system file's name, the program's
\* messages are there but for those it failed to read when it last tried; and it only
\* tries at start-up and in a reload (src/modules/commands.c:361, src/dfile.c:105).
SystemServed ==
    doing # "startup" => \A f \in System \ unread : dfile_data(f) # Nil

\* When a player is told "Reloaded n files" the list holds n files and every one of
\* them was read in this reload, whichever were dropped (src/modules/commands.c:330).
ReloadReachesAll ==
    doing = "told" => /\ count = Len(l_dfile)
                   /\ {l_dfile[i].data : i \in DOMAIN l_dfile} = reread
=============================================================================
