------------------------------- MODULE Syslog -------------------------------
(***************************************************************************)
(* write_log (src/syslog.c): a message like the last one is only counted,  *)
(* and the count is written in front of the next one.  The timer logs too, *)
(* between any two statements; its call runs to its end.                   *)
(***************************************************************************)
EXTENDS Integers

CONSTANTS
    Message,        \* the program's texts, up to the case of their letters
    Marks,          \* the timer's: "-- MARK --", requests dropped
    MaxMessages,    \* bounds the calls
    NULL

ASSUME MessageAssumption == MaxMessages \in Nat /\ Message \cap Marks = {} /\ NULL \notin Message \cup Marks

VARIABLES
    buffer, repeated,   \* the last message, the global count
    pc, str,            \* the next statement of the program's call, and its message
    held,               \* the count it has printed, which fclose writes
    of,                 \* history: the messages that repeated and held count
    tail,               \* history: the last message in the file
    told, filed, lost,  \* history: calls; messages the file tells of; messages it never got
    crossed, misled     \* history: an alarm within a call; a count behind another message

call == <<pc, str, held>>
history == <<of, tail, told, filed, lost, crossed, misled>>
lvars == <<buffer, repeated, call, history>>

\* What the file says after a call of message m with a count of n.
Written(m, n) ==
    /\ tail' = m
    /\ filed' = filed + n + 1
    /\ misled' = (misled \/ (n > 0 /\ of # {tail}))
    /\ of' = {}

\* What it leaves when the disk is full: fprintf and fclose fail, and nobody looks.
Unwritten(n) ==
    /\ lost' = lost + n + 1
    /\ of' = {}
    /\ UNCHANGED <<tail, filed, misled>>

-----------------------------------------------------------------------------

vmlog(m) ==
    /\ pc = "idle" /\ told < MaxMessages
    /\ pc' = "compare" /\ str' = m /\ told' = told + 1
    /\ UNCHANGED <<buffer, repeated, held, of, tail, filed, lost, crossed, misled>>

\* Mutant: what is compared is not what was written.
compare_uncopied ==
    /\ pc = "compare"
    /\ \/ /\ str = buffer
          /\ repeated' = repeated + 1 /\ of' = of \cup {str} /\ pc' = "idle"
          /\ UNCHANGED buffer
       \/ /\ str # buffer
          /\ pc' = "open" /\ buffer' = IF buffer = NULL THEN str ELSE buffer
          /\ UNCHANGED <<repeated, of>>
    /\ UNCHANGED <<str, held, tail, told, filed, lost, crossed, misled>>

compare ==
    /\ pc = "compare"
    /\ \/ /\ str = buffer
          /\ repeated' = repeated + 1 /\ of' = of \cup {str} /\ pc' = "idle"
          /\ UNCHANGED buffer
       \/ /\ str # buffer
          /\ pc' = "open" /\ buffer' = str
          /\ UNCHANGED <<repeated, of>>
    /\ UNCHANGED <<str, held, tail, told, filed, lost, crossed, misled>>

open ==
    /\ pc = "open"
    /\ \/ pc' = "idle" /\ lost' = lost + 1 /\ UNCHANGED held
       \/ pc' = "clear" /\ held' = repeated /\ UNCHANGED lost
    /\ UNCHANGED <<buffer, repeated, str, of, tail, told, filed, crossed, misled>>

\* Mutant: the count is kept.
clear_kept == pc = "clear" /\ pc' = "write" /\ UNCHANGED <<buffer, repeated, str, held, history>>

clear ==
    /\ pc = "clear" /\ pc' = "write"
    /\ repeated' = IF held > 0 THEN 0 ELSE repeated
    /\ UNCHANGED <<buffer, str, held, history>>

write ==
    /\ pc = "write" /\ pc' = "idle" /\ held' = 0
    /\ \/ Written(str, held) /\ UNCHANGED lost
       \/ Unwritten(held)
    /\ UNCHANGED <<buffer, repeated, str, told, crossed>>

timer_vmlog(m) ==
    /\ told < MaxMessages /\ told' = told + 1
    /\ crossed' = (crossed \/ pc # "idle")
    /\ \/ /\ m = buffer
          /\ repeated' = repeated + 1 /\ of' = of \cup {m}
          /\ UNCHANGED <<buffer, tail, filed, lost, misled>>
       \/ /\ m # buffer /\ buffer' = m /\ lost' = lost + 1
          /\ UNCHANGED <<repeated, of, tail, filed, misled>>
       \/ /\ m # buffer /\ buffer' = m /\ repeated' = 0
          /\ \/ Written(m, repeated) /\ UNCHANGED lost
             \/ Unwritten(repeated)
    /\ UNCHANGED call

LInit ==
    /\ buffer = NULL /\ repeated = 0
    /\ pc = "idle" /\ str = NULL /\ held = 0
    /\ of = {} /\ tail = NULL /\ told = 0 /\ filed = 0 /\ lost = 0
    /\ crossed = FALSE /\ misled = FALSE

LNext ==
    \/ compare \/ open \/ clear \/ write
    \/ \E m \in Message : vmlog(m)
    \/ \E m \in Marks : timer_vmlog(m)

LSpec == LInit /\ [][LNext]_lvars

-----------------------------------------------------------------------------
(* Properties.                                                             *)

\* The file and the count tell of every message, in how many were logged, but for those
\* in hand, with the ones they counted, when the file could not be opened or written, and
\* unless an alarm came inside a call (src/syslog.c:51).
Accounted == pc = "idle" /\ ~crossed => told = filed + repeated + lost

\* A count stands behind the message it counts, as long as the file can be opened and
\* written and no alarm comes inside a call (src/syslog.c:57).
RepeatsLast == ~crossed /\ lost = 0 => ~misled
=============================================================================
