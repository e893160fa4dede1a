---------------------------- MODULE AbstractList ----------------------------
(***************************************************************************)
(* What src/list.c promises its callers, with no pointers in sight.  One   *)
(* call is in progress at a time.  list_add(d) puts d after everything     *)
(* added before it; list_remove(d) takes d out, wherever it is, disturbs   *)
(* nothing else, and does nothing when d is not there.                     *)
(***************************************************************************)
EXTENDS Naturals, Sequences, SequencesExt

CONSTANT Data       \* what the callers link in: players, requests, dfiles ...

VARIABLES
    seq,            \* the data in the order they were added
    call            \* the call in progress: its operation, its argument, and
                    \* whether it has had its effect

NoCall == [op |-> "none"]
Calling(op, d, done) == [op |-> op, d |-> d, done |-> done]

Holds(s, d) == \E i \in DOMAIN s : s[i] = d

AInit == seq = << >> /\ call = NoCall

\* Every caller links in a structure it has just allocated.
ACallAdd(d) ==
    /\ call = NoCall
    /\ ~Holds(seq, d)
    /\ call' = Calling("add", d, FALSE)
    /\ UNCHANGED seq

ACallRemove(d) ==
    /\ call = NoCall
    /\ call' = Calling("remove", d, FALSE)
    /\ UNCHANGED seq

AAdd(d) ==
    /\ call = Calling("add", d, FALSE)
    /\ seq' = Append(seq, d)
    /\ call' = Calling("add", d, TRUE)

ARemove(d) ==
    /\ call = Calling("remove", d, FALSE)
    /\ \E i \in DOMAIN seq : seq[i] = d /\ seq' = RemoveAt(seq, i)
    /\ call' = Calling("remove", d, TRUE)

AReturn(d) ==
    /\ \/ \E op \in {"add", "remove"} : call = Calling(op, d, TRUE)
       \/ call = Calling("remove", d, FALSE) /\ ~Holds(seq, d)
    /\ call' = NoCall
    /\ UNCHANGED seq

ANext == \E d \in Data : \/ ACallAdd(d) \/ ACallRemove(d)
                         \/ AAdd(d) \/ ARemove(d) \/ AReturn(d)

ASpec == AInit /\ [][ANext]_<<seq, call>>
=============================================================================
