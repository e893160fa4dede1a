---------------------------- MODULE RequestRace ----------------------------
(***************************************************************************)
(* The request list under the timer.  get_handle (src/login.c) queues a    *)
(* request with list_add in the main program; SIGALRM can interrupt it     *)
(* between any two of its statements, and timer_click (src/signals.c)      *)
(* then removes and frees every request whose timeout has run out.         *)
(*                                                                         *)
(* The handler runs to completion before the main program goes on, so it   *)
(* is one action.  Which request has timed out is left open.  Memory that  *)
(* was freed keeps its contents until malloc gives it out again: one of    *)
(* the outcomes a use after free can have, and the mildest one.  Alarms    *)
(* while a half-initialised node is reachable, when the handler would      *)
(* follow an uninitialised pointer, are left out: they only make matters   *)
(* worse.                                                                  *)
(***************************************************************************)
EXTENDS JcdList, FiniteSets

CONSTANT Ban            \* main's own entry, whose timeout is REQ_NEVER; in Data

VARIABLE accepted       \* requests queued and not yet timed out

raceVars == <<vars, accepted>>

\* The cells a walk from l->head meets within k steps, and all of them.
Visited[k \in 0..Cardinality(Cell)] ==
    IF k = 0 THEN {head}
    ELSE Visited[k - 1] \cup {next[c] : c \in Visited[k - 1] \ {NULL}}

Queue == Visited[Cardinality(Cell)] \ {NULL}

\* main queues the ban before it starts the timer.
RaceInit ==
    \E c \in Cell :
        /\ head = c
        /\ next \in {f \in [Cell -> Pointer] : f[c] = NULL}
        /\ prev \in {f \in [Cell -> Pointer] : f[c] = NULL}
        /\ data \in {f \in [Cell -> Data] : f[c] = Ban}
        /\ live = {c} /\ nodes = 1 /\ order = <<c>>
        /\ pc = "idle"
        /\ n = c /\ scan = NULL /\ out = NULL /\ arg = Ban
        /\ accepted = {Ban}

\* list_add returns: the player is told the request is queued.
QueueRequest ==
    \/ (\E c \in Cell, d \in Data : AddAlloc(c, d)) /\ UNCHANGED accepted
    \/ (AddFirst \/ AddWalk \/ AddLink \/ AddClear) /\ UNCHANGED accepted
    \/ AddBack /\ accepted' = accepted \cup {data[n]}

\* timer_click finds a request whose timeout is 0: LIST_REMOVE, FREE.
Drop(c) ==
    /\ pc \notin {"clear", "back"}
    /\ c \in Queue
    /\ data[c] # Ban
    /\ IF c = head
       THEN head' = next[c] /\ UNCHANGED <<next, prev>>
       ELSE /\ next' = [next EXCEPT ![prev[c]] = next[c]]
            /\ prev' = IF next[c] = NULL THEN prev
                       ELSE [prev EXCEPT ![next[c]] = prev[c]]
            /\ UNCHANGED head
    /\ live' = live \ {c}
    /\ nodes' = nodes - 1
    /\ order' = SelectSeq(order, LAMBDA x : x # c)
    /\ accepted' = accepted \ {data[c]}
    /\ UNCHANGED <<data, pc, n, scan, out, arg>>

RaceNext == QueueRequest \/ \E c \in Cell : Drop(c)

RaceSpec == RaceInit /\ [][RaceNext]_raceVars

-----------------------------------------------------------------------------

\* lib/files/request, line 2, tells the player "Your request has been submitted
\* and queued": between calls, every request so acknowledged and not timed out
\* is still to be found from l_request->head.
AcknowledgedIsQueued ==
    pc = "idle" => \A d \in accepted : \E c \in Queue : data[c] = d
=============================================================================
