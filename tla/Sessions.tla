------------------------------ MODULE Sessions ------------------------------
(***************************************************************************)
(* What the program promises about sessions, with no main loop, no list    *)
(* and no dialogue in sight.  A connection is a visitor, or is turned away *)
(* at the door.  A visitor may become a member under a name no other       *)
(* member has.  Whoever is leaving does nothing but leave.                 *)
(***************************************************************************)
EXTENDS Integers, FiniteSets

CONSTANTS
    Player, Interface, Key,     \* Key: names that are told apart
    Seats                       \* [Interface -> Int], whom an interface serves

VARIABLES
    state,          \* of each player
    line,           \* the interface each present player came by
    key             \* the name each member is in under

Nobody == "nobody"

Served(i) == {p \in Player : state[p] \in {"visitor", "member"} /\ line[p] = i}

SInit ==
    /\ state = [p \in Player |-> "absent"]
    /\ line = [p \in Player |-> 1]
    /\ key = [p \in Player |-> Nobody]

\* Room for one more is a promise about who is served, not about who is there.
Arrive(p, i) ==
    /\ state[p] = "absent"
    /\ Cardinality(Served(i)) < Seats[i]
    /\ state' = [state EXCEPT ![p] = "visitor"]
    /\ line' = [line EXCEPT ![p] = i]
    /\ UNCHANGED key

TurnAway(p, i) ==
    /\ state[p] = "absent"
    /\ state' = [state EXCEPT ![p] = "leaving"]
    /\ line' = [line EXCEPT ![p] = i]
    /\ UNCHANGED key

Join(p, k) ==
    /\ state[p] = "visitor"
    /\ \A q \in Player : state[q] = "member" => key[q] # k
    /\ state' = [state EXCEPT ![p] = "member"]
    /\ key' = [key EXCEPT ![p] = k]
    /\ UNCHANGED line

\* admin, and names lower_name cannot hold, join without being looked for.
JoinUnchecked(p) ==
    /\ state[p] = "visitor"
    /\ state' = [state EXCEPT ![p] = "member"]
    /\ UNCHANGED <<line, key>>

Leave(p) ==
    /\ state[p] \in {"visitor", "member"}
    /\ state' = [state EXCEPT ![p] = "leaving"]
    /\ key' = [key EXCEPT ![p] = Nobody]
    /\ UNCHANGED line

Depart(p) ==
    /\ state[p] = "leaving"
    /\ state' = [state EXCEPT ![p] = "absent"]
    /\ line' = [line EXCEPT ![p] = 1]
    /\ UNCHANGED key

SNext ==
    \E p \in Player :
        \/ \E i \in Interface : Arrive(p, i) \/ TurnAway(p, i)
        \/ \E k \in Key : Join(p, k)
        \/ JoinUnchecked(p) \/ Leave(p) \/ Depart(p)

svars == <<state, line, key>>

\* What a session may do, and that whoever is leaving does leave.
SSafety == SInit /\ [][SNext]_svars
SSpec == SSafety /\ \A p \in Player : WF_svars(Depart(p))
=============================================================================
