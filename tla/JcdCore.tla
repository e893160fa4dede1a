------------------------------ MODULE JcdCore ------------------------------
(***************************************************************************)
(* The main loop of src/core.c and everything that decides who is on the   *)
(* program: player_connect and player_disconnect (src/player.c), the login *)
(* dialogue get_login and get_handle (src/login.c), the commands that end  *)
(* or save a session, and the request list, which timer_click              *)
(* (src/signals.c) counts down behind the main loop's back.                *)
(*                                                                         *)
(* The program is one thread.  A step here is one turn of a loop of        *)
(* jcd_core_loop, or one line of a player's packet run through its         *)
(* handler.  SIGALRM may come between any two steps (RequestRace looks     *)
(* inside them).  l_player is the sequence that JcdList implements; the    *)
(* order of l_request decides nothing here and is left out.                *)
(***************************************************************************)
EXTENDS Integers, FiniteSets, Sequences, SequencesExt

CONSTANTS
    Player,         \* memory for player structures: bounds who can be on
    NULL,
    Interfaces,     \* l_interface holds interfaces 1..Interfaces
    Connections0,   \* what interface_init leaves in i->connections: anything
    Limit,          \* 99 in player_connect
    Site, BannedSite,               \* addresses, and those main's ban covers
    Name,           \* names bad_name has no fault with
    Faulty,         \* lines it finds a fault with
    LowerCase,      \* [Name -> Name], lower_case
    Stored,         \* [Name -> SUBSET Name], what strncpy(lower_name, name, 19)
                    \* may leave in lower_name; see Short
    Admin, Banned,  \* "admin"; the name main bans, "scott"
    Quit, Who, New, Save,           \* the words with a meaning
    InitFiles,      \* lib/players as the program may find it: [Name -> record]
    Request,        \* memory for requests: bounds how many can be queued
    REQ_TWO_DAYS,   \* the clicks a request is held for
    MaxBatch        \* bounds the lines in one packet

NoName == ""        \* also the empty line, and no file
Nameless == "-"     \* in files: a record that does not tell a name
Interface == 1..Interfaces
Line == Name \cup Faulty \cup {NoName}
M_LOST == 1
M_DISCONNECT == 2

\* strcasecmp(a, b) = 0
Same(a, b) == a \in Name /\ b \in Name /\ LowerCase[a] = LowerCase[b]

\* Names of fewer than 19 letters, which lower_name holds whole.  bad_name lets
\* 20 letters pass; strncpy then leaves no terminator, and memory that was never
\* initialised follows.
Short(n) == Stored[n] = {n}

ASSUME NullAssumption == NULL \notin Player
ASSUME PlayerAssumption == IsFiniteSet(Player)
ASSUME InterfaceAssumption ==
    Interfaces \in Nat \ {0} /\ Connections0 \in [Interface -> Int] /\ Limit \in Nat
ASSUME NameAssumption ==
    /\ {NoName, Nameless} \cap (Name \cup Faulty) = {} /\ Name \cap Faulty = {}
    /\ LowerCase \in [Name -> Name]
    /\ \A n \in Name : LowerCase[LowerCase[n]] = LowerCase[n]
    /\ \A w \in {Admin, Banned, Quit, Who, New, Save} \cap Name : LowerCase[w] = w
    /\ Banned # Admin
ASSUME StoredAssumption ==
    /\ Stored \in [Name -> SUBSET Name]
    /\ \A n \in Name : Short(n) <=> Short(LowerCase[n])
    /\ \A n \in Name : ~Short(n) => \A m \in Stored[n] : ~Short(m)
    /\ \A w \in {Admin, Banned} \cap Name : Short(w)
ASSUME SiteAssumption == Site # {} /\ BannedSite \subseteq Site
\* A record tells the name it is filed under, in some mixture of cases, or none.
ASSUME FilesAssumption ==
    /\ InitFiles \subseteq [Name -> Name \cup {NoName, Nameless}]
    /\ \A f \in InitFiles : \A n \in Name : f[n] \in Name => Same(f[n], n)
ASSUME ClickAssumption == REQ_TWO_DAYS \in Nat /\ MaxBatch \in Nat \ {0}

VARIABLES
    l_player,       \* the players linked, oldest first
    player,         \* the structures
    connections,    \* i->connections
    phase,          \* the loop of jcd_core_loop being run
    scan, tmp,      \* its pointers into l_player
    door,           \* its pointer into l_interface
    left,           \* lines of scan's packet still to handle
    l_request,      \* the login requests queued; main's ban is not among them
    files           \* lib/players: the name in each record

loop == <<phase, scan, tmp, door, left>>
vars == <<l_player, player, connections, loop, l_request, files>>

PlayerRec == [fd : BOOLEAN,         \* p->handle.fd # -1
              mode : {0, M_LOST, M_DISCONNECT},
              func : {"garbage", "get_login", "get_handle", "none"},
              name : Name \cup {NoName}, lower_name : Name \cup {NoName},
              interface : Interface, site : Site]

RequestRec == [name : Name \cup {NoName}, timeout : 0..REQ_TWO_DAYS]
NoRequest == [name |-> NoName, timeout |-> 0]

Structure(i, fd, site, mode, func) ==
    [fd |-> fd, mode |-> mode, func |-> func, name |-> NoName, lower_name |-> NoName,
     interface |-> i, site |-> site]

\* A structure nobody uses: player_init gives every other field its value anew,
\* but not func.
Blank == Structure(1, FALSE, CHOOSE s \in Site : TRUE, 0, "garbage")

Online == ToSet(l_player)
First == IF l_player = << >> THEN NULL ELSE l_player[1]
Index(p) == CHOOSE k \in DOMAIN l_player : l_player[k] = p
NextOf(p) == IF Index(p) = Len(l_player) THEN NULL ELSE l_player[Index(p) + 1]

Init ==
    /\ l_player = << >>
    /\ player = [p \in Player |-> Blank]
    /\ connections = Connections0
    /\ phase = "sweep" /\ scan = NULL /\ tmp = NULL /\ door = 1 /\ left = 0
    /\ l_request = [r \in Request |-> NoRequest]
    /\ files \in InitFiles

-----------------------------------------------------------------------------
(* The sweep: lost players go, the others are put in the fd set. *)

Gone(p) == ~player[p].fd \/ player[p].mode \in {M_LOST, M_DISCONNECT}

player_disconnect(p) ==
    /\ l_player' = RemoveAt(l_player, Index(p))
    /\ player' = [player EXCEPT ![p] = Blank]

SweepKeep ==
    /\ phase = "sweep" /\ scan # NULL
    /\ ~Gone(scan)
    /\ scan' = NextOf(scan)
    /\ UNCHANGED <<l_player, player, connections, phase, tmp, door, left, l_request, files>>

\* Mutant: the next node is looked up after the player is unlinked and freed.
SweepDropThenNext ==
    /\ phase = "sweep" /\ scan # NULL
    /\ Gone(scan)
    /\ scan' = scan
    /\ connections' = [connections EXCEPT ![player[scan].interface] = @ - 1]
    /\ player_disconnect(scan)
    /\ UNCHANGED <<phase, tmp, door, left, l_request, files>>

SweepDrop ==
    /\ phase = "sweep" /\ scan # NULL
    /\ Gone(scan)
    /\ scan' = NextOf(scan)
    /\ connections' = [connections EXCEPT ![player[scan].interface] = @ - 1]
    /\ player_disconnect(scan)
    /\ UNCHANGED <<phase, tmp, door, left, l_request, files>>

\* select times out or is interrupted: the loop starts again.
SelectNothing ==
    /\ phase = "sweep" /\ scan = NULL
    /\ scan' = First
    /\ UNCHANGED <<l_player, player, connections, phase, tmp, door, left, l_request, files>>

\* Something is ready; what, is decided when the loops below come to it.
SelectReady ==
    /\ phase = "sweep" /\ scan = NULL
    /\ phase' = "input" /\ scan' = First
    /\ UNCHANGED <<l_player, player, connections, tmp, door, left, l_request, files>>

-----------------------------------------------------------------------------
(* Input: one packet of each player who is ready. *)

InputSkip ==
    /\ phase = "input" /\ scan # NULL /\ left = 0
    /\ scan' = NextOf(scan)
    /\ UNCHANGED <<l_player, player, connections, phase, tmp, door, left, l_request, files>>

\* SOCK_Handle_Input finds nothing to read: DISCONNECT.
InputHangup ==
    /\ phase = "input" /\ scan # NULL /\ left = 0
    /\ player' = [player EXCEPT ![scan].mode = M_DISCONNECT]
    /\ scan' = NextOf(scan)
    /\ UNCHANGED <<l_player, connections, phase, tmp, door, left, l_request, files>>

InputPacket ==
    /\ phase = "input" /\ scan # NULL /\ left = 0
    /\ left' \in 1..MaxBatch
    /\ tmp' = NextOf(scan)
    /\ UNCHANGED <<l_player, player, connections, phase, scan, door, l_request, files>>

\* The packet goes on after a line, whatever became of the player.
LineDone ==
    /\ left' = left - 1
    /\ scan' = IF left = 1 THEN tmp ELSE scan
    /\ tmp' = IF left = 1 THEN NULL ELSE tmp
    /\ UNCHANGED <<connections, phase, door>>

\* IP and BREAK: DISCONNECT.
Interrupt(p) ==
    /\ player' = [player EXCEPT ![p].mode = M_DISCONNECT]
    /\ UNCHANGED <<l_player, l_request, files>>

InputEnd ==
    /\ phase = "input" /\ scan = NULL
    /\ phase' = "accept" /\ door' = 1
    /\ UNCHANGED <<l_player, player, connections, scan, tmp, left, l_request, files>>

-----------------------------------------------------------------------------
(* get_login.  n is the line, trimmed and in lower case. *)

\* Mutant: what the players type is compared as it is with the names on record.
TakenExact(p, n) == \E q \in Online \ {p} : player[q].lower_name = n

\* The name is of a player on the program, p's own structure excepted.
Taken(p, n) == \E q \in Online \ {p} : Same(player[q].lower_name, n)

AskLogin(p) == player' = [player EXCEPT ![p].func = "get_login"]

Lose(p) == player' = [player EXCEPT ![p].mode = M_LOST]

\* Mutant: login_continue gives mode its initial value as well.
EnterAfresh(p, nm, low) ==
    player' = [player EXCEPT ![p].func = "none", ![p].name = nm, ![p].mode = 0,
                             ![p].lower_name = low]

\* login_continue
Enter(p, nm, low) ==
    player' = [player EXCEPT ![p].func = "none", ![p].name = nm,
                             ![p].lower_name = low]

\* What a record makes of him; without a name in it, the empty one of player_init stays.
EnterAs(p, nm) ==
    \/ nm = Nameless /\ Enter(p, NoName, NoName)
    \/ nm # Nameless /\ \E low \in Stored[nm] : Enter(p, nm, low)

LoginWord(p, n) ==
    \/ n = Quit /\ Lose(p)
    \/ n = Who /\ AskLogin(p)
    \/ n = New /\ player' = [player EXCEPT ![p].func = "get_handle"]
    \/ n = Admin /\ Enter(p, n, n)

\* Mutant: the request handler, which bars the banned name, is never reached.
LoginNameUnbarred(p, n) ==
    /\ n \notin {Quit, Who, New, Admin}
    /\ \/ (Taken(p, n) \/ files[n] = NoName) /\ AskLogin(p)
       \/ ~Taken(p, n) /\ files[n] # NoName /\ Lose(p)
       \/ ~Taken(p, n) /\ files[n] # NoName /\ EnterAs(p, files[n])

\* A banished name; a name in use, or with no record; a record that cannot be
\* read; a player who is in.
LoginName(p, n) ==
    /\ n \notin {Quit, Who, New, Admin}
    /\ \/ n = Banned /\ Lose(p)
       \/ n # Banned /\ (Taken(p, n) \/ files[n] = NoName) /\ AskLogin(p)
       \/ n # Banned /\ ~Taken(p, n) /\ files[n] # NoName /\ Lose(p)
       \/ n # Banned /\ ~Taken(p, n) /\ files[n] # NoName /\ EnterAs(p, files[n])

get_login(p, line) ==
    /\ \/ line \notin Name /\ AskLogin(p)
       \/ line \in Name /\ (LoginWord(p, LowerCase[line]) \/ LoginName(p, LowerCase[line]))
    /\ UNCHANGED <<l_player, l_request, files>>

-----------------------------------------------------------------------------
(* get_handle: here the line is taken as it was typed. *)

Queued(r) == l_request[r].name # NoName

\* Mutant: requests that differ in case are different requests.
SubmittedExact(str) == \E r \in Request : l_request[r].name = str

Submitted(str) == \E r \in Request : Same(l_request[r].name, str)

AskHandle(p) == player' = [player EXCEPT ![p].func = "get_handle"]

HandleRefused(p, str) ==
    /\ files[str] # NoName \/ Submitted(str)
    /\ AskHandle(p)
    /\ UNCHANGED l_request

HandleQueued(p, str) ==
    /\ files[str] = NoName /\ ~Submitted(str)
    /\ \E r \in Request :
        /\ ~Queued(r)
        /\ l_request' = [l_request EXCEPT ![r] = [name |-> str, timeout |-> REQ_TWO_DAYS]]
    /\ Lose(p)

\* A bad name is answered with the login prompt, and get_handle stays in charge.
get_handle(p, line) ==
    /\ \/ line = NoName /\ AskLogin(p) /\ UNCHANGED l_request
       \/ line \in Faulty /\ UNCHANGED <<player, l_request>>
       \/ line \in Name /\ (HandleRefused(p, line) \/ HandleQueued(p, line))
    /\ UNCHANGED <<l_player, files>>

-----------------------------------------------------------------------------
(* Commands, for a player who is in: the ones that act on this state. *)

comm_quit(p) == Lose(p) /\ UNCHANGED <<l_player, files>>

\* fopen may fail, as it does for him who has no name.  It empties the file, and on a full
\* disk no line follows.  Whatever happens, the player is told that bytes were written.
comm_save(p) ==
    /\ \/ /\ player[p].lower_name # NoName
          /\ \E nm \in {player[p].name, Nameless} :
                files' = [files EXCEPT ![player[p].lower_name] = nm]
       \/ UNCHANGED files
    /\ UNCHANGED <<l_player, player>>

\* Commands are looked up by their first word, in the case it is typed in (the
\* buckets of comm_hash_num differ).  That word is all of a name; in a line that
\* is no name, "quit now" say, it may be any.
run_command(p, line) ==
    /\ \/ line \in Faulty \cup {Quit} /\ comm_quit(p)
       \/ line \in Faulty \cup {Save} /\ comm_save(p)
       \/ line \notin {Quit, Save} /\ UNCHANGED <<l_player, player, files>>
    /\ UNCHANGED l_request

HandleLine(line) ==
    /\ phase = "input" /\ left > 0
    /\ LineDone
    /\ \/ player[scan].func = "get_login" /\ get_login(scan, line)
       \/ player[scan].func = "get_handle" /\ get_handle(scan, line)
       \/ player[scan].func = "none" /\ run_command(scan, line)

HandleInterrupt ==
    /\ phase = "input" /\ left > 0
    /\ LineDone
    /\ Interrupt(scan)

-----------------------------------------------------------------------------
(* New connections, one on each interface that is ready. *)

AcceptSkip ==
    /\ phase = "accept" /\ door \in Interface
    /\ door' = door + 1
    /\ UNCHANGED <<l_player, player, connections, phase, scan, tmp, left, l_request, files>>

Full(i) == connections[i] > Limit

\* Mutant: a banned site is sent its message, and stays.
NewcomerKept(i, ok, site) ==
    IF Full(i) THEN Structure(i, ok, site, M_DISCONNECT, "garbage")
    ELSE IF site \in BannedSite THEN Structure(i, ok, site, 0, "garbage")
    ELSE Structure(i, ok, site, 0, "get_login")

\* The limit first, then main's ban.  accept may have failed; nobody looks.
Newcomer(i, ok, site) ==
    IF Full(i) THEN Structure(i, ok, site, M_DISCONNECT, "garbage")
    ELSE IF site \in BannedSite THEN Structure(i, ok, site, M_LOST, "garbage")
    ELSE Structure(i, ok, site, 0, "get_login")

player_connect(p, i, ok, site) ==
    /\ p \notin Online
    /\ l_player' = Append(l_player, p)
    /\ player' = [player EXCEPT ![p] = Newcomer(i, ok, site)]

\* Mutant: a connection that is turned away is not counted.
AcceptPlayerUncounted(p, ok, site) ==
    /\ phase = "accept" /\ door \in Interface
    /\ player_connect(p, door, ok, site)
    /\ connections' = [connections EXCEPT ![door] = IF Full(door) THEN @ ELSE @ + 1]
    /\ door' = door + 1
    /\ UNCHANGED <<phase, scan, tmp, left, l_request, files>>

\* The one connection too many is counted like the others.
AcceptPlayer(p, ok, site) ==
    /\ phase = "accept" /\ door \in Interface
    /\ player_connect(p, door, ok, site)
    /\ connections' = [connections EXCEPT ![door] = @ + 1]
    /\ door' = door + 1
    /\ UNCHANGED <<phase, scan, tmp, left, l_request, files>>

AcceptEnd ==
    /\ phase = "accept" /\ door \notin Interface
    /\ phase' = "sweep" /\ scan' = First /\ door' = 1
    /\ UNCHANGED <<l_player, player, connections, tmp, left, l_request, files>>

-----------------------------------------------------------------------------

\* The requests' part of timer_click.
timer_click ==
    /\ l_request' = [r \in Request |->
                        IF l_request[r].timeout = 0 THEN NoRequest
                        ELSE [l_request[r] EXCEPT !.timeout = @ - 1]]
    /\ UNCHANGED <<l_player, player, connections, loop, files>>

jcd_core_loop ==
    \/ SweepKeep \/ SweepDrop \/ SelectNothing \/ SelectReady
    \/ InputSkip \/ InputHangup \/ InputPacket \/ InputEnd
    \/ (\E line \in Line : HandleLine(line))
    \/ HandleInterrupt
    \/ AcceptSkip \/ AcceptEnd
    \/ \E p \in Player, ok \in BOOLEAN, site \in Site : AcceptPlayer(p, ok, site)

Next == jcd_core_loop \/ timer_click

\* idle_loop never stops calling jcd_core_loop: select waits a second at most,
\* sockets do not block, and a packet has an end.
Spec == Init /\ [][Next]_vars /\ WF_vars(jcd_core_loop)

-----------------------------------------------------------------------------
(* Properties *)

TypeOK ==
    /\ l_player \in Seq(Player)
    /\ player \in [Player -> PlayerRec]
    /\ connections \in [Interface -> Int]
    /\ phase \in {"sweep", "input", "accept"}
    /\ scan \in Player \cup {NULL} /\ tmp \in Player \cup {NULL}
    /\ door \in 1..(Interfaces + 1)
    /\ left \in 0..MaxBatch
    /\ l_request \in [Request -> RequestRec]
    /\ files \in [Name -> Name \cup {NoName, Nameless}]

On(i) == {p \in Online : player[p].interface = i}
In(p) == p \in Online /\ player[p].func = "none"

\* Pointers into l_player kept from one turn of a loop to the next point at
\* players who are still linked, and a packet in hand has its player.
ScanLive ==
    /\ scan # NULL => scan \in Online
    /\ tmp # NULL => tmp \in Online
    /\ left > 0 => phase = "input" /\ scan # NULL

\* i->connections is off by what it started from, and by nothing more, however
\* connections are turned away, lost or refused by accept.
ConnectionsAccurate ==
    \A i \in Interface : connections[i] = Connections0[i] + Cardinality(On(i))

\* The limit holds: no more players are served than Limit + 1, less what the
\* counter started from.
AdmissionBound ==
    \A i \in Interface :
        LET served == {p \in On(i) : player[p].mode = 0} IN
        served # {} => Cardinality(served) <= Limit + 1 - Connections0[i]

\* SOCK_Handle_Input is never given a player whose func was never set or whose
\* socket is closed: the sweep has come between.
NoWildCall ==
    phase = "input" =>
        \A p \in Online : player[p].fd /\ player[p].func # "garbage"

\* No two players are in under one name, admin and names of 19 letters and more
\* excepted, and the empty name, which whoever's record has lost its own is in under
\* (src/login.c:184).
UniqueShortLogins ==
    \A p, q \in Player :
        p # q /\ In(p) /\ In(q) /\ Same(player[p].name, player[q].name)
            => LowerCase[player[p].name] = Admin \/ ~Short(player[p].name)

\* The banned name is never in, and a banned address never gets to the login.
BannedStaysOut ==
    \A p \in Online :
        /\ In(p) => ~Same(player[p].name, Banned)
        /\ player[p].site \in BannedSite => player[p].func = "garbage"

\* No name is queued twice, whatever the case it is typed in.
PendingUnique ==
    \A r, s \in Request : r # s => ~Same(l_request[r].name, l_request[s].name)

\* The sessions the main loop really keeps.
State(p) == IF p \notin Online THEN "absent"
            ELSE IF Gone(p) THEN "leaving"
            ELSE IF player[p].func = "none" THEN "member" ELSE "visitor"

Distinct(n) == n \in Name /\ Short(n) /\ LowerCase[n] # Admin

KeyOf(p) == IF State(p) = "member" /\ Distinct(player[p].name)
            THEN LowerCase[player[p].name] ELSE "nobody"

SessionState == [p \in Player |-> State(p)]
SessionLine == [p \in Player |-> IF p \in Online THEN player[p].interface ELSE 1]
SessionKey == [p \in Player |-> KeyOf(p)]

S == INSTANCE Sessions WITH
        Key <- Name,
        Seats <- [i \in Interface |-> Limit + 1 - Connections0[i]],
        state <- SessionState, line <- SessionLine, key <- SessionKey

\* The main loop and the login dialogue keep what Sessions promises: whoever is
\* leaving, with lines of a packet still to be handled or without, never comes
\* back, and does leave.
ImplementsSessions == S!SSpec
=============================================================================
