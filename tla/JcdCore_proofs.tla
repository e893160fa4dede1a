--------------------------- MODULE JcdCore_proofs ---------------------------
(***************************************************************************)
(* Proofs about the main loop and the login dialogue, for any number of    *)
(* players, interfaces and names: pointers into l_player stay good,        *)
(* connections are counted and limited, no uninitialised handler is        *)
(* called, and names that fit lower_name are in use once only.             *)
(***************************************************************************)
EXTENDS JcdCore, ListLemmas, FiniteSetTheorems

\* list_add is only given structures just allocated.
Linked == \A j, k \in DOMAIN l_player : l_player[j] = l_player[k] => j = k

\* A player the sweep would keep has a handler; a player behind the sweep is not
\* to be swept; and input is taken from such players only.
Settled ==
    /\ \A p \in Online : ~Gone(p) => player[p].func # "garbage"
    /\ phase = "sweep" =>
        \A k \in DOMAIN l_player : Gone(l_player[k]) => \E j \in 1..k : l_player[j] = scan
    /\ NoWildCall
    /\ phase = "accept" => scan = NULL
    /\ left = 0 => tmp = NULL

\* A record filed under a short name is that player's own, and a short name is
\* on record under no other.
FilesNamed ==
    \A n \in Name : files[n] \in Name =>
        /\ Short(n) <=> Short(files[n])
        /\ Short(n) => Same(files[n], n)

\* lower_name is the name, if that is short, and empty with it.
OwnName(nm, low) ==
    \/ nm = NoName /\ low = NoName
    \/ /\ nm \in Name /\ low \in Name
       /\ Short(nm) => low = nm
       /\ Short(low) => Short(nm)

LowerNames ==
    \A p \in Online :
        player[p].func = "none" => OwnName(player[p].name, player[p].lower_name)

ListInv == TypeOK /\ Linked /\ ScanLive
DoorInv == ListInv /\ Settled /\ ConnectionsAccurate /\ AdmissionBound
NameInv == FilesNamed /\ LowerNames /\ UniqueShortLogins /\ BannedStaysOut
IInv == DoorInv /\ NameInv /\ PendingUnique

-----------------------------------------------------------------------------
(* The list. *)

LEMMA ListFacts ==
    ASSUME TypeOK
    PROVE  /\ Len(l_player) \in Nat
           /\ DOMAIN l_player = 1..Len(l_player)
           /\ \A k \in DOMAIN l_player : l_player[k] \in Online /\ l_player[k] \in Player
           /\ \A p \in Online : p \in Player /\ \E k \in DOMAIN l_player : l_player[k] = p
           /\ l_player = << >> <=> Len(l_player) = 0
           /\ Online \subseteq Player
BY LenProperties DEF TypeOK, Online, ToSet

\* Where a walk over the list goes next.
LEMMA NextFacts ==
    ASSUME TypeOK, Linked, NEW p \in Online
    PROVE  /\ Index(p) \in DOMAIN l_player /\ l_player[Index(p)] = p
           /\ NextOf(p) \in Online \cup {NULL}
           /\ Index(p) < Len(l_player) =>
                /\ Index(p) + 1 \in DOMAIN l_player
                /\ NextOf(p) = l_player[Index(p) + 1]
<1>1. \E k \in DOMAIN l_player : l_player[k] = p
  BY ListFacts
<1>2. Index(p) \in DOMAIN l_player /\ l_player[Index(p)] = p
  BY <1>1 DEF Index
<1>3. CASE Index(p) = Len(l_player)
  BY <1>2, <1>3, ListFacts DEF NextOf
<1>4. CASE Index(p) # Len(l_player)
  <2>1. Index(p) + 1 \in DOMAIN l_player
    BY <1>2, <1>4, ListFacts
  <2>2. NextOf(p) = l_player[Index(p) + 1]
    BY <1>4 DEF NextOf
  <2>3. NextOf(p) \in Online
    BY <2>1, <2>2, ListFacts
  <2> QED  BY <1>2, <2>1, <2>2, <2>3
<1> QED  BY <1>3, <1>4

LEMMA FirstPlayer ==
    ASSUME TypeOK
    PROVE  /\ First \in Online \cup {NULL}
           /\ l_player # << >> => 1 \in DOMAIN l_player /\ First = l_player[1]
BY ListFacts DEF First

LEMMA OnlineFinite == TypeOK => IsFiniteSet(Online) /\ \A i : IsFiniteSet(On(i))
<1> SUFFICES ASSUME TypeOK PROVE IsFiniteSet(Online) /\ \A i : IsFiniteSet(On(i))
  OBVIOUS
<1>1. IsFiniteSet(Online)
  BY ListFacts, PlayerAssumption, FS_Subset
<1>2. \A i : On(i) \subseteq Online
  BY DEF On
<1> QED  BY <1>1, <1>2, FS_Subset

LEMMA InitIInv == Init => IInv
<1> SUFFICES ASSUME Init PROVE IInv
  OBVIOUS
<1>1. Online = {} /\ DOMAIN l_player = {}
  BY DEF Init, Online, ToSet
<1>2. Blank \in PlayerRec
  <2>1. (CHOOSE s \in Site : TRUE) \in Site
    BY SiteAssumption
  <2>2. 1 \in Interface
    BY InterfaceAssumption DEF Interface
  <2> QED  BY <2>1, <2>2 DEF Blank, Structure, PlayerRec
<1>3. TypeOK
  <2>1. l_player \in Seq(Player)
    BY DEF Init
  <2>2. player \in [Player -> PlayerRec]
    BY <1>2 DEF Init
  <2>3. connections \in [Interface -> Int]
    BY InterfaceAssumption DEF Init
  <2>4. l_request \in [Request -> RequestRec]
    BY ClickAssumption DEF Init, NoRequest, RequestRec
  <2>5. files \in [Name -> Name \cup {NoName, Nameless}]
    BY FilesAssumption DEF Init
  <2>6. door \in 1..(Interfaces + 1) /\ left \in 0..MaxBatch
    BY InterfaceAssumption, ClickAssumption DEF Init
  <2> QED  BY <2>1, <2>2, <2>3, <2>4, <2>5, <2>6 DEF Init, TypeOK
<1>4. Linked /\ ScanLive /\ Settled
  BY <1>1 DEF Init, Linked, ScanLive, Settled, NoWildCall
<1>5. \A i : On(i) = {}
  BY <1>1 DEF On
<1>6. ConnectionsAccurate /\ AdmissionBound
  <2>1. Cardinality({}) = 0
    BY FS_EmptySet
  <2>2. connections = Connections0 /\ \A i \in Interface : Connections0[i] \in Int
    BY InterfaceAssumption DEF Init
  <2>3. ConnectionsAccurate
    BY <1>5, <2>1, <2>2 DEF ConnectionsAccurate
  <2> QED  BY <1>5, <2>3 DEF AdmissionBound
<1>7. FilesNamed
  <2> SUFFICES ASSUME NEW n \in Name, files[n] \in Name
               PROVE  (Short(n) <=> Short(files[n])) /\ Same(files[n], n)
    BY DEF FilesNamed
  <2>1. Same(files[n], n)
    BY FilesAssumption DEF Init
  <2> QED  BY <2>1, StoredAssumption DEF Same
<1>8. LowerNames /\ UniqueShortLogins /\ BannedStaysOut
  BY <1>1 DEF LowerNames, UniqueShortLogins, BannedStaysOut, In
<1>9. PendingUnique
  BY NameAssumption DEF Init, PendingUnique, NoRequest, Same
<1> QED  BY <1>3, <1>4, <1>6, <1>7, <1>8, <1>9 DEF IInv, DoorInv, NameInv, ListInv

-----------------------------------------------------------------------------
(* Steps that only move the main loop's pointers. *)

Move == \/ SweepKeep \/ SelectNothing \/ SelectReady \/ InputSkip \/ InputPacket
        \/ InputEnd \/ AcceptSkip \/ AcceptEnd

LEMMA MoveUnchanged ==
    ASSUME Move \/ timer_click \/ UNCHANGED vars
    PROVE  UNCHANGED <<l_player, player, connections, files>>
BY DEF Move, SweepKeep, SelectNothing, SelectReady, InputSkip, InputPacket, InputEnd,
       AcceptSkip, AcceptEnd, timer_click, vars, loop

LEMMA MoveList ==
    ASSUME DoorInv, Move
    PROVE  ListInv' /\ UNCHANGED l_request
<1> USE DEF DoorInv, ListInv
<1>1. UNCHANGED <<l_player, player, connections, files, l_request>>
  BY DEF Move, SweepKeep, SelectNothing, SelectReady, InputSkip, InputPacket, InputEnd,
         AcceptSkip, AcceptEnd
<1>2. First \in Online \cup {NULL}
  BY FirstPlayer
<1>3. scan # NULL => NextOf(scan) \in Online \cup {NULL}
  BY NextFacts DEF ScanLive
<1>4. Online \subseteq Player /\ Online' = Online
  BY <1>1, ListFacts DEF Online
<1>5. Interfaces \in Nat /\ MaxBatch \in Nat \ {0}
  BY InterfaceAssumption, ClickAssumption
<1>6. /\ scan' \in Player \cup {NULL} /\ tmp' \in Player \cup {NULL}
      /\ phase' \in {"sweep", "input", "accept"}
  BY <1>2, <1>3, <1>4 DEF TypeOK, Move, SweepKeep, SelectNothing, SelectReady, InputSkip,
     InputPacket, InputEnd, AcceptSkip, AcceptEnd
<1>7. door' \in 1..(Interfaces + 1) /\ left' \in 0..MaxBatch
  BY <1>5 DEF TypeOK, Move, SweepKeep, SelectNothing, SelectReady, InputSkip,
     InputPacket, InputEnd, AcceptSkip, AcceptEnd, Interface
<1>8. TypeOK'
  BY <1>1, <1>6, <1>7 DEF TypeOK
<1>9. ScanLive'
  <2>1. /\ scan' # NULL => scan' \in Online'
        /\ tmp' # NULL => tmp' \in Online'
    BY <1>2, <1>3, <1>4 DEF ScanLive, Move, SweepKeep, SelectNothing, SelectReady,
       InputSkip, InputPacket, InputEnd, AcceptSkip, AcceptEnd
  <2>2. left' > 0 => phase' = "input" /\ scan' # NULL
    BY DEF ScanLive, TypeOK, Move, SweepKeep, SelectNothing, SelectReady,
       InputSkip, InputPacket, InputEnd, AcceptSkip, AcceptEnd
  <2> QED  BY <2>1, <2>2 DEF ScanLive
<1>10. Linked'
  BY <1>1 DEF Linked
<1> QED  BY <1>1, <1>8, <1>9, <1>10

\* The sweep leaves nobody behind who is gone, so input comes from players with
\* a handler.
LEMMA MoveSettled ==
    ASSUME DoorInv, Move
    PROVE  Settled'
<1> USE DEF DoorInv, ListInv
<1>1. UNCHANGED <<l_player, player>>
  BY MoveUnchanged
<1>2. Online' = Online /\ \A p : Gone(p)' = Gone(p)
  BY <1>1 DEF Online, Gone
<1>3. \A p \in Online : (~Gone(p) => player[p].func # "garbage")'
  BY <1>1, <1>2 DEF Settled
<1>4. ASSUME phase' = "sweep", NEW k \in DOMAIN l_player, Gone(l_player[k])
      PROVE  \E j \in 1..k : l_player[j] = scan'
  <2>0. k \in 1..Len(l_player) /\ Len(l_player) \in Nat /\ DOMAIN l_player = 1..Len(l_player)
    BY ListFacts
  <2>1. CASE scan' = First
    <3>1. First = l_player[1] /\ 1 \in 1..k
      BY <2>0, FirstPlayer, ListFacts
    <3> QED  BY <2>1, <3>1
  <2>2. CASE SweepKeep
    <3>1. /\ scan \in Online /\ ~Gone(scan) /\ scan' = NextOf(scan)
          /\ phase = "sweep"
      BY <2>2 DEF SweepKeep, ScanLive
    <3>2. PICK j \in 1..k : l_player[j] = scan
      BY <1>4, <3>1 DEF Settled
    <3>3. j # k
      BY <1>4, <3>1, <3>2
    <3>4. j \in DOMAIN l_player /\ j = Index(scan)
      BY <2>0, <3>1, <3>2, NextFacts DEF Linked
    <3>5. scan' = l_player[j + 1] /\ j + 1 \in 1..k
      BY <2>0, <3>1, <3>3, <3>4, NextFacts
    <3> QED  BY <3>5
  <2> QED  BY <1>4, <2>1, <2>2 DEF Move, SelectNothing, SelectReady, InputSkip, InputPacket,
              InputEnd, AcceptSkip, AcceptEnd
<1>5. NoWildCall'
  <2> SUFFICES ASSUME phase' = "input", NEW p \in Online
               PROVE  player[p].fd /\ player[p].func # "garbage"
    BY <1>1, <1>2 DEF NoWildCall
  <2>1. CASE phase = "input"
    BY <2>1 DEF Settled, NoWildCall
  <2>2. CASE SelectReady
    <3>1. PICK k \in DOMAIN l_player : l_player[k] = p
      BY ListFacts
    <3>2. ~Gone(p)
      <4>1. SUFFICES ASSUME Gone(p) PROVE FALSE
        OBVIOUS
      <4>2. PICK j \in 1..k : l_player[j] = scan
        BY <2>2, <3>1, <4>1 DEF Settled, SelectReady
      <4>3. j \in DOMAIN l_player
        BY ListFacts
      <4>4. l_player[j] \in Player /\ scan = NULL
        BY <2>2, <4>3, ListFacts DEF SelectReady
      <4> QED  BY <4>2, <4>4, NullAssumption
    <3> QED  BY <3>2 DEF Settled, Gone
  <2> QED  BY <2>1, <2>2 DEF Move, SweepKeep, SelectNothing, InputSkip, InputPacket, InputEnd,
              AcceptSkip, AcceptEnd
<1>6. (phase' = "accept" => scan' = NULL) /\ (left' = 0 => tmp' = NULL)
  BY DEF Settled, ScanLive, TypeOK, Move, SweepKeep, SelectNothing, SelectReady, InputSkip,
     InputPacket, InputEnd, AcceptSkip, AcceptEnd
<1> QED  BY <1>1, <1>2, <1>3, <1>4, <1>5, <1>6 DEF Settled

\* What is said of players and connections holds while both stay as they are.
LEMMA UnchangedCounts ==
    ASSUME ConnectionsAccurate, AdmissionBound, UNCHANGED <<l_player, player, connections>>
    PROVE  ConnectionsAccurate' /\ AdmissionBound'
BY DEF ConnectionsAccurate, AdmissionBound, On, Online

LEMMA UnchangedNames ==
    ASSUME NameInv, UNCHANGED <<l_player, player, files>>
    PROVE  NameInv'
BY DEF NameInv, FilesNamed, LowerNames, UniqueShortLogins, BannedStaysOut, In, Online

\* timer_click and stuttering.
LEMMA ClickDoor ==
    ASSUME DoorInv, timer_click \/ UNCHANGED vars
    PROVE  DoorInv'
<1> USE DEF DoorInv, ListInv
<1>1. UNCHANGED <<l_player, player, connections, phase, scan, tmp, door, left, files>>
  BY DEF timer_click, vars, loop
<1>2. l_request' \in [Request -> RequestRec]
  <2>1. CASE timer_click
    <3> SUFFICES ASSUME NEW r \in Request
                 PROVE  (IF l_request[r].timeout = 0 THEN NoRequest
                         ELSE [l_request[r] EXCEPT !.timeout = @ - 1]) \in RequestRec
      BY <2>1 DEF timer_click
    <3>1. l_request[r] \in RequestRec
      BY DEF TypeOK
    <3> QED  BY <3>1, ClickAssumption DEF RequestRec, NoRequest
  <2> QED  BY <2>1 DEF TypeOK, vars
<1>3. TypeOK'
  BY <1>1, <1>2 DEF TypeOK
<1>4. Linked' /\ ScanLive' /\ Settled'
  BY <1>1 DEF Linked, ScanLive, Settled, NoWildCall, Online, Gone
<1> QED  BY <1>1, <1>3, <1>4, UnchangedCounts

LEMMA ClickPending ==
    ASSUME TypeOK, PendingUnique, timer_click \/ UNCHANGED vars
    PROVE  PendingUnique'
<1>1. \A r \in Request : l_request'[r].name \in {NoName, l_request[r].name}
  <2> SUFFICES ASSUME NEW r \in Request
               PROVE  l_request'[r].name \in {NoName, l_request[r].name}
    OBVIOUS
  <2>1. l_request[r] \in RequestRec
    BY DEF TypeOK
  <2>2. CASE timer_click
    BY <2>1, <2>2 DEF timer_click, NoRequest, RequestRec
  <2> QED  BY <2>2 DEF vars
<1> QED  BY <1>1, NameAssumption DEF PendingUnique, Same

-----------------------------------------------------------------------------
(* Steps of one player's handler. *)

\* What a handler leaves of p's structure when nobody gets in: mode is never put
\* back to 0, and the names stay.
Keeps(p) ==
    /\ player' \in [Player -> PlayerRec]
    /\ \A q \in Player \ {p} : player'[q] = player[q]
    /\ player'[p].fd = player[p].fd
    /\ player'[p].interface = player[p].interface
    /\ player'[p].site = player[p].site
    /\ player'[p].mode = 0 => player[p].mode = 0
    /\ player'[p].func \in {player[p].func, "get_login", "get_handle"}
    /\ player'[p].name = player[p].name
    /\ player'[p].lower_name = player[p].lower_name

\* And when p gets in.
Admits(p, nm, low) ==
    /\ player' \in [Player -> PlayerRec]
    /\ \A q \in Player \ {p} : player'[q] = player[q]
    /\ player'[p].fd = player[p].fd
    /\ player'[p].interface = player[p].interface
    /\ player'[p].site = player[p].site
    /\ player'[p].mode = player[p].mode
    /\ player'[p].func = "none"
    /\ player'[p].name = nm
    /\ player'[p].lower_name = low

\* What both have in common.
Touch(p) ==
    /\ player' \in [Player -> PlayerRec]
    /\ \A q \in Player \ {p} : player'[q] = player[q]
    /\ player'[p].fd = player[p].fd
    /\ player'[p].interface = player[p].interface
    /\ player'[p].site = player[p].site
    /\ player'[p].mode = 0 => player[p].mode = 0
    /\ player'[p].func # "garbage"

LEMMA InputPlayer ==
    ASSUME DoorInv, phase = "input", scan # NULL
    PROVE  /\ scan \in Online /\ scan \in Player
           /\ player[scan] \in PlayerRec
           /\ player[scan].fd /\ player[scan].func # "garbage"
BY ListFacts DEF DoorInv, ListInv, ScanLive, Settled, NoWildCall, TypeOK

LEMMA AskKeeps ==
    ASSUME TypeOK, NEW p \in Player,
           AskLogin(p) \/ AskHandle(p) \/ Lose(p) \/ UNCHANGED player
           \/ Interrupt(p) \/ player' = [player EXCEPT ![p].mode = M_DISCONNECT]
    PROVE  Keeps(p)
<1>1. player \in [Player -> PlayerRec] /\ player[p] \in PlayerRec
  BY DEF TypeOK
<1> QED  BY <1>1 DEF AskLogin, AskHandle, Lose, Interrupt, PlayerRec, M_LOST,
            M_DISCONNECT, Keeps

LEMMA EnterAdmits ==
    ASSUME TypeOK, NEW p \in Player, NEW nm \in Name \cup {NoName},
           NEW low \in Name \cup {NoName}, Enter(p, nm, low)
    PROVE  Admits(p, nm, low)
<1>1. player \in [Player -> PlayerRec] /\ player[p] \in PlayerRec
  BY DEF TypeOK
<1> QED  BY <1>1 DEF Enter, PlayerRec, Admits

\* The cases of get_login: asked again, thrown out or sent on; admin; a name
\* with a record, that is neither banned nor in use; nobody in particular.
LEMMA LoginCases ==
    ASSUME TypeOK, NEW p \in Player, player[p].func = "get_login", NEW line \in Line,
           get_login(p, line)
    PROVE  \/ Keeps(p)
           \/ Admin \in Name /\ Admits(p, Admin, Admin)
           \/ Admits(p, NoName, NoName)
           \/ \E n \in Name :
                /\ LowerCase[n] = n /\ n # Banned /\ ~Taken(p, n) /\ files[n] \in Name
                /\ \E low \in Stored[files[n]] : Admits(p, files[n], low)
<1>1. player \in [Player -> PlayerRec] /\ player[p] \in PlayerRec
  BY DEF TypeOK
<1>2. CASE line \notin Name
  <2>1. AskLogin(p)
    BY <1>2 DEF get_login
  <2> QED  BY <2>1, AskKeeps
<1>3. CASE line \in Name
  <2> DEFINE n == LowerCase[line]
  <2>1. n \in Name /\ LowerCase[n] = n
    BY <1>3, NameAssumption
  <2> HIDE DEF n
  <2>2. CASE LoginWord(p, n)
    <3>1. CASE n = Admin /\ Enter(p, n, n)
      BY <2>1, <3>1, EnterAdmits
    <3>2. CASE Lose(p) \/ AskLogin(p)
      BY <3>2, AskKeeps
    <3>3. CASE player' = [player EXCEPT ![p].func = "get_handle"]
      BY <1>1, <3>3 DEF Keeps, PlayerRec
    <3> QED  BY <2>2, <3>1, <3>2, <3>3 DEF LoginWord
  <2>3. CASE LoginName(p, n)
    <3>1. CASE Lose(p) \/ AskLogin(p)
      BY <3>1, AskKeeps
    <3>2. CASE Enter(p, NoName, NoName)
      BY <3>2, EnterAdmits
    <3>3. CASE /\ n # Banned /\ ~Taken(p, n) /\ files[n] # NoName /\ files[n] # Nameless
               /\ \E low \in Stored[files[n]] : Enter(p, files[n], low)
      <4>1. files[n] \in Name
        BY <2>1, <3>3 DEF TypeOK
      <4>2. PICK low \in Stored[files[n]] : Enter(p, files[n], low)
        BY <3>3
      <4>3. low \in Name
        BY <4>1, <4>2, StoredAssumption
      <4>4. Admits(p, files[n], low)
        BY <4>1, <4>2, <4>3, EnterAdmits
      <4> QED  BY <2>1, <3>3, <4>1, <4>2, <4>4
    <3> QED  BY <2>3, <3>1, <3>2, <3>3 DEF LoginName, EnterAs
  <2> QED  BY <1>3, <2>2, <2>3 DEF get_login, n
<1> QED  BY <1>2, <1>3

\* get_handle lets nobody in, and queues a name only if no request has it.
LEMMA HandleCases ==
    ASSUME TypeOK, NEW p \in Player, NEW line \in Line, get_handle(p, line)
    PROVE  /\ Keeps(p) /\ UNCHANGED <<l_player, files>>
           /\ \/ UNCHANGED l_request
              \/ \E r \in Request, str \in Name :
                    /\ ~Submitted(str)
                    /\ l_request' = [l_request EXCEPT
                                        ![r] = [name |-> str, timeout |-> REQ_TWO_DAYS]]
<1>1. CASE line = NoName
  BY <1>1, AskKeeps, NameAssumption DEF get_handle
<1>2. CASE line \in Faulty
  BY <1>2, AskKeeps, NameAssumption DEF get_handle
<1>3. CASE line \in Name
  <2>1. CASE HandleRefused(p, line)
    BY <1>3, <2>1, AskKeeps DEF get_handle, HandleRefused
  <2>2. CASE HandleQueued(p, line)
    BY <1>3, <2>2, AskKeeps DEF get_handle, HandleQueued
  <2> QED  BY <1>3, <2>1, <2>2, NameAssumption DEF get_handle
<1> QED  BY <1>1, <1>2, <1>3 DEF Line

LEMMA CommandCases ==
    ASSUME TypeOK, NEW p \in Player, NEW line \in Line, run_command(p, line)
    PROVE  /\ Keeps(p) /\ UNCHANGED <<l_player, l_request>>
           /\ \/ UNCHANGED files
              \/ /\ UNCHANGED player
                 /\ player[p].lower_name # NoName
                 /\ \E nm \in {player[p].name, Nameless} :
                       files' = [files EXCEPT ![player[p].lower_name] = nm]
BY AskKeeps DEF run_command, comm_quit, comm_save

\* A line never lets in a player whose handler was never set, for it is only
\* handled if it has.
LEMMA LineTouch ==
    ASSUME DoorInv, NEW line \in Line, HandleLine(line)
    PROVE  /\ Touch(scan) /\ LineDone /\ UNCHANGED l_player
           /\ phase = "input" /\ scan # NULL /\ scan \in Player /\ left > 0
<1>1. phase = "input" /\ left > 0 /\ scan # NULL /\ LineDone
  BY DEF HandleLine, DoorInv, ListInv, ScanLive
<1>2. scan \in Player /\ player[scan].func # "garbage" /\ TypeOK
  BY <1>1, InputPlayer DEF DoorInv, ListInv
<1>3. Keeps(scan) => Touch(scan)
  BY <1>2 DEF Keeps, Touch
<1>4. \A nm, low : Admits(scan, nm, low) => Touch(scan)
  BY DEF Admits, Touch
<1>5. CASE player[scan].func = "get_login" /\ get_login(scan, line)
  BY <1>1, <1>2, <1>3, <1>4, <1>5, LoginCases DEF get_login
<1>6. CASE player[scan].func = "get_handle" /\ get_handle(scan, line)
  BY <1>1, <1>2, <1>3, <1>6, HandleCases
<1>7. CASE player[scan].func = "none" /\ run_command(scan, line)
  BY <1>1, <1>2, <1>3, <1>7, CommandCases
<1> QED  BY <1>5, <1>6, <1>7 DEF HandleLine

\* The structure of the player in hand changes; the list does not, and nobody
\* who was gone is served again.
LEMMA TouchCounts ==
    ASSUME TypeOK, ConnectionsAccurate, AdmissionBound, NEW p \in Player, Touch(p),
           UNCHANGED <<l_player, connections>>
    PROVE  ConnectionsAccurate' /\ AdmissionBound'
<1>1. Online' = Online /\ Online \subseteq Player
  BY ListFacts DEF Online
<1>2. \A q \in Player : player'[q].interface = player[q].interface
  BY DEF Touch
<1>3. \A i : On(i)' = On(i)
  BY <1>1, <1>2 DEF On
<1>4. ConnectionsAccurate'
  BY <1>3 DEF ConnectionsAccurate
<1>5. AdmissionBound'
  <2> SUFFICES ASSUME NEW i \in Interface, {q \in On(i) : player'[q].mode = 0} # {}
               PROVE  Cardinality({q \in On(i) : player'[q].mode = 0})
                        <= Limit + 1 - Connections0[i]
    BY <1>3 DEF AdmissionBound
  <2> DEFINE served == {q \in On(i) : player[q].mode = 0}
             served2 == {q \in On(i) : player'[q].mode = 0}
  <2>1. served2 \subseteq served
    BY <1>1 DEF Touch, On
  <2>2. IsFiniteSet(served)
    BY OnlineFinite, FS_Subset
  <2>3. Cardinality(served2) <= Cardinality(served)
    BY <2>1, <2>2, FS_Subset
  <2>4. Cardinality(served) \in Nat /\ Cardinality(served2) \in Nat
    BY <2>1, <2>2, FS_Subset, FS_CardinalityType
  <2>5. Cardinality(served) <= Limit + 1 - Connections0[i]
    BY <2>1 DEF AdmissionBound
  <2>6. Limit \in Nat /\ Connections0[i] \in Int
    BY InterfaceAssumption
  <2> QED  BY <2>3, <2>4, <2>5, <2>6
<1> QED  BY <1>4, <1>5

LEMMA TouchDoor ==
    ASSUME DoorInv, Touch(scan), phase = "input", scan # NULL,
           UNCHANGED <<l_player, connections, phase, door>>,
           \/ LineDone /\ left > 0
           \/ scan' = NextOf(scan) /\ UNCHANGED <<tmp, left>> /\ left = 0,
           l_request' \in [Request -> RequestRec],
           files' \in [Name -> Name \cup {NoName, Nameless}]
    PROVE  DoorInv'
<1> USE DEF DoorInv, ListInv
<1>1. scan \in Online /\ scan \in Player
  BY InputPlayer
<1>2. Online' = Online /\ Online \subseteq Player
  BY ListFacts DEF Online
<1>3. NextOf(scan) \in Online \cup {NULL}
  BY <1>1, NextFacts
<1>4. scan' \in Online \cup {NULL} /\ tmp' \in Online \cup {NULL}
  BY <1>1, <1>3 DEF LineDone, ScanLive
<1>5. left' \in 0..MaxBatch
  BY ClickAssumption DEF LineDone, TypeOK
<1>6. TypeOK'
  BY <1>2, <1>4, <1>5 DEF TypeOK, Touch
<1>7. left' > 0 => scan' = scan
  BY DEF LineDone, TypeOK
<1>8. ScanLive' /\ Linked'
  BY <1>2, <1>4, <1>7 DEF ScanLive, Linked
<1>9. Settled'
  <2>1. \A p \in Online : player'[p].fd /\ player'[p].func # "garbage"
    BY <1>2 DEF Settled, NoWildCall, Touch
  <2>2. left' = 0 => tmp' = NULL
    BY DEF Settled, LineDone, TypeOK
  <2> QED  BY <1>2, <2>1, <2>2 DEF Settled, NoWildCall
<1> QED  BY <1>1, <1>6, <1>8, <1>9, TouchCounts

-----------------------------------------------------------------------------
(* Players leave and arrive. *)

LEMMA DropDoor ==
    ASSUME DoorInv, SweepDrop
    PROVE  DoorInv' /\ Online' = Online \ {scan} /\ scan \in Online
           /\ \A p \in Online' : player'[p] = player[p]
<1> USE DEF DoorInv, ListInv
<1>1. /\ phase = "sweep" /\ scan # NULL /\ Gone(scan) /\ scan \in Online /\ scan \in Player
      /\ scan' = NextOf(scan) /\ left = 0 /\ tmp = NULL
      /\ player' = [player EXCEPT ![scan] = Blank]
      /\ l_player' = RemoveAt(l_player, Index(scan))
      /\ connections' = [connections EXCEPT ![player[scan].interface] = @ - 1]
      /\ UNCHANGED <<phase, tmp, door, left, l_request, files>>
  BY ListFacts DEF SweepDrop, player_disconnect, ScanLive, Settled, TypeOK
<1> DEFINE x == Index(scan)
<1>2. /\ Len(l_player) \in Nat /\ DOMAIN l_player = 1..Len(l_player)
      /\ x \in DOMAIN l_player /\ l_player[x] = scan
      /\ NextOf(scan) \in Online \cup {NULL}
      /\ x < Len(l_player) => x + 1 \in DOMAIN l_player /\ NextOf(scan) = l_player[x + 1]
  BY <1>1, ListFacts, NextFacts
<1>3. /\ l_player' \in Seq(Player) /\ Len(l_player') = Len(l_player) - 1
      /\ \A k \in 1..(Len(l_player) - 1) :
            l_player'[k] = IF k < x THEN l_player[k] ELSE l_player[k + 1]
  BY <1>1, <1>2, RemoveAtFacts DEF TypeOK
<1>4. Online' = Online \ {scan} /\ Linked'
  <2>1. /\ ToSet(RemoveAt(l_player, x)) = ToSet(l_player) \ {l_player[x]}
        /\ \A j, k \in DOMAIN RemoveAt(l_player, x) :
             RemoveAt(l_player, x)[j] = RemoveAt(l_player, x)[k] => j = k
    BY <1>2, RemoveAtMembers DEF TypeOK, Linked
  <2> QED  BY <1>1, <1>2, <2>1 DEF Linked, Online
<1> HIDE DEF x
<1>5. \A p \in Online' : p \in Player /\ player'[p] = player[p]
  BY <1>1, <1>4, ListFacts DEF TypeOK
<1>6. NextOf(scan) # scan
  <2>1. CASE x < Len(l_player)
    BY <1>2, <2>1 DEF Linked
  <2>2. CASE x = Len(l_player)
    BY <1>1, <2>2 DEF NextOf, x
  <2> QED  BY <1>2, <2>1, <2>2
<1>7. TypeOK'
  <2>1. Blank \in PlayerRec
    <3>1. (CHOOSE s \in Site : TRUE) \in Site
      BY SiteAssumption
    <3>2. 1 \in Interface
      BY InterfaceAssumption DEF Interface
    <3> QED  BY <3>1, <3>2 DEF Blank, Structure, PlayerRec
  <2>2. player' \in [Player -> PlayerRec]
    BY <1>1, <2>1 DEF TypeOK
  <2>3. connections' \in [Interface -> Int]
    BY <1>1 DEF TypeOK, PlayerRec
  <2>4. scan' \in Player \cup {NULL}
    BY <1>1, <1>2, ListFacts
  <2> QED  BY <1>1, <1>3, <2>2, <2>3, <2>4 DEF TypeOK
<1>8. ScanLive'
  BY <1>1, <1>2, <1>4, <1>6 DEF ScanLive
<1>9. Settled'
  <2>1. \A p \in Online' : (Gone(p) <=> Gone(p)')
    BY <1>5 DEF Gone
  <2>2. ASSUME NEW k \in DOMAIN l_player', Gone(l_player[k])'
        PROVE  \E j \in 1..k : l_player'[j] = scan'
    <3>1. k \in 1..(Len(l_player) - 1) /\ DOMAIN l_player' = 1..(Len(l_player) - 1)
      BY <1>3, LenProperties
    <3>0. l_player'[k] \in Online'
      BY DEF Online, ToSet
    <3>2. Gone(l_player'[k])
      BY <1>5, <2>2, <3>0 DEF Gone
    <3>3. CASE k < x
      <4>1. l_player'[k] = l_player[k] /\ k \in DOMAIN l_player
        BY <1>2, <1>3, <3>1, <3>3
      <4>2. PICK j \in 1..k : l_player[j] = scan
        BY <1>1, <3>2, <4>1 DEF Settled
      <4>3. j \in DOMAIN l_player /\ j # x
        BY <1>2, <3>3, <4>1
      <4> QED  BY <1>2, <4>2, <4>3 DEF Linked
    <3>4. CASE ~(k < x)
      <4>1. x < Len(l_player) /\ x \in 1..k /\ x \in 1..(Len(l_player) - 1)
        BY <1>2, <3>1, <3>4
      <4>2. l_player'[x] = l_player[x + 1]
        BY <1>2, <1>3, <4>1
      <4> QED  BY <1>1, <1>2, <4>1, <4>2
    <3> QED  BY <1>2, <3>1, <3>3, <3>4
  <2>3. \A p \in Online' : (~Gone(p) => player[p].func # "garbage")'
    BY <1>4, <1>5, <2>1 DEF Settled
  <2> QED  BY <1>1, <2>2, <2>3 DEF Settled, NoWildCall
<1>10. \A i : On(i)' = On(i) \ {scan}
  BY <1>4, <1>5 DEF On
<1>11. ConnectionsAccurate'
  <2> SUFFICES ASSUME NEW i \in Interface
               PROVE  connections'[i] = Connections0[i] + Cardinality(On(i) \ {scan})
    BY <1>10 DEF ConnectionsAccurate
  <2>1. /\ Cardinality(On(i) \ {scan}) =
             IF scan \in On(i) THEN Cardinality(On(i)) - 1 ELSE Cardinality(On(i))
        /\ Cardinality(On(i)) \in Nat
    BY OnlineFinite, FS_RemoveElement, FS_CardinalityType
  <2>2. scan \in On(i) <=> player[scan].interface = i
    BY <1>1 DEF On
  <2>3. connections[i] = Connections0[i] + Cardinality(On(i))
    BY DEF ConnectionsAccurate
  <2>4. connections \in [Interface -> Int] /\ Connections0[i] \in Int
    BY InterfaceAssumption DEF TypeOK
  <2>5. connections'[i] = IF player[scan].interface = i THEN connections[i] - 1
                          ELSE connections[i]
    BY <1>1, <2>4
  <2> QED  BY <2>1, <2>2, <2>3, <2>4, <2>5
<1>12. AdmissionBound'
  <2> SUFFICES ASSUME NEW i \in Interface, {q \in On(i)' : player'[q].mode = 0} # {}
               PROVE  Cardinality({q \in On(i)' : player'[q].mode = 0})
                        <= Limit + 1 - Connections0[i]
    BY DEF AdmissionBound
  <2> DEFINE served == {q \in On(i) : player[q].mode = 0}
             served2 == {q \in On(i)' : player'[q].mode = 0}
  <2>1. served2 = served \ {scan}
    BY <1>5, <1>10 DEF On
  <2>2. IsFiniteSet(served)
    BY OnlineFinite, FS_Subset
  <2>3. /\ Cardinality(served2) <= Cardinality(served)
        /\ Cardinality(served) \in Nat /\ Cardinality(served2) \in Nat
    BY <2>1, <2>2, FS_Subset, FS_CardinalityType
  <2>4. Cardinality(served) <= Limit + 1 - Connections0[i]
    BY <2>1 DEF AdmissionBound
  <2>5. Limit \in Nat /\ Connections0[i] \in Int
    BY InterfaceAssumption
  <2> QED  BY <2>3, <2>4, <2>5
<1> QED  BY <1>1, <1>4, <1>5, <1>7, <1>8, <1>9, <1>11, <1>12

LEMMA NewcomerFacts ==
    ASSUME TypeOK, NEW i \in Interface, NEW ok \in BOOLEAN, NEW site \in Site
    PROVE  LET r == Newcomer(i, ok, site) IN
           /\ r \in PlayerRec
           /\ r.interface = i /\ r.site = site /\ r.func # "none"
           /\ r.mode = 0 => ~Full(i) /\ r.func # "garbage"
           /\ site \in BannedSite => r.func = "garbage"
<1>1. \A mode \in {0, M_LOST, M_DISCONNECT},
         func \in {"garbage", "get_login"} :
            Structure(i, ok, site, mode, func) \in PlayerRec
  BY DEF Structure, PlayerRec
<1>2. CASE Full(i)
  BY <1>1, <1>2 DEF Newcomer, Structure, M_LOST, M_DISCONNECT
<1>3. CASE ~Full(i) /\ site \in BannedSite
  BY <1>1, <1>3 DEF Newcomer, Structure, M_LOST, M_DISCONNECT
<1>4. CASE ~Full(i) /\ site \notin BannedSite
  BY <1>1, <1>4 DEF Newcomer, Structure, M_LOST, M_DISCONNECT
<1> QED  BY <1>2, <1>3, <1>4

LEMMA AcceptDoor ==
    ASSUME DoorInv, NEW p \in Player, NEW ok \in BOOLEAN, NEW site \in Site,
           AcceptPlayer(p, ok, site)
    PROVE  /\ DoorInv' /\ p \notin Online /\ Online' = Online \cup {p}
           /\ \A q \in Online : player'[q] = player[q]
           /\ player'[p].func # "none"
           /\ player'[p].site \in BannedSite => player'[p].func = "garbage"
<1> USE DEF DoorInv, ListInv
<1> DEFINE r == Newcomer(door, ok, site)
<1>1. /\ phase = "accept" /\ door \in Interface /\ p \notin Online
      /\ l_player' = Append(l_player, p)
      /\ player' = [player EXCEPT ![p] = r]
      /\ connections' = [connections EXCEPT ![door] = @ + 1]
      /\ door' = door + 1 /\ scan = NULL /\ left = 0 /\ tmp = NULL
      /\ UNCHANGED <<phase, scan, tmp, left, l_request, files>>
  BY DEF AcceptPlayer, player_connect, Settled, ScanLive, TypeOK
<1>2. /\ r \in PlayerRec /\ r.interface = door /\ r.site = site /\ r.func # "none"
      /\ r.mode = 0 => ~Full(door) /\ r.func # "garbage"
      /\ site \in BannedSite => r.func = "garbage"
  BY <1>1, NewcomerFacts
<1> HIDE DEF r
<1>3. l_player' \in Seq(Player) /\ Online' = Online \cup {p} /\ Linked'
  <2>1. /\ Append(l_player, p) \in Seq(Player)
        /\ ToSet(Append(l_player, p)) = ToSet(l_player) \cup {p}
        /\ \A j, k \in DOMAIN Append(l_player, p) :
             Append(l_player, p)[j] = Append(l_player, p)[k] => j = k
    BY <1>1, AppendMembers DEF TypeOK, Linked, Online
  <2> QED  BY <1>1, <2>1 DEF Linked, Online
<1>4. player'[p] = r /\ \A q \in Online : q \in Player /\ player'[q] = player[q]
  BY <1>1, ListFacts DEF TypeOK
<1>5. TypeOK'
  <2>1. player' \in [Player -> PlayerRec]
    BY <1>1, <1>2 DEF TypeOK
  <2>2. connections' \in [Interface -> Int]
    BY <1>1 DEF TypeOK
  <2>3. door' \in 1..(Interfaces + 1)
    BY <1>1, InterfaceAssumption DEF Interface
  <2> QED  BY <1>1, <1>3, <2>1, <2>2, <2>3 DEF TypeOK
<1>6. ScanLive'
  BY <1>1 DEF ScanLive
<1>7. Settled'
  <2>1. \A q \in Online' : (~Gone(q) => player[q].func # "garbage")'
    <3> SUFFICES ASSUME NEW q \in Online', ~Gone(q)' PROVE player'[q].func # "garbage"
      OBVIOUS
    <3>1. CASE q \in Online
      BY <1>4, <3>1 DEF Settled, Gone
    <3>2. CASE q = p
      <4>1. player'[p].mode \in {0, M_LOST, M_DISCONNECT}
        BY <1>2, <1>4 DEF PlayerRec
      <4>2. player'[p].mode = 0
        BY <3>2, <4>1 DEF Gone
      <4> QED  BY <1>2, <1>4, <3>2, <4>2
    <3> QED  BY <1>3, <3>1, <3>2
  <2> QED  BY <1>1, <2>1 DEF Settled, NoWildCall
<1>8. \A i : On(i)' = IF i = door THEN On(i) \cup {p} ELSE On(i)
  <2> SUFFICES ASSUME NEW i
               PROVE  {q \in Online' : player'[q].interface = i} =
                        IF i = door THEN On(i) \cup {p} ELSE On(i)
    BY DEF On
  <2> QED  BY <1>2, <1>3, <1>4 DEF On
<1>9. p \notin On(door)
  BY <1>1 DEF On
<1>10. ASSUME NEW i \in Interface
       PROVE  /\ connections'[i] = Connections0[i] + Cardinality(On(i)')
              /\ i = door => Cardinality(On(i)') = Cardinality(On(i)) + 1
              /\ Cardinality(On(i)) \in Nat
  <2>1. /\ Cardinality(On(i) \cup {p}) =
             IF p \in On(i) THEN Cardinality(On(i)) ELSE Cardinality(On(i)) + 1
        /\ Cardinality(On(i)) \in Nat
    BY OnlineFinite, FS_AddElement, FS_CardinalityType
  <2>2. connections[i] = Connections0[i] + Cardinality(On(i))
    BY DEF ConnectionsAccurate
  <2>3. connections \in [Interface -> Int] /\ Connections0[i] \in Int
    BY InterfaceAssumption DEF TypeOK
  <2>4. connections'[i] = IF i = door THEN connections[i] + 1 ELSE connections[i]
    BY <1>1, <2>3
  <2>5. CASE i = door
    <3>1. On(i)' = On(i) \cup {p} /\ p \notin On(i)
      BY <1>8, <1>9, <2>5
    <3> QED  BY <2>1, <2>2, <2>3, <2>4, <2>5, <3>1
  <2>6. CASE i # door
    <3>1. On(i)' = On(i)
      BY <1>8, <2>6
    <3> QED  BY <2>1, <2>2, <2>4, <2>6, <3>1
  <2> QED  BY <2>5, <2>6
<1>11. ConnectionsAccurate'
  <2>1. \A i \in Interface : connections'[i] = Connections0[i] + Cardinality(On(i)')
    BY <1>10
  <2> QED  BY <2>1 DEF ConnectionsAccurate
<1>12. AdmissionBound'
  <2> SUFFICES ASSUME NEW i \in Interface, {q \in On(i)' : player'[q].mode = 0} # {}
               PROVE  Cardinality({q \in On(i)' : player'[q].mode = 0})
                        <= Limit + 1 - Connections0[i]
    BY DEF AdmissionBound
  <2> DEFINE served == {q \in On(i) : player[q].mode = 0}
             served2 == {q \in On(i)' : player'[q].mode = 0}
  <2>1. Limit \in Nat /\ Connections0[i] \in Int
    BY InterfaceAssumption
  <2>2. CASE i = door /\ r.mode = 0
    <3>0. On(i)' = On(i) \cup {p} /\ IsFiniteSet(On(i))
      BY <1>8, <2>2, OnlineFinite
    <3>1. IsFiniteSet(On(i)') /\ served2 \subseteq On(i)'
      BY <3>0, FS_AddElement
    <3>2. /\ Cardinality(served2) <= Cardinality(On(i)')
          /\ Cardinality(served2) \in Nat
      BY <3>1, FS_Subset, FS_CardinalityType
    <3>3. connections[i] <= Limit /\ connections[i] = Connections0[i] + Cardinality(On(i))
      <4>1. ~(connections[i] > Limit) /\ connections[i] \in Int
        BY <1>2, <2>2 DEF Full, TypeOK
      <4> QED  BY <2>1, <4>1 DEF ConnectionsAccurate
    <3>4. Cardinality(On(i)') = Cardinality(On(i)) + 1 /\ Cardinality(On(i)) \in Nat
      BY <1>10, <2>2
    <3> QED  BY <2>1, <3>2, <3>3, <3>4
  <2>3. CASE ~(i = door /\ r.mode = 0)
    <3>1. served2 = served
      BY <1>3, <1>4, <1>8, <2>3 DEF On
    <3> QED  BY <3>1 DEF AdmissionBound
  <2> QED  BY <2>2, <2>3
<1> QED  BY <1>1, <1>2, <1>3, <1>4, <1>5, <1>6, <1>7, <1>11, <1>12

-----------------------------------------------------------------------------
(* Names. *)

\* Fewer players under the names they had: SweepDrop, AcceptPlayer, and handlers
\* that let nobody in.
LEMMA FewerNames ==
    ASSUME LowerNames, UniqueShortLogins, BannedStaysOut,
           \A q \in Online' : \/ /\ player'[q].func # "none"
                                 /\ player'[q].site \in BannedSite => player'[q].func = "garbage"
                              \/ /\ q \in Online
                                 /\ player'[q].func = "none" => player[q].func = "none"
                                 /\ player'[q].func = "garbage" <=> player[q].func = "garbage"
                                 /\ player'[q].name = player[q].name
                                 /\ player'[q].lower_name = player[q].lower_name
                                 /\ player'[q].site = player[q].site
    PROVE  LowerNames' /\ UniqueShortLogins' /\ BannedStaysOut'
<1>1. \A q : In(q)' => /\ In(q)
                       /\ player'[q].name = player[q].name
                       /\ player'[q].lower_name = player[q].lower_name
  BY DEF In
<1>2. LowerNames'
  BY DEF LowerNames
<1>3. UniqueShortLogins'
  BY <1>1 DEF UniqueShortLogins
<1>4. BannedStaysOut'
  <2> SUFFICES ASSUME NEW q \in Online'
               PROVE  /\ In(q)' => ~Same(player'[q].name, Banned)
                      /\ player'[q].site \in BannedSite => player'[q].func = "garbage"
    BY DEF BannedStaysOut
  <2>1. In(q)' => ~Same(player'[q].name, Banned)
    BY <1>1 DEF BannedStaysOut, In
  <2>2. player'[q].site \in BannedSite => player'[q].func = "garbage"
    BY DEF BannedStaysOut
  <2> QED  BY <2>1, <2>2
<1> QED  BY <1>2, <1>3, <1>4

LEMMA KeepsNames ==
    ASSUME DoorInv, NameInv, NEW p \in Online, player[p].func # "garbage", Keeps(p),
           UNCHANGED l_player
    PROVE  LowerNames' /\ UniqueShortLogins' /\ BannedStaysOut'
<1>1. Online' = Online /\ Online \subseteq Player
  BY ListFacts DEF Online, DoorInv, ListInv
<1>2. \A q \in Online \ {p} : player'[q] = player[q]
  BY <1>1 DEF Keeps
<1> QED  BY <1>1, <1>2, FewerNames DEF Keeps, NameInv

\* A name that got in was looked for among those in, under the lower_name that
\* it has if it is short.
LEMMA AdmitsNames ==
    ASSUME DoorInv, NameInv, NEW p \in Online, player[p].func = "get_login",
           NEW n \in Name, LowerCase[n] = n, n # Banned, ~Taken(p, n), files[n] \in Name,
           NEW low \in Stored[files[n]], Admits(p, files[n], low),
           UNCHANGED l_player
    PROVE  LowerNames' /\ UniqueShortLogins' /\ BannedStaysOut'
<1> DEFINE nm == files[n]
<1>1. Online' = Online /\ Online \subseteq Player
  BY ListFacts DEF Online, DoorInv, ListInv
<1>2. /\ \A q \in Online \ {p} : player'[q] = player[q]
      /\ player'[p].func = "none" /\ player'[p].name = nm /\ player'[p].lower_name = low
      /\ player'[p].site = player[p].site
  BY <1>1 DEF Admits
<1>3. /\ nm \in Name /\ low \in Name
      /\ Short(n) <=> Short(nm)
      /\ Short(n) => Same(nm, n)
  BY StoredAssumption DEF NameInv, FilesNamed, DoorInv, ListInv, TypeOK
<1>4. Short(nm) => low = nm
  BY DEF Short
<1>5. ~Short(nm) => ~Short(low)
  BY <1>3, StoredAssumption
<1> HIDE DEF nm
<1>6. LowerNames'
  <2> SUFFICES ASSUME NEW q \in Online, player'[q].func = "none"
               PROVE  OwnName(player'[q].name, player'[q].lower_name)
    BY <1>1 DEF LowerNames
  <2>1. CASE q = p
    BY <1>2, <1>3, <1>4, <1>5, <2>1 DEF OwnName
  <2>2. CASE q # p
    BY <1>2, <2>2 DEF NameInv, LowerNames
  <2> QED  BY <2>1, <2>2
<1>7. ASSUME NEW q \in Online \ {p}, player[q].func = "none", Same(player[q].name, nm),
             Short(nm)
      PROVE  FALSE
  <2>1. player[q].name \in Name /\ LowerCase[player[q].name] = LowerCase[nm]
    BY <1>7 DEF Same
  <2>2. Short(player[q].name)
    BY <1>3, <1>7, <2>1, StoredAssumption
  <2>3. player[q].lower_name = player[q].name
    BY <1>7, <2>1, <2>2, NameAssumption DEF NameInv, LowerNames, OwnName
  <2>4. LowerCase[nm] = LowerCase[n]
    BY <1>3, <1>7 DEF Same
  <2>5. Same(player[q].lower_name, n)
    BY <2>1, <2>3, <2>4 DEF Same
  <2> QED  BY <2>5 DEF Taken
<1>8. UniqueShortLogins'
  <2> SUFFICES ASSUME NEW a \in Player, NEW b \in Player, a # b, In(a)', In(b)',
                      Same(player'[a].name, player'[b].name), Short(player'[a].name)
               PROVE  LowerCase[player'[a].name] = Admin
    BY DEF UniqueShortLogins
  <2>1. CASE a # p /\ b # p
    BY <1>1, <1>2, <2>1 DEF UniqueShortLogins, NameInv, In
  <2>2. CASE a = p
    <3>1. b \in Online \ {p} /\ player[b].func = "none" /\ player'[b].name = player[b].name
      BY <1>1, <1>2, <2>2 DEF In
    <3>2. Same(player[b].name, nm) /\ Short(nm)
      BY <1>2, <2>2, <3>1 DEF Same
    <3> QED  BY <1>7, <3>1, <3>2
  <2>3. CASE b = p
    <3>1. a \in Online \ {p} /\ player[a].func = "none" /\ player'[a].name = player[a].name
      BY <1>1, <1>2, <2>3 DEF In
    <3>2. Same(player[a].name, nm)
      BY <1>2, <2>3, <3>1
    <3>3. Short(nm)
      BY <3>1, <3>2, StoredAssumption DEF Same
    <3> QED  BY <1>7, <3>1, <3>2, <3>3
  <2> QED  BY <2>1, <2>2, <2>3
<1>9. ~Same(nm, Banned)
  <2> SUFFICES ASSUME Same(nm, Banned) PROVE FALSE
    OBVIOUS
  <2>1. Banned \in Name /\ LowerCase[nm] = LowerCase[Banned] /\ LowerCase[Banned] = Banned
    BY NameAssumption DEF Same
  <2>2. Short(Banned)
    BY <2>1, StoredAssumption
  <2>3. Short(nm)
    BY <1>3, <2>1, <2>2, StoredAssumption
  <2>4. LowerCase[nm] = n
    BY <1>3, <2>3 DEF Same
  <2> QED  BY <2>1, <2>4
<1>10. BannedStaysOut'
  <2> SUFFICES ASSUME NEW q \in Online
               PROVE  /\ player'[q].func = "none" => ~Same(player'[q].name, Banned)
                      /\ player'[q].site \in BannedSite => player'[q].func = "garbage"
    BY <1>1 DEF BannedStaysOut, In
  <2>1. CASE q = p
    <3>1. player[p].site \notin BannedSite
      BY DEF NameInv, BannedStaysOut
    <3> QED  BY <1>2, <1>9, <2>1, <3>1
  <2>2. CASE q # p
    BY <1>2, <2>2 DEF NameInv, BannedStaysOut, In
  <2> QED  BY <2>1, <2>2
<1> QED  BY <1>6, <1>8, <1>10

\* admin is not looked for, and need not be.
LEMMA AdminNames ==
    ASSUME DoorInv, NameInv, NEW p \in Online, player[p].func = "get_login",
           Admin \in Name, Admits(p, Admin, Admin), UNCHANGED l_player
    PROVE  LowerNames' /\ UniqueShortLogins' /\ BannedStaysOut'
<1>1. Online' = Online /\ Online \subseteq Player
  BY ListFacts DEF Online, DoorInv, ListInv
<1>2. /\ \A q \in Online \ {p} : player'[q] = player[q]
      /\ player'[p].func = "none" /\ player'[p].name = Admin /\ player'[p].lower_name = Admin
      /\ player'[p].site = player[p].site
  BY <1>1 DEF Admits
<1>3. LowerCase[Admin] = Admin
  BY NameAssumption
<1>4. LowerNames'
  <2> SUFFICES ASSUME NEW q \in Online, player'[q].func = "none"
               PROVE  OwnName(player'[q].name, player'[q].lower_name)
    BY <1>1 DEF LowerNames
  <2>1. CASE q = p
    BY <1>2, <2>1 DEF OwnName
  <2>2. CASE q # p
    BY <1>2, <2>2 DEF NameInv, LowerNames
  <2> QED  BY <2>1, <2>2
<1>5. UniqueShortLogins'
  <2> SUFFICES ASSUME NEW a \in Player, NEW b \in Player, a # b, In(a)', In(b)',
                      Same(player'[a].name, player'[b].name), Short(player'[a].name)
               PROVE  LowerCase[player'[a].name] = Admin
    BY DEF UniqueShortLogins
  <2>1. CASE a = p \/ b = p
    BY <1>2, <1>3, <2>1 DEF Same
  <2>2. CASE a # p /\ b # p
    BY <1>1, <1>2, <2>2 DEF UniqueShortLogins, NameInv, In
  <2> QED  BY <2>1, <2>2
<1>6. BannedStaysOut'
  <2> SUFFICES ASSUME NEW q \in Online
               PROVE  /\ player'[q].func = "none" => ~Same(player'[q].name, Banned)
                      /\ player'[q].site \in BannedSite => player'[q].func = "garbage"
    BY <1>1 DEF BannedStaysOut, In
  <2>1. CASE q = p
    <3>1. player[p].site \notin BannedSite
      BY DEF NameInv, BannedStaysOut
    <3>2. ~Same(Admin, Banned)
      BY NameAssumption DEF Same
    <3> QED  BY <1>2, <2>1, <3>1, <3>2
  <2>2. CASE q # p
    BY <1>2, <2>2 DEF NameInv, BannedStaysOut, In
  <2> QED  BY <2>1, <2>2
<1> QED  BY <1>4, <1>5, <1>6

\* Whoever has no name has no name in common with anybody.
LEMMA NamelessNames ==
    ASSUME DoorInv, NameInv, NEW p \in Online, player[p].func = "get_login",
           Admits(p, NoName, NoName), UNCHANGED l_player
    PROVE  LowerNames' /\ UniqueShortLogins' /\ BannedStaysOut'
<1>1. Online' = Online /\ Online \subseteq Player
  BY ListFacts DEF Online, DoorInv, ListInv
<1>2. /\ \A q \in Online \ {p} : player'[q] = player[q]
      /\ player'[p].func = "none" /\ player'[p].name = NoName
      /\ player'[p].lower_name = NoName /\ player'[p].site = player[p].site
  BY <1>1 DEF Admits
<1>3. NoName \notin Name
  BY NameAssumption
<1>4. LowerNames'
  <2> SUFFICES ASSUME NEW q \in Online, player'[q].func = "none"
               PROVE  OwnName(player'[q].name, player'[q].lower_name)
    BY <1>1 DEF LowerNames
  <2>1. CASE q = p
    BY <1>2, <2>1 DEF OwnName
  <2>2. CASE q # p
    BY <1>2, <2>2 DEF NameInv, LowerNames
  <2> QED  BY <2>1, <2>2
<1>5. UniqueShortLogins'
  <2> SUFFICES ASSUME NEW a \in Player, NEW b \in Player, a # b, In(a)', In(b)',
                      Same(player'[a].name, player'[b].name), Short(player'[a].name)
               PROVE  LowerCase[player'[a].name] = Admin
    BY DEF UniqueShortLogins
  <2>1. a # p /\ b # p
    BY <1>2, <1>3 DEF Same
  <2> QED  BY <1>1, <1>2, <2>1 DEF UniqueShortLogins, NameInv, In
<1>6. BannedStaysOut'
  <2> SUFFICES ASSUME NEW q \in Online
               PROVE  /\ player'[q].func = "none" => ~Same(player'[q].name, Banned)
                      /\ player'[q].site \in BannedSite => player'[q].func = "garbage"
    BY <1>1 DEF BannedStaysOut, In
  <2>1. CASE q = p
    <3>1. player[p].site \notin BannedSite
      BY DEF NameInv, BannedStaysOut
    <3> QED  BY <1>2, <1>3, <2>1, <3>1 DEF Same
  <2>2. CASE q # p
    BY <1>2, <2>2 DEF NameInv, BannedStaysOut, In
  <2> QED  BY <2>1, <2>2
<1> QED  BY <1>4, <1>5, <1>6

-----------------------------------------------------------------------------
(* The steps together. *)

LEMMA LineIInv ==
    ASSUME IInv, NEW line \in Line, HandleLine(line)
    PROVE  IInv'
<1> USE DEF IInv, DoorInv, ListInv
<1>1. /\ Touch(scan) /\ LineDone /\ UNCHANGED l_player
      /\ phase = "input" /\ scan # NULL /\ scan \in Player /\ left > 0
  BY LineTouch
<1>2. scan \in Online /\ player[scan].func # "garbage"
  BY <1>1, InputPlayer
<1>3. CASE player[scan].func = "get_login" /\ get_login(scan, line)
  <2>1. UNCHANGED <<l_request, files>>
    BY <1>3 DEF get_login
  <2>2. LowerNames' /\ UniqueShortLogins' /\ BannedStaysOut'
    <3>1. CASE Keeps(scan)
      BY <1>1, <1>2, <3>1, KeepsNames
    <3>2. CASE Admin \in Name /\ Admits(scan, Admin, Admin)
      BY <1>1, <1>2, <1>3, <3>2, AdminNames
    <3>3. CASE \E n \in Name :
                 /\ LowerCase[n] = n /\ n # Banned /\ ~Taken(scan, n) /\ files[n] \in Name
                 /\ \E low \in Stored[files[n]] : Admits(scan, files[n], low)
      BY <1>1, <1>2, <1>3, <3>3, AdmitsNames
    <3>4. CASE Admits(scan, NoName, NoName)
      BY <1>1, <1>2, <1>3, <3>4, NamelessNames
    <3> QED  BY <1>1, <1>3, <3>1, <3>2, <3>3, <3>4, LoginCases
  <2>3. DoorInv'
    BY <1>1, <2>1, TouchDoor DEF TypeOK, LineDone
  <2>4. FilesNamed' /\ PendingUnique'
    BY <2>1 DEF NameInv, FilesNamed, PendingUnique
  <2> QED  BY <2>2, <2>3, <2>4 DEF NameInv
<1>4. CASE player[scan].func = "get_handle" /\ get_handle(scan, line)
  <2>1. /\ Keeps(scan) /\ UNCHANGED files
        /\ \/ UNCHANGED l_request
           \/ \E r \in Request, str \in Name :
                /\ ~Submitted(str)
                /\ l_request' = [l_request EXCEPT
                                    ![r] = [name |-> str, timeout |-> REQ_TWO_DAYS]]
    BY <1>1, <1>4, HandleCases
  <2>2. LowerNames' /\ UniqueShortLogins' /\ BannedStaysOut'
    BY <1>1, <1>2, <2>1, KeepsNames
  <2>3. l_request' \in [Request -> RequestRec] /\ PendingUnique'
    <3>1. CASE UNCHANGED l_request
      BY <3>1 DEF TypeOK, PendingUnique
    <3>2. ASSUME NEW r \in Request, NEW str \in Name, ~Submitted(str),
                 l_request' = [l_request EXCEPT
                                 ![r] = [name |-> str, timeout |-> REQ_TWO_DAYS]]
          PROVE  l_request' \in [Request -> RequestRec] /\ PendingUnique'
      <4>1. [name |-> str, timeout |-> REQ_TWO_DAYS] \in RequestRec
        BY ClickAssumption DEF RequestRec
      <4>2. l_request' \in [Request -> RequestRec]
        BY <3>2, <4>1 DEF TypeOK
      <4>3. /\ l_request'[r].name = str
            /\ \A s \in Request \ {r} : l_request'[s] = l_request[s]
        BY <3>2 DEF TypeOK
      <4>4. \A s \in Request : ~Same(l_request[s].name, str) /\ ~Same(str, l_request[s].name)
        BY <3>2 DEF Submitted, Same
      <4>5. ASSUME NEW s \in Request, NEW t \in Request, s # t
            PROVE  ~Same(l_request'[s].name, l_request'[t].name)
        BY <4>3, <4>4, <4>5 DEF PendingUnique
      <4> QED  BY <4>2, <4>5 DEF PendingUnique
    <3> QED  BY <2>1, <3>1, <3>2
  <2>4. DoorInv'
    BY <1>1, <2>1, <2>3, TouchDoor DEF TypeOK, LineDone
  <2>5. FilesNamed'
    BY <2>1 DEF NameInv, FilesNamed
  <2> QED  BY <2>2, <2>3, <2>4, <2>5 DEF NameInv
<1>5. CASE player[scan].func = "none" /\ run_command(scan, line)
  <2> DEFINE low == player[scan].lower_name
             nm == player[scan].name
  <2>1. /\ Keeps(scan) /\ UNCHANGED l_request
        /\ \/ UNCHANGED files
           \/ low # NoName /\ \E rec \in {nm, Nameless} : files' = [files EXCEPT ![low] = rec]
    BY <1>1, <1>5, CommandCases
  <2>2. LowerNames' /\ UniqueShortLogins' /\ BannedStaysOut'
    BY <1>1, <1>2, <2>1, KeepsNames
  <2>3. OwnName(nm, low)
    BY <1>2, <1>5 DEF NameInv, LowerNames
  <2> HIDE DEF low, nm
  <2>4. files' \in [Name -> Name \cup {NoName, Nameless}]
    BY <2>1, <2>3 DEF TypeOK, OwnName
  <2>5. FilesNamed'
    <3> SUFFICES ASSUME NEW n \in Name, files'[n] \in Name
                 PROVE  /\ Short(n) <=> Short(files'[n])
                        /\ Short(n) => Same(files'[n], n)
      BY DEF FilesNamed
    <3>1. CASE files'[n] = files[n]
      BY <3>1 DEF NameInv, FilesNamed
    <3>2. CASE n = low /\ files'[n] = nm
      BY <2>3, <3>2, NameAssumption DEF Same, OwnName
    <3> QED  BY <2>1, <3>1, <3>2, NameAssumption DEF TypeOK
  <2>6. DoorInv'
    BY <1>1, <2>1, <2>4, TouchDoor DEF TypeOK, LineDone
  <2>7. PendingUnique'
    BY <2>1 DEF PendingUnique
  <2> QED  BY <2>2, <2>5, <2>6, <2>7 DEF NameInv
<1> QED  BY <1>3, <1>4, <1>5 DEF HandleLine

LEMMA HangupIInv ==
    ASSUME IInv, InputHangup \/ HandleInterrupt
    PROVE  IInv'
<1> USE DEF IInv, DoorInv, ListInv
<1>1. /\ phase = "input" /\ scan # NULL
      /\ player' = [player EXCEPT ![scan].mode = M_DISCONNECT]
      /\ UNCHANGED <<l_player, connections, phase, door, l_request, files>>
  BY DEF InputHangup, HandleInterrupt, LineDone, Interrupt, ScanLive
<1>2. /\ scan \in Online /\ scan \in Player /\ player[scan].func # "garbage"
  BY <1>1, InputPlayer
<1>3. Keeps(scan)
  BY <1>1, <1>2, AskKeeps
<1>4. Touch(scan)
  BY <1>2, <1>3 DEF Keeps, Touch
<1>5. \/ LineDone /\ left > 0
      \/ scan' = NextOf(scan) /\ UNCHANGED <<tmp, left>> /\ left = 0
  BY DEF InputHangup, HandleInterrupt
<1>6. DoorInv'
  BY <1>1, <1>4, <1>5, TouchDoor DEF TypeOK
<1>7. LowerNames' /\ UniqueShortLogins' /\ BannedStaysOut'
  BY <1>1, <1>2, <1>3, KeepsNames
<1> QED  BY <1>1, <1>6, <1>7 DEF NameInv, FilesNamed, PendingUnique

LEMMA MoveIInv ==
    ASSUME IInv, Move
    PROVE  IInv'
<1> USE DEF IInv, DoorInv
<1>1. UNCHANGED <<l_player, player, connections, files>>
  BY MoveUnchanged
<1>2. ListInv' /\ UNCHANGED l_request
  BY MoveList
<1> QED  BY <1>1, <1>2, MoveSettled, UnchangedCounts, UnchangedNames DEF PendingUnique

LEMMA ClickIInv ==
    ASSUME IInv, timer_click \/ UNCHANGED vars
    PROVE  IInv'
<1>1. UNCHANGED <<l_player, player, files>>
  BY MoveUnchanged
<1> QED  BY <1>1, ClickDoor, ClickPending, UnchangedNames DEF IInv, DoorInv, ListInv

LEMMA DropIInv ==
    ASSUME IInv, SweepDrop
    PROVE  IInv'
<1>1. /\ DoorInv' /\ Online' = Online \ {scan}
      /\ \A p \in Online' : player'[p] = player[p]
  BY DropDoor DEF IInv
<1>2. UNCHANGED <<l_request, files>>
  BY DEF SweepDrop
<1>3. LowerNames' /\ UniqueShortLogins' /\ BannedStaysOut'
  BY <1>1, FewerNames DEF IInv, NameInv
<1> QED  BY <1>1, <1>2, <1>3 DEF IInv, NameInv, FilesNamed, PendingUnique

LEMMA AcceptIInv ==
    ASSUME IInv, NEW p \in Player, NEW ok \in BOOLEAN, NEW site \in Site,
           AcceptPlayer(p, ok, site)
    PROVE  IInv'
<1>1. /\ DoorInv' /\ Online' = Online \cup {p}
      /\ \A q \in Online : player'[q] = player[q]
      /\ player'[p].func # "none"
      /\ player'[p].site \in BannedSite => player'[p].func = "garbage"
  BY AcceptDoor DEF IInv
<1>2. UNCHANGED <<l_request, files>>
  BY DEF AcceptPlayer
<1>3. LowerNames' /\ UniqueShortLogins' /\ BannedStaysOut'
  BY <1>1, FewerNames DEF IInv, NameInv
<1> QED  BY <1>1, <1>2, <1>3 DEF IInv, NameInv, FilesNamed, PendingUnique

LEMMA CoreInvariant == Spec => []IInv
<1>1. IInv /\ [Next]_vars => IInv'
  BY LineIInv, HangupIInv, MoveIInv, ClickIInv, DropIInv, AcceptIInv
     DEF Next, jcd_core_loop, Move
<1> QED  BY InitIInv, <1>1, PTL DEF Spec

-----------------------------------------------------------------------------

\* The main loop's variables keep their types.
THEOREM CoreTypeOK == Spec => []TypeOK
<1>1. IInv => TypeOK
  BY DEF IInv, DoorInv, ListInv
<1> QED  BY <1>1, CoreInvariant, PTL

\* No pointer that a loop of jcd_core_loop keeps outlives its player.
THEOREM CoreScanLive == Spec => []ScanLive
<1>1. IInv => ScanLive
  BY DEF IInv, DoorInv, ListInv
<1> QED  BY <1>1, CoreInvariant, PTL

\* player_malloc does not clear func, and player_connect does not always set it;
\* still SOCK_Handle_Input only meets players who have one.
THEOREM CoreNoWildCall == Spec => []NoWildCall
<1>1. IInv => NoWildCall
  BY DEF IInv, DoorInv, Settled
<1> QED  BY <1>1, CoreInvariant, PTL

\* i->connections counts the players of an interface, from where it started.
THEOREM CoreConnections == Spec => []ConnectionsAccurate
<1>1. IInv => ConnectionsAccurate
  BY DEF IInv, DoorInv
<1> QED  BY <1>1, CoreInvariant, PTL

\* The limit of player_connect bounds the players an interface serves.
THEOREM CoreAdmission == Spec => []AdmissionBound
<1>1. IInv => AdmissionBound
  BY DEF IInv, DoorInv
<1> QED  BY <1>1, CoreInvariant, PTL

\* No name but admin, and none that lower_name holds whole, is in twice.
THEOREM CoreUniqueLogins == Spec => []UniqueShortLogins
<1>1. IInv => UniqueShortLogins
  BY DEF IInv, NameInv
<1> QED  BY <1>1, CoreInvariant, PTL

\* Neither a banned name nor a banned address gets in, whatever lines are
\* pipelined behind the refusal.
THEOREM CoreBannedStaysOut == Spec => []BannedStaysOut
<1>1. IInv => BannedStaysOut
  BY DEF IInv, NameInv
<1> QED  BY <1>1, CoreInvariant, PTL

\* A name is queued once, in whatever case.
THEOREM CorePendingUnique == Spec => []PendingUnique
<1>1. IInv => PendingUnique
  BY DEF IInv
<1> QED  BY <1>1, CoreInvariant, PTL
-----------------------------------------------------------------------------
(* Sessions: every step of the main loop is one of a session, or none.      *)

SessionOf(p) == <<SessionState[p], SessionLine[p], SessionKey[p]>>

LEMMA SessionValues ==
    ASSUME NEW p \in Player
    PROVE  /\ SessionState[p] = State(p) /\ SessionState[p]' = State(p)'
           /\ SessionLine[p] = IF p \in Online THEN player[p].interface ELSE 1
           /\ SessionLine[p]' = IF p \in Online' THEN player'[p].interface ELSE 1
           /\ SessionKey[p] = KeyOf(p) /\ SessionKey[p]' = KeyOf(p)'
BY DEF SessionState, SessionLine, SessionKey

\* A step that is about p leaves the sessions of the others alone.
LEMMA OneSession ==
    ASSUME NEW p \in Player, \A q \in Player \ {p} : SessionOf(q)' = SessionOf(q)
    PROVE  /\ SessionState' = [SessionState EXCEPT ![p] = State(p)']
           /\ SessionLine' = [SessionLine EXCEPT ![p] = IF p \in Online' THEN player'[p].interface ELSE 1]
           /\ SessionKey' = [SessionKey EXCEPT ![p] = KeyOf(p)']
<1>1. \A q \in Player \ {p} : /\ SessionState'[q] = SessionState[q] /\ SessionLine'[q] = SessionLine[q]
                              /\ SessionKey'[q] = SessionKey[q]
  BY DEF SessionOf
<1>2. \A q \in Player : /\ SessionState'[q] = State(q)' /\ SessionKey'[q] = KeyOf(q)'
                        /\ SessionLine'[q] = IF q \in Online' THEN player'[q].interface ELSE 1
  BY DEF SessionState, SessionLine, SessionKey
<1>3. /\ DOMAIN SessionState = Player /\ DOMAIN SessionLine = Player /\ DOMAIN SessionKey = Player
      /\ DOMAIN SessionState' = Player /\ DOMAIN SessionLine' = Player /\ DOMAIN SessionKey' = Player
  BY DEF SessionState, SessionLine, SessionKey
<1>4. SessionState' = [SessionState EXCEPT ![p] = State(p)']
  BY <1>1, <1>2, <1>3 DEF SessionState
<1>5. SessionLine' = [SessionLine EXCEPT ![p] = IF p \in Online' THEN player'[p].interface ELSE 1]
  BY <1>1, <1>2, <1>3 DEF SessionLine
<1>6. SessionKey' = [SessionKey EXCEPT ![p] = KeyOf(p)']
  BY <1>1, <1>2, <1>3 DEF SessionKey
<1> QED  BY <1>4, <1>5, <1>6

\* Who is linked as before, with the structure as before, is in the same session.
LEMMA SameSession ==
    ASSUME NEW q \in Player, player'[q] = player[q], q \in Online' <=> q \in Online
    PROVE  SessionOf(q)' = SessionOf(q) /\ State(q)' = State(q) /\ KeyOf(q)' = KeyOf(q)
<1>1. State(q)' = State(q)
  BY DEF State, Gone
<1>2. KeyOf(q)' = KeyOf(q)
  BY <1>1 DEF KeyOf, Distinct
<1> QED  BY <1>1, <1>2, SessionValues DEF SessionOf

\* An online player whose structure a handler has changed: he is in the same session, or
\* on the way out.
LEMMA TouchSession ==
    ASSUME TypeOK, NEW p \in Online, Touch(p), UNCHANGED l_player,
           player'[p].func = "none" <=> player[p].func = "none",
           player'[p].name = player[p].name
    PROVE  [S!Leave(p)]_(S!svars)
<1>1. /\ p \in Player /\ Online' = Online /\ player[p] \in PlayerRec /\ player'[p] \in PlayerRec
      /\ \A q \in Player \ {p} : player'[q] = player[q]
  BY ListFacts DEF Touch, Online, TypeOK
<1>2. \A q \in Player \ {p} : SessionOf(q)' = SessionOf(q)
  BY <1>1, SameSession
<1>3. SessionLine' = SessionLine
  <2>1. \A q \in Player : player'[q].interface = player[q].interface
    BY DEF Touch
  <2> QED  BY <1>1, <2>1 DEF SessionLine
<1>4. Gone(p) => Gone(p)'
  BY <1>1 DEF Gone, Touch, PlayerRec, M_LOST, M_DISCONNECT
<1>5. CASE Gone(p)' <=> Gone(p)
  <2>1. State(p)' = State(p)
    BY <1>1, <1>5 DEF State
  <2>2. KeyOf(p)' = KeyOf(p)
    BY <2>1 DEF KeyOf, Distinct
  <2>3. \A q \in Player : SessionState'[q] = SessionState[q] /\ SessionKey'[q] = SessionKey[q]
    BY <1>1, <1>2, <2>1, <2>2, SessionValues DEF SessionOf
  <2>4. SessionState' = SessionState /\ SessionKey' = SessionKey
    BY <2>3 DEF SessionState, SessionKey
  <2> QED  BY <1>3, <2>4 DEF S!svars
<1>6. CASE Gone(p)' /\ ~Gone(p)
  <2>1. State(p) \in {"visitor", "member"} /\ State(p)' = "leaving"
    BY <1>1, <1>6 DEF State
  <2>2. KeyOf(p)' = "nobody"
    BY <2>1 DEF KeyOf
  <2>3. SessionState' = [SessionState EXCEPT ![p] = "leaving"] /\ SessionKey' = [SessionKey EXCEPT ![p] = "nobody"]
    BY <1>1, <1>2, <2>1, <2>2, OneSession
  <2>4. SessionState[p] \in {"visitor", "member"}
    BY <1>1, <2>1, SessionValues
  <2> QED  BY <1>3, <2>3, <2>4 DEF S!Leave, S!Nobody
<1> QED  BY <1>4, <1>5, <1>6

\* The name somebody gets in under has been looked for among the members, if it is one
\* that is told apart: UniqueShortLogins holds behind the step, too.
LEMMA AdmitSession ==
    ASSUME TypeOK, UniqueShortLogins', NEW p \in Online, player[p].func = "get_login",
           NEW nm \in Name \cup {NoName}, NEW low \in Name \cup {NoName}, Admits(p, nm, low),
           UNCHANGED l_player
    PROVE  [S!SNext]_(S!svars)
<1>1. /\ p \in Player /\ Online' = Online /\ player[p] \in PlayerRec /\ player'[p] \in PlayerRec
      /\ \A q \in Player \ {p} : player'[q] = player[q]
      /\ player'[p].func = "none" /\ player'[p].name = nm
  BY ListFacts DEF Admits, Online, TypeOK
<1>2. /\ \A q \in Player \ {p} : /\ SessionOf(q)' = SessionOf(q)
                                 /\ State(q)' = State(q) /\ KeyOf(q)' = KeyOf(q)
  BY <1>1, SameSession
<1>3. SessionLine' = SessionLine
  <2>1. \A q \in Player : player'[q].interface = player[q].interface
    BY DEF Admits
  <2> QED  BY <1>1, <2>1 DEF SessionLine
<1>4. Gone(p)' <=> Gone(p)
  BY DEF Gone, Admits
<1>5. CASE Gone(p)
  <2>1. State(p)' = "leaving" /\ State(p) = "leaving"
    BY <1>1, <1>4, <1>5 DEF State
  <2>2. KeyOf(p)' = KeyOf(p)
    BY <2>1 DEF KeyOf
  <2>3. \A q \in Player : SessionState'[q] = SessionState[q] /\ SessionKey'[q] = SessionKey[q]
    BY <1>1, <1>2, <2>1, <2>2, SessionValues DEF SessionOf
  <2>4. SessionState' = SessionState /\ SessionKey' = SessionKey
    BY <2>3 DEF SessionState, SessionKey
  <2> QED  BY <1>3, <2>4 DEF S!svars
<1>6. CASE ~Gone(p)
  <2>1. State(p) = "visitor" /\ State(p)' = "member" /\ KeyOf(p) = "nobody"
    BY <1>1, <1>4, <1>6 DEF State, KeyOf
  <2>2. KeyOf(p)' = IF Distinct(nm) THEN LowerCase[nm] ELSE "nobody"
    BY <1>1, <2>1 DEF KeyOf, Distinct
  <2>3. /\ SessionState' = [SessionState EXCEPT ![p] = "member"]
        /\ SessionKey' = [SessionKey EXCEPT ![p] = KeyOf(p)']
        /\ SessionState[p] = "visitor" /\ SessionKey[p] = "nobody"
    BY <1>1, <1>2, <2>1, OneSession, SessionValues
  <2>4. CASE Distinct(nm)
    <3>1. LowerCase[nm] \in Name /\ KeyOf(p)' = LowerCase[nm]
      BY <2>2, <2>4, NameAssumption DEF Distinct
    <3>2. ASSUME NEW q \in Player, SessionState[q] = "member", SessionKey[q] = LowerCase[nm],
                 LowerCase[nm] # "nobody"
          PROVE  FALSE
      <4>1. State(q) = "member" /\ KeyOf(q) = LowerCase[nm] /\ q # p
        BY <2>1, <3>2, SessionValues
      <4>2. Distinct(player[q].name) /\ LowerCase[player[q].name] = LowerCase[nm]
        BY <3>2, <4>1 DEF KeyOf
      <4>3. In(q)' /\ In(p)'
        BY <1>1, <4>1 DEF In, State
      <4>4. Same(player'[q].name, player'[p].name)
        BY <1>1, <2>4, <4>1, <4>2 DEF Same, Distinct
      <4> QED  BY <1>1, <4>1, <4>2, <4>3, <4>4 DEF UniqueShortLogins, Distinct
    <3>3. CASE LowerCase[nm] = "nobody"
      <4>1. SessionKey' = SessionKey
        BY <2>3, <3>1, <3>3 DEF SessionKey
      <4> QED  BY <1>1, <1>3, <2>3, <4>1
                  DEF S!SNext, S!JoinUnchecked
    <3>4. CASE LowerCase[nm] # "nobody"
      <4>1. S!Join(p, LowerCase[nm])
        BY <1>3, <2>3, <3>1, <3>2, <3>4 DEF S!Join
      <4> QED  BY <1>1, <3>1, <4>1 DEF S!SNext
    <3> QED  BY <3>3, <3>4
  <2>5. CASE ~Distinct(nm)
    <3>1. SessionKey' = SessionKey
      BY <2>2, <2>3, <2>5 DEF SessionKey
    <3> QED  BY <1>1, <1>3, <2>3, <3>1 DEF S!SNext, S!JoinUnchecked
  <2> QED  BY <2>4, <2>5
<1> QED  BY <1>5, <1>6

\* The one who leaves the list was on the way out.
LEMMA DropSession ==
    ASSUME DoorInv, SweepDrop, NEW p \in Player, p = scan
    PROVE  S!Depart(p)
<1>1. /\ Online' = Online \ {p} /\ p \in Online
      /\ \A q \in Online' : player'[q] = player[q]
  BY DropDoor
<1>2. Gone(p)
  BY DEF SweepDrop
<1>3. \A q \in Player \ {p} : SessionOf(q)' = SessionOf(q)
  <2> SUFFICES ASSUME NEW q \in Player \ {p} PROVE SessionOf(q)' = SessionOf(q)
    OBVIOUS
  <2>1. CASE q \in Online
    BY <1>1, <2>1, SameSession
  <2>2. CASE q \notin Online
    <3>1. State(q) = "absent" /\ State(q)' = "absent"
      BY <1>1, <2>2 DEF State
    <3>2. KeyOf(q)' = KeyOf(q)
      BY <3>1 DEF KeyOf
    <3> QED  BY <1>1, <2>2, <3>1, <3>2, SessionValues DEF SessionOf
  <2> QED  BY <2>1, <2>2
<1>4. State(p) = "leaving" /\ State(p)' = "absent"
  BY <1>1, <1>2 DEF State
<1>5. KeyOf(p) = "nobody" /\ KeyOf(p)' = "nobody"
  BY <1>4 DEF KeyOf
<1>6. /\ SessionState' = [SessionState EXCEPT ![p] = "absent"]
      /\ SessionLine' = [SessionLine EXCEPT ![p] = 1]
      /\ SessionKey' = [SessionKey EXCEPT ![p] = "nobody"]
  BY <1>1, <1>2, <1>3, <1>4, <1>5, OneSession
<1>7. SessionState[p] = "leaving" /\ SessionKey[p] = "nobody"
  BY <1>2, <1>4, <1>5, SessionValues
<1>8. SessionKey' = SessionKey
  BY <1>6, <1>7 DEF SessionKey
<1> QED  BY <1>2, <1>6, <1>7, <1>8 DEF S!Depart

\* Whom the limit lets in finds a seat: those served are among those who are counted.
LEMMA SeatFree ==
    ASSUME TypeOK, ConnectionsAccurate, NEW i \in Interface, ~Full(i)
    PROVE  Cardinality(S!Served(i)) < Limit + 1 - Connections0[i]
<1>1. S!Served(i) \subseteq On(i)
  <2> SUFFICES ASSUME NEW p \in Player, SessionState[p] \in {"visitor", "member"},
                      SessionLine[p] = i
               PROVE  p \in On(i)
    BY DEF S!Served
  <2>1. State(p) \in {"visitor", "member"}
    BY SessionValues
  <2>2. p \in Online
    BY <2>1 DEF State
  <2> QED  BY <2>2, SessionValues DEF On
<1>2. IsFiniteSet(On(i)) /\ Cardinality(On(i)) \in Nat
  BY OnlineFinite, FS_CardinalityType
<1>3. Cardinality(S!Served(i)) <= Cardinality(On(i)) /\ Cardinality(S!Served(i)) \in Nat
  BY <1>1, <1>2, FS_Subset, FS_CardinalityType
<1>4. /\ connections[i] = Connections0[i] + Cardinality(On(i))
      /\ connections[i] \in Int /\ connections[i] <= Limit
  BY InterfaceAssumption DEF ConnectionsAccurate, TypeOK, Full
<1>5. Limit \in Nat /\ Connections0[i] \in Int
  BY InterfaceAssumption
<1> QED  BY <1>2, <1>3, <1>4, <1>5

LEMMA AcceptSession ==
    ASSUME DoorInv, NEW p \in Player, NEW ok \in BOOLEAN, NEW site \in Site,
           AcceptPlayer(p, ok, site)
    PROVE  S!Arrive(p, door) \/ S!TurnAway(p, door)
<1>1. /\ p \notin Online /\ Online' = Online \cup {p}
      /\ \A q \in Online : player'[q] = player[q]
      /\ player'[p].func # "none"
  BY AcceptDoor
<1>2. /\ player'[p] = Newcomer(door, ok, site) /\ door \in Interface
      /\ \A q \in Player \ {p} : player'[q] = player[q]
      /\ TypeOK /\ ConnectionsAccurate
  BY DEF AcceptPlayer, player_connect, DoorInv, ListInv, TypeOK
<1>3. /\ player'[p] \in PlayerRec /\ player'[p].interface = door
      /\ player'[p].mode = 0 => ~Full(door)
  BY <1>2, NewcomerFacts
<1>4. \A q \in Player \ {p} : SessionOf(q)' = SessionOf(q)
  BY <1>1, <1>2, SameSession
<1>5. State(p) = "absent" /\ State(p)' \in {"visitor", "leaving"}
  BY <1>1 DEF State
<1>6. KeyOf(p) = "nobody" /\ KeyOf(p)' = "nobody"
  BY <1>5 DEF KeyOf
<1>7. /\ SessionState' = [SessionState EXCEPT ![p] = State(p)']
      /\ SessionLine' = [SessionLine EXCEPT ![p] = door]
      /\ SessionKey' = [SessionKey EXCEPT ![p] = "nobody"]
  BY <1>1, <1>3, <1>4, <1>6, OneSession
<1>8. SessionState[p] = "absent" /\ SessionKey[p] = "nobody"
  BY <1>5, <1>6, SessionValues
<1>9. SessionKey' = SessionKey
  BY <1>7, <1>8 DEF SessionKey
<1>10. CASE State(p)' = "visitor"
  <2>1. player'[p].mode = 0
    BY <1>1, <1>3, <1>10 DEF State, Gone, PlayerRec
  <2>2. Cardinality(S!Served(door)) < Limit + 1 - Connections0[door]
    BY <1>2, <1>3, <2>1, SeatFree
  <2>3. [i \in Interface |-> Limit + 1 - Connections0[i]][door] = Limit + 1 - Connections0[door]
    BY <1>2
  <2>4. S!Cardinality(S!Served(door)) = Cardinality(S!Served(door))
    BY DEF S!Cardinality, Cardinality
  <2> QED  BY <1>7, <1>8, <1>9, <1>10, <2>2, <2>3, <2>4 DEF S!Arrive
<1>11. CASE State(p)' = "leaving"
  BY <1>7, <1>8, <1>9, <1>11 DEF S!TurnAway
<1> QED  BY <1>5, <1>10, <1>11

LEMMA StillSession ==
    ASSUME UNCHANGED <<l_player, player>>
    PROVE  UNCHANGED S!svars
<1>1. Online' = Online
  BY DEF Online
<1>2. \A p \in Player : SessionOf(p)' = SessionOf(p)
  BY <1>1, SameSession
<1>3. \A p \in Player : /\ SessionState'[p] = SessionState[p]
                        /\ SessionLine'[p] = SessionLine[p]
                        /\ SessionKey'[p] = SessionKey[p]
  BY <1>2 DEF SessionOf
<1>4. SessionState' = SessionState /\ SessionLine' = SessionLine /\ SessionKey' = SessionKey
  BY <1>3 DEF SessionState, SessionLine, SessionKey
<1> QED  BY <1>4 DEF S!svars

LEMMA LineSession ==
    ASSUME IInv, IInv', NEW line \in Line, HandleLine(line)
    PROVE  [S!SNext]_(S!svars)
<1> USE DEF IInv, DoorInv, ListInv
<1>1. /\ Touch(scan) /\ UNCHANGED l_player
      /\ phase = "input" /\ scan # NULL /\ scan \in Player
  BY LineTouch
<1>2. scan \in Online
  BY <1>1, InputPlayer
<1>3. ASSUME player'[scan].func = "none" <=> player[scan].func = "none",
             player'[scan].name = player[scan].name
      PROVE  [S!SNext]_(S!svars)
  BY <1>1, <1>2, <1>3, TouchSession DEF S!SNext
<1>4. CASE player[scan].func = "get_login" /\ get_login(scan, line)
  <2>1. CASE Keeps(scan)
    BY <1>3, <1>4, <2>1 DEF Keeps
  <2>2. CASE Admin \in Name /\ Admits(scan, Admin, Admin)
    BY <1>1, <1>2, <1>4, <2>2, AdmitSession DEF NameInv
  <2>3. ASSUME NEW n \in Name, files[n] \in Name, NEW low \in Stored[files[n]],
               Admits(scan, files[n], low)
        PROVE  [S!SNext]_(S!svars)
    <3>1. files[n] \in Name /\ low \in Name
      BY <2>3, StoredAssumption DEF TypeOK
    <3> QED  BY <1>1, <1>2, <1>4, <2>3, <3>1, AdmitSession DEF NameInv
  <2>4. CASE Admits(scan, NoName, NoName)
    BY <1>1, <1>2, <1>4, <2>4, AdmitSession DEF NameInv
  <2> QED  BY <1>1, <1>4, <2>1, <2>2, <2>3, <2>4, LoginCases
<1>5. CASE player[scan].func = "get_handle" /\ get_handle(scan, line)
  <2>1. Keeps(scan)
    BY <1>1, <1>5, HandleCases
  <2> QED  BY <1>3, <1>5, <2>1 DEF Keeps
<1>6. CASE player[scan].func = "none" /\ run_command(scan, line)
  <2>1. Keeps(scan)
    BY <1>1, <1>6, CommandCases
  <2>2. Lose(scan) \/ UNCHANGED player
    BY <1>6 DEF run_command, comm_quit, comm_save
  <2>3. player'[scan].func = player[scan].func
    BY <1>1, <2>2 DEF Lose, TypeOK, PlayerRec
  <2> QED  BY <1>3, <2>1, <2>3 DEF Keeps
<1> QED  BY <1>4, <1>5, <1>6 DEF HandleLine

LEMMA HangupSession ==
    ASSUME IInv, InputHangup \/ HandleInterrupt
    PROVE  [S!SNext]_(S!svars)
<1> USE DEF IInv, DoorInv, ListInv
<1>1. /\ phase = "input" /\ scan # NULL
      /\ player' = [player EXCEPT ![scan].mode = M_DISCONNECT]
      /\ UNCHANGED l_player
  BY DEF InputHangup, HandleInterrupt, LineDone, Interrupt, ScanLive
<1>2. scan \in Online /\ scan \in Player /\ player[scan].func # "garbage"
  BY <1>1, InputPlayer
<1>3. Keeps(scan)
  BY <1>1, <1>2, AskKeeps
<1>4. Touch(scan)
  BY <1>2, <1>3 DEF Keeps, Touch
<1>5. player'[scan].func = player[scan].func /\ player'[scan].name = player[scan].name
  BY <1>1, <1>2 DEF TypeOK, PlayerRec
<1> QED  BY <1>1, <1>2, <1>4, <1>5, TouchSession DEF S!SNext

LEMMA SessionStep == IInv /\ IInv' /\ [Next]_vars => [S!SNext]_(S!svars)
<1> SUFFICES ASSUME IInv, IInv', [Next]_vars PROVE [S!SNext]_(S!svars)
  OBVIOUS
<1>1. CASE Move \/ timer_click \/ UNCHANGED vars
  BY <1>1, MoveUnchanged, StillSession
<1>2. CASE InputHangup \/ HandleInterrupt
  BY <1>2, HangupSession
<1>3. CASE SweepDrop
  <2>1. PICK p \in Player : p = scan
    BY <1>3, DropDoor, ListFacts DEF IInv, DoorInv, ListInv
  <2> QED  BY <1>3, <2>1, DropSession DEF IInv, S!SNext
<1>4. ASSUME NEW line \in Line, HandleLine(line)
      PROVE  [S!SNext]_(S!svars)
  BY <1>4, LineSession
<1>5. ASSUME NEW p \in Player, NEW ok \in BOOLEAN, NEW site \in Site, AcceptPlayer(p, ok, site)
      PROVE  [S!SNext]_(S!svars)
  <2>1. S!Arrive(p, door) \/ S!TurnAway(p, door)
    BY <1>5, AcceptSession DEF IInv
  <2>2. door \in Interface
    BY <1>5 DEF AcceptPlayer
  <2> QED  BY <2>1, <2>2 DEF S!SNext
<1> QED  BY <1>1, <1>2, <1>3, <1>4, <1>5 DEF Next, jcd_core_loop, Move

\* The main loop, the login dialogue and the limit at the door keep the safety part of
\* what Sessions promises: who is turned away or lost only leaves, nobody joins under a
\* name another member has, and no interface serves more than it has seats.
THEOREM CoreSessions == Spec => S!SSafety
<1>1. Init => S!SInit
  <2> SUFFICES ASSUME Init PROVE S!SInit
    OBVIOUS
  <2>1. Online = {}
    BY DEF Init, Online, ToSet
  <2>2. \A p \in Player : State(p) = "absent" /\ KeyOf(p) = "nobody"
    BY <2>1 DEF State, KeyOf
  <2> QED  BY <2>1, <2>2 DEF S!SInit, S!Nobody, SessionState, SessionLine, SessionKey
<1> QED  BY <1>1, SessionStep, CoreInvariant, PTL DEF Spec, S!SSafety
=============================================================================
