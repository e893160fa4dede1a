--------------------------- MODULE OutputBuffer ---------------------------
(***************************************************************************)
(* One player's output buffer (src/buffer.c): what tell_player appends and *)
(* the sweep, or a lack of room, hands to sock_write; with the timer's own *)
(* tell_player between any two steps of either.                            *)
(*                                                                         *)
(* A step ends where the Makefile's build (-O2) reads or writes pos, or    *)
(* calls write.  The build reads pos once for the test and for the address *)
(* of the copy, takes the address to be out when it has flushed, and adds  *)
(* to pos in one instruction.                                              *)
(***************************************************************************)
EXTENDS Integers, Sequences, SequencesExt

CONSTANTS
    BUFFER_SIZE,
    swBLOCKSIZE,
    Text,           \* the lengths of what is told; tell_player cuts at 1022
    Alarm,          \* the length of what the timer tells
    MaxSaid,        \* bounds the bytes told to a client
    MaxAlarms       \* bounds the alarms that tell a client something

ASSUME BufferAssumption ==
    /\ BUFFER_SIZE \in Nat \ {0}
    /\ swBLOCKSIZE \in Nat \ {0}
    /\ Text \subseteq {n \in Nat \ {0} : n + 1 < BUFFER_SIZE}
    /\ Alarm \in {n \in Nat \ {0} : n + 1 < BUFFER_SIZE}
    /\ MaxSaid \in Nat /\ MaxAlarms \in Nat

VARIABLES
    out, pos,       \* p->buffer
    pc,             \* where the program is
    size, at,       \* buffer_add's: the text's length, the address of the copy
    left, sent,     \* sock_write's: its size, how much of it is written
    leaving,        \* the sweep has found the player lost
    client,         \* history: the bytes this client's socket took
    said,           \* history: how many bytes the program has told it
    alarms,         \* history: how often the timer has told it something
    short,          \* history: a write took less than it was given
    fresh           \* history: the memory was another structure's before

buffer == <<out, pos>>
call == <<size, at, left, sent>>
history == <<client, said, alarms, short, fresh>>
vars == <<buffer, pc, call, leaving, history>>

\* A byte is the number it was told as; Other is any that was not told to this
\* client: a terminator, the timer's, what the memory held.
Other == 0
Index == 0..BUFFER_SIZE - 1

\* What a read of n bytes from a on yields.  Behind out lie pos and the rest.
Bytes(a, n) == [i \in 1..n |-> IF a + i - 1 \in Index THEN out[a + i - 1] ELSE Other]

\* out after a copy of n bytes and the terminator to a; the first is b.
Copied(a, n, b) ==
    [i \in Index |-> IF i \in a..a + n - 1 THEN IF b = Other THEN Other ELSE b + i - a
                     ELSE IF i = a + n THEN Other ELSE out[i]]

-----------------------------------------------------------------------------

\* malloc clears nothing: pos is anything, of which above BUFFER_SIZE is one.
Init ==
    /\ out = [i \in Index |-> Other] /\ pos \in 0..BUFFER_SIZE + 1
    /\ pc = "idle" /\ size = 0 /\ at = 0 /\ left = 0 /\ sent = 0
    /\ leaving = FALSE
    /\ client = << >> /\ said = 0 /\ alarms = 0 /\ short = FALSE
    /\ fresh = TRUE

\* Mutant: a full buffer is emptied without being sent.
buffer_add_dropping(n) ==
    /\ pc = "idle" /\ ~leaving /\ said + n <= MaxSaid
    /\ said' = said + n
    /\ size' = n
    /\ \/ pos + n + 1 >= BUFFER_SIZE /\ pc' = "clear" /\ at' = 0
       \/ pos + n + 1 < BUFFER_SIZE /\ pc' = "copy" /\ at' = pos
    /\ UNCHANGED <<buffer, left, sent, leaving, client, alarms, short, fresh>>

\* buffer_add: size, and the test with the address it leaves.
buffer_add(n) ==
    /\ pc = "idle" /\ ~leaving /\ said + n <= MaxSaid
    /\ said' = said + n
    /\ size' = n
    /\ \/ pos + n + 1 >= BUFFER_SIZE /\ pc' = "flush" /\ at' = 0
       \/ pos + n + 1 < BUFFER_SIZE /\ pc' = "copy" /\ at' = pos
    /\ UNCHANGED <<buffer, left, sent, leaving, client, alarms, short, fresh>>

\* Mutant: the address is reckoned from pos at the time of the copy.
CopyReread ==
    /\ pc = "copy"
    /\ at' = pos
    /\ out' = Copied(pos, size, said - size + 1)
    /\ pc' = "advance"
    /\ UNCHANGED <<pos, size, left, sent, leaving, history>>

Copy ==
    /\ pc = "copy"
    /\ out' = Copied(at, size, said - size + 1)
    /\ pc' = "advance"
    /\ UNCHANGED <<pos, call, leaving, history>>

Advance ==
    /\ pc = "advance"
    /\ pos' = pos + size
    /\ pc' = "idle" /\ size' = 0 /\ at' = 0
    /\ UNCHANGED <<out, left, sent, leaving, history>>

\* Where buffer_send returns to.
Return == IF size > 0 THEN "copy" ELSE "idle"

buffer_send ==
    /\ pc = "flush"
    /\ left' = pos /\ sent' = 0
    /\ pc' = IF pos = 0 THEN Return ELSE "write"
    /\ UNCHANGED <<buffer, size, at, leaving, history>>

\* How much the next write of sock_write is for: all of it, or a block.
Lesser(a, b) == IF a < b THEN a ELSE b

Block == Lesser(left - sent, swBLOCKSIZE)

\* Mutant: every block is written from the start of the buffer.
sock_write_restart(k) ==
    /\ pc = "write" /\ k <= Block
    /\ client' = client \o Bytes(0, k)
    /\ \/ k = Block /\ sent + k < left
          /\ sent' = sent + k /\ UNCHANGED <<pc, short>>
       \/ pc' = "clear" /\ sent' = 0
          /\ short' = (short \/ sent + k < left)
    /\ UNCHANGED <<buffer, size, at, left, leaving, said, alarms, fresh>>

\* One write, which takes k bytes; none when it fails, or fd is -1.  When all were
\* taken sock_write still ends early if errno is EINTR, which select often leaves.
sock_write(k) ==
    /\ pc = "write" /\ k <= Block
    /\ client' = client \o Bytes(sent, k)
    /\ \/ k = Block /\ sent + k < left
          /\ sent' = sent + k /\ UNCHANGED <<pc, short>>
       \/ pc' = "clear" /\ sent' = 0
          /\ short' = (short \/ sent + k < left)
    /\ UNCHANGED <<buffer, size, at, left, leaving, said, alarms, fresh>>

\* pos = 0, whatever sock_write took.
Clear ==
    /\ pc = "clear"
    /\ pos' = 0 /\ left' = 0 /\ pc' = Return
    /\ UNCHANGED <<out, size, at, sent, leaving, history>>

\* Mutant: the sweep only sends what is a block.
SweepLazy ==
    /\ pc = "idle" /\ ~leaving
    /\ pc' = IF pos >= swBLOCKSIZE THEN "flush" ELSE "idle"
    /\ leaving' \in BOOLEAN
    /\ UNCHANGED <<buffer, call, history>>

\* jcd_core_loop comes to the player, who may be lost.
Sweep ==
    /\ pc = "idle" /\ ~leaving
    /\ pc' = IF pos > 0 THEN "flush" ELSE "idle"
    /\ leaving' \in BOOLEAN
    /\ UNCHANGED <<buffer, call, history>>

\* player_disconnect frees him; a newcomer's structure is in the same memory or in
\* other memory, and player_init leaves buffer as it is.
player_init ==
    /\ pc = "idle" /\ leaving
    /\ out' = [i \in Index |-> Other]
    /\ \/ fresh' = FALSE /\ UNCHANGED <<pos, alarms>>
       \/ fresh' = TRUE /\ pos' \in 0..BUFFER_SIZE + 1 /\ alarms' = 0
    /\ client' = << >> /\ said' = 0 /\ short' = FALSE
    /\ leaving' = FALSE
    /\ UNCHANGED <<pc, call>>

\* timer_click's tell_player, from beginning to end: buffer_add, its buffer_send.
timer_tells ==
    LET full == pos + Alarm + 1 >= BUFFER_SIZE
        start == IF full THEN 0 ELSE pos
    IN  /\ alarms < MaxAlarms
        /\ alarms' = alarms + 1
        /\ \/ ~full /\ UNCHANGED <<client, short>>
           \/ \E k \in {0, pos} :
                /\ full /\ client' = client \o Bytes(0, k)
                /\ short' = (short \/ k < pos)
        /\ out' = Copied(start, Alarm, Other)
        /\ pos' = start + Alarm
        /\ UNCHANGED <<pc, call, leaving, said, fresh>>

Program ==
    \/ \E n \in Text : buffer_add(n)
    \/ Copy \/ Advance \/ buffer_send \/ Clear \/ Sweep
    \/ \E k \in 0..swBLOCKSIZE : sock_write(k)

Next == Program \/ player_init \/ timer_tells

\* The program runs on; nobody has to connect, and no detection has to run.
Spec == Init /\ [][Next]_vars /\ WF_vars(Program)

-----------------------------------------------------------------------------
(* Properties.                                                             *)

TypeOK ==
    /\ out \in [Index -> 0..MaxSaid]
    /\ pos \in 0..2 * BUFFER_SIZE /\ left \in 0..2 * BUFFER_SIZE
    /\ pc \in {"idle", "copy", "advance", "flush", "write", "clear"}
    /\ size \in {0} \cup Text /\ at \in Index
    /\ sent \in 0..left
    /\ leaving \in BOOLEAN /\ short \in BOOLEAN /\ fresh \in BOOLEAN
    /\ client \in Seq(0..MaxSaid)
    /\ said \in 0..MaxSaid /\ alarms \in 0..MaxAlarms

\* No copy of buffer_add goes past the end of out, whatever the timer has told
\* since pos was read and whatever pos a newcomer has found (src/buffer.c:41).
Fits == pc \in {"copy", "advance"} => at + size + 1 <= BUFFER_SIZE

\* Without the timer, a client gets what it was told in that order and nothing
\* twice, however little the writes took, and nothing else, unless the structure
\* is in memory that was something else's (src/buffer.c:52, src/socket.c:66).
InOrder ==
    alarms = 0 =>
        /\ \A i, j \in DOMAIN client :
              i < j /\ client[i] # Other /\ client[j] # Other => client[i] < client[j]
        /\ fresh \/ \A i \in DOMAIN client : client[i] # Other

\* What is told reaches the client, unless a write falls short, the timer tells
\* something, or he is gone: the sweep comes (src/core.c:78).
Delivered ==
    \A n \in 1..MaxSaid :
        said >= n ~> (n \in Range(client) \/ short \/ alarms > 0 \/ said < n)
=============================================================================
