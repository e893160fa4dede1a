---------------------------- MODULE TelnetInput ----------------------------
(***************************************************************************)
(* SOCK_Handle_Input and its readers (src/handle.c): from the bytes a      *)
(* telnet client sends to the lines its player typed.                      *)
(*                                                                         *)
(* The client sends whole tokens: a character, a line end in its style, a  *)
(* command behind IAC, an option, a subnegotiation.  They arrive in pieces *)
(* of any size.  A byte is chosen when it is read.  Structures are reused: *)
(* after a player is lost, the next one's may be in the same memory.       *)
(***************************************************************************)
EXTENDS Integers, Sequences

CONSTANTS
    Size,           \* 512, the size of ibuffer
    Style,          \* the line ends of one client; see LineEnd
    MaxWaiting      \* bounds the bytes the socket holds

ASSUME SizeAssumption == Size \in Nat \ {0}
ASSUME WaitingAssumption == MaxWaiting \in Nat

VARIABLES
    ibuffer,        \* the line being typed
    PREV_R, PREV_N, \* p->opts: a line was ended by CR, by LF
    state,          \* p->handle.state
    size,           \* turns the loop of SOCK_Handle_Input has to go; 0: not running
    lost,           \* p->mode
    waiting,        \* how many bytes the socket holds
    style,          \* history: how the client ends lines
    due,            \* history: the rest of the token it is sending
    owed,           \* history: lines it has ended that were not handled
    first,          \* history: no line has been handled yet
    torn            \* history: a subnegotiation arrived in pieces

parser == <<ibuffer, PREV_R, PREV_N, state, owed, first>>
vars == <<parser, size, lost, waiting, style, due, torn>>

\* What is in ibuffer: what was typed, bytes of a subnegotiation, and what the
\* memory held before.
Typed == "a"
Byte == {Typed, "data", "old"}

LineEnd == [crlf |-> {<<"CR", "LF">>}, crnul |-> {<<"CR", "NUL">>},
            lf |-> {<<"LF">>}, cr |-> {<<"CR">>},
            mixed |-> {<<"CR", "LF">>, <<"CR", "NUL">>, <<"LF">>, <<"CR">>}]

ASSUME StyleAssumption == Style \subseteq DOMAIN LineEnd

Command == {<<"IAC", c>> : c \in {"AYT", "EC", "EL", "IP"}}
Negotiation == {<<"IAC", "DO", "opt">>,
                <<"IAC", "SB", "NAWS", "data", "data", "data", "data", "IAC", "SE">>,
                <<"IAC", "SB", "TTYPE", "NUL", "data", "IAC", "SE">>}

\* "other": a character jcd does not accept.
Token == {<<Typed>>, <<"other">>, <<"BS">>} \cup Command \cup Negotiation
Coming == IF due # << >> THEN {due} ELSE Token \cup LineEnd[style]

Lesser(a, b) == IF a < b THEN a ELSE b

-----------------------------------------------------------------------------

\* player_init leaves ibuffer as the memory was: another player's with the text he left
\* unfinished, or new.  In memory that was something else's, characters could also be
\* put in between what is there; that is left out.
Connected ==
    /\ \E k \in 0..Size : ibuffer' = [i \in 1..k |-> "old"]
    /\ PREV_R' = FALSE /\ PREV_N' = FALSE /\ state' = "sNORMAL"
    /\ lost' = FALSE /\ waiting' = 0 /\ size' = 0
    /\ style' \in Style
    /\ due' = << >> /\ owed' = 0 /\ first' = TRUE /\ torn' = FALSE

Init ==
    /\ \E k \in 0..Size : ibuffer = [i \in 1..k |-> "old"]
    /\ PREV_R = FALSE /\ PREV_N = FALSE /\ state = "sNORMAL"
    /\ lost = FALSE /\ waiting = 0 /\ size = 0
    /\ style \in Style
    /\ due = << >> /\ owed = 0 /\ first = TRUE /\ torn = FALSE

\* The sweep takes a lost player away; another one connects.
player_connect == size = 0 /\ lost /\ Connected

Arrive ==
    /\ waiting < MaxWaiting
    /\ waiting' = waiting + 1
    /\ UNCHANGED <<parser, size, lost, style, due, torn>>

\* The socket is ready: ioctl(FIONREAD), and a loop of that many turns.
SOCK_Handle_Input ==
    /\ size = 0 /\ ~lost
    /\ \/ waiting = 0 /\ lost' = TRUE /\ UNCHANGED size
       \/ waiting > 0 /\ size' = waiting /\ UNCHANGED lost
    /\ UNCHANGED <<parser, waiting, style, due, torn>>

-----------------------------------------------------------------------------
(* One turn of the loop.  size-- in the readers moves their own pointer.   *)

\* Mutant: only bytes that were read are counted.
ReadNothingUncounted ==
    /\ size > 0 /\ waiting = 0
    /\ UNCHANGED vars

\* READSOCK finds nothing left and the reader returns.
ReadNothing ==
    /\ size > 0 /\ waiting = 0
    /\ size' = size - 1
    /\ UNCHANGED <<parser, lost, waiting, style, due, torn>>

\* k bytes of t are read off the socket in this turn.
Read(t, k) ==
    /\ size > 0 /\ waiting >= k
    /\ size' = size - 1
    /\ waiting' = waiting - k
    /\ due' = SubSeq(t, k + 1, Len(t))
    /\ UNCHANGED style

\* Mutant: the reader of an option leaves the state as it was.
SOCK_read_post_option_again(t) ==
    /\ state = "sDO" /\ Read(t, 1)
    /\ UNCHANGED <<parser, lost, torn>>

\* Of do, dont (line 362), will and wont (line 24) alike: one byte.
SOCK_read_post_option(t) ==
    /\ state = "sDO" /\ Read(t, 1)
    /\ state' = "sNORMAL"
    /\ UNCHANGED <<ibuffer, PREV_R, PREV_N, owed, first, lost, torn>>

\* Mutant: of a window's size, only the width is read.
SOCK_read_post_sb_width(t) ==
    /\ state = "sSB"
    /\ LET whole == IF t[1] = "NAWS" THEN 3 ELSE Len(t) - 1 IN
        /\ Read(t, Lesser(waiting, whole)) /\ waiting > 0
        /\ torn' = (torn \/ waiting < whole)
    /\ state' = "sNORMAL"
    /\ UNCHANGED <<ibuffer, PREV_R, PREV_N, owed, first, lost>>

\* The rest of a subnegotiation is read in the same turn, as far as it has
\* arrived: two shorts for NAWS, everything up to IAC for TTYPE.
SOCK_read_post_sb(t) ==
    /\ state = "sSB"
    /\ LET whole == IF t[1] = "NAWS" THEN 5 ELSE Len(t) - 1 IN
        /\ Read(t, Lesser(waiting, whole)) /\ waiting > 0
        /\ torn' = (torn \/ waiting < whole)
    /\ state' = "sNORMAL"
    /\ UNCHANGED <<ibuffer, PREV_R, PREV_N, owed, first, lost>>

\* Erasing from an empty line writes in front of it; at Size characters the
\* array has no terminator and the last character may lie behind it.
Erase ==
    \/ ibuffer' = SubSeq(ibuffer, 1, Len(ibuffer) - 1)
    \/ Len(ibuffer) = Size /\ UNCHANGED ibuffer

\* The cases of SOCK_read_post_iac, which SOCK_read_post_normal has as well.
SOCK_read_post_iac(t) ==
    /\ state \in {"sIAC", "sNORMAL"} /\ Read(t, 1)
    /\ \/ t[1] \in {"AYT", "SE"} /\ state' = "sNORMAL" /\ UNCHANGED <<ibuffer, lost>>
       \/ t[1] = "IP" /\ state' = "sNORMAL" /\ lost' = TRUE /\ UNCHANGED ibuffer
       \/ t[1] = "EC" /\ state' = "sNORMAL" /\ Erase /\ UNCHANGED lost
       \/ t[1] = "EL" /\ state' = "sNORMAL" /\ ibuffer' = << >> /\ UNCHANGED lost
       \/ t[1] \in {"DO", "SB"} /\ state' = (IF t[1] = "DO" THEN "sDO" ELSE "sSB")
                                /\ UNCHANGED <<ibuffer, lost>>
    /\ UNCHANGED <<PREV_R, PREV_N, owed, first, torn>>

\* A line end in a line that counts: any, or one that ends some text.
Counted == style # "mixed" \/ ibuffer # << >>
Ended == IF due = << >> /\ Counted THEN 1 ELSE 0

\* CR and LF: run through p->func or run_command, which may lose the player, or
\* passed over behind the other one.
EndLine(t) ==
    /\ state = "sNORMAL" /\ t[1] \in {"CR", "LF"} /\ Read(t, 1)
    /\ \/ /\ IF t[1] = "CR" THEN PREV_N ELSE PREV_R
          /\ owed' = owed + Ended
          /\ UNCHANGED <<ibuffer, PREV_R, PREV_N, first, lost>>
       \/ /\ ~(IF t[1] = "CR" THEN PREV_N ELSE PREV_R)
          /\ PREV_R' = (PREV_R \/ t[1] = "CR")
          /\ PREV_N' = (PREV_N \/ t[1] = "LF")
          /\ ibuffer' = << >> /\ first' = FALSE
          /\ owed' = owed + Ended - (IF Counted THEN 1 ELSE 0)
          /\ lost' \in {lost, TRUE}
    /\ UNCHANGED <<state, torn>>

\* Mutant: the flags of the last line end are kept.
CharacterFlagged(t) ==
    /\ state = "sNORMAL" /\ t[1] \in {Typed, "other", "NUL", "data"} /\ Read(t, 1)
    /\ LET kept == IF Len(ibuffer) > Size - 1 THEN << >> ELSE ibuffer IN
        \/ t[1] \in {Typed, "data"} /\ ibuffer' = Append(kept, t[1])
        \/ t[1] # Typed /\ ibuffer' = kept
    /\ UNCHANGED <<state, PREV_R, PREV_N, owed, first, lost, torn>>

\* Mutant: the line is flushed one character late.
CharacterLate(t) ==
    /\ state = "sNORMAL" /\ t[1] \in {Typed, "other", "NUL", "data"} /\ Read(t, 1)
    /\ PREV_R' = FALSE /\ PREV_N' = FALSE
    /\ LET kept == IF Len(ibuffer) > Size THEN << >> ELSE ibuffer IN
        \/ t[1] \in {Typed, "data"} /\ ibuffer' = Append(kept, t[1])
        \/ t[1] # Typed /\ ibuffer' = kept
    /\ UNCHANGED <<state, owed, first, lost, torn>>

\* The default case.  A byte of a subnegotiation may be an accepted character.
Character(t) ==
    /\ state = "sNORMAL" /\ t[1] \in {Typed, "other", "NUL", "data"} /\ Read(t, 1)
    /\ PREV_R' = FALSE /\ PREV_N' = FALSE
    /\ LET kept == IF Len(ibuffer) > Size - 1 THEN << >> ELSE ibuffer IN
        \/ t[1] \in {Typed, "data"} /\ ibuffer' = Append(kept, t[1])
        \/ t[1] # Typed /\ ibuffer' = kept
    /\ UNCHANGED <<state, owed, first, lost, torn>>

SOCK_read_post_normal(t) ==
    \/ EndLine(t)
    \/ Character(t)
    \/ /\ state = "sNORMAL" /\ t[1] = "IAC" /\ Read(t, 1)
       /\ state' = "sIAC"
       /\ UNCHANGED <<ibuffer, PREV_R, PREV_N, owed, first, lost, torn>>
    \/ /\ state = "sNORMAL" /\ t[1] = "BS" /\ Read(t, 1)
       /\ Erase
       /\ UNCHANGED <<PREV_R, PREV_N, state, owed, first, lost, torn>>

Turn ==
    \/ ReadNothing
    \/ \E t \in Coming : \/ SOCK_read_post_option(t) \/ SOCK_read_post_sb(t)
                         \/ SOCK_read_post_iac(t) \/ SOCK_read_post_normal(t)

Next == player_connect \/ Arrive \/ SOCK_Handle_Input \/ Turn

\* The loop runs on; nothing makes a client send.
Spec == Init /\ [][Next]_vars /\ WF_vars(Turn)

-----------------------------------------------------------------------------
(* Properties *)

TypeOK ==
    /\ ibuffer \in Seq(Byte) /\ Len(ibuffer) <= Size
    /\ PREV_R \in BOOLEAN /\ PREV_N \in BOOLEAN
    /\ state \in {"sNORMAL", "sIAC", "sDO", "sSB"}
    /\ size \in 0..MaxWaiting /\ waiting \in 0..MaxWaiting
    /\ lost \in BOOLEAN /\ first \in BOOLEAN /\ torn \in BOOLEAN
    /\ style \in Style
    /\ due = << >> \/ \E t \in Token \cup LineEnd[style] : \E k \in DOMAIN t :
                        due = SubSeq(t, k, Len(t))
    /\ owed \in Int

\* However commands and subnegotiations are cut up, the reader is between
\* commands when the client is.
Synchronised == due = << >> => state = "sNORMAL"

\* A line is what was typed and nothing else, once the first line has been
\* handled and as long as no subnegotiation has come in pieces.
OnlyTyped == ~first /\ ~torn => \A i \in DOMAIN ibuffer : ibuffer[i] = Typed

\* Every line a client ends is handled once, in whichever style it ends them; if
\* it mixes styles, every line with something in it.
EveryLineOnce == due = << >> => owed = 0

\* The loop comes to an end: it counts turns, not bytes.
PacketEnds == size > 0 ~> size = 0
=============================================================================
