---------------------------- MODULE FormatOutput ----------------------------
(***************************************************************************)
(* format_output (src/pseudo-stream.c): the word wrap every text for a     *)
(* player goes through.  One action is one turn of its loop.  The text is  *)
(* not kept: the character at t is chosen when t comes to it, and what is  *)
(* put in in front of t leaves it where it is.                             *)
(*                                                                         *)
(* A text may have 7-character colours, 4-character sequences, and IAC     *)
(* with a second byte behind it, as prompts have; it has each whole, and   *)
(* room to grow in.                                                        *)
(***************************************************************************)
EXTENDS Integers

CONSTANTS
    Width,          \* p->screen.width
    Shown,          \* the length of the prompt, if WRAP_PROMPT; 0: not
    MaxText         \* bounds the text

\* PlayerRecord shows that widths are in 10..255.
ASSUME WidthAssumption == Width \subseteq Nat /\ \A w \in Width : w >= 10
ASSUME ShownAssumption == Shown \subseteq Nat
ASSUME TextAssumption == MaxText \in Nat

Kind == {"plain", "newline", "return", "reset", "colour", "iac"}

VARIABLES
    width, WW, shown,       \* what the call is given
    prompt, count,          \* its variables
    char,                   \* the character at t: of what it is the first; "part": of nothing
    pending,                \* how many more characters belong to the sequence before t
    rest,                   \* what is left of MaxText
    col,                    \* history: the column the terminal is at
    colours                 \* history: colours on this line

given == <<width, WW, shown>>
fvars == <<given, prompt, count, char, pending, rest, col, colours>>

-----------------------------------------------------------------------------

\* t++.
Step ==
    \/ pending' > 0 /\ char' = "part" /\ UNCHANGED rest
    \/ pending' = 0 /\ rest > 0 /\ char' \in Kind /\ rest' = rest - 1
    \/ pending' = 0 /\ char' = "end" /\ UNCHANGED rest

\* Mutant: the prompt is taken off once too little.
FullLong ==
    \/ prompt = 0 /\ count = width - 2
    \/ prompt > 0 /\ count = width - 2 - (prompt - 2)

\* Mutant: a margin of ten columns.
FullMargin ==
    \/ prompt = 0 /\ count = width - 10
    \/ prompt > 0 /\ count = width - 10 - (prompt - 1)

\* The line is full: of what follows the prompt, if that is still to be counted.
Full ==
    \/ prompt = 0 /\ count = width - 2
    \/ prompt > 0 /\ count = width - 2 - (prompt - 1)

\* '\033': the pointer moves 3 on, and count too, less 4, or 8 for a colour.
Escape ==
    /\ \/ char = "reset" /\ pending' = 0 /\ UNCHANGED <<count, colours>>
       \/ char = "colour" /\ pending' = 3 /\ count' = count + 3 - 8 + 1 /\ colours' = colours + 1
    /\ Step
    /\ UNCHANGED <<given, prompt, col>>

Newline ==
    /\ char = "newline"
    /\ count' = 0 /\ col' = 0 /\ colours' = 0 /\ pending' = 0
    /\ Step
    /\ UNCHANGED <<given, prompt>>

\* A line end and a space are put in; t comes back to the same character.
Wrap ==
    /\ char \in {"plain", "return", "iac", "part"}
    /\ WW /\ Full
    /\ prompt' = 0 /\ count' = 0
    /\ col' = 1 /\ colours' = 0
    /\ UNCHANGED <<given, char, pending, rest>>

Default ==
    /\ char \in {"plain", "return", "iac", "part"}
    /\ ~(WW /\ Full)
    /\ count' = count + 1
    /\ \/ char = "plain" /\ col' = col + 1 /\ pending' = 0
       \/ char = "return" /\ col' = 0 /\ pending' = 0
       \/ char = "iac" /\ pending' = 1 /\ UNCHANGED col
       \/ char = "part" /\ pending' = pending - 1 /\ UNCHANGED col
    /\ Step
    /\ UNCHANGED <<given, prompt, colours>>

\* The text follows the prompt, if there is one, on its line.
FInit ==
    /\ width \in Width /\ WW \in BOOLEAN /\ shown \in Shown
    /\ prompt = shown /\ count = 0
    /\ char \in Kind \cup {"end"} /\ rest = MaxText
    /\ pending = 0 /\ col = shown /\ colours = 0

format_output == Escape \/ Newline \/ Wrap \/ Default

FNext == format_output

FSpec == FInit /\ [][FNext]_fvars /\ WF_fvars(format_output)

-----------------------------------------------------------------------------
(* Properties.                                                             *)

FTypeOK ==
    /\ width \in Width /\ WW \in BOOLEAN /\ shown \in Shown
    /\ prompt \in {0, shown} /\ count \in Int
    /\ char \in Kind \cup {"part", "end"}
    /\ pending \in 0..3 /\ (char = "part" <=> pending > 0)
    /\ rest \in 0..MaxText /\ col \in Nat /\ colours \in Nat

\* No line is longer than the screen is wide, the one behind a counted prompt and the
\* ones after it included; but for one column more with each colour on the line, since
\* its seven characters are counted back as eight (src/pseudo-stream.c:36), and for
\* prompts that leave no room for a text.
LinesFit == WW /\ shown < width => col < width + colours

\* The loop ends, although it puts in more than it passes (src/pseudo-stream.c:56).
Ends == <>(char = "end")
=============================================================================
