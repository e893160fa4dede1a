--------------------------- MODULE Telnet_proofs ---------------------------
(***************************************************************************)
(* What TLAPS proves of the telnet readers: of the bytes (TelnetInput) for *)
(* any buffer size and packets of any length, and of the options           *)
(* (TelnetOptions) for any number of requests, commands and prompts, which *)
(* come to an end.                                                         *)
(***************************************************************************)
EXTENDS TelnetInput, TelnetOptions, SequenceTheorems, FiniteSetTheorems, TLAPS

-----------------------------------------------------------------------------
(* The tokens of a client, byte by byte.                                   *)

Sent(st) == Token \cup LineEnd[st]

Simple == {"AYT", "EC", "EL", "IP", "SE", "opt", Typed, "other", "BS", "LF"}
Code == Simple \cup {"IAC", "DO", "SB", "CR", "NUL", "data", "NAWS", "TTYPE"}

\* What follows byte k of a token.
Follows(tok, k) ==
    /\ tok[k] \in Simple => k = Len(tok)
    /\ tok[k] = "IAC" => k < Len(tok) /\ tok[k + 1] \in {"AYT", "EC", "EL", "IP", "DO", "SB", "SE"}
    /\ tok[k] = "DO" => k < Len(tok) /\ tok[k + 1] = "opt"
    /\ tok[k] = "SB" => k < Len(tok) /\ tok[k + 1] \in {"NAWS", "TTYPE"}
    /\ tok[k] = "CR" => k = 1 /\ (k < Len(tok) => tok[k + 1] \in {"LF", "NUL"})
    /\ tok[k] = "NUL" /\ k < Len(tok) => tok[1] = "IAC" /\ tok[k + 1] = "data"
    /\ tok[k] = "data" => tok[1] = "IAC" /\ k < Len(tok) /\ tok[k + 1] \in {"data", "IAC"}
    /\ tok[k] = "NAWS" => /\ k + 6 = Len(tok) /\ tok[k + 5] = "IAC"
                          /\ \A j \in 1..4 : tok[k + j] = "data"
    /\ tok[k] = "TTYPE" => /\ k + 4 = Len(tok) /\ tok[k + 1] = "NUL" /\ tok[k + 2] = "data"
                           /\ tok[k + 3] = "IAC" /\ tok[k + 4] = "SE"

\* What stands first in a token; where the line ends have their bytes.
Begins(st, tok, k) ==
    /\ k = 1 => tok[k] \in {Typed, "other", "BS", "IAC", "CR", "LF"}
    /\ k < Len(tok) /\ tok[k + 1] = "LF" => tok[k] = "CR" /\ st \in {"crlf", "mixed"}
    /\ tok[k] = "CR" => tok[1] # "IAC" /\ st # "lf"
    /\ tok[k] = "LF" /\ k = 1 => st \in {"lf", "mixed"}

Shaped(st, tok) ==
    /\ tok \in Seq(Code) /\ Len(tok) >= 1
    /\ \A k \in 1..Len(tok) : Follows(tok, k) /\ Begins(st, tok, k)

LEMMA CommandShape ==
    ASSUME NEW st, NEW tok \in Command
    PROVE  Shaped(st, tok)
<1>1. PICK c \in {"AYT", "EC", "EL", "IP"} : tok = <<"IAC", c>>
  BY DEF Command
<1>2. tok \in Seq(Code) /\ Len(tok) = 2 /\ tok[1] = "IAC" /\ tok[2] = c
  BY <1>1 DEF Code, Simple, Typed
<1>3. ASSUME NEW k \in 1..Len(tok) PROVE Follows(tok, k) /\ Begins(st, tok, k)
  BY <1>2, <1>3 DEF Follows, Begins, Simple, Typed
<1> QED  BY <1>2, <1>3 DEF Shaped

LEMMA NawsShape ==
    ASSUME NEW st, NEW tok,
           tok = <<"IAC", "SB", "NAWS", "data", "data", "data", "data", "IAC", "SE">>
    PROVE  Shaped(st, tok)
<1>1. /\ tok \in Seq(Code) /\ Len(tok) = 9 /\ tok[1] = "IAC" /\ tok[2] = "SB"
      /\ tok[3] = "NAWS" /\ tok[4] = "data" /\ tok[5] = "data" /\ tok[6] = "data"
      /\ tok[7] = "data" /\ tok[8] = "IAC" /\ tok[9] = "SE"
  BY DEF Code, Simple, Typed
<1>2. ASSUME NEW k \in 1..9 PROVE Follows(tok, k)
  BY <1>1, <1>2 DEF Follows, Simple, Typed
<1>3. ASSUME NEW k \in 1..9 PROVE Begins(st, tok, k)
  BY <1>1, <1>3 DEF Begins, Simple, Typed
<1> QED  BY <1>1, <1>2, <1>3 DEF Shaped

LEMMA TtypeShape ==
    ASSUME NEW st, NEW tok, tok = <<"IAC", "SB", "TTYPE", "NUL", "data", "IAC", "SE">>
    PROVE  Shaped(st, tok)
<1>1. /\ tok \in Seq(Code) /\ Len(tok) = 7 /\ tok[1] = "IAC" /\ tok[2] = "SB"
      /\ tok[3] = "TTYPE" /\ tok[4] = "NUL" /\ tok[5] = "data" /\ tok[6] = "IAC"
      /\ tok[7] = "SE"
  BY DEF Code, Simple, Typed
<1>2. ASSUME NEW k \in 1..7 PROVE Follows(tok, k)
  BY <1>1, <1>2 DEF Follows, Simple, Typed
<1>3. ASSUME NEW k \in 1..7 PROVE Begins(st, tok, k)
  BY <1>1, <1>3 DEF Begins, Simple, Typed
<1> QED  BY <1>1, <1>2, <1>3 DEF Shaped

LEMMA ShortShape ==
    ASSUME NEW st,
           NEW tok \in {<<Typed>>, <<"other">>, <<"BS">>, <<"IAC", "DO", "opt">>}
    PROVE  Shaped(st, tok)
<1>1. CASE tok = <<"IAC", "DO", "opt">>
  <2>1. /\ tok \in Seq(Code) /\ Len(tok) = 3
        /\ tok[1] = "IAC" /\ tok[2] = "DO" /\ tok[3] = "opt"
    BY <1>1 DEF Code, Simple, Typed
  <2>2. ASSUME NEW k \in 1..3 PROVE Follows(tok, k) /\ Begins(st, tok, k)
    BY <2>1, <2>2 DEF Follows, Begins, Simple, Typed
  <2> QED  BY <2>1, <2>2 DEF Shaped
<1>2. CASE tok \in {<<Typed>>, <<"other">>, <<"BS">>}
  <2>1. PICK c \in {Typed, "other", "BS"} : tok = <<c>>
    BY <1>2
  <2>2. tok \in Seq(Code) /\ Len(tok) = 1 /\ tok[1] \in {Typed, "other", "BS"}
    BY <2>1 DEF Code, Simple, Typed
  <2>3. ASSUME NEW k \in 1..1 PROVE Follows(tok, k) /\ Begins(st, tok, k)
    BY <2>2, <2>3 DEF Follows, Begins, Simple, Typed
  <2> QED  BY <2>2, <2>3 DEF Shaped
<1> QED  BY <1>1, <1>2

LEMMA LineEndShape ==
    ASSUME NEW st \in DOMAIN LineEnd, NEW tok \in LineEnd[st]
    PROVE  Shaped(st, tok)
<1>1. \/ tok = <<"CR", "LF">> /\ st \in {"crlf", "mixed"}
      \/ tok = <<"CR", "NUL">> /\ st \in {"crnul", "mixed"}
      \/ tok = <<"LF">> /\ st \in {"lf", "mixed"}
      \/ tok = <<"CR">> /\ st \in {"cr", "mixed"}
  BY DEF LineEnd
<1>2. CASE tok = <<"CR", "LF">> /\ st \in {"crlf", "mixed"}
  <2>1. tok \in Seq(Code) /\ Len(tok) = 2 /\ tok[1] = "CR" /\ tok[2] = "LF"
    BY <1>2 DEF Code, Simple, Typed
  <2>2. ASSUME NEW k \in 1..2 PROVE Follows(tok, k) /\ Begins(st, tok, k)
    BY <1>2, <2>1, <2>2 DEF Follows, Begins, Simple, Typed
  <2> QED  BY <2>1, <2>2 DEF Shaped
<1>3. CASE tok = <<"CR", "NUL">> /\ st \in {"crnul", "mixed"}
  <2>1. tok \in Seq(Code) /\ Len(tok) = 2 /\ tok[1] = "CR" /\ tok[2] = "NUL"
    BY <1>3 DEF Code, Simple, Typed
  <2>2. ASSUME NEW k \in 1..2 PROVE Follows(tok, k) /\ Begins(st, tok, k)
    BY <1>3, <2>1, <2>2 DEF Follows, Begins, Simple, Typed
  <2> QED  BY <2>1, <2>2 DEF Shaped
<1>4. CASE tok = <<"LF">> /\ st \in {"lf", "mixed"}
  <2>1. tok \in Seq(Code) /\ Len(tok) = 1 /\ tok[1] = "LF"
    BY <1>4 DEF Code, Simple, Typed
  <2>2. ASSUME NEW k \in 1..1 PROVE Follows(tok, k) /\ Begins(st, tok, k)
    BY <1>4, <2>1, <2>2 DEF Follows, Begins, Simple, Typed
  <2> QED  BY <2>1, <2>2 DEF Shaped
<1>5. CASE tok = <<"CR">> /\ st \in {"cr", "mixed"}
  <2>1. tok \in Seq(Code) /\ Len(tok) = 1 /\ tok[1] = "CR"
    BY <1>5 DEF Code, Simple, Typed
  <2>2. ASSUME NEW k \in 1..1 PROVE Follows(tok, k) /\ Begins(st, tok, k)
    BY <1>5, <2>1, <2>2 DEF Follows, Begins, Simple, Typed
  <2> QED  BY <2>1, <2>2 DEF Shaped
<1> QED  BY <1>1, <1>2, <1>3, <1>4, <1>5

LEMMA TokenShape ==
    ASSUME NEW st \in DOMAIN LineEnd, NEW tok \in Sent(st)
    PROVE  Shaped(st, tok)
BY CommandShape, NawsShape, TtypeShape, ShortShape, LineEndShape
   DEF Sent, Token, Negotiation

\* The rest of a rest of a token is a rest of the token.
LEMMA RestFacts ==
    ASSUME NEW s \in Seq(Code), NEW k \in 1..Len(s)
    PROVE  LET t == SubSeq(s, k, Len(s))
           IN  /\ t # << >> /\ Len(t) = (Len(s) - k) + 1 /\ t[1] = s[k]
               /\ \A j \in 1..Len(t) : SubSeq(t, j + 1, Len(t)) = SubSeq(s, k + j, Len(s))
<1> DEFINE t == SubSeq(s, k, Len(s))
<1>1. /\ t \in Seq(Code) /\ Len(t) = (Len(s) - k) + 1
      /\ \A i \in 1..Len(t) : t[i] = s[(k + i) - 1]
  OBVIOUS
<1> HIDE DEF t
<1>2. t # << >> /\ t[1] = s[k]
  BY <1>1
<1>3. ASSUME NEW j \in 1..Len(t) PROVE SubSeq(t, j + 1, Len(t)) = SubSeq(s, k + j, Len(s))
  <2> DEFINE u == SubSeq(t, j + 1, Len(t))
             v == SubSeq(s, k + j, Len(s))
  <2>1. j \in Nat /\ k + j \in 1..(Len(s) + 1)
    BY <1>1
  <2>2. u \in Seq(Code) /\ Len(u) = Len(t) - j
    <3>1. Len(t) \in Nat /\ j + 1 \in 1..(Len(t) + 1)
      BY <1>1
    <3>2. u \in Seq(Code)
      BY <1>1, <3>1
    <3>3. Len(u) = IF j + 1 <= Len(t) THEN (Len(t) - (j + 1)) + 1 ELSE 0
      BY <1>1, <3>1
    <3> QED  BY <3>1, <3>2, <3>3
  <2>3. ASSUME NEW i \in 1..Len(u) PROVE j + i \in 1..Len(t) /\ u[i] = t[j + i]
    <3>1. j + i \in 1..Len(t) /\ ((j + 1) + i) - 1 = j + i
      BY <2>1, <2>2
    <3>2. u[i] = t[((j + 1) + i) - 1]
      BY <1>1, <2>1, <2>2
    <3> QED  BY <3>1, <3>2
  <2>4. v \in Seq(Code) /\ Len(v) = (Len(s) - (k + j)) + 1
    BY <2>1
  <2>5. \A i \in 1..Len(v) : v[i] = s[((k + j) + i) - 1]
    BY <2>1
  <2> HIDE DEF u, v
  <2>6. Len(u) = Len(v)
    BY <1>1, <2>2, <2>4
  <2>7. ASSUME NEW i \in 1..Len(u) PROVE u[i] = v[i]
    <3>1. u[i] = t[j + i] /\ t[j + i] = s[(k + (j + i)) - 1]
      BY <1>1, <2>3
    <3>2. v[i] = s[((k + j) + i) - 1]
      BY <2>5, <2>6
    <3>3. (k + (j + i)) - 1 = ((k + j) + i) - 1
      BY <2>2
    <3> QED  BY <3>1, <3>2, <3>3
  <2> QED  BY <2>2, <2>4, <2>6, <2>7, SeqEqual DEF u, v
<1> QED  BY <1>1, <1>2, <1>3 DEF t

-----------------------------------------------------------------------------
(* TelnetInput: where the reader is when a byte of a token is next.        *)

Plain == {Typed, "other", "BS", "LF", "IAC", "CR", "NUL", "data"}

Place(tok, k, st, tn) ==
    /\ k > Len(tok) => st = "sNORMAL"
    /\ k <= Len(tok) =>
         /\ tok[k] \in {"AYT", "EC", "EL", "IP", "DO", "SB"} => st = "sIAC"
         /\ tok[k] = "SE" => st \in {"sIAC", "sNORMAL"}
         /\ tok[k] = "opt" => st = "sDO"
         /\ tok[k] \in {"NAWS", "TTYPE"} => st = "sSB"
         /\ tok[k] \in Plain => st = "sNORMAL"
         /\ tok[1] = "IAC" /\ tok[k] \in {"NUL", "data"} => tn

PlaceInv ==
    \E tok \in Sent(style) : \E k \in 2..(Len(tok) + 1) :
        due = SubSeq(tok, k, Len(tok)) /\ Place(tok, k, state, torn)

\* No line is ever owed: a line end whose second byte is to come has been handled with
\* the first, and the flags say so.  In a line with something in it no flag is set.
OnceInv ==
    /\ owed = 0
    /\ ibuffer # << >> => ~PREV_R /\ ~PREV_N
    /\ style \in {"crlf", "crnul", "cr"} => ~PREV_N
    /\ style = "lf" => ~PREV_R
    /\ due # << >> /\ due[1] = "LF" =>
         style \in {"crlf", "mixed"} /\ (style = "crlf" => PREV_R) /\ ibuffer = << >>

Types ==
    /\ ibuffer \in Seq(Byte) /\ Len(ibuffer) <= Size
    /\ size \in 0..MaxWaiting /\ waiting \in 0..MaxWaiting
    /\ style \in Style

Flags ==
    /\ PREV_R \in BOOLEAN /\ PREV_N \in BOOLEAN
    /\ lost \in BOOLEAN /\ first \in BOOLEAN /\ torn \in BOOLEAN

IInv == Types /\ Flags /\ PlaceInv /\ OnceInv /\ OnlyTyped

\* Byte k of tok is the next.
At(t, tok, k) ==
    /\ tok \in Sent(style) /\ k \in 1..Len(tok)
    /\ t = SubSeq(tok, k, Len(tok)) /\ Place(tok, k, state, torn)
    /\ k = 1 <=> due = << >>

LEMMA AtFacts ==
    ASSUME Types, NEW t, NEW tok, NEW k, At(t, tok, k)
    PROVE  /\ tok \in Seq(Code) /\ k \in 1..Len(tok)
           /\ Len(t) = (Len(tok) - k) + 1 /\ t[1] = tok[k] /\ tok[k] \in Code
           /\ \A j \in 1..Len(t) : SubSeq(t, j + 1, Len(t)) = SubSeq(tok, k + j, Len(tok))
           /\ Follows(tok, k) /\ Begins(style, tok, k) /\ Place(tok, k, state, torn)
<1>1. style \in DOMAIN LineEnd /\ tok \in Sent(style) /\ k \in 1..Len(tok)
  BY StyleAssumption DEF Types, At
<1>2. /\ tok \in Seq(Code) /\ Follows(tok, k) /\ Begins(style, tok, k)
  BY <1>1, TokenShape DEF Shaped
<1>3. t = SubSeq(tok, k, Len(tok)) /\ Place(tok, k, state, torn)
  BY DEF At
<1>4. /\ Len(t) = (Len(tok) - k) + 1 /\ t[1] = tok[k]
      /\ \A j \in 1..Len(t) : SubSeq(t, j + 1, Len(t)) = SubSeq(tok, k + j, Len(tok))
  BY <1>1, <1>2, <1>3, RestFacts
<1>5. tok[k] \in Code
  BY <1>1, <1>2
<1> QED  BY <1>1, <1>2, <1>3, <1>4, <1>5

LEMMA SomeAt ==
    ASSUME Types, PlaceInv, NEW t \in Coming
    PROVE  \E tok, k : At(t, tok, k)
<1>1. style \in DOMAIN LineEnd
  BY StyleAssumption DEF Types
<1>2. PICK tok \in Sent(style) : \E k \in 2..(Len(tok) + 1) :
        due = SubSeq(tok, k, Len(tok)) /\ Place(tok, k, state, torn)
  BY DEF PlaceInv
<1>3. PICK k \in 2..(Len(tok) + 1) :
        due = SubSeq(tok, k, Len(tok)) /\ Place(tok, k, state, torn)
  BY <1>2
<1>4. tok \in Seq(Code)
  BY <1>1, <1>3, TokenShape DEF Shaped
<1>5. CASE due = << >>
  <2>1. t \in Sent(style)
    BY <1>5 DEF Coming, Sent
  <2>2. /\ t \in Seq(Code) /\ Len(t) >= 1 /\ 1 \in 1..Len(t) /\ Begins(style, t, 1)
    BY <1>1, <2>1, TokenShape DEF Shaped
  <2>3. k > Len(tok)
    <3>1. SUFFICES ASSUME k \in 1..Len(tok) PROVE FALSE
      BY <1>3, <1>4
    <3> QED  BY <1>3, <1>4, <1>5, <3>1, RestFacts
  <2>4. state = "sNORMAL"
    BY <1>3, <2>3 DEF Place
  <2>5. t[1] \in {Typed, "other", "BS", "IAC", "CR", "LF"}
    BY <2>2 DEF Begins
  <2>6. Place(t, 1, state, torn)
    BY <2>2, <2>4, <2>5 DEF Place, Plain, Typed
  <2>7. t = SubSeq(t, 1, Len(t))
    BY <2>2
  <2>8. At(t, t, 1)
    BY <1>5, <2>1, <2>2, <2>6, <2>7 DEF At
  <2> QED  BY <2>8
<1>6. CASE due # << >>
  <2>1. t = due
    BY <1>6 DEF Coming
  <2>2. k # Len(tok) + 1
    <3>1. SUFFICES ASSUME k = Len(tok) + 1 PROVE FALSE
      OBVIOUS
    <3>2. SubSeq(tok, k, Len(tok)) = << >>
      BY <1>4, <3>1
    <3> QED  BY <1>3, <1>6, <3>2
  <2>3. k \in 1..Len(tok) /\ k # 1
    BY <1>3, <1>4, <2>2
  <2>4. At(t, tok, k)
    BY <1>3, <1>6, <2>1, <2>3 DEF At
  <2> QED  BY <2>4
<1> QED  BY <1>5, <1>6

\* What reading j bytes of a token does, whichever reader does it.
LEMMA ReadFacts ==
    ASSUME Types, NEW t, NEW tok, NEW k, At(t, tok, k), NEW j \in 1..Len(t), Read(t, j)
    PROVE  /\ size' \in 0..MaxWaiting /\ waiting' \in 0..MaxWaiting /\ style' = style
           /\ Place(tok, k + j, state', torn') => PlaceInv'
           /\ k + j \in 2..(Len(tok) + 1)
           /\ k + j <= Len(tok) => due' # << >> /\ due'[1] = tok[k + j]
           /\ k + j > Len(tok) => due' = << >>
<1>1. /\ tok \in Seq(Code) /\ k \in 1..Len(tok) /\ Len(t) = (Len(tok) - k) + 1
      /\ SubSeq(t, j + 1, Len(t)) = SubSeq(tok, k + j, Len(tok))
  BY AtFacts
<1>2. /\ size > 0 /\ size' = size - 1 /\ waiting >= j /\ waiting' = waiting - j
      /\ style' = style /\ due' = SubSeq(tok, k + j, Len(tok))
  BY <1>1 DEF Read
<1>3. size' \in 0..MaxWaiting /\ waiting' \in 0..MaxWaiting
  BY <1>2, WaitingAssumption DEF Types
<1>4. k + j \in 2..(Len(tok) + 1)
  BY <1>1
<1>5. ASSUME Place(tok, k + j, state', torn') PROVE PlaceInv'
  BY <1>2, <1>4, <1>5 DEF At, PlaceInv
<1>6. ASSUME k + j <= Len(tok) PROVE due' # << >> /\ due'[1] = tok[k + j]
  <2>1. k + j \in 1..Len(tok)
    BY <1>4, <1>6
  <2> QED  BY <1>1, <1>2, <2>1, RestFacts
<1>7. ASSUME k + j > Len(tok) PROVE due' = << >>
  <2>1. k + j = Len(tok) + 1
    BY <1>1, <1>4, <1>7
  <2> QED  BY <1>1, <1>2, <2>1
<1> QED  BY <1>2, <1>3, <1>4, <1>5, <1>6, <1>7

-----------------------------------------------------------------------------
(* One turn of the loop.                                                   *)

\* The line has nothing new in it.
Shorter ==
    /\ ibuffer' \in Seq(Byte) /\ Len(ibuffer') <= Size
    /\ ibuffer' # << >> => ibuffer # << >>
    /\ \A i \in DOMAIN ibuffer' : i \in DOMAIN ibuffer /\ ibuffer'[i] = ibuffer[i]

LEMMA FrontFacts ==
    ASSUME NEW S, NEW s \in Seq(S)
    PROVE  LET f == SubSeq(s, 1, Len(s) - 1)
           IN  /\ f \in Seq(S) /\ Len(f) <= Len(s) /\ (f # << >> => s # << >>)
               /\ \A i \in DOMAIN f : i \in DOMAIN s /\ f[i] = s[i]
<1>1. PICK n \in Nat : n = Len(s)
  OBVIOUS
<1>2. CASE n = 0
  <2>1. s = << >>
    BY <1>1, <1>2, EmptySeq
  <2>2. SubSeq(s, 1, 0 - 1) = << >>
    BY SubSeqEmpty
  <2> QED  BY <1>1, <1>2, <2>1, <2>2
<1>3. CASE n # 0
  <2> DEFINE f == SubSeq(s, 1, n - 1)
  <2>1. \A i \in 1..(n - 1) : s[i] \in S
    BY <1>1
  <2>2. /\ f \in Seq(S) /\ Len(f) = IF 1 <= n - 1 THEN ((n - 1) - 1) + 1 ELSE 0
        /\ \A i \in 1..((n - 1) - 1) + 1 : f[i] = s[(1 + i) - 1]
    BY <2>1, SubSeqProperties
  <2> HIDE DEF f
  <2>3. Len(f) = n - 1
    BY <1>3, <2>2
  <2>4. \A i \in 1..(n - 1) : f[i] = s[i]
    BY <2>2
  <2>5. DOMAIN f = 1..(n - 1) /\ DOMAIN s = 1..n /\ s # << >>
    BY <1>1, <1>3, <2>2, <2>3
  <2> QED  BY <1>1, <1>3, <2>2, <2>3, <2>4, <2>5 DEF f
<1> QED  BY <1>2, <1>3

LEMMA ErasedShorter ==
    ASSUME Types, Erase \/ UNCHANGED ibuffer \/ ibuffer' = << >>
    PROVE  Shorter
<1>1. ibuffer \in Seq(Byte) /\ Len(ibuffer) <= Size /\ Size \in Nat /\ Len(ibuffer) \in Nat
  BY SizeAssumption DEF Types
<1>2. CASE UNCHANGED ibuffer
  BY <1>1, <1>2 DEF Shorter
<1>3. CASE ibuffer' = << >>
  BY <1>1, <1>3 DEF Shorter
<1>4. CASE ibuffer' = SubSeq(ibuffer, 1, Len(ibuffer) - 1)
  <2>1. /\ ibuffer' \in Seq(Byte) /\ Len(ibuffer') <= Len(ibuffer)
        /\ ibuffer' # << >> => ibuffer # << >>
        /\ \A i \in DOMAIN ibuffer' : i \in DOMAIN ibuffer /\ ibuffer'[i] = ibuffer[i]
    BY <1>1, <1>4, FrontFacts
  <2>2. Len(ibuffer') <= Size
    BY <1>1, <2>1
  <2> QED  BY <2>1, <2>2 DEF Shorter
<1> QED  BY <1>2, <1>3, <1>4 DEF Erase

\* A turn in which no line ends and nothing is typed.
LEMMA Kept ==
    ASSUME IInv, NEW t, NEW tok, NEW k, At(t, tok, k), NEW j \in 1..Len(t), Read(t, j),
           Place(tok, k + j, state', torn'), k + j <= Len(tok) => tok[k + j] # "LF",
           UNCHANGED <<PREV_R, PREV_N, owed, first>>, torn => torn', Shorter
    PROVE  Types' /\ PlaceInv' /\ OnceInv' /\ OnlyTyped'
<1>1. /\ size' \in 0..MaxWaiting /\ waiting' \in 0..MaxWaiting /\ style' = style
      /\ PlaceInv'
      /\ k + j \in 2..(Len(tok) + 1)
      /\ k + j <= Len(tok) => due' # << >> /\ due'[1] = tok[k + j]
      /\ k + j > Len(tok) => due' = << >>
  BY ReadFacts DEF IInv
<1>2. Types'
  BY <1>1 DEF IInv, Types, Shorter
<1>3. ~(due' # << >> /\ due'[1] = "LF")
  <2>1. CASE k + j <= Len(tok)
    BY <1>1, <2>1
  <2>2. CASE k + j > Len(tok)
    BY <1>1, <2>2
  <2>3. Len(tok) \in Nat
    BY AtFacts DEF IInv
  <2> QED  BY <1>1, <2>1, <2>2, <2>3
<1>4. OnceInv'
  BY <1>1, <1>3, Zenon DEF IInv, OnceInv, Shorter
<1>5. OnlyTyped'
  BY Zenon DEF IInv, OnlyTyped, Shorter
<1> QED  BY <1>1, <1>2, <1>4, <1>5

LEMMA OptionStep ==
    ASSUME IInv, NEW t \in Coming, SOCK_read_post_option(t)
    PROVE  IInv'
<1>1. PICK tok, k : At(t, tok, k)
  BY SomeAt DEF IInv
<1>2. /\ state = "sDO" /\ Read(t, 1) /\ state' = "sNORMAL"
      /\ UNCHANGED <<ibuffer, PREV_R, PREV_N, owed, first, lost, torn>>
  BY DEF SOCK_read_post_option
<1>3. /\ tok \in Seq(Code) /\ k \in 1..Len(tok) /\ Len(t) = (Len(tok) - k) + 1
      /\ tok[k] \in Code /\ Follows(tok, k) /\ Place(tok, k, state, torn)
  BY <1>1, AtFacts DEF IInv
<1>4. k = Len(tok)
  BY <1>2, <1>3 DEF Place, Plain, Code, Simple, Follows
<1>5. 1 \in 1..Len(t) /\ k + 1 > Len(tok) /\ Place(tok, k + 1, state', torn')
  BY <1>2, <1>3, <1>4 DEF Place
<1>6. Shorter
  BY <1>2, ErasedShorter DEF IInv
<1>7. ~(k + 1 <= Len(tok))
  BY <1>3, <1>4
<1>8. Types' /\ PlaceInv' /\ OnceInv' /\ OnlyTyped'
  BY <1>1, <1>2, <1>5, <1>6, <1>7, Kept
<1> QED  BY <1>2, <1>8, Zenon DEF IInv, Flags

\* A subnegotiation that was there as a whole leaves no byte of itself in the line.
LEMMA SubStep ==
    ASSUME IInv, NEW t \in Coming, SOCK_read_post_sb(t)
    PROVE  IInv'
<1> DEFINE whole == IF t[1] = "NAWS" THEN 5 ELSE Len(t) - 1
           j == Lesser(waiting, whole)
<1>1. PICK tok, k : At(t, tok, k)
  BY SomeAt DEF IInv
<1>2. /\ state = "sSB" /\ Read(t, j) /\ waiting > 0 /\ state' = "sNORMAL"
      /\ UNCHANGED <<ibuffer, PREV_R, PREV_N, owed, first, lost>>
  BY DEF SOCK_read_post_sb
<1>3. torn' = (torn \/ waiting < whole)
  BY DEF SOCK_read_post_sb
<1>4. /\ tok \in Seq(Code) /\ k \in 1..Len(tok) /\ Len(t) = (Len(tok) - k) + 1
      /\ t[1] = tok[k] /\ tok[k] \in Code /\ Follows(tok, k) /\ Place(tok, k, state, torn)
  BY <1>1, AtFacts DEF IInv
<1>5. waiting \in Nat
  BY DEF IInv, Types
<1>6. tok[k] \in {"NAWS", "TTYPE"}
  BY <1>2, <1>4 DEF Place, Plain, Code, Simple
<1>7. /\ j \in 1..Len(t) /\ k + j \in 1..Len(tok)
      /\ tok[k + j] \in {"data", "NUL"} => waiting < whole
      /\ tok[k + j] \in {"data", "NUL", "IAC", "SE"}
  <2>1. CASE tok[k] = "NAWS"
    <3>1. whole = 5 /\ k + 6 = Len(tok) /\ Len(t) = 7
      BY <1>4, <2>1 DEF Follows
    <3>2. j \in 1..5 /\ (j < 5 => waiting < whole)
      BY <1>2, <1>5, <3>1 DEF Lesser
    <3> HIDE DEF whole, j
    <3>3. tok[k + 5] = "IAC" /\ \A i \in 1..4 : tok[k + i] = "data"
      BY <1>4, <2>1 DEF Follows
    <3>4. j \in 1..Len(t) /\ k + j \in 1..Len(tok)
      BY <1>4, <3>1, <3>2
    <3>5. CASE j = 5
      BY <2>1, <3>3, <3>4, <3>5
    <3>6. CASE j \in 1..4
      BY <3>2, <3>3, <3>4, <3>6
    <3> QED  BY <3>2, <3>5, <3>6
  <2>2. CASE tok[k] = "TTYPE"
    <3>1. whole = 4 /\ k + 4 = Len(tok) /\ Len(t) = 5
      BY <1>4, <2>2 DEF Follows
    <3>2. j \in 1..4 /\ (j < 4 => waiting < whole)
      BY <1>2, <1>5, <3>1 DEF Lesser
    <3> HIDE DEF whole, j
    <3>3. /\ tok[k + 1] = "NUL" /\ tok[k + 2] = "data" /\ tok[k + 3] = "IAC"
          /\ tok[k + 4] = "SE"
      BY <1>4, <2>2 DEF Follows
    <3>4. j \in 1..Len(t) /\ k + j \in 1..Len(tok)
      BY <1>4, <3>1, <3>2
    <3>5. j = 1 \/ j = 2 \/ j = 3 \/ j = 4
      BY <3>2
    <3> QED  BY <3>2, <3>3, <3>4, <3>5
  <2> QED  BY <1>6, <2>1, <2>2
<1> HIDE DEF whole, j
<1>8. tok[k + j] \in {"data", "NUL"} => torn'
  BY <1>3, <1>7
<1>9. Place(tok, k + j, state', torn')
  BY <1>2, <1>7, <1>8 DEF Place
<1>10. tok[k + j] # "LF" /\ (torn => torn')
  BY <1>3, <1>7
<1>11. Shorter
  BY <1>2, ErasedShorter DEF IInv
<1>12. Types' /\ PlaceInv' /\ OnceInv' /\ OnlyTyped'
  BY <1>1, <1>2, <1>7, <1>9, <1>10, <1>11, Kept
<1>13. torn' \in BOOLEAN
  BY <1>3
<1> QED  BY <1>2, <1>12, <1>13, Zenon DEF IInv, Flags

LEMMA CommandStep ==
    ASSUME IInv, NEW t \in Coming, SOCK_read_post_iac(t)
    PROVE  IInv'
<1>1. PICK tok, k : At(t, tok, k)
  BY SomeAt DEF IInv
<1>2. /\ Read(t, 1)
      /\ t[1] \in {"AYT", "SE", "IP", "EC", "EL", "DO", "SB"}
      /\ t[1] \notin {"DO", "SB"} => state' = "sNORMAL"
      /\ t[1] \in {"DO", "SB"} => state' = IF t[1] = "DO" THEN "sDO" ELSE "sSB"
      /\ UNCHANGED <<PREV_R, PREV_N, owed, first, torn>>
  BY DEF SOCK_read_post_iac
<1>3. Erase \/ UNCHANGED ibuffer \/ ibuffer' = << >>
  BY DEF SOCK_read_post_iac
<1>4. lost' \in BOOLEAN
  <2>1. lost' = TRUE \/ UNCHANGED lost
    BY DEF SOCK_read_post_iac
  <2> QED  BY <2>1 DEF IInv, Flags
<1>5. /\ tok \in Seq(Code) /\ k \in 1..Len(tok) /\ Len(t) = (Len(tok) - k) + 1
      /\ t[1] = tok[k] /\ tok[k] \in Code /\ Follows(tok, k) /\ Place(tok, k, state, torn)
  BY <1>1, AtFacts DEF IInv
<1>6. /\ Place(tok, k + 1, state', torn')
      /\ k + 1 <= Len(tok) => tok[k + 1] # "LF"
  <2>1. CASE tok[k] \in {"AYT", "SE", "IP", "EC", "EL"}
    <3>1. k = Len(tok)
      BY <1>5, <2>1 DEF Follows, Simple
    <3>2. state' = "sNORMAL"
      BY <1>2, <1>5, <2>1
    <3>3. ~(k + 1 <= Len(tok))
      BY <1>5, <3>1
    <3> QED  BY <3>2, <3>3 DEF Place
  <2>2. CASE tok[k] \in {"DO", "SB"}
    <3>1. k < Len(tok) /\ (tok[k] = "DO" => tok[k + 1] = "opt" /\ state' = "sDO")
          /\ (tok[k] = "SB" => tok[k + 1] \in {"NAWS", "TTYPE"} /\ state' = "sSB")
      BY <1>2, <1>5, <2>2 DEF Follows
    <3> QED  BY <1>5, <2>2, <3>1 DEF Place, Plain, Typed
  <2> QED  BY <1>2, <1>5, <2>1, <2>2
<1>7. Shorter
  BY <1>3, ErasedShorter DEF IInv
<1>8. 1 \in 1..Len(t)
  BY <1>5
<1>9. Types' /\ PlaceInv' /\ OnceInv' /\ OnlyTyped'
  BY <1>1, <1>2, <1>6, <1>7, <1>8, Kept
<1> QED  BY <1>2, <1>4, <1>9, Zenon DEF IInv, Flags

\* IAC and backspace, where a line is typed.
LEMMA EscapeStep ==
    ASSUME IInv, NEW t \in Coming, state = "sNORMAL", t[1] \in {"IAC", "BS"}, Read(t, 1),
           state' = IF t[1] = "IAC" THEN "sIAC" ELSE state,
           Erase \/ UNCHANGED ibuffer,
           UNCHANGED <<PREV_R, PREV_N, owed, first, lost, torn>>
    PROVE  IInv'
<1>1. PICK tok, k : At(t, tok, k)
  BY SomeAt DEF IInv
<1>2. /\ tok \in Seq(Code) /\ k \in 1..Len(tok) /\ Len(t) = (Len(tok) - k) + 1
      /\ t[1] = tok[k] /\ Follows(tok, k)
  BY <1>1, AtFacts DEF IInv
<1>3. Place(tok, k + 1, state', torn') /\ (k + 1 <= Len(tok) => tok[k + 1] # "LF")
  <2>1. CASE tok[k] = "IAC"
    <3>1. /\ k < Len(tok) /\ tok[k + 1] \in {"AYT", "EC", "EL", "IP", "DO", "SB", "SE"}
          /\ state' = "sIAC"
      BY <1>2, <2>1 DEF Follows
    <3> QED  BY <1>2, <3>1 DEF Place, Plain, Typed
  <2>2. CASE tok[k] = "BS"
    <3>1. k = Len(tok) /\ state' = "sNORMAL"
      BY <1>2, <2>2 DEF Follows, Simple
    <3>2. ~(k + 1 <= Len(tok))
      BY <1>2, <3>1
    <3> QED  BY <3>1, <3>2 DEF Place
  <2> QED  BY <1>2, <2>1, <2>2
<1>4. Shorter
  BY ErasedShorter DEF IInv
<1>5. 1 \in 1..Len(t)
  BY <1>2
<1>6. Types' /\ PlaceInv' /\ OnceInv' /\ OnlyTyped'
  BY <1>1, <1>3, <1>4, <1>5, Kept
<1> QED  BY <1>6, Zenon DEF IInv, Flags

\* A character ends the run of line ends before it.  A byte of a subnegotiation comes
\* here only if that arrived in pieces.
LEMMA CharacterStep ==
    ASSUME IInv, NEW t \in Coming, Character(t)
    PROVE  IInv'
<1> DEFINE kept == IF Len(ibuffer) > Size - 1 THEN << >> ELSE ibuffer
<1>1. PICK tok, k : At(t, tok, k)
  BY SomeAt DEF IInv
<1>2. /\ state = "sNORMAL" /\ t[1] \in {Typed, "other", "NUL", "data"} /\ Read(t, 1)
      /\ UNCHANGED <<state, owed, first, lost, torn>>
  BY DEF Character
<1>3. PREV_R' = FALSE /\ PREV_N' = FALSE
  BY DEF Character
<1>4. \/ t[1] \in {Typed, "data"} /\ ibuffer' = Append(kept, t[1])
      \/ t[1] # Typed /\ ibuffer' = kept
  BY DEF Character
<1>5. /\ tok \in Seq(Code) /\ k \in 1..Len(tok) /\ Len(t) = (Len(tok) - k) + 1
      /\ t[1] = tok[k] /\ Follows(tok, k) /\ Begins(style, tok, k)
      /\ Place(tok, k, state, torn)
  BY <1>1, AtFacts DEF IInv
<1>6. kept \in Seq(Byte) /\ Len(kept) + 1 <= Size /\ Len(kept) \in Nat
      /\ \A i \in DOMAIN kept : i \in DOMAIN ibuffer /\ kept[i] = ibuffer[i]
  BY SizeAssumption DEF IInv, Types
<1> HIDE DEF kept
<1>7. Place(tok, k + 1, state', torn') /\ (k + 1 <= Len(tok) => tok[k + 1] # "LF")
  <2>1. CASE tok[k] \in {Typed, "other"}
    <3>1. k = Len(tok)
      BY <1>5, <2>1 DEF Follows, Simple
    <3>2. ~(k + 1 <= Len(tok))
      BY <1>5, <3>1
    <3> QED  BY <1>2, <3>2 DEF Place
  <2>2. CASE tok[k] \in {"NUL", "data"}
    <3>1. k < Len(tok) => /\ tok[1] = "IAC" /\ tok[k + 1] \in {"data", "IAC"}
      BY <1>5, <2>2 DEF Follows
    <3>2. k < Len(tok) => torn
      BY <1>5, <2>2, <3>1 DEF Place
    <3>3. k < Len(tok) <=> k + 1 <= Len(tok)
      BY <1>5
    <3> QED  BY <1>2, <3>1, <3>2, <3>3 DEF Place, Plain
  <2> QED  BY <1>2, <1>5, <2>1, <2>2
<1>8. 1 \in 1..Len(t)
  BY <1>5
<1>9. /\ size' \in 0..MaxWaiting /\ waiting' \in 0..MaxWaiting /\ style' = style
      /\ PlaceInv'
      /\ k + 1 \in 2..(Len(tok) + 1)
      /\ k + 1 <= Len(tok) => due'[1] = tok[k + 1]
      /\ k + 1 > Len(tok) => due' = << >>
  BY <1>1, <1>2, <1>7, <1>8, ReadFacts DEF IInv
<1>10. ibuffer' \in Seq(Byte) /\ Len(ibuffer') <= Size
  <2>1. CASE ibuffer' = Append(kept, t[1]) /\ t[1] \in {Typed, "data"}
    <3>1. t[1] \in Byte
      BY <2>1 DEF Byte
    <3>2. Append(kept, t[1]) \in Seq(Byte) /\ Len(Append(kept, t[1])) = Len(kept) + 1
      BY <1>6, <3>1
    <3> QED  BY <1>6, <2>1, <3>2
  <2>2. CASE ibuffer' = kept
    BY <1>6, <2>2, SizeAssumption
  <2> QED  BY <1>4, <2>1, <2>2
<1>11. Types'
  BY <1>9, <1>10 DEF IInv, Types
<1>12. OnceInv'
  <2>1. ~(due' # << >> /\ due'[1] = "LF")
    BY <1>5, <1>7, <1>9
  <2> QED  BY <1>2, <1>3, <1>9, <2>1, Zenon DEF IInv, OnceInv
<1>13. OnlyTyped'
  <2>1. SUFFICES ASSUME ~first, ~torn, NEW i \in DOMAIN ibuffer' PROVE ibuffer'[i] = Typed
    BY <1>2, Zenon DEF OnlyTyped
  <2>2. \A h \in DOMAIN kept : kept[h] = Typed
    BY <1>6, <2>1 DEF IInv, OnlyTyped
  <2>3. CASE ibuffer' = Append(kept, t[1]) /\ t[1] \in {Typed, "data"}
    <3>1. t[1] = Typed
      <4>1. tok[k] = "data" => tok[1] = "IAC" /\ k <= Len(tok)
        BY <1>5 DEF Follows
      <4>2. tok[k] # "data"
        BY <2>1, <4>1, <1>5 DEF Place
      <4> QED  BY <1>5, <2>3, <4>2
    <3>2. /\ i \in 1..(Len(kept) + 1)
          /\ ibuffer'[i] = IF i = Len(kept) + 1 THEN t[1] ELSE kept[i]
          /\ DOMAIN kept = 1..Len(kept)
      BY <1>6, <2>3
    <3> QED  BY <1>6, <2>2, <3>1, <3>2
  <2>4. CASE ibuffer' = kept
    BY <2>2, <2>4
  <2> QED  BY <1>4, <2>3, <2>4
<1>14. Flags'
  BY <1>2, <1>3, Zenon DEF IInv, Flags
<1> QED  BY <1>9, <1>11, <1>12, <1>13, <1>14 DEF IInv

\* A line end is owed by its first byte; handled then or passed over, it is never
\* handled again with its second.
LEMMA EndLineStep ==
    ASSUME IInv, NEW t \in Coming, EndLine(t)
    PROVE  IInv'
<1> DEFINE Skipped == IF t[1] = "CR" THEN PREV_N ELSE PREV_R
<1>1. PICK tok, k : At(t, tok, k)
  BY SomeAt DEF IInv
<1>2. state = "sNORMAL" /\ t[1] \in {"CR", "LF"} /\ Read(t, 1) /\ UNCHANGED <<state, torn>>
  BY DEF EndLine
<1>3. \/ /\ Skipped
         /\ owed' = owed + Ended
         /\ UNCHANGED <<ibuffer, PREV_R, PREV_N, first, lost>>
      \/ /\ ~Skipped
         /\ PREV_R' = (PREV_R \/ t[1] = "CR")
         /\ PREV_N' = (PREV_N \/ t[1] = "LF")
         /\ ibuffer' = << >> /\ first' = FALSE
         /\ owed' = owed + Ended - (IF Counted THEN 1 ELSE 0)
         /\ lost' \in {lost, TRUE}
  BY DEF EndLine
<1>4. /\ tok \in Seq(Code) /\ k \in 1..Len(tok) /\ Len(t) = (Len(tok) - k) + 1
      /\ t[1] = tok[k] /\ Follows(tok, k) /\ Begins(style, tok, k)
  BY <1>1, AtFacts DEF IInv
<1>5. (k = 1 <=> due = << >>) /\ (due # << >> => due[1] = t[1])
  BY <1>1 DEF At, Coming
<1>6. style \in {"crlf", "crnul", "lf", "cr", "mixed"}
  BY StyleAssumption DEF IInv, Types, LineEnd
<1>7. /\ Place(tok, k + 1, state', torn')
      /\ t[1] = "LF" => ~(k + 1 <= Len(tok))
      /\ k + 1 <= Len(tok) /\ tok[k + 1] = "LF" => style \in {"crlf", "mixed"}
  <2>1. CASE tok[k] = "LF"
    <3>1. k = Len(tok)
      BY <1>4, <2>1 DEF Follows, Simple
    <3>2. ~(k + 1 <= Len(tok))
      BY <1>4, <3>1
    <3> QED  BY <1>2, <3>2 DEF Place
  <2>2. CASE tok[k] = "CR"
    <3>1. k < Len(tok) <=> k + 1 <= Len(tok)
      BY <1>4
    <3>2. k < Len(tok) => tok[k + 1] \in {"LF", "NUL"}
      BY <1>4, <2>2 DEF Follows
    <3>3. k < Len(tok) /\ tok[k + 1] = "LF" => style \in {"crlf", "mixed"}
      BY <1>4, <2>2 DEF Begins
    <3>4. tok[1] # "IAC"
      BY <1>4, <2>2 DEF Begins
    <3> QED  BY <1>2, <1>4, <2>2, <3>1, <3>2, <3>3, <3>4 DEF Place, Plain, Typed
  <2> QED  BY <1>2, <1>4, <2>1, <2>2
<1>8. 1 \in 1..Len(t)
  BY <1>4
<1>9. /\ size' \in 0..MaxWaiting /\ waiting' \in 0..MaxWaiting /\ style' = style
      /\ PlaceInv'
      /\ k + 1 \in 2..(Len(tok) + 1)
      /\ k + 1 <= Len(tok) => due'[1] = tok[k + 1]
      /\ k + 1 > Len(tok) => due' = << >>
  BY <1>1, <1>2, <1>7, <1>8, ReadFacts DEF IInv
<1>10. ibuffer' = ibuffer \/ ibuffer' = << >>
  BY <1>3
<1>11. Types'
  <2>1. ibuffer' \in Seq(Byte) /\ Len(ibuffer') <= Size
    BY <1>10, ErasedShorter DEF IInv, Shorter
  <2> QED  BY <1>9, <2>1 DEF IInv, Types
<1>12. due' # << >> /\ due'[1] = "LF" => t[1] = "CR" /\ style \in {"crlf", "mixed"}
  <2>1. SUFFICES ASSUME due' # << >>, due'[1] = "LF"
                 PROVE  t[1] = "CR" /\ style \in {"crlf", "mixed"}
    OBVIOUS
  <2>2. k + 1 <= Len(tok) /\ tok[k + 1] = "LF"
    BY <1>4, <1>9, <2>1
  <2> QED  BY <1>2, <1>7, <2>2
\* With nothing in a line that does not count, nothing is owed for it.
<1>13. /\ owed = 0 /\ (ibuffer # << >> => ~PREV_R /\ ~PREV_N)
       /\ style \in {"crlf", "crnul", "cr"} => ~PREV_N
       /\ style = "lf" => ~PREV_R
       /\ due # << >> /\ due[1] = "LF" =>
            style \in {"crlf", "mixed"} /\ (style = "crlf" => PREV_R) /\ ibuffer = << >>
  BY DEF IInv, OnceInv
<1>14. /\ t[1] = "CR" => k = 1 /\ style # "lf"
       /\ t[1] = "LF" /\ k = 1 => style \in {"lf", "mixed"}
  BY <1>4 DEF Follows, Begins
<1>15. Skipped => Ended = 0
  <2>1. SUFFICES ASSUME Skipped, due = << >>, Counted PROVE FALSE
    BY DEF Ended
  <2>2. CASE style = "mixed"
    BY <1>13, <2>1, <2>2 DEF Counted
  <2>3. CASE style # "mixed"
    BY <1>2, <1>5, <1>6, <1>13, <1>14, <2>1, <2>3
  <2> QED  BY <2>2, <2>3
<1>16. ~Skipped => Ended = IF Counted THEN 1 ELSE 0
  <2>1. SUFFICES ASSUME ~Skipped, due # << >>, Counted PROVE FALSE
    BY DEF Ended
  <2>2. t[1] = "LF" /\ due[1] = "LF"
    BY <1>2, <1>5, <1>14, <2>1
  <2>3. style \in {"crlf", "mixed"} /\ (style = "crlf" => PREV_R) /\ ibuffer = << >>
    BY <1>13, <2>1, <2>2
  <2> QED  BY <2>1, <2>2, <2>3 DEF Counted
<1>17. owed' = 0
  <2>1. Ended \in {0, 1}
    BY DEF Ended
  <2> HIDE DEF Skipped
  <2>2. CASE Skipped
    BY <1>3, <1>13, <1>15, <2>2
  <2>3. CASE ~Skipped
    <3>1. owed' = 0 + Ended - (IF Counted THEN 1 ELSE 0)
      BY <1>3, <1>13, <2>3
    <3>2. Ended = IF Counted THEN 1 ELSE 0
      BY <1>16, <2>3
    <3> QED  BY <2>1, <3>1, <3>2
  <2> QED  BY <2>2, <2>3
<1>18. ibuffer' # << >> => ~PREV_R' /\ ~PREV_N'
  BY <1>3, <1>13
<1>19. /\ style \in {"crlf", "crnul", "cr"} => ~PREV_N'
       /\ style = "lf" => ~PREV_R'
  <2>1. CASE UNCHANGED <<PREV_R, PREV_N>>
    BY <1>13, <2>1
  <2>2. CASE /\ ~Skipped /\ PREV_R' = (PREV_R \/ t[1] = "CR")
             /\ PREV_N' = (PREV_N \/ t[1] = "LF")
    <3>1. ASSUME style \in {"crlf", "crnul", "cr"} PROVE t[1] # "LF"
      BY <1>5, <1>13, <1>14, <2>2, <3>1
    <3>2. style = "lf" => t[1] # "CR"
      BY <1>14
    <3> QED  BY <1>13, <2>2, <3>1, <3>2
  <2> QED  BY <1>3, <2>1, <2>2
<1>20. ASSUME t[1] = "CR" PROVE (style = "crlf" => PREV_R') /\ ibuffer' = << >>
  <2>1. CASE Skipped
    <3>1. PREV_N
      BY <1>20, <2>1
    <3>2. style # "crlf" /\ ibuffer = << >>
      BY <1>13, <3>1
    <3> QED  BY <1>3, <2>1, <3>2
  <2>2. CASE ~Skipped
    BY <1>3, <1>20, <2>2
  <2> QED  BY <2>1, <2>2
<1>21. OnceInv'
  BY <1>9, <1>12, <1>17, <1>18, <1>19, <1>20 DEF OnceInv
<1>22. OnlyTyped'
  <2>1. CASE ibuffer' = << >>
    BY <2>1 DEF OnlyTyped
  <2>2. CASE UNCHANGED <<ibuffer, first>>
    BY <1>2, <2>2, Zenon DEF IInv, OnlyTyped
  <2> QED  BY <1>3, <2>1, <2>2
<1>23. Flags'
  <2>1. CASE UNCHANGED <<PREV_R, PREV_N, first, lost>>
    BY <1>2, <2>1, Zenon DEF IInv, Flags
  <2>2. CASE /\ PREV_R' = (PREV_R \/ t[1] = "CR") /\ PREV_N' = (PREV_N \/ t[1] = "LF")
             /\ first' = FALSE /\ lost' \in {lost, TRUE}
    <3>1. PREV_R' \in BOOLEAN /\ PREV_N' \in BOOLEAN
      BY <2>2, Zenon
    <3>2. first' \in BOOLEAN /\ lost' \in BOOLEAN
      BY <2>2, Zenon DEF IInv, Flags
    <3> QED  BY <1>2, <3>1, <3>2, Zenon DEF IInv, Flags
  <2> QED  BY <1>3, <2>1, <2>2
<1> QED  BY <1>9, <1>11, <1>21, <1>22, <1>23 DEF IInv

LEMMA TurnStep == ASSUME IInv, Turn PROVE IInv'
<1>1. CASE ReadNothing
  <2>1. /\ size > 0 /\ size' = size - 1
        /\ UNCHANGED <<ibuffer, PREV_R, PREV_N, state, owed, first>>
        /\ UNCHANGED <<lost, waiting, style, due, torn>>
    BY <1>1 DEF ReadNothing, parser
  <2>2. Types'
    BY <2>1, WaitingAssumption DEF IInv, Types
  <2>3. PlaceInv' /\ OnceInv' /\ OnlyTyped' /\ Flags'
    BY <2>1, Zenon DEF IInv, PlaceInv, OnceInv, OnlyTyped, Flags
  <2> QED  BY <2>2, <2>3 DEF IInv
<1>2. ASSUME NEW t \in Coming, SOCK_read_post_normal(t) PROVE IInv'
  <2>1. CASE /\ state = "sNORMAL" /\ t[1] = "IAC" /\ Read(t, 1)
             /\ state' = "sIAC"
             /\ UNCHANGED <<ibuffer, PREV_R, PREV_N, owed, first, lost, torn>>
    BY <2>1, EscapeStep
  <2>2. CASE /\ state = "sNORMAL" /\ t[1] = "BS" /\ Read(t, 1)
             /\ Erase
             /\ UNCHANGED <<PREV_R, PREV_N, state, owed, first, lost, torn>>
    BY <2>2, EscapeStep
  <2> QED  BY <1>2, <2>1, <2>2, EndLineStep, CharacterStep DEF SOCK_read_post_normal
<1> QED  BY <1>1, <1>2, OptionStep, SubStep, CommandStep DEF Turn

LEMMA ConnectedIInv ==
    ASSUME NEW b, NEW st,
           \E k \in 0..Size : b = [i \in 1..k |-> "old"], st \in Style
    PROVE  /\ b \in Seq(Byte) /\ Len(b) <= Size
           /\ \E tok \in Sent(st) : \E k \in 2..(Len(tok) + 1) :
                << >> = SubSeq(tok, k, Len(tok)) /\ Place(tok, k, "sNORMAL", FALSE)
<1>1. PICK k \in 0..Size : b = [i \in 1..k |-> "old"]
  OBVIOUS
<1>2. b \in Seq(Byte) /\ Len(b) = k
  BY <1>1, SizeAssumption DEF Byte
<1>3. Len(b) <= Size
  BY <1>1, <1>2
<1>4. <<"other">> \in Sent(st)
  BY DEF Sent, Token
<1>5. /\ Len(<<"other">>) = 1 /\ 2 \in 2..(Len(<<"other">>) + 1)
      /\ << >> = SubSeq(<<"other">>, 2, Len(<<"other">>))
  OBVIOUS
<1>6. Place(<<"other">>, 2, "sNORMAL", FALSE)
  BY <1>5 DEF Place
<1> QED  BY <1>2, <1>3, <1>4, <1>5, <1>6

LEMMA InitIInv == Init => IInv
<1> SUFFICES ASSUME Init PROVE IInv
  OBVIOUS
<1>1. /\ \E k \in 0..Size : ibuffer = [i \in 1..k |-> "old"]
      /\ PREV_R = FALSE /\ PREV_N = FALSE /\ state = "sNORMAL"
      /\ lost = FALSE /\ waiting = 0 /\ size = 0 /\ style \in Style
      /\ due = << >> /\ owed = 0 /\ first = TRUE /\ torn = FALSE
  BY DEF Init
<1>2. /\ ibuffer \in Seq(Byte) /\ Len(ibuffer) <= Size
      /\ \E tok \in Sent(style) : \E k \in 2..(Len(tok) + 1) :
           << >> = SubSeq(tok, k, Len(tok)) /\ Place(tok, k, "sNORMAL", FALSE)
  BY <1>1, ConnectedIInv
<1>3. Types
  BY <1>1, <1>2, WaitingAssumption DEF Types
<1>4. PlaceInv
  BY <1>1, <1>2, Zenon DEF PlaceInv
<1>5. OnceInv /\ OnlyTyped /\ Flags
  BY <1>1 DEF OnceInv, OnlyTyped, Flags
<1> QED  BY <1>3, <1>4, <1>5 DEF IInv

LEMMA ConnectStep == ASSUME player_connect PROVE IInv'
<1>1. /\ \E k \in 0..Size : ibuffer' = [i \in 1..k |-> "old"]
      /\ PREV_R' = FALSE /\ PREV_N' = FALSE /\ state' = "sNORMAL"
      /\ lost' = FALSE /\ waiting' = 0 /\ size' = 0 /\ style' \in Style
      /\ due' = << >> /\ owed' = 0 /\ first' = TRUE /\ torn' = FALSE
  BY DEF player_connect, Connected
<1>2. /\ ibuffer' \in Seq(Byte) /\ Len(ibuffer') <= Size
      /\ \E tok \in Sent(style') : \E k \in 2..(Len(tok) + 1) :
           << >> = SubSeq(tok, k, Len(tok)) /\ Place(tok, k, "sNORMAL", FALSE)
  BY <1>1, ConnectedIInv
<1>3. Types'
  BY <1>1, <1>2, WaitingAssumption DEF Types
<1>4. PlaceInv'
  BY <1>1, <1>2, Zenon DEF PlaceInv
<1>5. OnceInv' /\ OnlyTyped' /\ Flags'
  BY <1>1 DEF OnceInv, OnlyTyped, Flags
<1> QED  BY <1>3, <1>4, <1>5 DEF IInv

LEMMA InputInvariant == Spec => []IInv
<1>1. IInv /\ [Next]_vars => IInv'
  <2> SUFFICES ASSUME IInv, [Next]_vars PROVE IInv'
    OBVIOUS
  <2>1. CASE Arrive
    <3>1. /\ waiting < MaxWaiting /\ waiting' = waiting + 1
          /\ UNCHANGED <<ibuffer, PREV_R, PREV_N, state, owed, first>>
          /\ UNCHANGED <<size, lost, style, due, torn>>
      BY <2>1 DEF Arrive, parser
    <3>2. Types'
      BY <3>1, WaitingAssumption DEF IInv, Types
    <3>3. PlaceInv' /\ OnceInv' /\ OnlyTyped' /\ Flags'
      BY <3>1, Zenon DEF IInv, PlaceInv, OnceInv, OnlyTyped, Flags
    <3> QED  BY <3>2, <3>3 DEF IInv
  <2>2. CASE SOCK_Handle_Input
    <3>1. /\ UNCHANGED <<ibuffer, PREV_R, PREV_N, state, owed, first>>
          /\ UNCHANGED <<waiting, style, due, torn>>
          /\ size' = size \/ size' = waiting
          /\ lost' = TRUE \/ lost' = lost
      BY <2>2 DEF SOCK_Handle_Input, parser
    <3>2. Types'
      BY <3>1 DEF IInv, Types
    <3>3. PlaceInv' /\ OnceInv' /\ OnlyTyped' /\ Flags'
      BY <3>1, Zenon DEF IInv, PlaceInv, OnceInv, OnlyTyped, Flags
    <3> QED  BY <3>2, <3>3 DEF IInv
  <2>3. CASE UNCHANGED vars
    <3>1. /\ UNCHANGED <<ibuffer, PREV_R, PREV_N, state, owed, first>>
          /\ UNCHANGED <<size, lost, waiting, style, due, torn>>
      BY <2>3 DEF vars, parser
    <3> QED
      BY <3>1, Zenon DEF IInv, Types, PlaceInv, OnceInv, OnlyTyped, Flags
  <2> QED  BY <2>1, <2>2, <2>3, ConnectStep, TurnStep DEF Next
<1> QED  BY InitIInv, <1>1, PTL DEF Spec

\* The reader's variables keep their types; no line outgrows the buffer.
THEOREM InputTypeOK == Spec => []TypeOK
<1>1. IInv => TypeOK
  <2> SUFFICES ASSUME IInv PROVE TypeOK
    OBVIOUS
  <2>1. PICK tok \in Sent(style) : \E k \in 2..(Len(tok) + 1) :
          due = SubSeq(tok, k, Len(tok)) /\ Place(tok, k, state, torn)
    BY DEF IInv, PlaceInv
  <2>2. PICK k \in 2..(Len(tok) + 1) :
          due = SubSeq(tok, k, Len(tok)) /\ Place(tok, k, state, torn)
    BY <2>1
  <2>3. style \in DOMAIN LineEnd
    BY StyleAssumption DEF IInv, Types
  <2>4. tok \in Seq(Code)
    BY <2>1, <2>3, TokenShape DEF Shaped
  <2>0. owed \in Int
    BY DEF IInv, OnceInv
  <2>5. CASE k = Len(tok) + 1
    <3>1. due = << >>
      BY <2>2, <2>4, <2>5
    <3>2. state = "sNORMAL"
      BY <2>2, <2>4, <2>5 DEF Place
    <3> QED  BY <2>0, <3>1, <3>2, Zenon DEF IInv, Types, Flags, TypeOK
  <2>6. CASE k # Len(tok) + 1
    <3>1. k \in 1..Len(tok) /\ k \in DOMAIN tok
      BY <2>2, <2>4, <2>6
    <3>2. tok[k] \in Code
      BY <2>4, <3>1
    <3>3. state \in {"sNORMAL", "sIAC", "sDO", "sSB"}
      BY <2>2, <3>1, <3>2 DEF Place, Plain, Code, Simple
    <3>4. \E u \in Token \cup LineEnd[style] : \E h \in DOMAIN u : due = SubSeq(u, h, Len(u))
      BY <2>1, <2>2, <3>1 DEF Sent
    <3> QED  BY <2>0, <3>3, <3>4, Zenon DEF IInv, Types, Flags, TypeOK
  <2> QED  BY <2>5, <2>6
<1> QED  BY <1>1, InputInvariant, PTL

\* Between two tokens the reader is between two commands, however the packets cut them.
THEOREM InputSynchronised == Spec => []Synchronised
<1>1. IInv => Synchronised
  <2> SUFFICES ASSUME IInv, due = << >> PROVE state = "sNORMAL"
    BY DEF Synchronised
  <2>1. PICK tok \in Sent(style) : \E k \in 2..(Len(tok) + 1) :
          due = SubSeq(tok, k, Len(tok)) /\ Place(tok, k, state, torn)
    BY DEF IInv, PlaceInv
  <2>2. PICK k \in 2..(Len(tok) + 1) :
          due = SubSeq(tok, k, Len(tok)) /\ Place(tok, k, state, torn)
    BY <2>1
  <2>3. style \in DOMAIN LineEnd
    BY StyleAssumption DEF IInv, Types
  <2>4. tok \in Seq(Code)
    BY <2>1, <2>3, TokenShape DEF Shaped
  <2>5. k \notin 1..Len(tok)
    BY <2>2, <2>4, RestFacts
  <2>6. k > Len(tok)
    BY <2>2, <2>4, <2>5
  <2> QED  BY <2>2, <2>6 DEF Place
<1> QED  BY <1>1, InputInvariant, PTL

\* After the first line, and while no subnegotiation comes in pieces, a line holds what
\* was typed and nothing else.
THEOREM InputOnlyTyped == Spec => []OnlyTyped
<1>1. IInv => OnlyTyped
  BY DEF IInv
<1> QED  BY <1>1, InputInvariant, PTL

\* CR, LF, or both: every line a client ends is handled once.
THEOREM InputEveryLine == Spec => []EveryLineOnce
<1>1. IInv => EveryLineOnce
  BY DEF IInv, OnceInv, EveryLineOnce
<1> QED  BY <1>1, InputInvariant, PTL

-----------------------------------------------------------------------------
(* TelnetOptions: what is where in a channel.                              *)

Has(q, m) == \E i \in DOMAIN q : q[i] = m

\* n is somewhere behind m.
Behind(q, m, n) == \E i, j \in DOMAIN q : i < j /\ q[i] = m /\ q[j] = n

\* m is there, with no n behind it; it has the last word, or on has it.
Last(q, m, n) == \E i \in DOMAIN q : q[i] = m /\ \A j \in DOMAIN q : i < j => q[j] # n
LastWord(q, m, n, on) == Last(q, m, n) \/ (on /\ ~Has(q, n))

LEMMA TailFacts ==
    ASSUME NEW S, NEW q \in Seq(S), q # << >>
    PROVE  /\ Tail(q) \in Seq(S)
           /\ \E n \in Nat : /\ DOMAIN q = 1..(n + 1) /\ DOMAIN Tail(q) = 1..n
                             /\ \A i \in 1..n : Tail(q)[i] = q[i + 1]
           /\ Head(q) = q[1]
<1>1. PICK n \in Nat : Len(q) = n + 1
  <2>1. Len(q) \in Nat /\ Len(q) # 0
    BY EmptySeq
  <2> DEFINE l == Len(q)
  <2> HIDE DEF l
  <2>2. l \in Nat /\ l # 0
    BY <2>1 DEF l
  <2>3. l - 1 \in Nat /\ l = (l - 1) + 1
    BY <2>2
  <2> QED  BY <2>3 DEF l
<1>2. Tail(q) \in Seq(S) /\ Len(Tail(q)) = n /\ \A i \in 1..n : Tail(q)[i] = q[i + 1]
  BY <1>1, HeadTailProperties
<1>3. DOMAIN q = 1..(n + 1) /\ DOMAIN Tail(q) = 1..n
  BY <1>1, <1>2
<1> QED  BY <1>2, <1>3

LEMMA HeadTail ==
    ASSUME NEW S, NEW q \in Seq(S), q # << >>, NEW m, NEW n
    PROVE  /\ Has(q, m) <=> Head(q) = m \/ Has(Tail(q), m)
           /\ Behind(q, m, n) <=> \/ Head(q) = m /\ Has(Tail(q), n)
                                  \/ Behind(Tail(q), m, n)
           /\ Last(q, m, n) <=> \/ Head(q) = m /\ ~Has(Tail(q), n)
                                \/ Last(Tail(q), m, n)
<1> DEFINE t == Tail(q)
<1>1. PICK c \in Nat : /\ DOMAIN q = 1..(c + 1) /\ DOMAIN t = 1..c
                       /\ \A i \in 1..c : t[i] = q[i + 1]
  BY TailFacts
<1>2. Head(q) = q[1]
  BY TailFacts
<1> HIDE DEF t
<1>3. /\ \A i \in DOMAIN t : i + 1 \in DOMAIN q /\ t[i] = q[i + 1]
      /\ \A i \in DOMAIN q : i = 1 \/ (i - 1 \in DOMAIN t /\ t[i - 1] = q[i])
      /\ 1 \in DOMAIN q
  BY <1>1
<1>4. \A i \in DOMAIN q : i \in Nat /\ i >= 1
  BY <1>1
<1>5. Has(q, m) <=> q[1] = m \/ Has(t, m)
  BY <1>3, Zenon DEF Has
<1>6. Behind(q, m, n) <=> (q[1] = m /\ Has(t, n)) \/ Behind(t, m, n)
  <2>1. ASSUME NEW i \in DOMAIN q, NEW j \in DOMAIN q, i < j, q[i] = m, q[j] = n
        PROVE  (q[1] = m /\ Has(t, n)) \/ Behind(t, m, n)
    <3>1. j - 1 \in DOMAIN t /\ t[j - 1] = n
      BY <1>3, <1>4, <2>1
    <3>2. CASE i = 1
      BY <2>1, <3>1, <3>2 DEF Has
    <3>3. CASE i # 1
      <4>1. i - 1 \in DOMAIN t /\ t[i - 1] = m /\ i - 1 < j - 1
        BY <1>3, <1>4, <2>1, <3>3
      <4> QED  BY <3>1, <4>1 DEF Behind
    <3> QED  BY <3>2, <3>3
  <2>2. ASSUME q[1] = m, NEW j \in DOMAIN t, t[j] = n PROVE Behind(q, m, n)
    <3>1. j + 1 \in DOMAIN q /\ q[j + 1] = n /\ 1 < j + 1 /\ 1 \in DOMAIN q
      BY <1>1, <1>3, <2>2
    <3> QED  BY <2>2, <3>1 DEF Behind
  <2>3. ASSUME NEW i \in DOMAIN t, NEW j \in DOMAIN t, i < j, t[i] = m, t[j] = n
        PROVE  Behind(q, m, n)
    <3>1. /\ i + 1 \in DOMAIN q /\ j + 1 \in DOMAIN q /\ i + 1 < j + 1
          /\ q[i + 1] = m /\ q[j + 1] = n
      BY <1>1, <1>3, <2>3
    <3> QED  BY <3>1 DEF Behind
  <2>4. Behind(q, m, n) => (q[1] = m /\ Has(t, n)) \/ Behind(t, m, n)
    BY <2>1, Zenon DEF Behind
  <2>5. q[1] = m /\ Has(t, n) => Behind(q, m, n)
    BY <2>2, Zenon DEF Has
  <2>6. Behind(t, m, n) => Behind(q, m, n)
    BY <2>3, Zenon DEF Behind
  <2> QED  BY <2>4, <2>5, <2>6
<1>7. Last(q, m, n) <=> (q[1] = m /\ ~Has(t, n)) \/ Last(t, m, n)
  <2>1. ASSUME NEW i \in DOMAIN q, q[i] = m, \A j \in DOMAIN q : i < j => q[j] # n
        PROVE  (q[1] = m /\ ~Has(t, n)) \/ Last(t, m, n)
    <3>1. CASE i = 1
      <4>1. ASSUME NEW j \in DOMAIN t PROVE t[j] # n
        <5>1. j + 1 \in DOMAIN q /\ 1 < j + 1 /\ t[j] = q[j + 1]
          BY <1>1, <1>3
        <5> QED  BY <2>1, <3>1, <5>1
      <4> QED  BY <2>1, <3>1, <4>1 DEF Has
    <3>2. CASE i # 1
      <4>1. i - 1 \in DOMAIN t /\ t[i - 1] = m
        BY <1>3, <2>1, <3>2
      <4>2. ASSUME NEW j \in DOMAIN t, i - 1 < j PROVE t[j] # n
        <5>1. j + 1 \in DOMAIN q /\ i < j + 1 /\ t[j] = q[j + 1]
          BY <1>1, <1>3, <1>4, <4>2
        <5> QED  BY <2>1, <5>1
      <4> QED  BY <4>1, <4>2 DEF Last
    <3> QED  BY <3>1, <3>2
  <2>2. ASSUME q[1] = m, ~Has(t, n) PROVE Last(q, m, n)
    <3>1. ASSUME NEW j \in DOMAIN q, 1 < j PROVE q[j] # n
      <4>1. j - 1 \in DOMAIN t /\ t[j - 1] = q[j]
        BY <1>3, <1>4, <3>1
      <4> QED  BY <2>2, <4>1 DEF Has
    <3> QED  BY <1>3, <2>2, <3>1 DEF Last
  <2>3. ASSUME NEW i \in DOMAIN t, t[i] = m, \A j \in DOMAIN t : i < j => t[j] # n
        PROVE  Last(q, m, n)
    <3>1. i + 1 \in DOMAIN q /\ q[i + 1] = m
      BY <1>3, <2>3
    <3>2. ASSUME NEW j \in DOMAIN q, i + 1 < j PROVE q[j] # n
      <4>1. j # 1 /\ i < j - 1
        BY <1>1, <1>4, <3>2
      <4>2. j - 1 \in DOMAIN t /\ t[j - 1] = q[j]
        BY <1>3, <4>1
      <4> QED  BY <2>3, <4>1, <4>2
    <3> QED  BY <3>1, <3>2 DEF Last
  <2>4. Last(q, m, n) => (q[1] = m /\ ~Has(t, n)) \/ Last(t, m, n)
    BY <2>1, Zenon DEF Last
  <2>5. Last(t, m, n) => Last(q, m, n)
    BY <2>3, Zenon DEF Last
  <2> QED  BY <2>2, <2>4, <2>5
<1> QED  BY <1>2, <1>5, <1>6, <1>7 DEF t

LEMMA Joined ==
    ASSUME NEW S, NEW q \in Seq(S), NEW r \in Seq(S), NEW m, NEW n
    PROVE  /\ q \o r \in Seq(S)
           /\ Has(q \o r, m) <=> Has(q, m) \/ Has(r, m)
           /\ Behind(q \o r, m, n) =>
                Behind(q, m, n) \/ Behind(r, m, n) \/ (Has(q, m) /\ Has(r, n))
<1> DEFINE c == q \o r
<1>1. PICK a \in Nat, b \in Nat : a = Len(q) /\ b = Len(r)
  OBVIOUS
<1>2. /\ c \in Seq(S) /\ DOMAIN q = 1..a /\ DOMAIN r = 1..b /\ DOMAIN c = 1..(a + b)
      /\ \A i \in 1..(a + b) : c[i] = IF i <= a THEN q[i] ELSE r[i - a]
  BY <1>1
<1> HIDE DEF c
<1>3. /\ \A i \in DOMAIN q : i \in DOMAIN c /\ c[i] = q[i]
      /\ \A i \in DOMAIN r : i + a \in DOMAIN c /\ c[i + a] = r[i]
  BY <1>2
<1>4. \A i \in DOMAIN c : \/ i \in DOMAIN q /\ c[i] = q[i]
                          \/ i > a /\ i - a \in DOMAIN r /\ c[i] = r[i - a]
  BY <1>2
<1>5. Has(c, m) <=> Has(q, m) \/ Has(r, m)
  BY <1>3, <1>4, Zenon DEF Has
<1>6. ASSUME NEW i \in DOMAIN c, NEW j \in DOMAIN c, i < j, c[i] = m, c[j] = n
      PROVE  Behind(q, m, n) \/ Behind(r, m, n) \/ (Has(q, m) /\ Has(r, n))
  <2>1. CASE i \in DOMAIN q /\ c[i] = q[i]
    <3>1. CASE j \in DOMAIN q /\ c[j] = q[j]
      BY <1>6, <2>1, <3>1 DEF Behind
    <3>2. CASE j - a \in DOMAIN r /\ c[j] = r[j - a]
      BY <1>6, <2>1, <3>2 DEF Has
    <3> QED  BY <1>4, <3>1, <3>2
  <2>2. CASE i > a /\ i - a \in DOMAIN r /\ c[i] = r[i - a]
    <3>1. j > a /\ i - a < j - a
      BY <1>2, <1>6, <2>2
    <3>2. j - a \in DOMAIN r /\ c[j] = r[j - a]
      BY <1>2, <1>4, <3>1
    <3> QED  BY <1>6, <2>2, <3>1, <3>2 DEF Behind
  <2> QED  BY <1>4, <2>1, <2>2
<1>7. Behind(c, m, n) => Behind(q, m, n) \/ Behind(r, m, n) \/ (Has(q, m) /\ Has(r, n))
  BY <1>6, Zenon DEF Behind
<1> QED  BY <1>2, <1>5, <1>7 DEF c

LEMMA Appended ==
    ASSUME NEW S, NEW q \in Seq(S), NEW x \in S, NEW m, NEW n
    PROVE  /\ Append(q, x) \in Seq(S)
           /\ Has(Append(q, x), m) <=> Has(q, m) \/ x = m
           /\ Behind(Append(q, x), m, n) => Behind(q, m, n) \/ (Has(q, m) /\ x = n)
           /\ m # n => (Last(Append(q, x), m, n) <=> x = m \/ (Last(q, m, n) /\ x # n))
<1> DEFINE c == Append(q, x)
<1>1. PICK a \in Nat : a = Len(q)
  OBVIOUS
<1>2. /\ c \in Seq(S) /\ DOMAIN q = 1..a /\ DOMAIN c = 1..(a + 1)
      /\ c[a + 1] = x /\ \A i \in 1..a : c[i] = q[i]
  BY <1>1
<1> HIDE DEF c
<1>3. /\ \A i \in DOMAIN q : i \in DOMAIN c /\ c[i] = q[i] /\ i < a + 1
      /\ a + 1 \in DOMAIN c
      /\ \A i \in DOMAIN c : i \in DOMAIN q \/ i = a + 1
      /\ \A i \in DOMAIN c : ~(a + 1 < i)
  BY <1>2
<1>4. Has(c, m) <=> Has(q, m) \/ x = m
  BY <1>2, <1>3, Zenon DEF Has
<1>5. ASSUME NEW u, NEW v, Behind(c, u, v) PROVE Behind(q, u, v) \/ (Has(q, u) /\ x = v)
  <2>1. PICK i \in DOMAIN c, j \in DOMAIN c : i < j /\ c[i] = u /\ c[j] = v
    BY <1>5 DEF Behind
  <2>2. i \in DOMAIN q /\ q[i] = u
    BY <1>2, <2>1
  <2>3. CASE j \in DOMAIN q
    BY <1>3, <2>1, <2>2, <2>3 DEF Behind
  <2>4. CASE j = a + 1
    BY <1>2, <2>1, <2>2, <2>4 DEF Has
  <2> QED  BY <1>3, <2>3, <2>4
<1>6. ASSUME m # n PROVE Last(c, m, n) <=> x = m \/ (Last(q, m, n) /\ x # n)
  <2>1. ASSUME x = m PROVE Last(c, m, n)
    BY <1>2, <1>3, <2>1, Zenon DEF Last
  <2>2. ASSUME Last(q, m, n), x # n PROVE Last(c, m, n)
    <3>1. PICK i \in DOMAIN q : q[i] = m /\ \A j \in DOMAIN q : i < j => q[j] # n
      BY <2>2, Zenon DEF Last
    <3>2. \A j \in DOMAIN c : i < j => c[j] # n
      BY <1>2, <1>3, <2>2, <3>1, Zenon
    <3> QED  BY <1>3, <3>1, <3>2, Zenon DEF Last
  <2>3. ASSUME Last(c, m, n), x # m PROVE Last(q, m, n) /\ x # n
    <3>1. PICK i \in DOMAIN c : c[i] = m /\ \A j \in DOMAIN c : i < j => c[j] # n
      BY <2>3, Zenon DEF Last
    <3>2. i \in DOMAIN q /\ q[i] = m /\ i < a + 1
      BY <1>2, <1>3, <2>3, <3>1, Zenon
    <3>3. x # n
      BY <1>2, <1>3, <3>1, <3>2, Zenon
    <3>4. \A j \in DOMAIN q : i < j => q[j] # n
      BY <1>3, <3>1, Zenon
    <3> QED  BY <3>2, <3>3, <3>4, Zenon DEF Last
  <2> QED  BY <2>1, <2>2, <2>3
<1> QED  BY <1>2, <1>4, <1>5, <1>6, Zenon DEF c

-----------------------------------------------------------------------------
(* TelnetOptions: what is agreed, and what is on its way.                  *)

Side == {"no", "yes", "wantyes", "wantno"}
Asking == {"DO", "DONT", "WILL", "WONT"} \X Option
\* jcd offers to echo and to suppress go-aheads, and nothing else.
Telling == ({"DO"} \X Option) \cup ({"WILL"} \X {"ECHO", "SGA"}) \cup ({"WONT"} \X {"EOR", "NAWS"})
             \cup ({"mark"} \X {"EOR", "GA"})

DoSga == <<"DO", "SGA">>
WillSga == <<"WILL", "SGA">>
MarkGa == <<"mark", "GA">>
DoEcho == <<"DO", "ECHO">>
DontEcho == <<"DONT", "ECHO">>

OTypes ==
    /\ opts \subseteq {"ECHO", "GA", "EOR"} /\ disturbed \subseteq {"ECHO", "SGA", "toggle"}
    /\ toServer \in Seq(Asking) /\ toClient \in Seq(Telling)
    /\ him \in [Option -> Side] /\ us \in [Option -> Side]

Bounded == asks \in 0..MaxAsks /\ commands \in 0..MaxCommands /\ prompts \in 0..MaxPrompts

\* Whoever has asked for an option has his DO or the answer to it on its way.
AskedInv ==
    \A o \in Option :
        him[o] = "wantyes" =>
            Has(toServer, <<"DO", o>>) \/ Has(toClient, <<"WILL", o>>) \/ Has(toClient, <<"WONT", o>>)

\* Once jcd has read all, it echoes if the client thinks so or has asked for it.
EchoInv ==
    disturbed \cap {"ECHO", "toggle"} = {} =>
        (LastWord(toServer, DoEcho, DontEcho, "ECHO" \in opts) <=> him["ECHO"] \in {"yes", "wantyes"})

\* Suppression of go-aheads is asked for once, and answered once.
SgaInv ==
    /\ Has(toServer, DoSga) \/ Has(toClient, WillSga) => him["SGA"] = "wantyes"
    /\ ~(Has(toServer, DoSga) /\ Has(toClient, WillSga))
    /\ ~Behind(toServer, DoSga, DoSga) /\ ~Behind(toClient, WillSga, WillSga)

\* From the promise on, no go-ahead is sent or behind the promise on its way.
GoInv ==
    disturbed \cap {"SGA", "toggle"} = {} =>
        /\ him["SGA"] = "yes" => "GA" \notin opts /\ ~Has(toClient, MarkGa)
        /\ Has(toClient, WillSga) => "GA" \notin opts
        /\ ~Behind(toClient, WillSga, MarkGa)

OInv == OTypes /\ AskedInv /\ EchoInv /\ SgaInv /\ GoInv

LEMMA OptionFacts == Option = {"ECHO", "SGA", "EOR", "NAWS"}
BY DEF Option

LEMMA BehindHas ==
    ASSUME NEW q, NEW m, NEW n, Behind(q, m, n)
    PROVE  Has(q, m) /\ Has(q, n)
BY Zenon DEF Behind, Has

LEMMA OneMessage ==
    ASSUME NEW x, NEW m, NEW n
    PROVE  (Has(<<x>>, m) <=> x = m) /\ ~Behind(<<x>>, m, n)
BY DEF Has, Behind

LEMMA TwoMessages ==
    ASSUME NEW x, NEW y, NEW m
    PROVE  Has(<<x, y>>, m) <=> x = m \/ y = m
<1>1. DOMAIN <<x, y>> = {1, 2} /\ <<x, y>>[1] = x /\ <<x, y>>[2] = y
  OBVIOUS
<1> QED  BY <1>1 DEF Has

LEMMA AnswerFacts ==
    ASSUME NEW o \in Option
    PROVE  LET r == AnswerToDo[o]
           IN  /\ r \in Seq(Telling)
               /\ Has(r, <<"WILL", o>>) \/ Has(r, <<"WONT", o>>)
               /\ (Has(r, WillSga) <=> o = "SGA") /\ ~Has(r, MarkGa)
               /\ ~Behind(r, WillSga, WillSga)
<1> DEFINE r == AnswerToDo[o]
<1>1. CASE o \in {"ECHO", "SGA", "NAWS"}
  <2>1. PICK x \in Telling : /\ r = <<x>> /\ x \in {<<"WILL", o>>, <<"WONT", o>>}
                             /\ (x = WillSga <=> o = "SGA") /\ x # MarkGa
    BY <1>1, OptionFacts DEF AnswerToDo, Telling, WillSga, MarkGa
  <2>2. <<x>> \in Seq(Telling)
    BY <2>1
  <2>3. (\A m : Has(r, m) <=> m = x) /\ (\A m, n : ~Behind(r, m, n))
    BY <2>1, OneMessage
  <2>4. r \in Seq(Telling)
    BY <2>1, <2>2
  <2>5. Has(r, <<"WILL", o>>) \/ Has(r, <<"WONT", o>>)
    BY <2>1, <2>3
  <2>6. (Has(r, WillSga) <=> o = "SGA") /\ ~Has(r, MarkGa) /\ ~Behind(r, WillSga, WillSga)
    BY <2>1, <2>3
  <2> QED  BY <2>4, <2>5, <2>6
<1>2. CASE o = "EOR"
  <2>1. r = << <<"WILL", "ECHO">>, <<"WONT", "EOR">> >>
    BY <1>2 DEF AnswerToDo
  <2>2. r \in Seq(Telling)
    BY <2>1, OptionFacts DEF Telling
  <2>3. <<"WONT", "EOR">> = <<"WONT", o>>
    BY <1>2
  <2>4. ~Has(r, WillSga) /\ ~Has(r, MarkGa) /\ Has(r, <<"WONT", o>>)
    BY <2>1, <2>3, TwoMessages DEF WillSga, MarkGa
  <2>5. ~Behind(r, WillSga, WillSga)
    BY <2>4, BehindHas
  <2> QED  BY <1>2, <2>2, <2>4, <2>5
<1> QED  BY <1>1, <1>2, OptionFacts

\* Reading a message off a channel.
LEMMA ReadsFacts ==
    ASSUME OTypes, NEW v \in {"DO", "DONT", "WILL", "WONT"}, NEW o \in Option,
           Reads(v, o)
    PROVE  /\ toServer # << >> /\ Head(toServer) = <<v, o>> /\ toServer' = Tail(toServer)
           /\ toServer' \in Seq(Asking) /\ UNCHANGED <<him, us, asks, commands, prompts>>
           /\ \A m : Has(toServer, m) <=> <<v, o>> = m \/ Has(toServer', m)
           /\ \A m : Behind(toServer, m, m) <=> (<<v, o>> = m /\ Has(toServer', m)) \/ Behind(toServer', m, m)
           /\ LastWord(toServer, DoEcho, DontEcho, "ECHO" \in opts) <=>
                LastWord(toServer', DoEcho, DontEcho,
                         CASE <<v, o>> = DoEcho -> TRUE
                           [] <<v, o>> = DontEcho -> FALSE
                           [] OTHER -> "ECHO" \in opts)
<1>1. /\ toServer # << >> /\ Head(toServer) = <<v, o>> /\ toServer' = Tail(toServer)
      /\ UNCHANGED <<him, us, asks, commands, prompts>>
  BY DEF Reads, bounds
<1>2. toServer \in Seq(Asking) /\ toServer' \in Seq(Asking)
  BY <1>1 DEF OTypes
<1>3. \A m, n : /\ Has(toServer, m) <=> Head(toServer) = m \/ Has(Tail(toServer), m)
                /\ Behind(toServer, m, n) <=> \/ Head(toServer) = m /\ Has(Tail(toServer), n)
                                              \/ Behind(Tail(toServer), m, n)
                /\ Last(toServer, m, n) <=> \/ Head(toServer) = m /\ ~Has(Tail(toServer), n)
                                            \/ Last(Tail(toServer), m, n)
  BY <1>1, <1>2, HeadTail
<1>4. /\ Last(toServer, DoEcho, DontEcho) <=>
           \/ <<v, o>> = DoEcho /\ ~Has(toServer', DontEcho)
           \/ Last(toServer', DoEcho, DontEcho)
      /\ Has(toServer, DontEcho) <=> <<v, o>> = DontEcho \/ Has(toServer', DontEcho)
  BY <1>1, <1>3
<1>5. DoEcho # DontEcho
  BY DEF DoEcho, DontEcho
<1>6. LastWord(toServer, DoEcho, DontEcho, "ECHO" \in opts) <=>
        LastWord(toServer', DoEcho, DontEcho,
                 CASE <<v, o>> = DoEcho -> TRUE
                   [] <<v, o>> = DontEcho -> FALSE
                   [] OTHER -> "ECHO" \in opts)
  <2>1. CASE <<v, o>> = DoEcho
    BY <1>4, <1>5, <2>1 DEF LastWord
  <2>2. CASE <<v, o>> = DontEcho
    BY <1>4, <1>5, <2>2 DEF LastWord
  <2>3. CASE <<v, o>> # DoEcho /\ <<v, o>> # DontEcho
    BY <1>4, <2>3 DEF LastWord
  <2> QED  BY <2>1, <2>2, <2>3
<1> QED  BY <1>1, <1>2, <1>3, <1>6

\* Appending a message to what jcd will read.
LEMMA SaysFacts ==
    ASSUME OTypes, NEW v \in {"DO", "DONT", "WILL", "WONT"}, NEW o \in Option,
           Says(v, o), NEW on \in BOOLEAN
    PROVE  /\ toServer' \in Seq(Asking)
           /\ \A m : Has(toServer', m) <=> Has(toServer, m) \/ <<v, o>> = m
           /\ \A m : Behind(toServer', m, m) => Behind(toServer, m, m) \/ (Has(toServer, m) /\ <<v, o>> = m)
           /\ LastWord(toServer', DoEcho, DontEcho, on) <=>
                \/ <<v, o>> = DoEcho
                \/ LastWord(toServer, DoEcho, DontEcho, on) /\ <<v, o>> # DontEcho
<1> DEFINE x == <<v, o>>
<1>1. toServer \in Seq(Asking) /\ x \in Asking /\ toServer' = Append(toServer, x)
  BY DEF OTypes, Asking, Says
<1>2. DoEcho # DontEcho
  BY DEF DoEcho, DontEcho
<1> HIDE DEF x
<1>3. ASSUME NEW m
      PROVE  /\ toServer' \in Seq(Asking)
             /\ Has(toServer', m) <=> Has(toServer, m) \/ x = m
             /\ Behind(toServer', m, m) => Behind(toServer, m, m) \/ (Has(toServer, m) /\ x = m)
  BY <1>1, Appended
<1>4. Last(toServer', DoEcho, DontEcho) <=>
        x = DoEcho \/ (Last(toServer, DoEcho, DontEcho) /\ x # DontEcho)
  BY <1>1, <1>2, Appended
<1>5. LastWord(toServer', DoEcho, DontEcho, on) <=>
        x = DoEcho \/ (LastWord(toServer, DoEcho, DontEcho, on) /\ x # DontEcho)
  BY <1>2, <1>3, <1>4, Zenon DEF LastWord
<1> QED  BY <1>3, <1>5, Zenon DEF x

\* What the client reads off its channel.
LEMMA HearsFacts ==
    ASSUME OTypes, NEW k, NEW w, Hears(k, w)
    PROVE  /\ toClient' \in Seq(Telling) /\ <<k, w>> \in Telling
           /\ UNCHANGED <<opts, asks, commands, prompts, disturbed>>
           /\ \A m : Has(toClient, m) <=> <<k, w>> = m \/ Has(toClient', m)
           /\ \A m, n : Behind(toClient, m, n) <=> \/ <<k, w>> = m /\ Has(toClient', n)
                                                   \/ Behind(toClient', m, n)
<1>1. /\ toClient \in Seq(Telling) /\ toClient # << >> /\ Head(toClient) = <<k, w>>
      /\ toClient' = Tail(toClient)
      /\ UNCHANGED <<opts, asks, commands, prompts, disturbed>>
  BY DEF OTypes, Hears, bounds
<1>2. toClient' \in Seq(Telling) /\ <<k, w>> \in Telling
  BY <1>1, HeadTailProperties
<1>3. \A m, n : /\ Has(toClient, m) <=> Head(toClient) = m \/ Has(Tail(toClient), m)
                /\ Behind(toClient, m, n) <=> \/ Head(toClient) = m /\ Has(Tail(toClient), n)
                                              \/ Behind(Tail(toClient), m, n)
  BY <1>1, HeadTail
<1> QED  BY <1>1, <1>2, <1>3

-----------------------------------------------------------------------------
(* jcd reads.                                                              *)

LEMMA DoStep ==
    ASSUME OInv, NEW o \in Option, post_do(o)
    PROVE  OInv'
<1> DEFINE r == AnswerToDo[o]
<1>1. OTypes /\ AskedInv /\ EchoInv /\ SgaInv /\ GoInv
  BY DEF OInv
<1>2. /\ Reads("DO", o) /\ opts' = AfterDo(o) /\ toClient' = toClient \o r
      /\ disturbed' = disturbed \ ({"SGA"} \cap {o})
  BY DEF post_do
<1>3. /\ toServer' \in Seq(Asking) /\ UNCHANGED <<him, us, asks, commands, prompts>>
      /\ \A m : Has(toServer, m) <=> <<"DO", o>> = m \/ Has(toServer', m)
      /\ \A m : Behind(toServer, m, m) <=>
                  (<<"DO", o>> = m /\ Has(toServer', m)) \/ Behind(toServer', m, m)
      /\ LastWord(toServer, DoEcho, DontEcho, "ECHO" \in opts) <=>
           LastWord(toServer', DoEcho, DontEcho,
                    CASE <<"DO", o>> = DoEcho -> TRUE
                      [] <<"DO", o>> = DontEcho -> FALSE
                      [] OTHER -> "ECHO" \in opts)
  BY <1>1, <1>2, ReadsFacts
<1>4. /\ r \in Seq(Telling)
      /\ Has(r, <<"WILL", o>>) \/ Has(r, <<"WONT", o>>)
      /\ (Has(r, WillSga) <=> o = "SGA") /\ ~Has(r, MarkGa)
      /\ ~Behind(r, WillSga, WillSga)
  BY AnswerFacts
<1> HIDE DEF r
<1>5. /\ toClient' \in Seq(Telling)
      /\ \A m : Has(toClient', m) <=> Has(toClient, m) \/ Has(r, m)
      /\ \A m, n : Behind(toClient', m, n) =>
                     Behind(toClient, m, n) \/ Behind(r, m, n) \/ (Has(toClient, m) /\ Has(r, n))
  BY <1>1, <1>2, <1>4, Joined DEF OTypes
<1>6. /\ opts' \subseteq {"ECHO", "GA", "EOR"} /\ disturbed' \subseteq {"ECHO", "SGA", "toggle"}
      /\ "ECHO" \in opts' <=> o = "ECHO" \/ "ECHO" \in opts
      /\ "GA" \in opts' <=> o # "SGA" /\ "GA" \in opts
  BY <1>1, <1>2, OptionFacts DEF OTypes, AfterDo
<1>7. OTypes'
  BY <1>1, <1>3, <1>5, <1>6 DEF OTypes
<1>8. AskedInv'
  <2> SUFFICES ASSUME NEW p \in Option, him'[p] = "wantyes"
               PROVE  \/ Has(toServer', <<"DO", p>>) \/ Has(toClient', <<"WILL", p>>)
                      \/ Has(toClient', <<"WONT", p>>)
    BY DEF AskedInv, Option
  <2>1. \/ Has(toServer, <<"DO", p>>) \/ Has(toClient, <<"WILL", p>>)
        \/ Has(toClient, <<"WONT", p>>)
    BY <1>1, <1>3 DEF AskedInv
  <2>2. <<"DO", o>> = <<"DO", p>> => o = p
    OBVIOUS
  <2> QED  BY <1>3, <1>4, <1>5, <2>1, <2>2, Zenon
<1>9. EchoInv'
  <2>1. /\ <<"DO", o>> = DoEcho <=> o = "ECHO"
        /\ <<"DO", o>> # DontEcho
    BY DEF DoEcho, DontEcho
  <2>2. disturbed \cap {"ECHO", "toggle"} = disturbed' \cap {"ECHO", "toggle"}
    BY <1>2
  <2>3. LastWord(toServer, DoEcho, DontEcho, "ECHO" \in opts) <=>
          LastWord(toServer', DoEcho, DontEcho, "ECHO" \in opts')
    <3>1. CASE o = "ECHO"
      BY <1>3, <1>6, <2>1, <3>1 DEF LastWord
    <3>2. CASE o # "ECHO"
      BY <1>3, <1>6, <2>1, <3>2 DEF LastWord
    <3> QED  BY <3>1, <3>2
  <2> QED  BY <1>1, <1>3, <2>2, <2>3 DEF EchoInv
<1>10. SgaInv'
  <2>1. <<"DO", o>> = DoSga <=> o = "SGA"
    BY DEF DoSga
  <2>2. \A m : Behind(toServer', m, m) => Has(toServer', m)
    BY BehindHas
  <2>3. Behind(r, WillSga, WillSga) => FALSE
    BY <1>4
  <2> QED  BY <1>1, <1>3, <1>4, <1>5, <2>1, <2>2, <2>3 DEF SgaInv
<1>11. GoInv'
  <2>1. CASE o = "SGA"
    <3>1. <<"DO", o>> = DoSga
      BY <2>1 DEF DoSga
    <3>2. him["SGA"] = "wantyes" /\ ~Has(toClient, WillSga)
      BY <1>1, <1>3, <3>1 DEF SgaInv
    <3>3. ~Behind(toClient', WillSga, MarkGa)
      BY <1>4, <1>5, <3>2, BehindHas
    <3> QED  BY <1>3, <1>6, <2>1, <3>2, <3>3 DEF GoInv
  <2>2. CASE o # "SGA"
    <3>1. disturbed' = disturbed
      BY <1>2, <2>2
    <3>2. ("GA" \in opts' <=> "GA" \in opts) /\ (Has(toClient', WillSga) <=> Has(toClient, WillSga))
          /\ (Has(toClient', MarkGa) <=> Has(toClient, MarkGa))
      BY <1>4, <1>5, <1>6, <2>2
    <3>3. Behind(toClient', WillSga, MarkGa) => Behind(toClient, WillSga, MarkGa)
      BY <1>4, <1>5, BehindHas
    <3> QED  BY <1>1, <1>3, <3>1, <3>2, <3>3 DEF GoInv
  <2> QED  BY <2>1, <2>2
<1> QED  BY <1>7, <1>8, <1>9, <1>10, <1>11 DEF OInv

\* DONT, WILL and WONT: nothing is answered.
LEMMA OtherReadsStep ==
    ASSUME OInv, NEW o \in Option,
           post_dont(o) \/ post_will(o) \/ post_wont(o)
    PROVE  OInv'
<1>1. OTypes /\ AskedInv /\ EchoInv /\ SgaInv /\ GoInv
  BY DEF OInv
<1>2. PICK v \in {"DONT", "WILL", "WONT"} :
        /\ Reads(v, o) /\ toClient' = toClient
        /\ opts' \subseteq {"ECHO", "GA", "EOR"} /\ disturbed' \subseteq {"ECHO", "SGA", "toggle"}
        /\ disturbed \subseteq disturbed'
        /\ "ECHO" \notin disturbed' =>
             ("ECHO" \in opts' <=> "ECHO" \in opts /\ ~(v = "DONT" /\ o = "ECHO"))
        /\ "SGA" \notin disturbed' => ("GA" \in opts' => "GA" \in opts)
  <2>1. CASE post_dont(o)
    <3>1. /\ Reads("DONT", o) /\ toClient' = toClient /\ disturbed' = disturbed
          /\ opts' = AfterDont(o)
      BY <2>1 DEF post_dont
    <3>2. /\ opts' \subseteq opts
          /\ "ECHO" \in opts' <=> "ECHO" \in opts /\ o # "ECHO"
      BY <3>1, OptionFacts DEF AfterDont
    <3> QED  BY <1>1, <3>1, <3>2 DEF OTypes
  <2>2. CASE post_will(o)
    <3>1. Reads("WILL", o) /\ toClient' = toClient
      BY <2>2 DEF post_will
    <3>2. /\ opts' \subseteq {"ECHO", "GA", "EOR"} /\ disturbed' \subseteq {"ECHO", "SGA", "toggle"}
          /\ disturbed \subseteq disturbed'
          /\ "ECHO" \in opts' <=> "ECHO" \in opts
          /\ "SGA" \notin disturbed' => opts' = opts
      BY <1>1, <2>2 DEF post_will, OTypes
    <3> QED  BY <3>1, <3>2
  <2>3. CASE post_wont(o)
    <3>1. /\ Reads("WONT", o) /\ toClient' = toClient
          /\ opts' = AfterDont(o) /\ disturbed' = disturbed \cup ({"ECHO"} \cap {o})
      BY <2>3 DEF post_wont
    <3>2. /\ opts' \subseteq opts
          /\ "ECHO" \in opts' <=> "ECHO" \in opts /\ o # "ECHO"
          /\ o = "ECHO" => "ECHO" \in disturbed'
      BY <3>1, OptionFacts DEF AfterDont
    <3> QED  BY <1>1, <3>1, <3>2 DEF OTypes
  <2> QED  BY <2>1, <2>2, <2>3
<1>3. /\ toServer' \in Seq(Asking) /\ UNCHANGED <<him, us, asks, commands, prompts>>
      /\ \A m : Has(toServer, m) <=> <<v, o>> = m \/ Has(toServer', m)
      /\ \A m : Behind(toServer, m, m) <=>
                  (<<v, o>> = m /\ Has(toServer', m)) \/ Behind(toServer', m, m)
      /\ LastWord(toServer, DoEcho, DontEcho, "ECHO" \in opts) <=>
           LastWord(toServer', DoEcho, DontEcho,
                    CASE <<v, o>> = DoEcho -> TRUE
                      [] <<v, o>> = DontEcho -> FALSE
                      [] OTHER -> "ECHO" \in opts)
  BY <1>1, <1>2, ReadsFacts
<1>4. /\ \A p : <<v, o>> # <<"DO", p>>
      /\ <<v, o>> # DoEcho /\ <<v, o>> # DoSga
      /\ <<v, o>> = DontEcho <=> v = "DONT" /\ o = "ECHO"
  BY DEF DoEcho, DontEcho, DoSga
<1>5. OTypes'
  BY <1>1, <1>2, <1>3 DEF OTypes
<1>6. AskedInv'
  BY <1>1, <1>2, <1>3, <1>4, Zenon DEF AskedInv, Option
<1>7. EchoInv'
  <2> SUFFICES ASSUME disturbed' \cap {"ECHO", "toggle"} = {}
               PROVE  LastWord(toServer', DoEcho, DontEcho, "ECHO" \in opts') <=>
                        him'["ECHO"] \in {"yes", "wantyes"}
    BY DEF EchoInv
  <2>1. disturbed \cap {"ECHO", "toggle"} = {} /\ "ECHO" \notin disturbed'
    BY <1>2
  <2>2. LastWord(toServer, DoEcho, DontEcho, "ECHO" \in opts) <=>
          LastWord(toServer', DoEcho, DontEcho, "ECHO" \in opts')
    <3>1. CASE <<v, o>> = DontEcho
      BY <1>2, <1>3, <1>4, <2>1, <3>1 DEF LastWord
    <3>2. CASE <<v, o>> # DontEcho
      BY <1>2, <1>3, <1>4, <2>1, <3>2 DEF LastWord
    <3> QED  BY <3>1, <3>2
  <2> QED  BY <1>1, <1>3, <2>1, <2>2 DEF EchoInv
<1>8. SgaInv'
  BY <1>1, <1>2, <1>3, <1>4 DEF SgaInv
<1>9. GoInv'
  <2> SUFFICES ASSUME disturbed' \cap {"SGA", "toggle"} = {}
               PROVE  /\ him'["SGA"] = "yes" => "GA" \notin opts' /\ ~Has(toClient', MarkGa)
                      /\ Has(toClient', WillSga) => "GA" \notin opts'
                      /\ ~Behind(toClient', WillSga, MarkGa)
    BY DEF GoInv
  <2>1. disturbed \cap {"SGA", "toggle"} = {} /\ "SGA" \notin disturbed'
    BY <1>2
  <2> QED  BY <1>1, <1>2, <1>3, <2>1 DEF GoInv
<1> QED  BY <1>5, <1>6, <1>7, <1>8, <1>9 DEF OInv

-----------------------------------------------------------------------------
(* jcd sends.                                                              *)

LEMMA SendsStep ==
    ASSUME OInv, NEW r \in Seq(Telling), Sends(r),
           ~Has(r, WillSga), Has(r, MarkGa) => "GA" \in opts,
           opts' \subseteq {"ECHO", "GA", "EOR"}, disturbed' \subseteq {"ECHO", "SGA", "toggle"},
           disturbed \subseteq disturbed', "toggle" \notin disturbed' => opts' = opts
    PROVE  OInv'
<1>1. OTypes /\ AskedInv /\ EchoInv /\ SgaInv /\ GoInv
  BY DEF OInv
<1>2. toClient' = toClient \o r /\ UNCHANGED <<toServer, him, us>>
  BY DEF Sends
<1>3. /\ toClient' \in Seq(Telling)
      /\ \A m : Has(toClient', m) <=> Has(toClient, m) \/ Has(r, m)
      /\ \A m, n : Behind(toClient', m, n) =>
                     Behind(toClient, m, n) \/ Behind(r, m, n) \/ (Has(toClient, m) /\ Has(r, n))
  BY <1>1, <1>2, Joined DEF OTypes
<1>4. \A n : ~Behind(r, WillSga, n)
  BY BehindHas
<1>5. OTypes'
  BY <1>1, <1>2, <1>3 DEF OTypes
<1>6. AskedInv'
  BY <1>1, <1>2, <1>3 DEF AskedInv, Option
<1>7. EchoInv'
  BY <1>1, <1>2 DEF EchoInv
<1>8. SgaInv'
  BY <1>1, <1>2, <1>3, <1>4 DEF SgaInv
<1>9. GoInv'
  BY <1>1, <1>2, <1>3, <1>4 DEF GoInv
<1> QED  BY <1>5, <1>6, <1>7, <1>8, <1>9 DEF OInv

LEMMA AutoSetStep == ASSUME OInv, auto_set PROVE OInv'
<1> DEFINE r == << <<"DO", "NAWS">>, <<"DO", "ECHO">>, <<"DO", "SGA">>, <<"DO", "EOR">> >>
<1>1. Sends(r) /\ UNCHANGED <<opts, disturbed>>
  BY DEF auto_set
<1>2. r \in Seq(Telling)
  BY OptionFacts DEF Telling
<1>3. \A i \in DOMAIN r : r[i] # WillSga /\ r[i] # MarkGa
  BY DEF WillSga, MarkGa
<1> HIDE DEF r
<1>4. ~Has(r, WillSga) /\ ~Has(r, MarkGa)
  BY <1>3 DEF Has
<1>5. opts \subseteq {"ECHO", "GA", "EOR"} /\ disturbed \subseteq {"ECHO", "SGA", "toggle"}
  BY DEF OInv, OTypes
<1> QED  BY <1>1, <1>2, <1>4, <1>5, SendsStep

LEMMA ToggleStep == ASSUME OInv, toggle PROVE OInv'
<1>1. /\ Sends(<< >>) /\ disturbed' = disturbed \cup {"toggle"}
      /\ \E f \in {"ECHO", "GA", "EOR"} : opts' = (opts \ {f}) \cup ({f} \ opts)
  BY DEF toggle
<1>2. opts \subseteq {"ECHO", "GA", "EOR"} /\ disturbed \subseteq {"ECHO", "SGA", "toggle"}
  BY DEF OInv, OTypes
<1>3. opts' \subseteq {"ECHO", "GA", "EOR"} /\ disturbed' \subseteq {"ECHO", "SGA", "toggle"}
  BY <1>1, <1>2
<1>4. << >> \in Seq(Telling) /\ \A m : ~Has(<< >>, m)
  BY DEF Has
<1> QED  BY <1>1, <1>3, <1>4, SendsStep

LEMMA PromptStep == ASSUME OInv, prompt PROVE OInv'
<1>1. PICK r : /\ Sends(r) /\ UNCHANGED <<opts, disturbed>>
               /\ r \in {<< >>, << <<"mark", "EOR">> >>, << <<"mark", "GA">> >>}
               /\ r = << <<"mark", "GA">> >> => "GA" \in opts
  BY DEF prompt
<1>2. opts \subseteq {"ECHO", "GA", "EOR"} /\ disturbed \subseteq {"ECHO", "SGA", "toggle"}
  BY DEF OInv, OTypes
<1>3. r \in Seq(Telling)
  <2>1. <<"mark", "EOR">> \in Telling /\ <<"mark", "GA">> \in Telling
    BY DEF Telling
  <2>2. \A x \in Telling : <<x>> \in Seq(Telling)
    OBVIOUS
  <2>3. << >> \in Seq(Telling)
    OBVIOUS
  <2> QED  BY <1>1, <2>1, <2>2, <2>3, Zenon
<1>4. ~Has(r, WillSga) /\ (Has(r, MarkGa) => "GA" \in opts)
  <2>1. CASE r = << >>
    BY <2>1 DEF Has
  <2>2. CASE r = << <<"mark", "EOR">> >>
    BY <2>2, OneMessage DEF WillSga, MarkGa
  <2>3. CASE r = << <<"mark", "GA">> >>
    BY <1>1, <2>3, OneMessage DEF WillSga, MarkGa
  <2> QED  BY <1>1, <2>1, <2>2, <2>3
<1> QED  BY <1>1, <1>2, <1>3, <1>4, SendsStep

-----------------------------------------------------------------------------
(* The client.                                                             *)

Wishes == him["ECHO"] \in {"yes", "wantyes"}

\* A step of the client: it says nothing and keeps its mind about echoing, or says v.
LEMMA EchoKept ==
    ASSUME OTypes, EchoInv, UNCHANGED <<opts, disturbed>>, NEW o \in Option,
           \/ UNCHANGED toServer /\ (Wishes' <=> Wishes)
           \/ \E v \in {"DO", "DONT", "WILL", "WONT"} :
                /\ Says(v, o)
                /\ <<v, o>> = DoEcho => Wishes'
                /\ <<v, o>> = DontEcho => ~Wishes'
                /\ <<v, o>> \notin {DoEcho, DontEcho} => (Wishes' <=> Wishes)
    PROVE  EchoInv'
<1>1. CASE UNCHANGED toServer /\ (Wishes' <=> Wishes)
  BY <1>1 DEF EchoInv, Wishes
<1>2. ASSUME NEW v \in {"DO", "DONT", "WILL", "WONT"}, Says(v, o),
             <<v, o>> = DoEcho => Wishes', <<v, o>> = DontEcho => ~Wishes',
             <<v, o>> \notin {DoEcho, DontEcho} => (Wishes' <=> Wishes)
      PROVE  EchoInv'
  <2>1. ("ECHO" \in opts) \in BOOLEAN
    OBVIOUS
  <2>2. LastWord(toServer', DoEcho, DontEcho, "ECHO" \in opts) <=>
          \/ <<v, o>> = DoEcho
          \/ LastWord(toServer, DoEcho, DontEcho, "ECHO" \in opts) /\ <<v, o>> # DontEcho
    BY <1>2, <2>1, SaysFacts
  <2> QED  BY <1>2, <2>2 DEF EchoInv, Wishes
<1> QED  BY <1>1, <1>2

LEMMA HearWillStep ==
    ASSUME OInv, NEW o \in Option, HearWill(o)
    PROVE  OInv'
<1> DEFINE x == <<"WILL", o>>
<1>1. OTypes /\ AskedInv /\ EchoInv /\ SgaInv /\ GoInv
  BY DEF OInv
<1>2. Hears("WILL", o) /\ us' = us
  BY DEF HearWill
<1>3. /\ toClient' \in Seq(Telling) /\ UNCHANGED <<opts, asks, commands, prompts, disturbed>>
      /\ \A m : Has(toClient, m) <=> x = m \/ Has(toClient', m)
      /\ \A m, n : Behind(toClient, m, n) <=> (x = m /\ Has(toClient', n)) \/ Behind(toClient', m, n)
  BY <1>1, <1>2, HearsFacts
<1>4. /\ him' \in [Option -> Side] /\ \A p \in Option : p # o => him'[p] = him[p]
      /\ \/ him[o] = "no" /\ him'[o] = "yes" /\ Says("DO", o)
         \/ him[o] = "no" /\ him'[o] = "no" /\ Says("DONT", o)
         \/ him[o] = "wantno" /\ him'[o] = "no" /\ UNCHANGED toServer
         \/ him[o] \in {"yes", "wantyes"} /\ him'[o] = "yes" /\ UNCHANGED toServer
  BY <1>1 DEF HearWill, OTypes, Side
<1>5. PICK v \in {"DO", "DONT"} : UNCHANGED toServer \/ Says(v, o)
  BY <1>4
<1>6. /\ toServer' \in Seq(Asking)
      /\ \A m : Has(toServer, m) => Has(toServer', m)
      /\ \A m : Has(toServer', m) => Has(toServer, m) \/ <<v, o>> = m
      /\ \A m : Behind(toServer', m, m) => Behind(toServer, m, m) \/ <<v, o>> = m
  BY <1>1, <1>5, SaysFacts DEF OTypes
<1>7. OTypes'
  BY <1>1, <1>2, <1>3, <1>4, <1>6 DEF OTypes
<1>8. AskedInv'
  <2> SUFFICES ASSUME NEW p \in Option, him'[p] = "wantyes"
               PROVE  \/ Has(toServer', <<"DO", p>>) \/ Has(toClient', <<"WILL", p>>)
                      \/ Has(toClient', <<"WONT", p>>)
    BY DEF AskedInv, Option
  <2>1. p # o /\ him[p] = "wantyes"
    BY <1>4
  <2>2. x # <<"WILL", p>> /\ x # <<"WONT", p>>
    BY <2>1
  <2> QED  BY <1>1, <1>3, <1>6, <2>1, <2>2 DEF AskedInv
<1>9. EchoInv'
  <2>1. CASE o = "ECHO"
    <3>1. <<"DO", o>> = DoEcho /\ <<"DONT", o>> = DontEcho /\ DoEcho # DontEcho
      BY <2>1 DEF DoEcho, DontEcho
    <3> QED  BY <1>1, <1>3, <1>4, <2>1, <3>1, EchoKept DEF Wishes
  <2>2. CASE o # "ECHO"
    <3>1. Wishes' <=> Wishes
      BY <1>4, <2>2, OptionFacts DEF Wishes
    <3>2. \A u : <<u, o>> # DoEcho /\ <<u, o>> # DontEcho
      BY <2>2 DEF DoEcho, DontEcho
    <3> QED  BY <1>1, <1>3, <1>5, <3>1, <3>2, EchoKept
  <2> QED  BY <2>1, <2>2
<1>10. SgaInv' /\ GoInv'
  <2>1. CASE o = "SGA"
    <3>1. x = WillSga
      BY <2>1 DEF WillSga
    <3>2. him["SGA"] = "wantyes" /\ ~Has(toServer, DoSga) /\ ~Has(toClient', WillSga)
      BY <1>1, <1>3, <3>1 DEF SgaInv
    <3>3. him'["SGA"] = "yes" /\ toServer' = toServer
      BY <1>4, <2>1, <3>2
    <3>4. \A m : ~Behind(toClient', WillSga, m)
      BY <3>2, BehindHas
    <3>5. SgaInv'
      BY <1>1, <3>2, <3>3, <3>4 DEF SgaInv
    <3>6. GoInv'
      BY <1>1, <1>3, <3>1, <3>2, <3>3, <3>4 DEF GoInv
    <3> QED  BY <3>5, <3>6
  <2>2. CASE o # "SGA"
    <3>1. him'["SGA"] = him["SGA"]
      BY <1>4, <2>2, OptionFacts
    <3>2. <<v, o>> # DoSga /\ x # WillSga
      BY <2>2 DEF DoSga, WillSga
    <3>3. SgaInv'
      BY <1>1, <1>3, <1>6, <3>1, <3>2 DEF SgaInv
    <3>4. GoInv'
      BY <1>1, <1>3, <3>1, <3>2 DEF GoInv
    <3> QED  BY <3>3, <3>4
  <2> QED  BY <2>1, <2>2
<1> QED  BY <1>7, <1>8, <1>9, <1>10 DEF OInv

LEMMA HearWontStep ==
    ASSUME OInv, NEW o \in Option, HearWont(o)
    PROVE  OInv'
<1> DEFINE x == <<"WONT", o>>
<1>1. OTypes /\ AskedInv /\ EchoInv /\ SgaInv /\ GoInv
  BY DEF OInv
<1>2. Hears("WONT", o) /\ us' = us
  BY DEF HearWont
<1>3. /\ toClient' \in Seq(Telling) /\ x \in Telling
      /\ UNCHANGED <<opts, asks, commands, prompts, disturbed>>
      /\ \A m : Has(toClient, m) <=> x = m \/ Has(toClient', m)
      /\ \A m, n : Behind(toClient, m, n) <=> (x = m /\ Has(toClient', n)) \/ Behind(toClient', m, n)
  BY <1>1, <1>2, HearsFacts
<1>4. o \in {"EOR", "NAWS"}
  BY <1>3 DEF Telling
<1>5. /\ him' \in [Option -> Side] /\ him'[o] = "no"
      /\ \A p \in Option : p # o => him'[p] = him[p]
      /\ UNCHANGED toServer \/ Says("DONT", o)
  BY <1>1 DEF HearWont, OTypes, Side
<1>6. /\ toServer' \in Seq(Asking)
      /\ \A m : Has(toServer, m) => Has(toServer', m)
      /\ \A m : Has(toServer', m) => Has(toServer, m) \/ <<"DONT", o>> = m
      /\ \A m : Behind(toServer', m, m) => Behind(toServer, m, m) \/ <<"DONT", o>> = m
  BY <1>1, <1>5, SaysFacts DEF OTypes
<1>7. OTypes'
  BY <1>1, <1>2, <1>3, <1>5, <1>6 DEF OTypes
<1>8. AskedInv'
  <2> SUFFICES ASSUME NEW p \in Option, him'[p] = "wantyes"
               PROVE  \/ Has(toServer', <<"DO", p>>) \/ Has(toClient', <<"WILL", p>>)
                      \/ Has(toClient', <<"WONT", p>>)
    BY DEF AskedInv, Option
  <2>1. p # o /\ him[p] = "wantyes"
    BY <1>5
  <2>2. x # <<"WILL", p>> /\ x # <<"WONT", p>>
    BY <2>1
  <2> QED  BY <1>1, <1>3, <1>6, <2>1, <2>2 DEF AskedInv
<1>9. /\ him'["ECHO"] = him["ECHO"] /\ him'["SGA"] = him["SGA"]
      /\ <<"DONT", o>> \notin {DoEcho, DontEcho, DoSga} /\ x # WillSga
  BY <1>4, <1>5, OptionFacts DEF DoEcho, DontEcho, DoSga, WillSga
<1>10. EchoInv'
  <2>1. Wishes' <=> Wishes
    BY <1>9 DEF Wishes
  <2> QED  BY <1>1, <1>3, <1>5, <1>9, <2>1, EchoKept
<1>11. SgaInv'
  BY <1>1, <1>3, <1>6, <1>9 DEF SgaInv
<1>12. GoInv'
  BY <1>1, <1>3, <1>9 DEF GoInv
<1> QED  BY <1>7, <1>8, <1>10, <1>11, <1>12 DEF OInv

\* DO, and the marks, which the client need not answer.
LEMMA HearRestStep ==
    ASSUME OInv,
           \/ \E o \in Option : HearDo(o)
           \/ \E m \in {"EOR", "GA"} : HearMark(m)
    PROVE  OInv'
<1>1. OTypes /\ AskedInv /\ EchoInv /\ SgaInv /\ GoInv
  BY DEF OInv
<1>2. /\ him' = him /\ us' \in [Option -> Side]
      /\ \E k \in {"DO", "mark"} : \E w : Hears(k, w)
      /\ \E o \in Option, v \in {"WILL", "WONT"} : UNCHANGED toServer \/ Says(v, o)
  <2>1. ASSUME NEW o \in Option, HearDo(o)
        PROVE  /\ him' = him /\ us' \in [Option -> Side] /\ Hears("DO", o)
               /\ \E v \in {"WILL", "WONT"} : UNCHANGED toServer \/ Says(v, o)
    BY <1>1, <2>1 DEF HearDo, OTypes, Side
  <2>2. ASSUME NEW m \in {"EOR", "GA"}, HearMark(m)
        PROVE  /\ him' = him /\ us' \in [Option -> Side] /\ Hears("mark", m)
               /\ UNCHANGED toServer /\ "ECHO" \in Option
    BY <1>1, <2>2, OptionFacts DEF HearMark, OTypes
  <2> QED  BY <2>1, <2>2
<1>3. PICK k \in {"DO", "mark"} : \E w : Hears(k, w)
  BY <1>2
<1>4. PICK w : Hears(k, w)
  BY <1>3
<1>5. PICK o \in Option, v \in {"WILL", "WONT"} : UNCHANGED toServer \/ Says(v, o)
  BY <1>2
<1>6. /\ toClient' \in Seq(Telling) /\ UNCHANGED <<opts, asks, commands, prompts, disturbed>>
      /\ \A m : Has(toClient, m) <=> <<k, w>> = m \/ Has(toClient', m)
      /\ \A m, n : Behind(toClient, m, n) <=>
                     (<<k, w>> = m /\ Has(toClient', n)) \/ Behind(toClient', m, n)
  BY <1>1, <1>4, HearsFacts
<1>7. /\ toServer' \in Seq(Asking)
      /\ \A m : Has(toServer, m) => Has(toServer', m)
      /\ \A m : Has(toServer', m) => Has(toServer, m) \/ <<v, o>> = m
      /\ \A m : Behind(toServer', m, m) => Behind(toServer, m, m) \/ <<v, o>> = m
  BY <1>1, <1>5, SaysFacts DEF OTypes
<1>8. /\ \A p : <<k, w>> # <<"WILL", p>> /\ <<k, w>> # <<"WONT", p>>
      /\ <<k, w>> # WillSga /\ <<v, o>> \notin {DoEcho, DontEcho, DoSga}
  BY DEF WillSga, DoEcho, DontEcho, DoSga
<1>9. OTypes'
  BY <1>1, <1>2, <1>6, <1>7 DEF OTypes
<1>10. AskedInv'
  BY <1>1, <1>2, <1>6, <1>7, <1>8, Zenon DEF AskedInv, Option
<1>11. EchoInv'
  <2>1. Wishes' <=> Wishes
    BY <1>2 DEF Wishes
  <2> QED  BY <1>1, <1>5, <1>6, <1>8, <2>1, EchoKept
<1>12. SgaInv'
  BY <1>1, <1>2, <1>6, <1>7, <1>8 DEF SgaInv
<1>13. GoInv'
  BY <1>1, <1>2, <1>6, <1>8 DEF GoInv
<1> QED  BY <1>9, <1>10, <1>11, <1>12, <1>13 DEF OInv

LEMMA AskStep ==
    ASSUME OInv, NEW o \in Option, Ask(o)
    PROVE  OInv'
<1>1. OTypes /\ AskedInv /\ EchoInv /\ SgaInv /\ GoInv
  BY DEF OInv
<1>2. UNCHANGED <<opts, toClient, disturbed>>
  BY DEF Ask
<1>3. PICK v \in {"DO", "DONT", "WILL", "WONT"} :
        /\ Says(v, o)
        /\ v = "DO" => him[o] = "no" /\ him'[o] = "wantyes"
        /\ v = "DONT" => him[o] = "yes" /\ him'[o] = "wantno"
        /\ v \in {"WILL", "WONT"} => him'[o] = him[o]
        /\ him' \in [Option -> Side] /\ us' \in [Option -> Side]
        /\ \A p \in Option : p # o => him'[p] = him[p]
  <2>1. ASSUME him[o] = "no", him' = [him EXCEPT ![o] = "wantyes"], Says("DO", o), us' = us
        PROVE  /\ him'[o] = "wantyes" /\ him' \in [Option -> Side] /\ us' \in [Option -> Side]
               /\ \A p \in Option : p # o => him'[p] = him[p]
    BY <1>1, <2>1 DEF OTypes, Side
  <2>2. ASSUME him[o] = "yes", him' = [him EXCEPT ![o] = "wantno"], us' = us
        PROVE  /\ him'[o] = "wantno" /\ him' \in [Option -> Side] /\ us' \in [Option -> Side]
               /\ \A p \in Option : p # o => him'[p] = him[p]
    BY <1>1, <2>2 DEF OTypes, Side
  <2>3. ASSUME him' = him, \E s \in Side : us' = [us EXCEPT ![o] = s]
        PROVE  /\ him' \in [Option -> Side] /\ us' \in [Option -> Side]
               /\ \A p \in Option : p # o => him'[p] = him[p]
    BY <1>1, <2>3 DEF OTypes
  <2> QED  BY <2>1, <2>2, <2>3 DEF Ask, Side
<1>4. /\ toServer' \in Seq(Asking)
      /\ \A m : Has(toServer', m) <=> Has(toServer, m) \/ <<v, o>> = m
      /\ \A m : Behind(toServer', m, m) => Behind(toServer, m, m) \/ (Has(toServer, m) /\ <<v, o>> = m)
  BY <1>1, <1>3, SaysFacts
<1>5. OTypes'
  BY <1>1, <1>2, <1>3, <1>4 DEF OTypes
<1>6. AskedInv'
  <2> SUFFICES ASSUME NEW p \in Option, him'[p] = "wantyes"
               PROVE  \/ Has(toServer', <<"DO", p>>) \/ Has(toClient', <<"WILL", p>>)
                      \/ Has(toClient', <<"WONT", p>>)
    BY DEF AskedInv, Option
  <2>1. CASE him[p] = "wantyes"
    BY <1>1, <1>2, <1>4, <2>1 DEF AskedInv
  <2>2. CASE him[p] # "wantyes"
    <3>1. p = o /\ v = "DO"
      BY <1>3, <2>2
    <3> QED  BY <1>4, <3>1
  <2> QED  BY <2>1, <2>2
<1>7. EchoInv'
  <2>1. CASE o = "ECHO"
    <3>1. /\ <<v, o>> = DoEcho <=> v = "DO"
          /\ <<v, o>> = DontEcho <=> v = "DONT"
      BY <2>1 DEF DoEcho, DontEcho
    <3>2. /\ v = "DO" => Wishes'
          /\ v = "DONT" => ~Wishes'
          /\ v \in {"WILL", "WONT"} => (Wishes' <=> Wishes)
      BY <1>3, <2>1 DEF Wishes
    <3> QED  BY <1>1, <1>2, <1>3, <3>1, <3>2, EchoKept
  <2>2. CASE o # "ECHO"
    <3>1. Wishes' <=> Wishes
      BY <1>3, <2>2, OptionFacts DEF Wishes
    <3>2. <<v, o>> # DoEcho /\ <<v, o>> # DontEcho
      BY <2>2 DEF DoEcho, DontEcho
    <3> QED  BY <1>1, <1>2, <1>3, <3>1, <3>2, EchoKept
  <2> QED  BY <2>1, <2>2
<1>8. SgaInv' /\ (him'["SGA"] = "yes" => him["SGA"] = "yes")
  <2>1. CASE o = "SGA"
    <3>1. <<v, o>> = DoSga <=> v = "DO"
      BY <2>1 DEF DoSga
    <3> QED  BY <1>1, <1>2, <1>3, <1>4, <2>1, <3>1 DEF SgaInv
  <2>2. CASE o # "SGA"
    <3>1. <<v, o>> # DoSga /\ him'["SGA"] = him["SGA"]
      BY <1>3, <2>2, OptionFacts DEF DoSga
    <3> QED  BY <1>1, <1>2, <1>4, <3>1 DEF SgaInv
  <2> QED  BY <2>1, <2>2
<1>9. GoInv'
  BY <1>1, <1>2, <1>8 DEF GoInv
<1> QED  BY <1>5, <1>6, <1>7, <1>8, <1>9 DEF OInv

-----------------------------------------------------------------------------
(* The invariants, and the theorems.                                       *)

LEMMA OptionsInit ==
    ASSUME OInit
    PROVE  OInv /\ Bounded
<1>1. /\ opts = {"GA", "EOR"} /\ toServer = << >> /\ toClient = << <<"DO", "NAWS">> >>
      /\ him = [o \in Option |-> "no"] /\ us = [o \in Option |-> "no"] /\ disturbed = {}
      /\ asks = MaxAsks /\ commands = MaxCommands /\ prompts = MaxPrompts
  BY DEF OInit, Option
<1>2. Bounded
  BY <1>1, BoundAssumption DEF Bounded
<1>3. <<"DO", "NAWS">> \in Telling
  BY OptionFacts DEF Telling
<1>4. OTypes
  BY <1>1, <1>3 DEF OTypes, Asking, Side
<1>5. /\ \A m : ~Has(toServer, m)
      /\ \A m : Has(toClient, m) <=> m = <<"DO", "NAWS">>
      /\ \A m, n : ~Behind(toServer, m, n) /\ ~Behind(toClient, m, n) /\ ~Last(toServer, m, n)
  BY <1>1, OneMessage DEF Has, Behind, Last
<1>6. \A o \in Option : him[o] = "no"
  BY <1>1
<1>7. AskedInv
  BY <1>6 DEF AskedInv, Option
<1>8. EchoInv
  BY <1>1, <1>5, <1>6, OptionFacts DEF EchoInv, LastWord
<1>9. WillSga # <<"DO", "NAWS">>
  BY DEF WillSga
<1>10. SgaInv /\ GoInv
  BY <1>5, <1>6, <1>9, OptionFacts DEF SgaInv, GoInv
<1> QED  BY <1>2, <1>4, <1>7, <1>8, <1>10 DEF OInv

LEMMA OptionsStep ==
    ASSUME OInv, [ONext]_ovars
    PROVE  OInv'
<1>1. CASE Server
  <2>1. PICK o \in Option : \/ post_do(o) \/ post_dont(o)
                            \/ post_will(o) \/ post_wont(o)
    BY <1>1 DEF Server, Option
  <2> QED  BY <2>1, DoStep, OtherReadsStep
<1>2. CASE Client
  <2>1. CASE \E o \in Option : HearWill(o)
    BY <2>1, HearWillStep
  <2>2. CASE \E o \in Option : HearWont(o)
    BY <2>2, HearWontStep
  <2>3. CASE \/ \E o \in Option : HearDo(o)
             \/ \E m \in {"EOR", "GA"} : HearMark(m)
    BY <2>3, HearRestStep
  <2> QED  BY <1>2, <2>1, <2>2, <2>3 DEF Client, Option
<1>3. CASE auto_set
  BY <1>3, AutoSetStep
<1>4. CASE toggle
  BY <1>4, ToggleStep
<1>5. CASE prompt
  BY <1>5, PromptStep
<1>6. CASE \E o \in Option : Ask(o)
  BY <1>6, AskStep
<1>7. CASE UNCHANGED ovars
  <2>1. UNCHANGED <<opts, toServer, toClient, him, us, disturbed>>
    BY <1>7 DEF ovars
  <2> QED  BY <2>1, OptionFacts DEF OInv, OTypes, AskedInv, EchoInv, SgaInv, GoInv, LastWord, Last,
                Has, Behind
<1> QED  BY <1>1, <1>2, <1>3, <1>4, <1>5, <1>6, <1>7 DEF ONext, Option

LEMMA BoundedStep ==
    ASSUME Bounded, [ONext]_ovars
    PROVE  Bounded'
<1>1. /\ asks' \in {asks, asks - 1} /\ commands' \in {commands, commands - 1}
      /\ prompts' \in {prompts, prompts - 1}
      /\ asks' # asks => asks > 0
      /\ commands' # commands => commands > 0
      /\ prompts' # prompts => prompts > 0
  <2>1. CASE Server
    BY <2>1 DEF Server, post_do, post_dont, post_will,
         post_wont, Reads, bounds
  <2>2. CASE Client
    BY <2>2 DEF Client, HearWill, HearWont, HearDo,
         HearMark, Hears, bounds
  <2>3. CASE auto_set
    BY <2>3 DEF auto_set
  <2>4. CASE toggle
    BY <2>4 DEF toggle
  <2>5. CASE prompt
    BY <2>5 DEF prompt
  <2>6. CASE \E o \in Option : Ask(o)
    BY <2>6 DEF Ask
  <2>7. CASE UNCHANGED ovars
    BY <2>7 DEF ovars, bounds
  <2> QED  BY <2>1, <2>2, <2>3, <2>4, <2>5, <2>6, <2>7 DEF ONext, Option
<1> QED  BY <1>1, BoundAssumption DEF Bounded

LEMMA OptionsInvariant == OSpec => [](OInv /\ Bounded)
<1>1. OInit => OInv /\ Bounded
  BY OptionsInit
<1>2. OInv /\ Bounded /\ [ONext]_ovars => (OInv /\ Bounded)'
  BY OptionsStep, BoundedStep
<1> QED  BY <1>1, <1>2, PTL DEF OSpec

\* The flags of opts, the sides of every option and what is left of the bounds are what
\* they may be, and what comes to jcd is one of the four commands of an option.
THEOREM OptionsTypeOK == OSpec => []OTypeOK
<1>1. OInv /\ Bounded => OTypeOK
  BY DEF OInv, OTypes, Bounded, OTypeOK, Asking, Side, Option
<1> QED  BY <1>1, OptionsInvariant, PTL

\* Once all is read every DO is answered, and jcd echoes if and only if the client relies
\* on it: however many options are asked for, refused and offered on the way, in whatever
\* order, unless the client has refused to echo or the player has toggled it.
THEOREM OptionsEchoAgreed == OSpec => []EchoAgreed
<1>1. OInv => EchoAgreed
  <2> SUFFICES ASSUME OInv, toServer = << >>, toClient = << >>
               PROVE  /\ \A o \in Option : him[o] # "wantyes"
                      /\ disturbed \cap {"ECHO", "toggle"} = {} =>
                           ("ECHO" \in opts <=> him["ECHO"] = "yes")
    BY DEF EchoAgreed, Quiet, Option
  <2>1. \A m, n : ~Has(toServer, m) /\ ~Has(toClient, m) /\ ~Last(toServer, m, n)
    BY DEF Has, Last
  <2>2. \A o \in Option : him[o] # "wantyes"
    BY <2>1 DEF OInv, AskedInv
  <2>3. LastWord(toServer, DoEcho, DontEcho, "ECHO" \in opts) <=> "ECHO" \in opts
    BY <2>1 DEF LastWord
  <2> QED  BY <2>2, <2>3, OptionFacts DEF OInv, EchoInv
<1> QED  BY <1>1, OptionsInvariant, PTL

\* A client that has been promised that go-aheads are suppressed hears none, whatever was
\* on its way when the promise was made, unless it said WILL SGA since or the player
\* toggled them.
THEOREM OptionsNoGoAhead == OSpec => NoGoAhead
<1>1. OInv /\ [ONext]_ovars =>
        [HearMark("GA") /\ disturbed \cap {"SGA", "toggle"} = {}
           => him["SGA"] # "yes"]_ovars
  <2> SUFFICES ASSUME OInv, HearMark("GA"), disturbed \cap {"SGA", "toggle"} = {}
               PROVE  him["SGA"] # "yes"
    OBVIOUS
  <2>1. Hears("mark", "GA") /\ OTypes /\ GoInv
    BY DEF HearMark, OInv
  <2>2. Has(toClient, <<"mark", "GA">>)
    BY <2>1, HearsFacts
  <2> QED  BY <2>1, <2>2 DEF GoInv, MarkGa
<1> QED  BY <1>1, OptionsInvariant, PTL DEF OSpec, NoGoAhead

-----------------------------------------------------------------------------
(* Negotiation comes to an end.  That it does needs fairness; that it can- *)
(* not go on for ever is a measure that every step lowers: what may still  *)
(* be asked, what every message on its way may still cause, and what the   *)
(* client may still be talked into.                                        *)

\* The weights of a channel's messages together: one cell for each unit of each.
Cells(q, w) == {p \in (DOMAIN q) \X (1..5) : p[2] <= w[q[p[1]]]}
Weight(q, w) == Cardinality(Cells(q, w))

LEMMA CellsFinite ==
    ASSUME NEW S, NEW q \in Seq(S), NEW w
    PROVE  IsFiniteSet(Cells(q, w)) /\ Weight(q, w) \in Nat
<1>1. DOMAIN q = 1..Len(q) /\ Len(q) \in Nat
  BY LenProperties
<1>2. IsFiniteSet(DOMAIN q) /\ IsFiniteSet(1..5)
  <2>1. \A n \in Nat : IsFiniteSet(1..n)
    BY FS_Interval
  <2> QED  BY <1>1, <2>1
<1>3. IsFiniteSet((DOMAIN q) \X (1..5))
  BY <1>2, FS_Product
<1>4. Cells(q, w) \in SUBSET ((DOMAIN q) \X (1..5))
  BY DEF Cells
<1>5. IsFiniteSet(Cells(q, w))
  BY <1>3, <1>4, FS_Subset
<1> QED  BY <1>5, FS_CardinalityType DEF Weight

\* What is appended adds its own weight.
LEMMA WeightJoined ==
    ASSUME NEW S, NEW q \in Seq(S), NEW r \in Seq(S), NEW w
    PROVE  Weight(q \o r, w) = Weight(q, w) + Weight(r, w)
<1> DEFINE c == q \o r
           A == Cells(q, w)
           B == Cells(r, w)
<1>1. PICK a \in Nat, b \in Nat : a = Len(q) /\ b = Len(r)
  BY LenProperties
<1>2. /\ c \in Seq(S) /\ DOMAIN q = 1..a /\ DOMAIN r = 1..b /\ DOMAIN c = 1..(a + b)
      /\ \A i \in 1..(a + b) : c[i] = IF i <= a THEN q[i] ELSE r[i - a]
  BY <1>1, ConcatProperties, LenProperties
<1> HIDE DEF c
<1> DEFINE f == [p \in B |-> <<p[1] + a, p[2]>>]
           T == {f[p] : p \in B}
<1>3. \A p \in B : /\ p[1] \in 1..b /\ p[2] \in 1..5 /\ p = <<p[1], p[2]>>
                   /\ p[2] <= w[r[p[1]]]
                   /\ f[p] = <<p[1] + a, p[2]>>
  BY <1>2 DEF Cells
<1>4. \A p \in A : p[1] \in 1..a /\ p[2] \in 1..5 /\ p = <<p[1], p[2]>> /\ p[2] <= w[q[p[1]]]
  BY <1>2 DEF Cells
<1>5. f \in Bijection(B, T)
  <2>1. f \in [B -> T]
    OBVIOUS
  <2>2. ASSUME NEW p \in B, NEW s \in B, f[p] = f[s] PROVE p = s
    <3>1. p[1] + a = s[1] + a /\ p[2] = s[2]
      BY <1>3, <2>2
    <3>2. p[1] \in 1..b /\ s[1] \in 1..b
      BY <1>3
    <3>3. p[1] = s[1]
      BY <3>1, <3>2
    <3> QED  BY <1>3, <3>1, <3>3
  <2> QED  BY <2>1, <2>2 DEF Bijection, Injection, Surjection, IsInjective
<1>6. IsFiniteSet(A) /\ IsFiniteSet(B)
  BY CellsFinite
<1>7. IsFiniteSet(T) /\ Cardinality(T) = Cardinality(B)
  BY <1>5, <1>6, FS_Bijection DEF ExistsBijection
<1>8. A \cap T = {}
  <2>1. ASSUME NEW p \in B, f[p] \in A PROVE FALSE
    <3> DEFINE x == f[p]
    <3>1. x[1] \in 1..a
      BY <1>4, <2>1
    <3>2. x[1] = p[1] + a /\ p[1] \in 1..b
      BY <1>3
    <3> HIDE DEF x
    <3> QED  BY <1>1, <3>1, <3>2
  <2> QED  BY <2>1
<1>9. Cells(c, w) = A \cup T
  <2>1. ASSUME NEW x \in Cells(c, w) PROVE x \in A \/ x \in T
    <3>1. x[1] \in 1..(a + b) /\ x[2] \in 1..5 /\ x = <<x[1], x[2]>> /\ x[2] <= w[c[x[1]]]
      BY <1>2, <2>1 DEF Cells
    <3>2. CASE x[1] <= a
      <4>1. x[1] \in 1..a /\ c[x[1]] = q[x[1]]
        BY <1>2, <3>1, <3>2
      <4>2. x \in (DOMAIN q) \X (1..5) /\ x[2] <= w[q[x[1]]]
        BY <1>2, <3>1, <4>1
      <4> QED  BY <4>2 DEF Cells
    <3>3. CASE ~(x[1] <= a)
      <4>1. x[1] - a \in 1..b /\ c[x[1]] = r[x[1] - a]
        BY <1>2, <3>1, <3>3
      <4> DEFINE p == <<x[1] - a, x[2]>>
      <4>2. p[1] = x[1] - a /\ p[2] = x[2] /\ p \in (DOMAIN r) \X (1..5)
        BY <1>2, <3>1, <4>1
      <4>3. p[2] <= w[r[p[1]]]
        BY <3>1, <4>1, <4>2
      <4>4. p \in B
        BY <4>2, <4>3 DEF Cells
      <4>5. x[1] = (x[1] - a) + a
        BY <3>1
      <4>6. f[p] = x
        BY <1>3, <3>1, <4>2, <4>4, <4>5
      <4> QED  BY <4>4, <4>6
    <3> QED  BY <3>2, <3>3
  <2>2. ASSUME NEW x \in A PROVE x \in Cells(c, w)
    <3>1. x[1] \in 1..a /\ x[2] \in 1..5 /\ x = <<x[1], x[2]>> /\ x[2] <= w[q[x[1]]]
      BY <1>4
    <3>2. x[1] \in 1..(a + b) /\ c[x[1]] = q[x[1]]
      BY <1>2, <3>1
    <3>3. x \in (DOMAIN c) \X (1..5) /\ x[2] <= w[c[x[1]]]
      BY <1>2, <3>1, <3>2
    <3> QED  BY <3>3 DEF Cells
  <2>3. ASSUME NEW p \in B PROVE f[p] \in Cells(c, w)
    <3> DEFINE x == f[p]
    <3>1. /\ p[1] \in 1..b /\ p[2] \in 1..5 /\ p[2] <= w[r[p[1]]]
          /\ x[1] = p[1] + a /\ x[2] = p[2] /\ x = <<x[1], x[2]>>
      BY <1>3
    <3> HIDE DEF x
    <3>2. c[x[1]] = r[p[1]] /\ x[1] \in 1..(a + b)
      <4>1. x[1] \in 1..(a + b) /\ ~(x[1] <= a)
        BY <1>1, <3>1
      <4>2. x[1] - a = p[1]
        BY <1>1, <3>1
      <4>3. c[x[1]] = r[x[1] - a]
        BY <1>2, <4>1
      <4> QED  BY <4>1, <4>2, <4>3
    <3>3. x \in (DOMAIN c) \X (1..5) /\ x[2] <= w[c[x[1]]]
      BY <1>2, <3>1, <3>2
    <3>4. x \in Cells(c, w)
      BY <3>3 DEF Cells
    <3> QED  BY <3>4 DEF x
  <2> QED  BY <2>1, <2>2, <2>3
<1> HIDE DEF A, B, T
<1>10. Cardinality(A \cup T) = Cardinality(A) + Cardinality(T) - Cardinality(A \cap T)
  BY <1>6, <1>7, FS_Union
<1>11. Cardinality(A \cap T) = 0 /\ Cardinality(A) \in Nat /\ Cardinality(B) \in Nat
  BY <1>6, <1>8, FS_EmptySet, FS_CardinalityType
<1>12. Cardinality(A \cup T) = Cardinality(A) + Cardinality(B)
  BY <1>7, <1>10, <1>11
<1> QED  BY <1>9, <1>12 DEF Weight, A, B, c

LEMMA WeightOne ==
    ASSUME NEW S, NEW x \in S, NEW w, w[x] \in 0..5
    PROVE  Weight(<<x>>, w) = w[x]
<1> DEFINE n == w[x]
           C == Cells(<<x>>, w)
           f == [k \in 1..n |-> <<1, k>>]
<1>1. DOMAIN <<x>> = {1} /\ <<x>>[1] = x
  OBVIOUS
<1>2. n \in 0..5
  OBVIOUS
<1>3. \A p : p \in C <=> p \in {1} \X (1..5) /\ p[2] <= n
  BY <1>1 DEF Cells
<1> HIDE DEF n, C
<1>4. f \in Bijection(1..n, C)
  <2>1. \A k \in 1..n : f[k] = <<1, k>> /\ f[k] \in C
    BY <1>2, <1>3
  <2>2. \A p \in C : p[2] \in 1..n /\ p = <<1, p[2]>>
    BY <1>2, <1>3
  <2>3. f \in [1..n -> C]
    BY <2>1
  <2>4. \A j, k \in 1..n : f[j] = f[k] => j = k
    BY <2>1
  <2>5. \A p \in C : \E k \in 1..n : f[k] = p
    BY <2>1, <2>2
  <2> HIDE DEF f
  <2> QED  BY <2>3, <2>4, <2>5 DEF Bijection, Injection, Surjection, IsInjective
<1>5. Cardinality(C) = n
  BY <1>2, <1>4, FS_CountingElements DEF ExistsBijection
<1> QED  BY <1>5 DEF Weight, C, n

LEMMA WeightAppended ==
    ASSUME NEW S, NEW q \in Seq(S), NEW x \in S, NEW w, w[x] \in 0..5
    PROVE  Weight(Append(q, x), w) = Weight(q, w) + w[x]
<1>1. <<x>> \in Seq(S)
  OBVIOUS
<1>2. Append(q, x) = q \o <<x>>
  BY AppendIsConcat
<1>3. Weight(<<x>>, w) = w[x]
  BY WeightOne
<1>4. Weight(q \o <<x>>, w) = Weight(q, w) + Weight(<<x>>, w)
  BY <1>1, WeightJoined
<1> QED  BY <1>2, <1>3, <1>4

LEMMA WeightRead ==
    ASSUME NEW S, NEW q \in Seq(S), q # << >>, NEW w, w[Head(q)] \in 0..5
    PROVE  Weight(q, w) = w[Head(q)] + Weight(Tail(q), w)
<1> DEFINE x == Head(q)
           t == Tail(q)
<1>1. x \in S /\ t \in Seq(S)
  BY HeadTailProperties
<1>2. q = <<x>> \o t
  <2>1. PICK c \in Nat : /\ DOMAIN q = 1..(c + 1) /\ DOMAIN t = 1..c
                         /\ \A i \in 1..c : t[i] = q[i + 1]
    BY TailFacts
  <2>2. x = q[1]
    BY TailFacts
  <2> HIDE DEF x, t
  <2>3. Len(q) = c + 1 /\ Len(t) = c
    BY <1>1, <2>1, LenProperties
  <2>4. <<x>> \in Seq(S) /\ Len(<<x>>) = 1 /\ <<x>>[1] = x
    BY <1>1
  <2> DEFINE r == <<x>> \o t
             u == <<x>>
  <2> HIDE DEF u
  <2>5. r \in Seq(S) /\ Len(r) = 1 + c /\ \A i \in 1..(1 + c) : r[i] = IF i <= 1 THEN u[i] ELSE t[i - 1]
    BY <1>1, <2>3, <2>4, ConcatProperties DEF u
  <2> HIDE DEF r
  <2>6. ASSUME NEW i \in 1..(c + 1) PROVE q[i] = r[i]
    <3>1. CASE i = 1
      BY <2>2, <2>4, <2>5, <3>1 DEF u
    <3>2. CASE i # 1
      <4>1. i - 1 \in 1..c /\ (i - 1) + 1 = i /\ ~(i <= 1) /\ i \in 1..(1 + c)
        BY <3>2
      <4> QED  BY <2>1, <2>5, <4>1
    <3> QED  BY <3>1, <3>2
  <2>7. q = r
    BY <2>3, <2>5, <2>6, SeqEqual
  <2> QED  BY <2>7 DEF r
<1>3. <<x>> \in Seq(S)
  BY <1>1
<1> HIDE DEF t
<1>4. Weight(<<x>>, w) = w[x]
  BY <1>1, WeightOne
<1>5. Weight(q, w) = Weight(<<x>>, w) + Weight(t, w)
  BY <1>1, <1>2, <1>3, WeightJoined
<1> QED  BY <1>4, <1>5 DEF t

\* What a message may still cause, itself included: a DO is answered, and DO EOR twice,
\* with an offer that the client answers in turn.
ServerWeight == [m \in Asking |-> IF m = <<"DO", "EOR">> THEN 5 ELSE IF m[1] = "DO" THEN 3 ELSE 1]
ClientWeight == [m \in Telling |-> IF m[1] = "mark" THEN 1 ELSE 2]

\* An offer turns a no into a yes; to go back to no a client has to ask.
Doubt == [s \in Side |-> CASE s = "no" -> 2 [] s = "wantno" -> 1 [] OTHER -> 0]

ToServerLeft == Weight(toServer, ServerWeight)
ToClientLeft == Weight(toClient, ClientWeight)
DoubtLeft == Doubt[him["ECHO"]] + Doubt[him["SGA"]]

MessagesLeft == 6 * asks + 9 * commands + 2 * prompts + ToServerLeft + ToClientLeft + DoubtLeft

LEMMA ServerWeights ==
    /\ ServerWeight[<<"DO", "EOR">>] = 5
    /\ \A o \in Option \ {"EOR"} : ServerWeight[<<"DO", o>>] = 3
    /\ \A o \in Option, v \in {"DONT", "WILL", "WONT"} : ServerWeight[<<v, o>>] = 1
    /\ \A m \in Asking : ServerWeight[m] \in 0..5
<1>1. \A v \in {"DO", "DONT", "WILL", "WONT"}, o \in Option :
        <<v, o>> \in Asking /\ <<v, o>>[1] = v /\ (<<v, o>> = <<"DO", "EOR">> <=> v = "DO" /\ o = "EOR")
  BY DEF Asking
<1>2. \A m \in Asking : ServerWeight[m] = IF m = <<"DO", "EOR">> THEN 5 ELSE IF m[1] = "DO" THEN 3 ELSE 1
  BY DEF ServerWeight
<1> QED  BY <1>1, <1>2, OptionFacts

LEMMA ClientWeights ==
    /\ \A m \in Telling : ClientWeight[m] \in 1..2
    /\ \A k, o : <<k, o>> \in Telling /\ k # "mark" => ClientWeight[<<k, o>>] = 2
    /\ \A o : <<"mark", o>> \in Telling => ClientWeight[<<"mark", o>>] = 1
BY DEF ClientWeight

LEMMA DoubtValues ==
    /\ Doubt["no"] = 2 /\ Doubt["wantno"] = 1 /\ Doubt["yes"] = 0 /\ Doubt["wantyes"] = 0
BY DEF Doubt, Side

LEMMA LeftTypes ==
    ASSUME OTypes, Bounded
    PROVE  /\ ToServerLeft \in Nat /\ ToClientLeft \in Nat /\ DoubtLeft \in Nat
           /\ asks \in Nat /\ commands \in Nat /\ prompts \in Nat
<1>1. ToServerLeft \in Nat /\ ToClientLeft \in Nat
  BY CellsFinite DEF OTypes, ToServerLeft, ToClientLeft
<1>2. \A o \in Option : Doubt[him[o]] \in 0..2
  BY DoubtValues DEF OTypes, Side
<1>3. DoubtLeft \in Nat
  BY <1>2, OptionFacts DEF DoubtLeft
<1>4. asks \in Nat /\ commands \in Nat /\ prompts \in Nat
  BY BoundAssumption DEF Bounded
<1> QED  BY <1>1, <1>3, <1>4

LEMMA ReadsLowers ==
    ASSUME OTypes, NEW v \in {"DO", "DONT", "WILL", "WONT"}, NEW o \in Option, Reads(v, o)
    PROVE  /\ ToServerLeft = ToServerLeft' + ServerWeight[<<v, o>>] /\ ToServerLeft' \in Nat
           /\ UNCHANGED <<asks, commands, prompts, DoubtLeft>>
<1>1. /\ toServer \in Seq(Asking) /\ toServer # << >> /\ Head(toServer) = <<v, o>>
      /\ toServer' = Tail(toServer) /\ UNCHANGED <<him, asks, commands, prompts>>
  BY DEF Reads, OTypes, bounds
<1>2. ServerWeight[<<v, o>>] \in 0..5
  BY ServerWeights DEF Asking
<1>3. Weight(toServer, ServerWeight) = ServerWeight[<<v, o>>] + Weight(toServer', ServerWeight)
  BY <1>1, <1>2, WeightRead
<1>4. Weight(toServer', ServerWeight) \in Nat
  <2>1. toServer' \in Seq(Asking)
    BY <1>1, HeadTailProperties
  <2> QED  BY <2>1, CellsFinite
<1> QED  BY <1>1, <1>2, <1>3, <1>4 DEF ToServerLeft, DoubtLeft

LEMMA SaysRaises ==
    ASSUME OTypes, NEW v \in {"DO", "DONT", "WILL", "WONT"}, NEW o \in Option, Says(v, o)
    PROVE  ToServerLeft' = ToServerLeft + ServerWeight[<<v, o>>]
<1>1. toServer \in Seq(Asking) /\ toServer' = Append(toServer, <<v, o>>) /\ <<v, o>> \in Asking
  BY DEF Says, OTypes, Asking
<1>2. ServerWeight[<<v, o>>] \in 0..5
  BY <1>1, ServerWeights
<1> QED  BY <1>1, <1>2, WeightAppended DEF ToServerLeft

LEMMA HearsLowers ==
    ASSUME OTypes, NEW k, NEW o, Hears(k, o)
    PROVE  /\ ToClientLeft = ToClientLeft' + ClientWeight[<<k, o>>] /\ ToClientLeft' \in Nat
           /\ <<k, o>> \in Telling
           /\ UNCHANGED <<asks, commands, prompts>>
<1>1. /\ toClient \in Seq(Telling) /\ toClient # << >> /\ Head(toClient) = <<k, o>>
      /\ toClient' = Tail(toClient) /\ UNCHANGED <<asks, commands, prompts>> /\ <<k, o>> \in Telling
  BY HearsFacts DEF Hears, OTypes, bounds
<1>2. ClientWeight[<<k, o>>] \in 1..2
  BY <1>1, ClientWeights
<1>3. Weight(toClient, ClientWeight) = ClientWeight[<<k, o>>] + Weight(toClient', ClientWeight)
  BY <1>1, <1>2, WeightRead
<1>4. Weight(toClient', ClientWeight) \in Nat
  <2>1. toClient' \in Seq(Telling)
    BY <1>1, HeadTailProperties
  <2> QED  BY <2>1, CellsFinite
<1> QED  BY <1>1, <1>2, <1>3, <1>4 DEF ToClientLeft

LEMMA SendsRaises ==
    ASSUME OTypes, NEW r \in Seq(Telling), toClient' = toClient \o r
    PROVE  ToClientLeft' = ToClientLeft + Weight(r, ClientWeight)
BY WeightJoined DEF OTypes, ToClientLeft

LEMMA TwoWeights ==
    ASSUME NEW x \in Telling, NEW y \in Telling
    PROVE  /\ <<x, y>> \in Seq(Telling)
           /\ Weight(<<x, y>>, ClientWeight) = ClientWeight[x] + ClientWeight[y]
<1>1. <<x>> \in Seq(Telling) /\ <<x, y>> \in Seq(Telling) /\ <<x, y>> = Append(<<x>>, y)
  OBVIOUS
<1>2. ClientWeight[x] \in 0..5 /\ ClientWeight[y] \in 0..5
  BY ClientWeights
<1>3. Weight(<<x>>, ClientWeight) = ClientWeight[x]
  BY <1>2, WeightOne
<1>4. Weight(Append(<<x>>, y), ClientWeight) = Weight(<<x>>, ClientWeight) + ClientWeight[y]
  BY <1>1, <1>2, WeightAppended
<1> QED  BY <1>1, <1>3, <1>4

LEMMA AnswerWeight ==
    ASSUME NEW o \in Option
    PROVE  Weight(AnswerToDo[o], ClientWeight) = IF o = "EOR" THEN 4 ELSE 2
<1>1. CASE o = "EOR"
  <2> DEFINE x == <<"WILL", "ECHO">>
             y == <<"WONT", "EOR">>
  <2>1. x \in Telling /\ y \in Telling /\ ClientWeight[x] = 2 /\ ClientWeight[y] = 2
    BY ClientWeights DEF Telling
  <2>2. AnswerToDo[o] = <<x, y>>
    BY <1>1 DEF AnswerToDo
  <2> HIDE DEF x, y
  <2> QED  BY <1>1, <2>1, <2>2, TwoWeights
<1>2. CASE o # "EOR"
  <2>1. PICK x \in Telling : AnswerToDo[o] = <<x>> /\ ClientWeight[x] = 2
    <3>1. /\ <<"WILL", "ECHO">> \in Telling /\ <<"WILL", "SGA">> \in Telling
          /\ <<"WONT", "NAWS">> \in Telling
      BY DEF Telling
    <3>2. /\ ClientWeight[<<"WILL", "ECHO">>] = 2 /\ ClientWeight[<<"WILL", "SGA">>] = 2
          /\ ClientWeight[<<"WONT", "NAWS">>] = 2
      BY <3>1, ClientWeights
    <3> QED  BY <1>2, <3>1, <3>2, OptionFacts DEF AnswerToDo
  <2>2. Weight(<<x>>, ClientWeight) = 2
    BY <2>1, WeightOne
  <2> QED  BY <1>2, <2>1, <2>2
<1> QED  BY <1>1, <1>2

LEMMA AutoSetWeight ==
    LET r == << <<"DO", "NAWS">>, <<"DO", "ECHO">>, <<"DO", "SGA">>, <<"DO", "EOR">> >>
    IN  r \in Seq(Telling) /\ Weight(r, ClientWeight) = 8
<1> DEFINE a == <<"DO", "NAWS">>
           b == <<"DO", "ECHO">>
           c == <<"DO", "SGA">>
           d == <<"DO", "EOR">>
<1>1. a \in Telling /\ b \in Telling /\ c \in Telling /\ d \in Telling
  BY OptionFacts DEF Telling
<1>2. ClientWeight[a] = 2 /\ ClientWeight[b] = 2 /\ ClientWeight[c] = 2 /\ ClientWeight[d] = 2
  BY <1>1, ClientWeights
<1> HIDE DEF a, b, c, d
<1>3. <<a, b>> \in Seq(Telling) /\ Weight(<<a, b>>, ClientWeight) = 4
  BY <1>1, <1>2, TwoWeights
<1> DEFINE q == <<a, b>>
           r == <<a, b, c>>
<1>4. r = Append(q, c) /\ r \in Seq(Telling)
  BY <1>1
<1>5. <<a, b, c, d>> = Append(r, d) /\ <<a, b, c, d>> \in Seq(Telling)
  BY <1>1
<1>6. q \in Seq(Telling) /\ Weight(q, ClientWeight) = 4
  BY <1>3
<1> HIDE DEF q, r
<1>7. ClientWeight[c] \in 0..5 /\ ClientWeight[d] \in 0..5
  BY <1>2
<1>8. Weight(Append(q, c), ClientWeight) = Weight(q, ClientWeight) + ClientWeight[c]
  BY <1>1, <1>6, <1>7, WeightAppended
<1>9. Weight(Append(r, d), ClientWeight) = Weight(r, ClientWeight) + ClientWeight[d]
  BY <1>1, <1>4, <1>7, WeightAppended
<1>10. Weight(Append(r, d), ClientWeight) = 8
  BY <1>2, <1>4, <1>6, <1>8, <1>9
<1> QED  BY <1>5, <1>10 DEF a, b, c, d

\* jcd reads: an answer weighs less than what it answers.
LEMMA ServerLowers ==
    ASSUME OTypes, Bounded, Server
    PROVE  MessagesLeft' < MessagesLeft
<1>1. PICK o \in Option : post_do(o) \/ post_dont(o) \/ post_will(o) \/ post_wont(o)
  BY DEF Server
<1>2. CASE post_do(o)
  <2>1. Reads("DO", o) /\ toClient' = toClient \o AnswerToDo[o]
    BY <1>2 DEF post_do
  <2>2. /\ ToServerLeft = ToServerLeft' + ServerWeight[<<"DO", o>>] /\ ToServerLeft' \in Nat
        /\ UNCHANGED <<asks, commands, prompts, DoubtLeft>>
    BY <2>1, ReadsLowers
  <2>3. ToClientLeft' = ToClientLeft + (IF o = "EOR" THEN 4 ELSE 2)
    BY <2>1, SendsRaises, AnswerFacts, AnswerWeight
  <2>4. ServerWeight[<<"DO", o>>] = IF o = "EOR" THEN 5 ELSE 3
    BY ServerWeights
  <2> QED  BY <2>2, <2>3, <2>4, LeftTypes DEF MessagesLeft
<1>3. CASE post_dont(o) \/ post_will(o) \/ post_wont(o)
  <2>1. PICK v \in {"DONT", "WILL", "WONT"} : Reads(v, o) /\ toClient' = toClient
    BY <1>3 DEF post_dont, post_will, post_wont
  <2>2. /\ ToServerLeft = ToServerLeft' + ServerWeight[<<v, o>>] /\ ToServerLeft' \in Nat
        /\ UNCHANGED <<asks, commands, prompts, DoubtLeft>>
    BY <2>1, ReadsLowers
  <2>3. ServerWeight[<<v, o>>] = 1 /\ ToClientLeft' = ToClientLeft
    BY <2>1, ServerWeights DEF ToClientLeft
  <2> QED  BY <2>2, <2>3, LeftTypes DEF MessagesLeft
<1> QED  BY <1>1, <1>2, <1>3

LEMMA DoubtChange ==
    ASSUME OTypes, NEW o \in Option, NEW t \in Side, him' = [him EXCEPT ![o] = t]
    PROVE  /\ DoubtLeft' \in Nat
           /\ o \in {"ECHO", "SGA"} => DoubtLeft' + Doubt[him[o]] = DoubtLeft + Doubt[t]
           /\ o \notin {"ECHO", "SGA"} => DoubtLeft' = DoubtLeft
<1>1. \A s \in Side : Doubt[s] \in 0..2
  BY DoubtValues DEF Side
<1>2. \A u \in Option : him[u] \in Side /\ him'[u] = IF u = o THEN t ELSE him[u]
  BY DEF OTypes
<1>3. \A u \in Option : Doubt[him[u]] \in 0..2 /\ Doubt[him'[u]] \in 0..2
  BY <1>1, <1>2
<1>4. DoubtLeft' = Doubt[him'["ECHO"]] + Doubt[him'["SGA"]]
  BY DEF DoubtLeft
<1> DEFINE e == Doubt[him["ECHO"]]
           g == Doubt[him["SGA"]]
           f == Doubt[him'["ECHO"]]
           h == Doubt[him'["SGA"]]
<1>5. /\ e \in 0..2 /\ g \in 0..2 /\ f \in 0..2 /\ h \in 0..2
      /\ DoubtLeft = e + g /\ DoubtLeft' = f + h
  BY <1>3, <1>4, OptionFacts DEF DoubtLeft
<1>6. /\ o = "ECHO" => f = Doubt[t] /\ h = g /\ e = Doubt[him[o]]
      /\ o = "SGA" => h = Doubt[t] /\ f = e /\ g = Doubt[him[o]]
      /\ o \notin {"ECHO", "SGA"} => f = e /\ h = g
  BY <1>2, OptionFacts
<1> HIDE DEF e, g, f, h
<1> QED  BY <1>5, <1>6

\* The client reads: what it says weighs less than what it heard and what it doubted.
LEMMA HearWillLowers ==
    ASSUME OTypes, Bounded, NEW o \in Option, HearWill(o)
    PROVE  MessagesLeft' < MessagesLeft
<1>1. Hears("WILL", o)
  BY DEF HearWill
<1>2. /\ ToClientLeft = ToClientLeft' + ClientWeight[<<"WILL", o>>] /\ ToClientLeft' \in Nat
      /\ <<"WILL", o>> \in Telling /\ UNCHANGED <<asks, commands, prompts>>
  BY <1>1, HearsLowers
<1>3. o \in {"ECHO", "SGA"} /\ ClientWeight[<<"WILL", o>>] = 2
  BY <1>2, ClientWeights DEF Telling
<1>4. him[o] \in Side /\ ServerWeight[<<"DO", o>>] = 3 /\ ServerWeight[<<"DONT", o>>] = 1
  BY <1>3, ServerWeights DEF OTypes
<1>5. CASE him[o] = "no" /\ him' = [him EXCEPT ![o] = "yes"] /\ Says("DO", o)
  <2>1. DoubtLeft' + 2 = DoubtLeft + 0 /\ DoubtLeft' \in Nat
    BY <1>3, <1>5, DoubtChange, DoubtValues DEF Side
  <2>2. ToServerLeft' = ToServerLeft + 3
    BY <1>4, <1>5, SaysRaises
  <2> QED  BY <1>2, <1>3, <2>1, <2>2, LeftTypes DEF MessagesLeft
<1>6. CASE him' = him /\ Says("DONT", o)
  <2>1. DoubtLeft' = DoubtLeft
    BY <1>6 DEF DoubtLeft
  <2>2. ToServerLeft' = ToServerLeft + 1
    BY <1>4, <1>6, SaysRaises
  <2> QED  BY <1>2, <1>3, <2>1, <2>2, LeftTypes DEF MessagesLeft
<1>7. CASE /\ him[o] # "no" /\ toServer' = toServer
           /\ him' = [him EXCEPT ![o] = IF him[o] = "wantno" THEN "no" ELSE "yes"]
  <2>1. ToServerLeft' = ToServerLeft
    BY <1>7 DEF ToServerLeft
  <2>2. CASE him[o] = "wantno"
    <3>1. DoubtLeft' + 1 = DoubtLeft + 2 /\ DoubtLeft' \in Nat
      BY <1>3, <1>7, <2>2, DoubtChange, DoubtValues DEF Side
    <3> QED  BY <1>2, <1>3, <2>1, <3>1, LeftTypes DEF MessagesLeft
  <2>3. CASE him[o] # "wantno"
    <3>1. Doubt[him[o]] = 0
      BY <1>4, <1>7, <2>3, DoubtValues DEF Side
    <3>2. DoubtLeft' + 0 = DoubtLeft + 0 /\ DoubtLeft' \in Nat
      BY <1>3, <1>7, <2>3, <3>1, DoubtChange, DoubtValues DEF Side
    <3> QED  BY <1>2, <1>3, <2>1, <3>2, LeftTypes DEF MessagesLeft
  <2> QED  BY <2>2, <2>3
<1> QED  BY <1>5, <1>6, <1>7 DEF HearWill

LEMMA HearRestLowers ==
    ASSUME OTypes, Bounded, NEW o,
           \/ o \in Option /\ (HearWont(o) \/ HearDo(o))
           \/ HearMark(o)
    PROVE  MessagesLeft' < MessagesLeft
<1>1. CASE o \in Option /\ HearWont(o)
  <2>1. /\ ToClientLeft = ToClientLeft' + ClientWeight[<<"WONT", o>>] /\ ToClientLeft' \in Nat
        /\ <<"WONT", o>> \in Telling /\ UNCHANGED <<asks, commands, prompts>>
    BY <1>1, HearsLowers DEF HearWont
  <2>2. o \notin {"ECHO", "SGA"} /\ ClientWeight[<<"WONT", o>>] = 2
    BY <2>1, ClientWeights DEF Telling
  <2>3. DoubtLeft' = DoubtLeft
    BY <1>1, <2>2, DoubtChange DEF HearWont, Side
  <2>4. ToServerLeft' = ToServerLeft + 1 \/ ToServerLeft' = ToServerLeft
    BY <1>1, SaysRaises, ServerWeights DEF HearWont, ToServerLeft
  <2> QED  BY <2>1, <2>2, <2>3, <2>4, LeftTypes DEF MessagesLeft
<1>2. CASE o \in Option /\ HearDo(o)
  <2>1. /\ ToClientLeft = ToClientLeft' + ClientWeight[<<"DO", o>>] /\ ToClientLeft' \in Nat
        /\ <<"DO", o>> \in Telling /\ UNCHANGED <<asks, commands, prompts>>
    BY <1>2, HearsLowers DEF HearDo
  <2>2. ClientWeight[<<"DO", o>>] = 2
    BY <2>1, ClientWeights
  <2>3. DoubtLeft' = DoubtLeft
    BY <1>2 DEF HearDo, DoubtLeft
  <2>4. ToServerLeft' = ToServerLeft + 1 \/ ToServerLeft' = ToServerLeft
    BY <1>2, SaysRaises, ServerWeights DEF HearDo, ToServerLeft
  <2> QED  BY <2>1, <2>2, <2>3, <2>4, LeftTypes DEF MessagesLeft
<1>3. CASE HearMark(o)
  <2>1. /\ ToClientLeft = ToClientLeft' + ClientWeight[<<"mark", o>>] /\ ToClientLeft' \in Nat
        /\ <<"mark", o>> \in Telling /\ UNCHANGED <<asks, commands, prompts>>
    BY <1>3, HearsLowers DEF HearMark
  <2>2. ClientWeight[<<"mark", o>>] = 1
    BY <2>1, ClientWeights
  <2>3. DoubtLeft' = DoubtLeft /\ ToServerLeft' = ToServerLeft
    BY <1>3 DEF HearMark, DoubtLeft, ToServerLeft
  <2> QED  BY <2>1, <2>2, <2>3, LeftTypes DEF MessagesLeft
<1> QED  BY <1>1, <1>2, <1>3

\* What is begun is paid for by the bound on it.
LEMMA AskLowers ==
    ASSUME OTypes, Bounded, NEW o \in Option, Ask(o)
    PROVE  MessagesLeft' < MessagesLeft
<1>1. /\ asks' = asks - 1 /\ UNCHANGED <<commands, prompts>> /\ ToClientLeft' = ToClientLeft
  BY DEF Ask, ToClientLeft
<1>2. him[o] \in Side /\ ServerWeight[<<"DO", o>>] \in 0..5
      /\ \A v \in {"DONT", "WILL", "WONT"} : ServerWeight[<<v, o>>] = 1
  BY ServerWeights DEF OTypes, Asking
<1>3. CASE him[o] = "no" /\ him' = [him EXCEPT ![o] = "wantyes"] /\ Says("DO", o)
  <2>1. DoubtLeft' + 2 = DoubtLeft + 0 \/ DoubtLeft' = DoubtLeft
    BY <1>3, DoubtChange, DoubtValues DEF Side
  <2>2. DoubtLeft' \in Nat
    BY <1>3, DoubtChange DEF Side
  <2>3. PICK k \in 0..5 : ToServerLeft' = ToServerLeft + k
    BY <1>2, <1>3, SaysRaises
  <2> QED  BY <1>1, <2>1, <2>2, <2>3, LeftTypes DEF MessagesLeft
<1>4. CASE him[o] = "yes" /\ him' = [him EXCEPT ![o] = "wantno"] /\ Says("DONT", o)
  <2>1. DoubtLeft' + 0 = DoubtLeft + 1 \/ DoubtLeft' = DoubtLeft
    BY <1>4, DoubtChange, DoubtValues DEF Side
  <2>2. DoubtLeft' \in Nat
    BY <1>4, DoubtChange DEF Side
  <2>3. ToServerLeft' = ToServerLeft + 1
    BY <1>2, <1>4, SaysRaises
  <2> QED  BY <1>1, <2>1, <2>2, <2>3, LeftTypes DEF MessagesLeft
<1>5. CASE him' = him /\ (Says("WILL", o) \/ Says("WONT", o))
  <2>1. DoubtLeft' = DoubtLeft
    BY <1>5 DEF DoubtLeft
  <2>2. ToServerLeft' = ToServerLeft + 1
    BY <1>2, <1>5, SaysRaises
  <2> QED  BY <1>1, <2>1, <2>2, LeftTypes DEF MessagesLeft
<1> QED  BY <1>3, <1>4, <1>5 DEF Ask

LEMMA CommandsLower ==
    ASSUME OTypes, Bounded, auto_set \/ toggle \/ prompt
    PROVE  MessagesLeft' < MessagesLeft
<1>1. toServer' = toServer /\ him' = him /\ asks' = asks
  BY DEF auto_set, toggle, prompt, Sends
<1>2. ToServerLeft' = ToServerLeft /\ DoubtLeft' = DoubtLeft
  BY <1>1 DEF ToServerLeft, DoubtLeft
<1>3. CASE auto_set
  <2>1. ToClientLeft' = ToClientLeft + 8
    BY <1>3, AutoSetWeight, SendsRaises DEF auto_set, Sends
  <2>2. commands' = commands - 1 /\ prompts' = prompts
    BY <1>3 DEF auto_set
  <2> QED  BY <1>1, <1>2, <2>1, <2>2, LeftTypes DEF MessagesLeft
<1>4. toClient \o << >> = toClient
  BY ConcatEmptySeq DEF OTypes
<1>5. CASE toggle
  <2>1. ToClientLeft' = ToClientLeft
    BY <1>4, <1>5 DEF toggle, Sends, ToClientLeft
  <2>2. commands' = commands - 1 /\ prompts' = prompts
    BY <1>5 DEF toggle
  <2> QED  BY <1>1, <1>2, <2>1, <2>2, LeftTypes DEF MessagesLeft
<1>6. CASE prompt
  <2>1. PICK r : /\ toClient' = toClient \o r
                 /\ r = << >> \/ \E m \in {"EOR", "GA"} : r = << <<"mark", m>> >>
    BY <1>6 DEF prompt, Sends
  <2>2. ToClientLeft' = ToClientLeft \/ ToClientLeft' = ToClientLeft + 1
    <3>1. CASE r = << >>
      BY <1>4, <2>1, <3>1 DEF ToClientLeft
    <3>2. ASSUME NEW m \in {"EOR", "GA"}, r = << <<"mark", m>> >>
          PROVE  ToClientLeft' = ToClientLeft + 1
      <4> DEFINE x == <<"mark", m>>
      <4>1. x \in Telling /\ ClientWeight[x] = 1
        BY ClientWeights DEF Telling
      <4> HIDE DEF x
      <4>2. <<x>> \in Seq(Telling) /\ Weight(<<x>>, ClientWeight) = 1
        BY <4>1, WeightOne
      <4>3. r = <<x>>
        BY <3>2 DEF x
      <4> QED  BY <2>1, <4>2, <4>3, SendsRaises
    <3> QED  BY <2>1, <3>1, <3>2
  <2>3. prompts' = prompts - 1 /\ commands' = commands
    BY <1>6 DEF prompt
  <2> QED  BY <1>1, <1>2, <2>2, <2>3, LeftTypes DEF MessagesLeft
<1> QED  BY <1>3, <1>5, <1>6

\* Every step lowers MessagesLeft, which is a natural number: whatever the client asks,
\* accepts and refuses, and although jcd answers answers, no more messages are exchanged
\* than MessagesLeft counts at the start (src/handle.c:374, src/modules/stat.c:193).
THEOREM OptionsShrink == OSpec => [][MessagesLeft' < MessagesLeft /\ MessagesLeft' \in Nat]_ovars
<1>1. ASSUME OInv, Bounded, ONext
      PROVE  MessagesLeft' < MessagesLeft
  <2>1. OTypes
    BY <1>1 DEF OInv
  <2>2. CASE Server
    BY <1>1, <2>1, <2>2, ServerLowers
  <2>3. CASE Client
    BY <1>1, <2>1, <2>3, HearWillLowers, HearRestLowers DEF Client
  <2>4. CASE auto_set \/ toggle \/ prompt
    BY <1>1, <2>1, <2>4, CommandsLower
  <2>5. CASE \E o \in Option : Ask(o)
    BY <1>1, <2>1, <2>5, AskLowers
  <2> QED  BY <1>1, <2>2, <2>3, <2>4, <2>5 DEF ONext
<1>2. OInv /\ Bounded => MessagesLeft \in Nat
  BY LeftTypes DEF OInv, MessagesLeft
<1>3. ASSUME OInv, Bounded, (MessagesLeft \in Nat)', [ONext]_ovars
      PROVE  [MessagesLeft' < MessagesLeft /\ MessagesLeft' \in Nat]_ovars
  BY <1>1, <1>3
<1> QED  BY <1>2, <1>3, OptionsInvariant, PTL DEF OSpec
=============================================================================
