--------------------------- MODULE TelnetOptions ---------------------------
(***************************************************************************)
(* The options jcd and a telnet client negotiate: the readers of DO, DONT, *)
(* WILL and WONT (src/handle.c), what player_connect and terminal auto-set *)
(* ask for, and the marks behind a prompt (src/output.c) that depend on    *)
(* them.  TelnetInput reads the bytes; here a command is one message, and  *)
(* the two directions of the connection are sequences of them.             *)
(*                                                                         *)
(* The client is the environment.  It keeps to the rule that only a change *)
(* is announced, and an announcement answered once; it asks for what it    *)
(* likes, accepts or refuses what it likes.                                *)
(***************************************************************************)
EXTENDS Integers, Sequences

CONSTANTS
    MaxAsks,        \* bounds what the client asks for on its own
    MaxCommands,    \* bounds terminal auto-set and terminal toggle
    MaxPrompts      \* bounds the prompts sent

ASSUME BoundAssumption == MaxAsks \in Nat /\ MaxCommands \in Nat /\ MaxPrompts \in Nat

\* "NAWS" stands for the options whose DO and WILL jcd has no case for, but for number 0,
\* which ends the text that refuses it.
Option == {"ECHO", "SGA", "EOR", "NAWS"}

VARIABLES
    opts,           \* p->opts: TEL_ECHO, TEL_GA, TEL_EOR
    toServer, toClient,
    him,            \* for each option, the client's view of jcd's side
    us,             \* for each option, the client's own side
    asks, commands, prompts,  \* what is left of the bounds
    disturbed       \* history: what else changed opts: WONT ECHO, a WILL SGA
                    \* after the last DO SGA, toggle

bounds == <<asks, commands, prompts>>
ovars == <<opts, toServer, toClient, him, us, bounds, disturbed>>

Quiet == toServer = << >> /\ toClient = << >>

-----------------------------------------------------------------------------
(* jcd.                                                                    *)

\* Mutant: the default case of DO answers nothing.
AnswerToDoSilent == [ECHO |-> << <<"WILL", "ECHO">> >>, SGA |-> << <<"WILL", "SGA">> >>,
                     EOR |-> << <<"WILL", "ECHO">> >>, NAWS |-> << >>]

\* DO EOR falls through to the default case.
AnswerToDo == [ECHO |-> << <<"WILL", "ECHO">> >>, SGA |-> << <<"WILL", "SGA">> >>,
               EOR |-> << <<"WILL", "ECHO">>, <<"WONT", "EOR">> >>,
               NAWS |-> << <<"WONT", "NAWS">> >>]

\* Mutant: what has no case sets a flag of its number.
AfterDoAny(o) == CASE o = "SGA" -> opts \ {"GA"} [] OTHER -> opts \cup {o}

\* Mutant: a promise to suppress go-aheads, and no more.
AfterDoKeeping(o) == opts \cup ({"ECHO", "EOR"} \cap {o})

AfterDo(o) == CASE o = "ECHO" -> opts \cup {"ECHO"}
                [] o = "SGA" -> opts \ {"GA"}
                [] o = "EOR" -> opts \cup {"EOR"}
                [] OTHER -> opts

\* Of DONT and WONT alike.
AfterDont(o) == CASE o = "SGA" -> opts \ {"GA"}
                  [] o \in {"ECHO", "EOR"} -> opts \ {o}
                  [] OTHER -> opts

Reads(verb, o) ==
    /\ toServer # << >> /\ Head(toServer) = <<verb, o>>
    /\ toServer' = Tail(toServer)
    /\ UNCHANGED <<him, us, bounds>>

post_do(o) ==
    /\ Reads("DO", o)
    /\ opts' = AfterDo(o) /\ toClient' = toClient \o AnswerToDo[o]
    /\ disturbed' = disturbed \ ({"SGA"} \cap {o})

\* Mutant: DONT ECHO is handled like DO ECHO.
post_dont_do(o) ==
    /\ Reads("DONT", o)
    /\ opts' = AfterDo(o) /\ toClient' = toClient \o AnswerToDo[o]
    /\ UNCHANGED disturbed

\* Mutant: DONT ECHO is only logged.
post_dont_log(o) == Reads("DONT", o) /\ UNCHANGED <<opts, toClient, disturbed>>

\* Nothing is answered.
post_dont(o) ==
    /\ Reads("DONT", o)
    /\ opts' = AfterDont(o)
    /\ UNCHANGED <<toClient, disturbed>>

\* WILL SGA: jcd sends marks now, and like the options without a case a subnegotiation that
\* tell_player cuts at the first 0 in it.  Assumed of the client: it takes the next IAC for the
\* end of that one, as the BSD clients do.  One that waits for SE may lose what comes behind.
post_will(o) ==
    /\ Reads("WILL", o)
    /\ \/ /\ o = "SGA"
          /\ opts' = (opts \ {"EOR"}) \cup {"GA"}
          /\ disturbed' = disturbed \cup {"SGA"}
       \/ o # "SGA" /\ UNCHANGED <<opts, disturbed>>
    /\ UNCHANGED toClient

\* That the client does not echo is taken to mean that jcd need not.
post_wont(o) ==
    /\ Reads("WONT", o)
    /\ opts' = AfterDont(o)
    /\ disturbed' = disturbed \cup ({"ECHO"} \cap {o})
    /\ UNCHANGED toClient

Sends(messages) ==
    /\ toClient' = toClient \o messages
    /\ UNCHANGED <<toServer, him, us>>

\* And DO TTYPE with its subnegotiation, of which jcd keeps but the text it prints.
auto_set ==
    /\ commands > 0 /\ commands' = commands - 1
    /\ Sends(<< <<"DO", "NAWS">>, <<"DO", "ECHO">>, <<"DO", "SGA">>, <<"DO", "EOR">> >>)
    /\ UNCHANGED <<opts, asks, prompts, disturbed>>

toggle ==
    /\ commands > 0 /\ commands' = commands - 1
    /\ \E f \in {"ECHO", "GA", "EOR"} :
         /\ opts' = (opts \ {f}) \cup ({f} \ opts)
    /\ disturbed' = disturbed \cup {"toggle"}
    /\ Sends(<< >>)
    /\ UNCHANGED <<asks, prompts>>

\* What stands behind a prompt.
prompt ==
    /\ prompts > 0 /\ prompts' = prompts - 1
    /\ Sends(CASE "EOR" \in opts -> << <<"mark", "EOR">> >>
               [] "EOR" \notin opts /\ "GA" \in opts -> << <<"mark", "GA">> >>
               [] OTHER -> << >>)
    /\ UNCHANGED <<opts, asks, commands, disturbed>>

-----------------------------------------------------------------------------
(* The client.  A side of an option is "no", "yes", or has been asked for  *)
(* ("wantyes", "wantno") and not been answered.                            *)

Hears(kind, what) ==
    /\ toClient # << >> /\ Head(toClient) = <<kind, what>>
    /\ toClient' = Tail(toClient)
    /\ UNCHANGED <<opts, bounds, disturbed>>

Says(verb, o) == toServer' = Append(toServer, <<verb, o>>)

\* jcd offers.
HearWill(o) ==
    /\ Hears("WILL", o)
    /\ \/ him[o] = "no" /\ him' = [him EXCEPT ![o] = "yes"] /\ Says("DO", o)
       \/ him[o] = "no" /\ Says("DONT", o) /\ UNCHANGED him
       \/ /\ him[o] # "no"
          /\ him' = [him EXCEPT ![o] = IF @ = "wantno" THEN "no" ELSE "yes"]
          /\ UNCHANGED toServer
    /\ UNCHANGED us

HearWont(o) ==
    /\ Hears("WONT", o)
    /\ him' = [him EXCEPT ![o] = "no"]
    /\ IF him[o] = "yes" THEN Says("DONT", o) ELSE UNCHANGED toServer
    /\ UNCHANGED us

\* jcd asks.
HearDo(o) ==
    /\ Hears("DO", o)
    /\ \/ us[o] = "no" /\ us' = [us EXCEPT ![o] = "yes"] /\ Says("WILL", o)
       \/ us[o] = "no" /\ Says("WONT", o) /\ UNCHANGED us
       \/ /\ us[o] # "no"
          /\ us' = [us EXCEPT ![o] = IF @ = "wantno" THEN "no" ELSE "yes"]
          /\ UNCHANGED toServer
    /\ UNCHANGED him

HearMark(m) ==
    /\ Hears("mark", m)
    /\ UNCHANGED <<toServer, him, us>>

\* The client asks on its own.
Ask(o) ==
    /\ asks > 0 /\ asks' = asks - 1
    /\ \/ him[o] = "no" /\ him' = [him EXCEPT ![o] = "wantyes"] /\ Says("DO", o) /\ UNCHANGED us
       \/ him[o] = "yes" /\ him' = [him EXCEPT ![o] = "wantno"] /\ Says("DONT", o) /\ UNCHANGED us
       \/ us[o] = "no" /\ us' = [us EXCEPT ![o] = "wantyes"] /\ Says("WILL", o) /\ UNCHANGED him
       \/ us[o] = "yes" /\ us' = [us EXCEPT ![o] = "wantno"] /\ Says("WONT", o) /\ UNCHANGED him
    /\ UNCHANGED <<opts, toClient, commands, prompts, disturbed>>

-----------------------------------------------------------------------------

\* player_connect, after player_init.
OInit ==
    /\ opts = {"GA", "EOR"}
    /\ toServer = << >> /\ toClient = << <<"DO", "NAWS">> >>
    /\ him = [o \in Option |-> "no"] /\ us = [o \in Option |-> "no"]
    /\ asks = MaxAsks /\ commands = MaxCommands /\ prompts = MaxPrompts
    /\ disturbed = {}

Server == \E o \in Option : post_do(o) \/ post_dont(o) \/ post_will(o) \/ post_wont(o)

Client ==
    \/ \E o \in Option : HearWill(o) \/ HearWont(o) \/ HearDo(o)
    \/ \E m \in {"EOR", "GA"} : HearMark(m)

ONext ==
    \/ Server \/ Client
    \/ auto_set \/ toggle \/ prompt
    \/ \E o \in Option : Ask(o)

\* What has arrived is read: the socket is ready until it is.
OSpec == OInit /\ [][ONext]_ovars /\ WF_ovars(Server) /\ WF_ovars(Client)

-----------------------------------------------------------------------------
(* Properties.                                                             *)

\* TEL_NAWS apart, opts has the three flags; the channels carry what the readers read.
OTypeOK ==
    /\ opts \subseteq {"ECHO", "GA", "EOR"}
    /\ toServer \in Seq({"DO", "DONT", "WILL", "WONT"} \X Option)
    /\ him \in [Option -> {"no", "yes", "wantyes", "wantno"}]
    /\ us \in [Option -> {"no", "yes", "wantyes", "wantno"}]
    /\ asks \in 0..MaxAsks /\ commands \in 0..MaxCommands /\ prompts \in 0..MaxPrompts
    /\ disturbed \subseteq {"ECHO", "SGA", "toggle"}

\* Once all is read no DO is without an answer, and jcd echoes if and only if the client
\* relies on it: also when a DO EOR has offered it behind the client's back while a DO or
\* DONT ECHO was on its way (src/handle.c:384), and unless the client has refused to echo
\* itself or the player has toggled it.
EchoAgreed ==
    Quiet =>
        /\ \A o \in Option : him[o] # "wantyes"
        /\ disturbed \cap {"ECHO", "toggle"} = {} => ("ECHO" \in opts <=> him["ECHO"] = "yes")

\* A client that jcd has promised to suppress go-aheads gets none, whatever was on the
\* way, unless it said WILL SGA since or the player toggled them (src/handle.c:379).
NoGoAhead == [][HearMark("GA") /\ disturbed \cap {"SGA", "toggle"} = {} => him["SGA"] # "yes"]_ovars

\* Negotiation comes to an end, although jcd answers every DO, also those that only
\* acknowledge what it said before (src/handle.c:374).
Settles == <>[]Quiet
=============================================================================
