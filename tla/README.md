# A verification project for the Jade Coiled Dragon (jcd)

jcd is a chat server ("talker") in C. One process accepts telnet connections on
two ports, asks each for a name, and then runs one-line commands that print to
the player or to everybody. This directory holds TLA+ models of the parts of it
that decide something, the TLC runs that check them on small instances, and
proofs, checked by TLAPS, of what the runs suggest.

Paths below are relative to the repository: `src/core.c` is the main loop, and so
on. Line numbers are in `PROJECT.json`, under `map`.

## The system

jcd is single-threaded. `idle_loop` calls `jcd_core_loop` for ever; each turn
sweeps the players (removing the lost ones, flushing output), waits in `select`
for a second at most, then reads one packet of each ready player and accepts one
connection on each ready interface. The only concurrency is a signal handler:
`setitimer` raises SIGALRM five times a second, and `signal_ALRM` runs
`timer_click`, nested inside whatever statement the main program was at, to its
end. `src/thread.c` is compiled in and never used.

| component | state | operations | talks to |
|---|---|---|---|
| linked lists (`list.c`) | `head`, `nodes`, nodes with `next`, `prev`, `data` | `list_add`, `list_remove`, `find_node_by_data` | everything below keeps its objects in one: `l_player`, `l_request`, `l_interface`, `l_dfile`, `l_stream` |
| main loop (`core.c`) | the loop pointers | `jcd_core_loop` | players, interfaces, input, output |
| players (`player.c`) | `mode`, `func`, `name`, `lower_name`, `handle` | `player_connect`, `player_disconnect`, `player_logout` | lists, requests (bans), output |
| login dialogue (`login.c`) | `p->func` | `get_login`, `get_handle` | players, requests, the files of `lib/players` |
| login requests (`request.c`) | `l_request`, `timeout`, `flags` | queued by `get_handle`, dropped by `timer_click`, one ban by `main` | timer, login |
| timer (`signals.c`) | `timer`, `uptime`, `mark` | `signal_ALRM`, `timer_click` | players (`auto_term`), requests |
| terminal (`modules/stat.c`) | `auto_term`, `AUTO_TERM`, `WW`, `CWW`, screen size | `term_set` | timer, telnet input |
| player records (`entity.c`, `split.c`) | a file per player | `load_player`, `save_player` | login, save |
| telnet input (`handle.c`) | `handle.state`, `ibuffer`, `PREV_R`, `PREV_N` | `SOCK_Handle_Input` and a reader per state | `p->func` or `run_command` |
| telnet options (`handle.c`, `output.c`) | `opts` | the readers of DO, DONT, WILL, WONT; `player_connect` and `auto-set` ask | the client |
| output buffer (`output.c`, `buffer.c`, `socket.c`) | `buffer.out`, `buffer.pos` | `tell_player`, `buffer_add`, `buffer_send`, `sock_write` | called by everything, the timer included |
| formatting (`pseudo-stream.c`) | none between calls | `format_output` | called by `tell_player` |
| commands (`parse.c`, `modules/*.c`) | `comm_hash` | `run_command` and the commands | everything |
| module loader (`elf.c`) | `mod_list`, `comm_hash` | `mod_load`, `mod_unload`, `mod_comm_register` | commands |
| dynamic files (`dfile.c`) | `l_dfile` | `dfile_create`, `dfile_data`, `dfile load/unload/reload` | login (its messages) |
| system log (`syslog.c`) | the last message, `repeated` | `vmlog` | called by everything, the timer included |
| shutdown (`socket.c`, `signals.c`) | | `shutdown_server`, `signal_EXIT` | frees players and interfaces |

The behaviours that are hard here: the timer frees requests while the main
program walks or extends their list; structures come from `malloc` with most of
their fields unset (`memset(i, 0, sizeof(i))` clears a pointer's worth); a packet
goes on being handled after a line of it has lost the player; a connection is
counted in one place and uncounted in another, whatever happens in between; and
names are compared in four ways (as typed, in lower case, cut at 19 letters, by
file name). `PROJECT.json` lists these under `hazards`, each at its line, with the
properties that would catch it.

What makes each component correct:

* lists: the pointers always describe one sequence, in the order of addition;
  nothing is leaked or reached after it was freed; every walk ends.
* main loop and players: loop pointers survive removals; a counter tells the
  players there are; limits and bans hold; no unset function pointer is called;
  whoever is lost is removed.
* login: a name is in use once; a name is queued once; leaving is final.
* timer: a click comes at a known rate; what is timed ends, and in time.
* records and the terminal: what was saved comes back, the screen keeps a width that
  can be wrapped to, nobody is without a prompt.
* telnet input: a line is handled once and is what was typed.
* telnet options: negotiation ends, and both sides then agree on what holds.
* output buffer: no copy leaves it; bytes reach the client in order and once.
* formatting: wrapped lines fit the screen, and the loop ends.
* module loader and commands: the table holds the commands of the modules loaded; a walk
  along it survives the command it runs; the newest command of a name is run.
* dynamic files: a text has one owner; the program's own messages stay; a reload reaches
  every file.
* system log: every message is accounted for, a repetition is of the line above it.

## The modules

### AbstractList, JcdList: the list

`AbstractList` says what callers rely on: a sequence, one call at a time, an
addition at the end, a removal of exactly the datum asked for. `JcdList` is
`list.c` statement by statement: one action for each read or write of a pointer
another node, or the signal handler, could see. `Cell` is the memory `malloc`
hands out; `Init` leaves it full of arbitrary pointers, since `MALLOC` clears
nothing, and a cell given back and handed out again keeps what it held. `pc`
names the next statement: `first`, `walk`, `clear`, `back` are `list_add`'s,
`find` is `find_node_by_data`'s loop, `behead`, `seek`, `bypass`, `unlink`, `free`
are `list_remove`'s. `order`, the cells in the order of linking, is a history
variable; the refinement needs it, since mid-call the pointers alone do not say
what the list is.

Left out: the byte counts, `file`, `line`, `parent`, which nothing reads back.
Assumed of the callers: they add structures they have just allocated, so a datum
is linked once. All five callers do.

### Sessions, JcdCore: who is on the program

`Sessions` says what a connection goes through: it arrives if there is a seat, or
is turned away; a visitor joins under a name no member has; whoever is leaving
only leaves, and does. `JcdCore` is the program: `jcd_core_loop` as three phases
(`sweep`, `input`, `accept`), each action one turn of a loop; a packet as 1 to
`MaxBatch` lines or interrupts, each run through `get_login`, `get_handle` or
`run_command` as `func` says; `player_connect` with its limit, its ban and an
`accept` that may fail; and `timer_click`, which may come between any two steps.

* `l_player` is a sequence, justified by `ImplementsAbstractList`. `l_request` is a
  set of slots: no decision depends on its order.
* `func` is `garbage` until `player_connect` sets it, because `player_init` does not.
* `connections` starts at any integer, because `interface_init` does not set it.
* A name is a model of what the program tells apart: its lower case
  (`LowerCase`), what `strncpy(lower_name, name, 19)` keeps of it (`Stored`, several
  outcomes when no terminator is written), whether `bad_name` passes it
  (`Name`, or else `Faulty`), and the words with a meaning. `lower_case` itself
  reads and increments one pointer in one expression; the models take the order in
  which it works, which is that of the Makefile's compiler and the only one in which
  `mod_load`, which uses it too, gets the program past start-up.
* `files` is `lib/players`: for each file name, the name in the record, or `Nameless`, or no
  file. A record is written under `lower_name`, which is the record's own spelling. `fopen`
  empties the file, and on a full disk nothing follows; as a record is smaller than a block of
  the disk, all of it is written or none. Whoever's record tells no name is in under the
  empty one (`EnterAs`), as often as he likes, and what he saves goes nowhere.
* Which sockets are ready is decided when a loop comes to them, which allows
  every set `select` could have returned.

Left out: `REQ_APPROVED`, `REQ_PREAPPROVED`, `REQ_NOTIFY` (no code sets them; the
branches are dead), output (`OutputBuffer`), privileges and settings (`CommandTable`,
`PlayerRecord`). What the dialogue does beyond its promises: a queued name can be used in
another case, since `get_handle` looks for a record under the name as typed; and after a
bad handle the login prompt is shown while `get_handle` stays in charge.

### Timer: the clocks

`signal_ALRM` with its divider, `timer_click`, and the three clocks on it:
`uptime`, the time limit of `terminal auto-set`, and the timeout of a request. One
player and one request stand for all, since `timer_click` treats each alone.
`alarms`, `wait` and `age` are history variables that measure in alarms what the
code measures in clicks. `save` and a new login are there because the flag
`AUTO_TERM` is saved and the counter is not. A click is `CLICK_RATE + 1` alarms (`Period`), as
`signal_ALRM` resets `timer` on the alarm that finds it 0. `RequestClock` and `UptimeCountsPeriods`
are about what the program does; `HoldingDays` and `HeldTwoDays` are about seconds, `CLICK_RATE`
alarms each, and what the player is told: a request is not dropped before two days have passed, which
holds, nor held longer, which does not.

### TelnetInput: bytes to lines

`SOCK_Handle_Input` with a reader per state. One turn of its loop is one action;
the client's bytes arrive one at a time, between any two turns, so a packet may
break off anywhere. The client is the environment: it sends whole tokens (a
character, a line end, a command behind IAC, an option, a subnegotiation), and
ends all its lines in one way, or in any (`mixed`). `do`, `dont`, `will` and `wont`
read one byte alike and are one action. What is in `ibuffer` is known by its
origin: typed, from a subnegotiation, or `old`, since a structure is reused with
the last player's text in it. `owed` counts the lines the client has ended and
jcd has not handled; `torn` remembers that a subnegotiation came in pieces, after
which its bytes are read as text.

Left out: options, echo and answers (`TelnetOptions`), the screen size (`PlayerRecord`);
command bytes that come without IAC, and bytes of a subnegotiation that happen to
be a control character. Assumed: the memory a structure is put in was a structure before, or is
new, so that behind the old text there are zeros. A character is put where the first zero is,
with no zero behind it; in memory that was something else's it could come to stand before more
of the old text. The first line, which `OnlyTyped` excepts anyway, or the first EL clears that.
At 512 characters `ibuffer` has no terminator and the next erasure may hit the memory behind it, which `Erase` allows for. Erasing from an empty
line clears the byte in front of `ibuffer`, the top one of `privs`, which no level uses.

### RequestRace: the timer inside get_handle

`JcdList`'s `list_add` for the request list, with `timer_click`'s removals possible
between any two of its statements; the handler is one action, as it runs to its
end. Freed memory keeps its contents until it is handed out again, which is the
mildest of the outcomes. Alarms that find a half-initialised node reachable are
left out.

### TelnetOptions: what both ends agree on

jcd and a telnet client with a FIFO channel each way. A step of jcd's takes one message and
answers it, as `SOCK_read_post_do` and its neighbours do; `player_connect`'s request, DO
NAWS, is in the channel at `Init`; `terminal auto-set`, `terminal toggle` and a prompt come at any time.
The client is the environment: it keeps a state for each option of either side (no, yes,
asked, withdrawn), asks for anything it does not have, accepts or refuses what is asked of
it, and never answers an answer. Of texts only the marks behind a prompt are kept.

Things the module keeps as they are: DO EOR falls through to `WILL ECHO`, `WONT EOR`
although `TEL_EOR` is set; DONT and the client's WILL are never answered, and its WILL SGA
makes jcd send marks; `TEL_GA` and `TEL_EOR` are on before anything was negotiated; a
refusal of option 0 would be cut short. `NAWS` stands for every
option without a case.

Left out: `auto-set`'s DO TTYPE and the subnegotiation behind it (the type is a text jcd
prints). Assumed of the client: WILL SGA and WILL NEW_ENVIRON are answered with a
subnegotiation that `tell_player` cuts at the first 0 in it, so that it has no end; the client
takes the next IAC for one, as the BSD clients do. One that waits for an SE may lose texts and
answers behind it, and then `EchoAgreed`, `NoGoAhead` and `Settles` say nothing of it.

### FormatOutput: the word wrap

`format_output`, one turn of its loop an action. The text is not kept: the kind of the
character under `t` is chosen when `t` comes to it. `count` and `prompt` are the
program's, `col` is the column a terminal would be at. Assumed: colours and the other
sequences in a text are whole, and the text has room to grow (`tell_player` gives it
1024 bytes and cuts at 1022). `MCText` has this module and `Syslog` in one run, one after
the other: they share nothing but TLC.

### PlayerRecord: settings, and the file they are kept in

`load_player`, `save_player`, `get_line`, `split`, the `terminal` commands, the screen
size a client sends, and the prompt that `run_command` puts aside. What is typed at the login
is put in lower case (`LowerCase`) and names the file that is read (`Read`); what `save` writes goes to
the file of `lower_name`, which is the name as the record spells it. Four fields of ten
stand for all: one number, the name, and two texts, one of which WRAP_PROMPT puts aside.
The password, which nothing sets, is saved as the memory was; it is taken to be no longer than a
field may be, and without a BEL or a line end.
A record is a sequence of lines; a line has a key, a type, its data and a form (whole,
too long, with an empty field, with a BEL in it); `Fields`, `Accepted` and `Data` say what
`split` and `get_line` make of one, `Assigned` what a whole record makes of a setting. `Capacity` is how many lines the 1023 bytes hold that are read; as `save`
writes nine lines of at most `MAX_LINE` (80) characters (a text came out of such a line, and
the key before it is padded), what it wrote is read whole, and with four fields that is
`Capacity >= 4`. Handmade records take any form and number of lines, since no command makes
a new one. The
disk may be full or the file not open: `save` then leaves an empty or a shorter record,
and says `Wrote ... bytes` all the same.

### OutputBuffer: between tell_player and the socket

`buffer_add`, `buffer_send` and `sock_write` cut where the build reads or writes `pos` or
calls `write`, with the timer's own `tell_player`, a handler that runs to its end, between
any two of them. A byte of `out` is the number it was told as. `write` takes any number of
bytes, or none, or fails; `sock_write` goes on after a full block only, and may end even then,
as it looks at an `errno` that `select` often leaves at EINTR. A connection ends and another
begins, in the same memory with `pos` as it was, or in memory that was something else's
(`fresh`) with `pos` anything. Left out: the traffic counters, to which a -1 is added when a
text did not fit.

### CommandTable: modules, commands, and the walk between them

`mod_load`, `mod_unload`, `mod_comm_register` and `run_command`. A command's entry is a
cell of memory; a chain of the hash is a sequence of them. `run_command` is cut into
steps, since the command it calls may be `insmod` or `rmmod` and change the chain it
stands on: `run_command` picks the chain, `Pass` looks at one entry (`walk`), `NotFound`, or
one of `Call`, `insmod` and `rmmod` (`call`), and `After` (`next`) is what it reads after the
command has returned. A module that cannot be loaded writes through a name nobody set: it crashes
the program (`crashed`) or does nothing, then unloads the module called `bad`, of which
there is none. That its four bytes fall on memory in use, and change something there, is left out:
nothing could then be said. `comm_hash_num` is any function from words to buckets. After a crash the
program is started again (`Restart`): the table is the built-in one, and `main` loads its
modules one by one (`startup`).

### Dfile: texts in memory

`dfile_create`, `load_dfile`, `dfile_data`, and `dfile load`, `unload`, `reload`.
Files come, change and go on disk between any two files of a reload; `open` may fail, `read`
may come short or fail. A failed `read` is -1, which is no less than an unsigned size:
it counts as a success with an empty text. `disk[f]` stands for a system
file's path and for that of a file players load under the same name; as either may change at
any time, no behaviour is lost. `reload` goes on from an entry it has freed; what it reads
from there is taken to be intact. A missing message prints nothing.

### Syslog: the last message repeated

`write_log` statement by statement (`compare`, `open`, `clear`, `write`), with the timer's own
messages between. A message is a text up to the case of its letters, which is how the code
compares them. The file may not open, or not be written when the disk is full (`Unwritten`).
`tail`, `of`, `filed` and `told` are history variables: what is in
the file and what was logged.

### RequestRace and proof modules

`RequestRace` is described above. `ListLemmas` has the lemmas about sequences that several
proofs need: removal from and addition to those without repetition, reversal and
concatenation, the first member with a property, and how many entries have a name.
`JcdList_proofs`, `JcdCore_proofs` and `PlayerRecord_proofs` prove about the
module they are named for. The others extend a second component too: `Timer_proofs`
also proves about `Syslog`, `OutputBuffer_proofs` about `FormatOutput`, `Commands_proofs`
about `CommandTable` and `Dfile`, `Telnet_proofs` about `TelnetInput` and `TelnetOptions`.
Since two modules can be extended together only if they share no name, the second one's
specification has a letter before its names: `LSpec` and `lvars` for the log, `FSpec` for
`format_output`, `DSpec` for the files, `OSpec` for the options, and so on.

## The runs

| run | instance | what it shows |
|---|---|---|
| `list` | 3 cells, 3 data, stale memory pointing anywhere | chain both ways, nothing leaked, nothing dangling, the abstract list, and every call returns |
| `core` | 2 players; 2 interfaces with counters off by 0 and -1, limit 0; 7 names (plain, in mixed case, banned, `admin`, three words with a meaning) and a line that is none; 2 requests with a timeout of 1 click; packets of 2 lines | one member a name, no name queued twice, the banned stay out; counters, loop pointers, no unset handler; sessions as promised, the limit and that the lost leave included |
| `timer` | `CLICK_RATE` 5 as in the code; timeout 3, `uptime` modulo 4 | how long a detection runs; no request is purged before its two days, and every one is |
| `telnet` | an `ibuffer` of 2, 5 bytes in the socket, every style of line end | a line is handled once and is what was typed; commands cut anywhere are taken up; packets end |
| `options` | 4 options; the client asks for 2 things on its own; 1 `terminal` command, 2 prompts | both sides agree on echo and go-aheads, every DO is answered, negotiation ends |
| `output` | a buffer of 6, blocks of 3, texts of 1 and 2, 6 bytes told, one alarm that tells 2 | no copy leaves the buffer; in order, once, delivered |
| `record` | 2 file names, one in lower case and one with a capital, either typed; 3 handmade records (good, damaged, too long), widths 9 and 255 | what was saved comes back; widths in range; nobody without a prompt |
| `table` | 6 entries, 2 buckets, 3 modules of which one has no file, 8 words | the chains are those of the modules loaded; the walk stands on no freed entry; the newest command is run |
| `dfile` | 2 system files and 1 other, 4 blocks of memory | every text has one owner; system files stay; a reload reaches all |
| `text` | widths 10 and 11, prompts of 0, 3, 9 and 11, 17 characters or sequences; then 2 texts of the program, 2 of the timer, 8 calls | lines fit, the loop ends; every message accounted for; a count stands behind its message |
| `request_race` | 3 cells, main's ban and 2 requests | expects a counterexample: see below |
| `two_days` | that of `timer` | expects a counterexample: see below |

Bounds. Three cells make a head, an inner node and a last one, and the removal of
each while the others are there; a fourth adds only longer walks, and the
theorems hold for any number. Two players are what a clash of names takes; `Alice` and
`alice` clash, `scott` is banned, `new` and `quit` have a meaning; two requests of one
click are what it takes to queue a name, drop it and queue it again between another's
question and answer; two lines a packet are what it takes to send something after leaving.
A record under every name but `alice`'s keeps the others out of the queue. With a limit of 0,
which admits one since the code compares with `>`, the first interface turns the second
player away, and the second interface, which counts from -1, does not. Names of 19 letters
and more have no part in what `core` checks; the theorems cover them, and more players.
Timeouts are small because only 0, the last click and the rest are
told apart. Five bytes in the socket are the longest read of one turn, a window's size; two
characters are an empty, a begun and a full line.

A buffer of 6 and blocks of 3 make a text that fits, one that flushes first, and a
write of two blocks; `Fits` and `InOrder` are proved for every size. The width wraps
twice in 17 characters; what matters is where `count` meets the width, and `LinesFit` is
proved for every width and text. `Capacity` 4 is the smallest that holds a saved
record, and the handmade one of five lines is longer. Six entries are two modules loaded with
one of them a second time; two buckets make words that collide and words that do not. Four
blocks are three texts and one that a short read has leaked, or two of one file. Two
asks of the client are asking and withdrawing, or asking for two things at once. Eight log
calls are enough for two runs of repetitions and what comes after each.

A bound on a set of players, requests, cells or blocks means the memory is used up: the
action that would allocate is not enabled, everything else is. No run has a state
constraint. Deadlock is checked wherever the program runs for ever; `options` and
`text` say `CHECK_DEADLOCK FALSE`, because one call of `format_output` ends, and the client's
wishes and the messages are bounded. In `text` the log is written behind one of the ends of a
text, a whole one of ordinary characters, and not behind each, which would only repeat its states.

Fairness. `WF(jcd_core_loop)`: `idle_loop` calls it again for ever, `select`
returns after a second, the sockets do not block, packets end (`PacketEnds`); the reverse
lookup in `sock_resolve` blocks the whole program, but the resolver gives up.
Nothing is assumed of players, of `accept`, or of which sockets are ready.
`WF(Turn)`: a read that finds nothing returns and is counted.
`WF(signal_ALRM)`: the interval timer repeats. `WF` of a list call's next statement,
of `format_output`'s next turn, and `WF(Program)` in `OutputBuffer`: the program runs on,
and its sweep comes back to the buffer. `WF(Server)` and `WF(Client)` in `TelnetOptions`:
either side reads what has arrived; neither is obliged to ask for anything. Nothing
obliges anyone to make a call.

### Where the program does not do what it says

Two runs expect a counterexample. `request_race`: "Your request has been submitted and queued", the
player is told, and an alarm in `list_add` can lose the request. `two_days`: "your entry
will be held a maximum of two days before it is purged", and it is held for about 2.4, since a
click is six alarms at five a second (`HeldTwoDays` allows for the second it is queued in). The
texts are quoted in `PROJECT.json`, under `findings`.

Elsewhere a property carries an exception, and each exception is something the program does
and should not: taken out, TLC finds a counterexample.

| exception | what happens |
|---|---|
| `UniqueShortLogins`: `admin`, long names, the empty name | "There is already someone on the program with that name": `bad_name` passes 20 letters, `lower_name` holds 19 without a terminator, and the second of two such players is not noticed; `admin` jumps over the check; records that tell no name, as a save on a full disk leaves them, let in any number under the empty one |
| `EchoAgreed`: a client that refused to echo | `auto-set` asks the client to echo; one that will not is taken to want no echo from jcd either, which stops echoing without saying so |
| `NoGoAhead`: a `WILL SGA` since | that the client suppresses go-aheads makes jcd send them, against its own promise |
| `LinesFit`: prompts, colours | "Word wrap is now turned on and set to": behind a counted prompt as long as the screen is wide nothing is wrapped, and each colour lets a line be a column longer |
| `RepeatsLast`: a file that cannot be opened or written; `Accounted` too: an alarm inside a call | "Last message repeated": the count is of a message that was never written, or stands behind another one |
| `SurvivesLogin`: the prompt, with `WRAP_PROMPT` | a save writes an empty prompt, and the next login has the default |
| `SurvivesLogin`: names the record spells with a capital | a save writes the file of that spelling, and every login reads the one in lower case: what was saved never comes back |
| `Delivered`: short writes | a slow client loses what `write` did not take |

Some things the models do that no property is about. A detection saved with the record
(`AUTO_TERM`) comes back without its counter and never times out, against "will time-out
process after ten seconds" (`Timer`). `format_output` may put a line end between IAC and
EOR, or into a colour. A `save` whose file cannot be opened says how many bytes it wrote.

## What is proved

For every value of the constants that meets the named assumptions (`NullAssumption`
and the like, in the module that declares them). The assumptions on `JcdCore`'s
names say what `lower_case` and `strncpy` do: `LowerCase` is idempotent and keeps
the words with a meaning, cutting at 19 does not depend on case and never yields a
short name, and a record tells the name it is filed under, in some case, or none. They are
met by the instances, where TLC evaluates them.
Those of `CommandTable` say that keys are registered in lower case and that no key is registered by
two modules, or by one twice, which is so of `src/modules`; without it `OrderInv` would not tell which
entry is the newer.

* `JcdList_proofs`. The invariant is `TypeOK`, the five properties, `NoDuplicates`
  and `CallState`. `CallState` is the strengthening: it says where in `order` each
  cursor stands at each label, without which neither the walk's `next[scan]` nor
  `out`'s neighbours are known to be linked. `BackwardChain` has to speak of the
  moment between `bypass` and `unlink`, when the victim's successor already points
  past it. From the invariant follows that every step maps to a step of
  `AbstractList` or to a stutter (`ListImplementsAbstractList`). As a linked cell has one
  place in `order`, the distance of `scan` from the end of the list measures what a call
  has still to do: `StepsLeft`, at most 2 L + 3 on a list of L nodes, falls with every
  statement (`ListShrinks`).
* `JcdCore_proofs`. The invariant has three parts. `DoorInv`: types, `l_player`
  without repetitions (`Linked`), `ScanLive`, the counters, the limit, and
  `Settled`, which says how far the loops have got: during `input` every player is
  whole, during `sweep` those already passed are. `Settled` is what makes
  `NoWildCall` inductive: a player with an unset `func` only exists between an
  accept and the next sweep. `NameInv`: records tell the name of their file or none,
  `lower_name` of a member holds its name (`LowerNames`), names are unique, the
  banned are out; `LowerNames` is what relates the name that is checked to the name
  that is compared. `PendingUnique` needs nothing else. `CoreSessions` is the refinement
  without its fairness: each step of the loop, of a line in a packet and of the timer maps
  to a step of `Sessions` or to a stutter. The case that takes the invariant is a
  login: that no member has the name must follow from a comparison with the players' `lower_name`s.
* `Timer_proofs`. Each clock's property is inductive with `TypeOK`: it ties the
  history variable to the counter and the phase of the divider. From these follow bounds
  that the leads-to property `RequestPurged` does not state: a request is held less than its timeout
  and one period, and not dropped before its timeout (`TimerRequestHeld`), and so
  not before two days have passed (`TimerHoldingDays`); a detection whose counter runs ends
  within ten periods (`TimerDetectionHeld`). For the log, `HeldInv`, `CountInv` and `BehindInv` say
  label by label where the count of repetitions is, how many messages are neither in the file nor
  counted, and which text stands last in the file.
* `OutputBuffer_proofs`. `MemoryInv` is the types and `Shape`, which says for each label
  what the addresses already taken are worth whatever the timer did since: at `copy` the
  text fits behind `at`, although `pos` may by then be something else. `Fits` follows, for
  every buffer size. So does `OutputShrinks`: `StatementsLeft`, which counts what a call has
  still to write and is reckoned from `left` and not from `pos`, is not raised by the timer. `Order` is for the runs in which the timer is silent: `SentOrder` (what
  the client has is in order and older than what is being told), `QueuedOrder` (so is
  what is in the buffer between the first unsent byte and `pos`, and newer than
  what was sent), `Whole` (no byte of it is `Other`) and `Place` (`at` is `pos`, `sent` is
  within it). `InOrder` is `SentOrder` without its link to the rest. For `format_output`,
  `FitInv` ties `col` to `count`, `pending` and `colours`, before and behind the prompt; that
  `width` is 10 or more, which `PlayerRecord`'s `TypeOK` shows, makes the width less the
  line end positive. For `FormatShrinks`, `TurnsLeft` counts the characters still to come twice, and one turn more if
  the line is full: a character is passed, or the line is wrapped before it, and wrapped once.
* `PlayerRecord_proofs`. `FilesInv`: every record has lines a record can have.
  `PromptInv`: during a command the prompt is aside if and only if `WRAP_PROMPT` is on, which
  is what makes toggling it safe: the command that toggles it also moves the prompt.
  `SavedInv`: what was saved whole under a name is still what its file says. `ReadBack` is
  the lemma that reading undoes writing, for all values of the fields; `SurvivesLogin` is
  `SavedInv` and `ReadBack` for the file a login reads, which for every way of typing a name in lower
  case is that name's.
* `Commands_proofs`. `TableInv` says what each chain is: `ChainsInv`, the commands of the program
  and the entries of the loaded modules that hash there, each once; `CellsInv`, an entry
  belongs to one command of one module in `mod_list`; `OrderInv`, in a chain the entries of
  a module loaded later come first; `CountInv`, a library is opened as often as
  its module is listed. `WalkInv` is the hard part of `RunsNewest`: whatever
  `insmod` and `rmmod` did in between, `run_command` has passed nothing that matches. For
  `Dfile`, `Owns` (no block has two owners, each is allocated, the rest are
  free or leaked), `LoopInv` (how far start-up or a reload has got) and `ServedInv` (a system file is
  on the list or among those it failed to read).
* `Telnet_proofs`. Of the bytes: the lemmas up to `AtFacts` say what may follow what in a
  client's token; the invariant then reads the state of the reader off the byte the
  client sends next (`InputSynchronised`), whether `ibuffer` has bytes of a subnegotiation
  (`InputOnlyTyped`), and, from the last byte of a line end that is due, `PREV_R` and
  `PREV_N`, whether a line is owed (`InputEveryLine`). Of the options: `AskedInv` (whoever waits for
  an answer has his DO or the answer on its way), `EchoInv` (the last of DO and DONT
  ECHO that jcd has still to read, or else its flag, is what the client thinks or has asked for), `SgaInv` (one DO SGA
  or one answer to it is on its way, and only while the client waits for it) and `GoInv` (no go-ahead is
  behind a promise). Three theorems about options read these where the channels are empty, or where
  a go-ahead stands first in one. `OptionsShrink` weighs each message by what it may still
  cause (`ServerWeight`, `ClientWeight`: DO EOR has two answers, an offer is answered in turn) and adds what
  the client may still change its mind about (`Doubt`): the sum falls with every step, whoever answers what.

The type invariants of `JcdList`, `JcdCore`, `Timer`, `OutputBuffer` and `FormatOutput`,
`AdmissionBound` (which `Sessions` promises too), `RequestClock` and `UptimeCountsPeriods` are proved and in
no run.

Every safety property that a passing run checks is proved. Only model-checked is
what rests on fairness, which is beyond this prover: that the lost leave, the
part of `ImplementsSessions` that `CoreSessions` leaves out, and `RequestPurged`, `CallsReturn`,
`PacketEnds`, `Delivered`, `Settles`, `Ends`. Of these, what does not rest on fairness is
proved where it says something, for every value of the constants:

| leads-to property, by TLC | the proved part |
|---|---|
| `CallsReturn` | `ListShrinks`: no call can take more than 2 L + 3 statements |
| `Ends` | `FormatShrinks`: no text can be wrapped for ever |
| `Settles` | `OptionsShrink`: no negotiation can go on for ever |
| `RequestPurged` | `TimerRequestHeld`: by when, counted in alarms, and not before |
| `Delivered` | `InOrder`, and `OutputShrinks`: a write once begun ends, whatever the timer does |

What the prover cannot add is that a step is possible as long as the measure is above 0, which
is ENABLED, and that it is then taken, which is fairness. `PacketEnds` has no row, as its
measure, `size`, is counted down by construction: all of it is in the first of these. The
counterexamples are TLC's.

## Not modelled, and the plan

Done: all of the modules above. What is left, in this order:

1. `Shutdown`: `shutdown_server` frees the players and leaves their nodes linked while
   the timer still walks them. The process ends a moment later, so what matters
   is only the memory the timer reads in between.
2. `Commands` on requests (`req`), whose walk the timer frees nodes under, as it does
   under that of `get_login` and `player_connect`. `RequestRace` looks inside `list_add` alone.
3. Proofs about both.

Not planned: `thread.c` (no task is ever created), `malloc.c` (logging around
`malloc`), start-up system calls (`interface_listen`), the commands of `commands.c`
and `comm_engine` that only print (`who`, `tell`, `uptime`, `ifconfig` and the rest), text
(banners, words for times), the programs of `var/log`. These are most of the lines the map
does not name.
