------------------------------- MODULE Timer -------------------------------
(***************************************************************************)
(* The interval timer of src/signals.c and the three clocks that hang on   *)
(* it: uptime, the time limit of a player's terminal detection             *)
(* (term_set in src/modules/stat.c), and the timeout of a login request    *)
(* (get_handle in src/login.c).                                            *)
(*                                                                         *)
(* setitimer raises SIGALRM CLICK_RATE times a second.  One player and one *)
(* request stand for all of them: timer_click treats each by itself.       *)
(* alarms, wait and age are history variables that measure real time in    *)
(* alarms; the code has no such clock.                                     *)
(***************************************************************************)
EXTENDS Naturals

CONSTANTS
    CLICK_RATE,     \* 5 in include/jcd_config.h
    REQ_TWO_DAYS,   \* 172800 in include/jcd_request.h
    UINT,           \* uptime is an unsigned int: it wraps at UINT
    MARK            \* clicks between marks, 3600 in timer_click

ASSUME RateAssumption == CLICK_RATE \in Nat
ASSUME DaysAssumption == REQ_TWO_DAYS \in Nat
ASSUME UintAssumption == UINT \in Nat \ {0}
ASSUME MarkAssumption == MARK \in Nat

VARIABLES
    timer,          \* alarms to go before the next click
    uptime,
    mark,
    online,         \* the player is logged in
    AUTO_TERM,      \* p->flags & AUTO_TERM
    auto_term,      \* p->auto_term
    onDisk,         \* AUTO_TERM in the flags of the player's saved record
    pending,        \* the request is queued
    timeout,        \* r->timeout
    alarms,         \* history: alarms since start-up, modulo what uptime can tell
    wait,           \* history: alarms since the detection began
    age             \* history: alarms since the request was queued

clock == <<timer, uptime, mark, alarms>>
player == <<online, AUTO_TERM, auto_term, onDisk, wait>>
request == <<pending, timeout, age>>
vars == <<clock, player, request>>

\* A click comes every CLICK_RATE + 1 alarms: the alarm that finds timer = 0
\* does not count it down.
Period == CLICK_RATE + 1

DetectionLimit == 10

Init ==
    /\ timer = CLICK_RATE /\ uptime = 0 /\ alarms = 0
    /\ mark \in 0..MARK                     \* 5 in globals.c
    /\ online = FALSE /\ AUTO_TERM = FALSE /\ auto_term = 0
    /\ onDisk = FALSE /\ wait = 0
    /\ pending = FALSE /\ timeout = 0 /\ age = 0

-----------------------------------------------------------------------------

\* The player's part of timer_click.
DetectionClick ==
    IF auto_term = DetectionLimit
    THEN AUTO_TERM' = FALSE /\ auto_term' = 0 /\ wait' = 0
    ELSE IF auto_term > 0
    THEN auto_term' = auto_term + 1 /\ wait' = wait + 1 /\ UNCHANGED AUTO_TERM
    ELSE UNCHANGED <<AUTO_TERM, auto_term, wait>>

\* Mutant: a request that has run out starts over.
RequestClickRenewed ==
    IF ~pending THEN UNCHANGED request
    ELSE IF timeout = 0 THEN timeout' = REQ_TWO_DAYS /\ age' = 0 /\ UNCHANGED pending
    ELSE timeout' = timeout - 1 /\ age' = age + 1 /\ UNCHANGED pending

\* The request's part: dropped at 0, counted down otherwise.
RequestClick ==
    IF ~pending THEN UNCHANGED request
    ELSE IF timeout = 0 THEN pending' = FALSE /\ timeout' = 0 /\ age' = 0
    ELSE timeout' = timeout - 1 /\ age' = age + 1 /\ UNCHANGED pending

timer_click ==
    /\ DetectionClick
    /\ RequestClick
    /\ mark' = IF mark = 0 THEN MARK ELSE mark - 1
    /\ uptime' = (uptime + 1) % UINT

signal_ALRM ==
    /\ alarms' = (alarms + 1) % (UINT * Period)
    /\ \/ /\ timer > 0
          /\ timer' = timer - 1
          /\ wait' = (IF auto_term > 0 THEN wait + 1 ELSE wait)
          /\ age' = (IF pending THEN age + 1 ELSE age)
          /\ UNCHANGED <<uptime, mark, AUTO_TERM, auto_term, pending, timeout>>
       \/ /\ timer = 0
          /\ timer_click
          /\ timer' = CLICK_RATE
    /\ UNCHANGED <<online, onDisk>>

-----------------------------------------------------------------------------

\* Mutant: a detection already under way is not started afresh.
term_set_resumed ==
    /\ online
    /\ AUTO_TERM' = TRUE /\ wait' = 0
    /\ auto_term' = IF auto_term = 0 THEN 1 ELSE auto_term
    /\ UNCHANGED <<clock, online, onDisk, request>>

\* "terminal auto-set"
term_set ==
    /\ online
    /\ AUTO_TERM' = TRUE /\ auto_term' = 1 /\ wait' = 0
    /\ UNCHANGED <<clock, online, onDisk, request>>

\* "save": the flags are written as they are.
comm_save ==
    /\ online
    /\ onDisk' = AUTO_TERM
    /\ UNCHANGED <<clock, online, AUTO_TERM, auto_term, wait, request>>

\* The connection goes, with the player structure.
player_disconnect ==
    /\ online
    /\ online' = FALSE /\ AUTO_TERM' = FALSE /\ auto_term' = 0 /\ wait' = 0
    /\ UNCHANGED <<clock, onDisk, request>>

\* player_init clears auto_term, load_player sets the flags of the record.
get_login ==
    /\ ~online
    /\ online' = TRUE /\ AUTO_TERM' = onDisk
    /\ UNCHANGED <<clock, auto_term, onDisk, wait, request>>

\* Mutant: the timeout stays as request_init left it.
get_handle_untimed ==
    /\ ~pending
    /\ pending' = TRUE /\ timeout' = 0 /\ age' = 0
    /\ UNCHANGED <<clock, player>>

get_handle ==
    /\ ~pending
    /\ pending' = TRUE /\ timeout' = REQ_TWO_DAYS /\ age' = 0
    /\ UNCHANGED <<clock, player>>

Next == signal_ALRM \/ term_set \/ comm_save \/ player_disconnect \/ get_login \/ get_handle

\* The kernel keeps raising SIGALRM; nothing makes a player type.
Spec == Init /\ [][Next]_vars /\ WF_vars(signal_ALRM)

-----------------------------------------------------------------------------
(* Properties *)

TypeOK ==
    /\ timer \in 0..CLICK_RATE
    /\ uptime \in 0..(UINT - 1)
    /\ mark \in 0..MARK
    /\ alarms \in 0..(UINT * Period - 1)
    /\ online \in BOOLEAN /\ AUTO_TERM \in BOOLEAN /\ onDisk \in BOOLEAN
    /\ auto_term \in 0..DetectionLimit
    /\ pending \in BOOLEAN
    /\ timeout \in 0..REQ_TWO_DAYS
    /\ wait \in Nat /\ age \in Nat

\* What uptime counts: units of CLICK_RATE + 1 alarms, not of CLICK_RATE.
UptimeCountsPeriods == alarms = uptime * Period + (CLICK_RATE - timer)

\* How long a detection has been running is known from auto_term up to the
\* phase of the timer: a click counts it up once per period, and none is missed.
DetectionClock ==
    auto_term > 0 =>
        LET phase == wait + timer IN
        /\ (auto_term - 1) * Period <= phase
        /\ phase <= (auto_term - 1) * Period + CLICK_RATE

\* The same for a request and its timeout.
RequestClock ==
    pending =>
        LET phase == age + timer IN
        /\ (REQ_TWO_DAYS - timeout) * Period <= phase
        /\ phase <= (REQ_TWO_DAYS - timeout) * Period + CLICK_RATE

\* REQ_TWO_DAYS seconds, and one more for the click it is queued in, as the interval
\* timer runs: CLICK_RATE alarms a second (src/signals.c:102).  "your entry will be held a
\* maximum of two days before it is purged" (lib/files/request:4).
HeldTwoDays == pending => age <= (REQ_TWO_DAYS + 1) * CLICK_RATE

\* "During these two holding days" (lib/files/request:5) staff can still look at it: no
\* request goes before REQ_TWO_DAYS seconds have passed, whatever timeout had counted down
\* to for the request before it and wherever in a click it is queued.
HoldingDays ==
    [][pending /\ ~pending' => age >= REQ_TWO_DAYS * CLICK_RATE]_vars

\* Every queued request is purged in the end, unread or not.
RequestPurged == pending ~> ~pending
=============================================================================
