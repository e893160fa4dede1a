---------------------------- MODULE Timer_proofs ----------------------------
(***************************************************************************)
(* Proofs about the timer of src/signals.c for every click rate, every     *)
(* timeout and every width of uptime: what the three clocks really count   *)
(* and how long a request and a detection are held; and about the log      *)
(* (Syslog), which the timer writes inside other calls.                    *)
(***************************************************************************)
EXTENDS Timer, Syslog, TLAPS

TInv == TypeOK /\ UptimeCountsPeriods /\ DetectionClock /\ RequestClock

LEMMA PeriodFacts == Period \in Nat /\ Period = CLICK_RATE + 1 /\ Period > 0
BY RateAssumption DEF Period

\* Multiplication by Period, as far as the clocks need it.
LEMMA PeriodTimes ==
    ASSUME NEW k \in Nat
    PROVE  /\ k * Period \in Nat
           /\ (k + 1) * Period = k * Period + Period
           /\ 0 * Period = 0
BY PeriodFacts

LEMMA PeriodMonotone ==
    ASSUME NEW j \in Nat, NEW k \in Nat, j <= k
    PROVE  j * Period <= k * Period
<1>1. k - j \in Nat /\ k = j + (k - j)
  OBVIOUS
<1>2. (k - j) * Period >= 0
  BY <1>1, PeriodFacts
<1>3. k * Period = j * Period + (k - j) * Period
  BY <1>1, PeriodFacts
<1> QED  BY <1>1, <1>2, <1>3, PeriodTimes

\* Counting up modulo m is counting up, or starting again at 0.
LEMMA CountUp ==
    ASSUME NEW m \in Nat \ {0}, NEW k \in 0..(m - 1)
    PROVE  (k + 1) % m = IF k + 1 = m THEN 0 ELSE k + 1
<1>1. k + 1 \in 1..m
  OBVIOUS
<1>2. CASE k + 1 = m
  BY <1>2
<1>3. CASE k + 1 # m
  BY <1>1, <1>3
<1> QED  BY <1>2, <1>3

LEMMA InitTInv == Init => TInv
<1> SUFFICES ASSUME Init PROVE TInv
  OBVIOUS
<1>1. UINT * Period \in Nat /\ UINT * Period > 0
  BY PeriodFacts, UintAssumption
<1>2. TypeOK
  <2>1. timer \in 0..CLICK_RATE /\ uptime \in 0..(UINT - 1) /\ mark \in 0..MARK
    BY RateAssumption, UintAssumption, MarkAssumption DEF Init
  <2>2. alarms \in 0..(UINT * Period - 1)
    BY <1>1 DEF Init
  <2>3. auto_term \in 0..DetectionLimit /\ timeout \in 0..REQ_TWO_DAYS
    BY DaysAssumption DEF Init, DetectionLimit
  <2> QED  BY <2>1, <2>2, <2>3 DEF Init, TypeOK
<1>3. UptimeCountsPeriods
  BY PeriodTimes, RateAssumption DEF Init, UptimeCountsPeriods
<1> QED  BY <1>2, <1>3 DEF Init, TInv, DetectionClock, RequestClock

-----------------------------------------------------------------------------

\* An alarm moves the real clock on by one alarm, and uptime and timer together
\* by as much.
LEMMA AlarmUptime ==
    ASSUME TInv, signal_ALRM
    PROVE  /\ timer' \in 0..CLICK_RATE
           /\ uptime' \in 0..(UINT - 1)
           /\ alarms' \in 0..(UINT * Period - 1)
           /\ UptimeCountsPeriods'
<1> DEFINE U == uptime * Period
           M == UINT * Period
<1>1. /\ timer \in 0..CLICK_RATE /\ CLICK_RATE \in Nat
      /\ uptime \in 0..(UINT - 1) /\ UINT \in Nat \ {0}
      /\ alarms \in 0..(M - 1)
      /\ alarms = U + (CLICK_RATE - timer)
  BY RateAssumption, UintAssumption DEF TInv, TypeOK, UptimeCountsPeriods
<1>2. U \in Nat /\ (uptime + 1) * Period = U + Period /\ Period = CLICK_RATE + 1
  BY <1>1, PeriodTimes, PeriodFacts
<1>3. M \in Nat \ {0}
  BY <1>1, PeriodFacts
<1>4. U + Period <= M
  <2>1. uptime + 1 \in Nat /\ uptime + 1 <= UINT
    BY <1>1
  <2>2. (uptime + 1) * Period <= UINT * Period
    BY <1>1, <2>1, PeriodMonotone
  <2> QED  BY <1>2, <2>2
<1>5. alarms' = IF alarms + 1 = M THEN 0 ELSE alarms + 1
  BY <1>1, <1>3, CountUp DEF signal_ALRM
<1>6. CASE timer > 0
  <2>1. timer' = timer - 1 /\ uptime' = uptime
    BY <1>1, <1>6 DEF signal_ALRM
  <2> HIDE DEF U, M
  <2>2. alarms' = alarms + 1
    BY <1>1, <1>2, <1>4, <1>5, <1>6
  <2>3. alarms' = U + (CLICK_RATE - timer') /\ alarms' \in 0..(M - 1)
    BY <1>1, <1>2, <1>3, <1>4, <1>6, <2>1, <2>2
  <2> QED  BY <1>1, <1>6, <2>1, <2>3 DEF UptimeCountsPeriods, U, M
<1>7. CASE timer = 0
  <2>1. /\ timer' = CLICK_RATE
        /\ uptime' = IF uptime + 1 = UINT THEN 0 ELSE uptime + 1
    BY <1>1, <1>7, CountUp DEF signal_ALRM, timer_click
  <2>2. alarms + 1 = U + Period
    BY <1>1, <1>2, <1>7
  <2>3. CASE uptime + 1 = UINT
    <3>1. U + Period = M
      BY <1>2, <2>3
    <3>2. alarms' = 0
      BY <1>5, <2>2, <3>1
    <3>3. uptime' * Period = 0
      BY <2>1, <2>3, PeriodTimes
    <3> QED  BY <1>1, <1>3, <2>1, <2>3, <3>2, <3>3 DEF UptimeCountsPeriods
  <2>4. CASE uptime + 1 # UINT
    <3>1. uptime' = uptime + 1 /\ uptime' \in 0..(UINT - 1) /\ uptime' + 1 <= UINT
      BY <1>1, <2>1, <2>4
    <3>2. (uptime' + 1) * Period <= M /\ (uptime' + 1) * Period = uptime' * Period + Period
      BY <1>1, <3>1, PeriodMonotone, PeriodTimes
    <3>3. uptime' * Period = U + Period
      BY <1>2, <3>1
    <3> HIDE DEF U, M
    <3>4. alarms' = U + Period /\ alarms' \in 0..(M - 1)
      BY <1>1, <1>2, <1>3, <1>5, <2>2, <3>2, <3>3
    <3> QED  BY <1>1, <2>1, <3>1, <3>3, <3>4 DEF UptimeCountsPeriods, M
  <2> QED  BY <2>3, <2>4
<1> QED  BY <1>1, <1>6, <1>7

LEMMA AlarmTInv ==
    ASSUME TInv, signal_ALRM
    PROVE  TInv'
<1>1. /\ timer \in 0..CLICK_RATE /\ CLICK_RATE \in Nat /\ MARK \in Nat /\ mark \in 0..MARK
      /\ auto_term \in 0..10 /\ wait \in Nat /\ age \in Nat
      /\ timeout \in 0..REQ_TWO_DAYS /\ REQ_TWO_DAYS \in Nat
      /\ AUTO_TERM \in BOOLEAN /\ pending \in BOOLEAN
  BY RateAssumption, DaysAssumption, MarkAssumption DEF TInv, TypeOK, DetectionLimit
<1>2. Period = CLICK_RATE + 1 /\ Period \in Nat
  BY PeriodFacts
<1>3. TypeOK'
  <2>1. mark' \in 0..MARK
    BY <1>1 DEF signal_ALRM, timer_click
  <2>2. auto_term' \in 0..10 /\ wait' \in Nat
    <3>1. CASE timer > 0
      BY <1>1, <3>1 DEF signal_ALRM
    <3>2. CASE timer = 0
      <4>1. DetectionClick
        BY <1>1, <3>2 DEF signal_ALRM, timer_click
      <4> QED  BY <1>1, <4>1 DEF DetectionClick, DetectionLimit
    <3> QED  BY <1>1, <3>1, <3>2
  <2>3. timeout' \in 0..REQ_TWO_DAYS /\ age' \in Nat
    <3>1. CASE timer > 0
      BY <1>1, <3>1 DEF signal_ALRM
    <3>2. CASE timer = 0
      <4>1. RequestClick
        BY <1>1, <3>2 DEF signal_ALRM, timer_click
      <4> QED  BY <1>1, <4>1 DEF RequestClick, request
    <3> QED  BY <1>1, <3>1, <3>2
  <2>5. AUTO_TERM' \in BOOLEAN /\ pending' \in BOOLEAN
    BY <1>1, Zenon DEF signal_ALRM, timer_click, DetectionClick, RequestClick, request
  <2>4. UNCHANGED <<online, onDisk>>
    BY DEF signal_ALRM
  <2> QED  BY AlarmUptime, <2>1, <2>2, <2>3, <2>4, <2>5 DEF TInv, TypeOK, DetectionLimit
<1>4. DetectionClock'
  <2> SUFFICES ASSUME auto_term' > 0
               PROVE  /\ (auto_term' - 1) * Period <= wait' + timer'
                      /\ wait' + timer' <= (auto_term' - 1) * Period + CLICK_RATE
    BY DEF DetectionClock
  <2>1. CASE timer > 0
    <3>1. /\ auto_term' = auto_term /\ auto_term > 0
          /\ wait' = wait + 1 /\ timer' = timer - 1
      BY <1>1, <2>1 DEF signal_ALRM
    <3>2. /\ (auto_term - 1) * Period <= wait + timer
          /\ wait + timer <= (auto_term - 1) * Period + CLICK_RATE
      BY <3>1 DEF TInv, DetectionClock
    <3>3. wait' + timer' = wait + timer
      BY <1>1, <3>1
    <3> QED  BY <3>1, <3>2, <3>3
  <2>2. CASE timer = 0
    <3>1. timer' = CLICK_RATE /\ DetectionClick
      BY <1>1, <2>2 DEF signal_ALRM, timer_click
    <3>2. auto_term > 0 /\ auto_term' = auto_term + 1 /\ wait' = wait + 1
      BY <1>1, <3>1 DEF DetectionClick, DetectionLimit
    <3>3. /\ (auto_term - 1) * Period <= wait
          /\ wait <= (auto_term - 1) * Period + CLICK_RATE
      BY <1>1, <2>2, <3>2 DEF TInv, DetectionClock
    <3>4. auto_term - 1 \in Nat /\ auto_term' - 1 = (auto_term - 1) + 1
      BY <1>1, <3>2
    <3>5. (auto_term' - 1) * Period = (auto_term - 1) * Period + Period
      BY <3>4, PeriodTimes
    <3>6. (auto_term - 1) * Period \in Nat
      BY <3>4, PeriodTimes
    <3> QED  BY <1>1, <1>2, <3>1, <3>2, <3>3, <3>5, <3>6
  <2> QED  BY <1>1, <2>1, <2>2
<1>5. RequestClock'
  <2> DEFINE K == REQ_TWO_DAYS - timeout
  <2> SUFFICES ASSUME pending'
               PROVE  /\ (REQ_TWO_DAYS - timeout') * Period <= age' + timer'
                      /\ age' + timer' <= (REQ_TWO_DAYS - timeout') * Period + CLICK_RATE
    BY DEF RequestClock
  <2>1. CASE timer > 0
    <3>0. ~(timer = 0)
      BY <1>1, <2>1
    <3>1. timeout' = timeout /\ pending /\ age' = age + 1 /\ timer' = timer - 1
      BY <3>0, Zenon DEF signal_ALRM
    <3>2. K * Period <= age + timer /\ age + timer <= K * Period + CLICK_RATE
      BY <3>1 DEF TInv, RequestClock
    <3>3. age' + timer' = age + timer
      BY <1>1, <3>1
    <3> QED  BY <3>1, <3>2, <3>3
  <2>2. CASE timer = 0
    <3>1. timer' = CLICK_RATE /\ RequestClick
      BY <1>1, <2>2 DEF signal_ALRM, timer_click
    <3>2. pending /\ timeout # 0 /\ timeout' = timeout - 1 /\ age' = age + 1
      BY <1>1, <3>1 DEF RequestClick, request
    <3>3. K * Period <= age /\ age <= K * Period + CLICK_RATE
      BY <1>1, <2>2, <3>2 DEF TInv, RequestClock
    <3>4. K \in Nat /\ REQ_TWO_DAYS - timeout' = K + 1
      BY <1>1, <3>2
    <3> HIDE DEF K
    <3>5. (K + 1) * Period = K * Period + Period /\ K * Period \in Nat
      BY <3>4, PeriodTimes
    <3>6. /\ (K + 1) * Period <= age' + timer'
          /\ age' + timer' <= (K + 1) * Period + CLICK_RATE
      BY <1>1, <1>2, <3>1, <3>2, <3>3, <3>5
    <3> QED  BY <3>4, <3>6
  <2> QED  BY <1>1, <2>1, <2>2
<1> QED  BY AlarmUptime, <1>3, <1>4, <1>5 DEF TInv

\* What players do starts and stops the clocks, and leaves the alarm's alone.
LEMMA PlayerTInv ==
    ASSUME TInv, term_set \/ comm_save \/ player_disconnect \/ get_login \/ get_handle
           \/ UNCHANGED vars
    PROVE  TInv'
<1> USE DEF clock, player, request, vars
<1>1. TypeOK'
  <2>1. UNCHANGED <<timer, uptime, mark, alarms>>
    BY DEF term_set, comm_save, player_disconnect, get_login, get_handle
  <2>2. auto_term' \in 0..DetectionLimit /\ wait' \in Nat
    BY DEF TInv, TypeOK, DetectionLimit, term_set, comm_save, player_disconnect,
       get_login, get_handle
  <2>3. timeout' \in 0..REQ_TWO_DAYS /\ age' \in Nat
    BY DaysAssumption DEF TInv, TypeOK, term_set, comm_save, player_disconnect,
       get_login, get_handle
  <2>4. online' \in BOOLEAN /\ AUTO_TERM' \in BOOLEAN /\ onDisk' \in BOOLEAN
        /\ pending' \in BOOLEAN
    BY Zenon DEF TInv, TypeOK, term_set, comm_save, player_disconnect, get_login, get_handle
  <2> QED  BY <2>1, <2>2, <2>3, <2>4 DEF TInv, TypeOK
<1>2. UptimeCountsPeriods'
  BY DEF TInv, UptimeCountsPeriods, term_set, comm_save, player_disconnect, get_login,
     get_handle
<1>3. timer \in 0..CLICK_RATE /\ CLICK_RATE \in Nat
  BY RateAssumption DEF TInv, TypeOK
<1>4. DetectionClock'
  <2>1. CASE term_set
    <3>1. auto_term' - 1 = 0 /\ wait' + timer' = timer
      BY <1>3, <2>1 DEF term_set
    <3> QED  BY <1>3, <3>1, PeriodTimes DEF DetectionClock
  <2>2. CASE player_disconnect
    BY <2>2 DEF player_disconnect, DetectionClock
  <2>3. CASE UNCHANGED <<auto_term, wait, timer>>
    BY <2>3 DEF TInv, DetectionClock
  <2> QED  BY <2>1, <2>2, <2>3 DEF comm_save, get_login, get_handle
<1>5. RequestClock'
  <2>1. CASE get_handle
    <3>1. REQ_TWO_DAYS - timeout' = 0 /\ age' + timer' = timer
      BY <1>3, <2>1, DaysAssumption DEF get_handle
    <3> QED  BY <1>3, <3>1, PeriodTimes DEF RequestClock
  <2>2. CASE UNCHANGED <<pending, timeout, age, timer>>
    BY <2>2 DEF TInv, RequestClock
  <2> QED  BY <2>1, <2>2 DEF term_set, comm_save, player_disconnect, get_login
<1> QED  BY <1>1, <1>2, <1>4, <1>5 DEF TInv

LEMMA TimerInvariant == Spec => []TInv
<1>1. TInv /\ [Next]_vars => TInv'
  BY AlarmTInv, PlayerTInv DEF Next
<1> QED  BY InitTInv, <1>1, PTL DEF Spec

\* The timer's variables keep their types; in particular a request's timeout,
\* which is unsigned, is never counted down past 0 into REQ_NEVER.
THEOREM TimerTypeOK == Spec => []TypeOK
<1>1. TInv => TypeOK
  BY DEF TInv
<1> QED  BY <1>1, TimerInvariant, PTL

\* Whatever the click rate, uptime counts periods of CLICK_RATE + 1 alarms.
THEOREM TimerUptime == Spec => []UptimeCountsPeriods
<1>1. TInv => UptimeCountsPeriods
  BY DEF TInv
<1> QED  BY <1>1, TimerInvariant, PTL

\* auto_term measures a detection to within one period.
THEOREM TimerDetection == Spec => []DetectionClock
<1>1. TInv => DetectionClock
  BY DEF TInv
<1> QED  BY <1>1, TimerInvariant, PTL

\* timeout measures how long a request has been held to within one period.
THEOREM TimerRequest == Spec => []RequestClock
<1>1. TInv => RequestClock
  BY DEF TInv
<1> QED  BY <1>1, TimerInvariant, PTL

\* A bound on RequestPurged, which by itself promises no date: a queued request is gone
\* after REQ_TWO_DAYS + 1 periods, and it is not dropped before REQ_TWO_DAYS of them, for
\* any timeout, any click rate and whatever players do (src/signals.c:33).
THEOREM TimerRequestHeld ==
    Spec => /\ [](pending => age < (REQ_TWO_DAYS + 1) * Period)
            /\ [][pending /\ ~pending' => age >= REQ_TWO_DAYS * Period]_vars
<1>1. TInv => (pending => age < (REQ_TWO_DAYS + 1) * Period)
  <2> SUFFICES ASSUME TInv, pending PROVE age < (REQ_TWO_DAYS + 1) * Period
    OBVIOUS
  <2> DEFINE K == REQ_TWO_DAYS - timeout
  <2>1. /\ timer \in Nat /\ timeout \in 0..REQ_TWO_DAYS /\ REQ_TWO_DAYS \in Nat /\ age \in Nat
        /\ age + timer <= K * Period + CLICK_RATE
    BY DaysAssumption DEF TInv, TypeOK, RequestClock
  <2>2. K \in Nat /\ K <= REQ_TWO_DAYS
    BY <2>1
  <2> HIDE DEF K
  <2>3. K * Period <= REQ_TWO_DAYS * Period /\ K * Period \in Nat
    BY <2>1, <2>2, PeriodMonotone, PeriodTimes
  <2>4. (REQ_TWO_DAYS + 1) * Period = REQ_TWO_DAYS * Period + Period /\ REQ_TWO_DAYS * Period \in Nat
    BY <2>1, PeriodTimes
  <2> QED  BY <2>1, <2>3, <2>4, PeriodFacts, RateAssumption
<1>2. TInv /\ [Next]_vars => [pending /\ ~pending' => age >= REQ_TWO_DAYS * Period]_vars
  <2> SUFFICES ASSUME TInv, Next, pending, ~pending' PROVE age >= REQ_TWO_DAYS * Period
    OBVIOUS
  <2>1. signal_ALRM
    BY Zenon DEF Next, term_set, comm_save, player_disconnect, get_login, get_handle, request
  <2>2. timer = 0 /\ RequestClick
    <3>1. CASE timer = 0
      BY <2>1, <3>1 DEF signal_ALRM, timer_click, TInv, TypeOK
    <3>2. CASE timer # 0
      BY <2>1, <3>2, Zenon DEF signal_ALRM
    <3> QED  BY <3>1, <3>2
  <2>3. timeout = 0
    BY <2>2, Zenon DEF RequestClick
  <2>4. age \in Nat /\ REQ_TWO_DAYS \in Nat /\ (REQ_TWO_DAYS - timeout) * Period <= age + timer
    BY DaysAssumption DEF TInv, TypeOK, RequestClock
  <2>5. REQ_TWO_DAYS - timeout = REQ_TWO_DAYS
    BY <2>3, <2>4
  <2> QED  BY <2>2, <2>4, <2>5, PeriodTimes
<1> QED  BY <1>1, <1>2, TimerInvariant, PTL DEF Spec

\* A second is CLICK_RATE alarms, and a click is never less: for any timeout and any click
\* rate, no request is dropped before its seconds have passed (lib/files/request:5).
THEOREM TimerHoldingDays == Spec => HoldingDays
<1>1. REQ_TWO_DAYS * Period >= REQ_TWO_DAYS * CLICK_RATE
  <2>1. /\ REQ_TWO_DAYS \in Nat /\ CLICK_RATE \in Nat
        /\ REQ_TWO_DAYS * (CLICK_RATE + 1) = REQ_TWO_DAYS * CLICK_RATE + REQ_TWO_DAYS
        /\ REQ_TWO_DAYS * CLICK_RATE \in Nat
    BY DaysAssumption, RateAssumption
  <2> QED  BY <2>1 DEF Period
<1>2. REQ_TWO_DAYS * Period \in Nat /\ REQ_TWO_DAYS * CLICK_RATE \in Nat
  BY DaysAssumption, RateAssumption, PeriodFacts
<1>3. TypeOK => age \in Nat
  BY DEF TypeOK
<1>4. age \in Nat /\ [pending /\ ~pending' => age >= REQ_TWO_DAYS * Period]_vars
          => [pending /\ ~pending' => age >= REQ_TWO_DAYS * CLICK_RATE]_vars
  BY <1>1, <1>2
<1> QED  BY <1>3, <1>4, TimerTypeOK, TimerRequestHeld, PTL DEF HoldingDays

\* The same of a terminal detection: the click ends it within DetectionLimit periods of
\* the last auto-set, and not before the last of them has begun (src/signals.c:16).
THEOREM TimerDetectionHeld ==
    Spec => /\ [](auto_term > 0 => wait < DetectionLimit * Period)
            /\ [][auto_term > 0 /\ auto_term' = 0 /\ online' => wait >= (DetectionLimit - 1) * Period]_vars
<1>1. TInv => (auto_term > 0 => wait < DetectionLimit * Period)
  <2> SUFFICES ASSUME TInv, auto_term > 0 PROVE wait < DetectionLimit * Period
    OBVIOUS
  <2> DEFINE K == auto_term - 1
  <2>1. /\ timer \in Nat /\ auto_term \in 1..10 /\ wait \in Nat
        /\ wait + timer <= K * Period + CLICK_RATE
    BY DEF TInv, TypeOK, DetectionClock, DetectionLimit
  <2>2. K \in Nat /\ K <= 9
    BY <2>1
  <2> HIDE DEF K
  <2>3. K * Period <= 9 * Period /\ K * Period \in Nat
    BY <2>2, PeriodMonotone, PeriodTimes
  <2>4. 10 * Period = 9 * Period + Period
    BY PeriodFacts
  <2> QED  BY <2>1, <2>3, <2>4, PeriodFacts, RateAssumption DEF DetectionLimit
<1>2. TInv /\ [Next]_vars =>
        [auto_term > 0 /\ auto_term' = 0 /\ online' => wait >= (DetectionLimit - 1) * Period]_vars
  <2> SUFFICES ASSUME TInv, Next, auto_term > 0, auto_term' = 0, online'
               PROVE  wait >= (DetectionLimit - 1) * Period
    OBVIOUS
  <2>1. auto_term \in 1..10 /\ wait \in Nat /\ timer \in Nat
    BY DEF TInv, TypeOK, DetectionLimit
  <2>2. signal_ALRM
    <3>0. auto_term' # auto_term /\ auto_term' # 1
      BY <2>1
    <3>1. ~term_set /\ ~comm_save /\ ~get_login /\ ~get_handle
      BY <3>0, Zenon DEF term_set, comm_save, get_login, get_handle, player
    <3>2. ~player_disconnect
      BY Zenon DEF player_disconnect
    <3> QED  BY <3>1, <3>2, Zenon DEF Next
  <2>3. timer = 0 /\ DetectionClick
    <3>1. CASE timer = 0
      BY <2>2, <3>1 DEF signal_ALRM, timer_click
    <3>2. CASE timer # 0
      BY <2>1, <2>2, <3>2 DEF signal_ALRM
    <3> QED  BY <3>1, <3>2
  <2>4. auto_term = DetectionLimit
    BY <2>1, <2>3 DEF DetectionClick
  <2>5. (auto_term - 1) * Period <= wait + timer
    BY DEF TInv, DetectionClock
  <2>6. auto_term - 1 = DetectionLimit - 1
    BY <2>4
  <2> QED  BY <2>1, <2>3, <2>5, <2>6
<1> QED  BY <1>1, <1>2, TimerInvariant, PTL DEF Spec

-----------------------------------------------------------------------------
(* The log (src/syslog.c), which the timer writes as well: whatever the    *)
(* messages, however often either of the two logs.                         *)

LogTypes ==
    /\ repeated \in Nat /\ held \in Nat /\ told \in Nat /\ filed \in Nat /\ lost \in Nat
    /\ pc \in {"idle", "compare", "open", "clear", "write"}

\* Where the count of a repeated message is, statement by statement.
HeldInv ==
    ~crossed => /\ pc \in {"idle", "compare", "open"} => held = 0
                /\ pc = "clear" => held = repeated
                /\ pc = "write" => repeated = 0

\* The message a call has in hand is in neither the file nor the count.
CountInv ==
    ~crossed => /\ pc = "idle" => told = filed + repeated + lost
                /\ pc \in {"compare", "open", "clear"} => told = filed + repeated + lost + 1
                /\ pc = "write" => told = filed + held + lost + 1

\* What is counted is what stands last in the file.
BehindInv ==
    ~crossed /\ lost = 0 =>
        /\ ~misled
        /\ pc \in {"idle", "compare"} => buffer = tail
        /\ pc \in {"open", "clear", "write"} => buffer = str
        /\ repeated > 0 \/ held > 0 => of = {tail}
        /\ repeated = 0 /\ held = 0 => of = {}

LInv == LogTypes /\ HeldInv /\ CountInv /\ BehindInv

LEMMA InitLInv == LInit => LInv
BY DEF LInit, LInv, LogTypes, HeldInv, CountInv, BehindInv

LEMMA LogVmlog == ASSUME LInv, NEW m \in Message, vmlog(m) PROVE LInv'
BY DEF vmlog, LInv, LogTypes, HeldInv, CountInv, BehindInv

LEMMA LogCompare == ASSUME LInv, compare PROVE LInv'
<1>1. CASE str = buffer
  <2>1. /\ repeated' = repeated + 1 /\ of' = of \cup {str} /\ pc' = "idle" /\ pc = "compare"
        /\ UNCHANGED <<buffer, str, held, tail, told, filed, lost, crossed, misled>>
    BY <1>1 DEF compare
  <2>2. LogTypes' /\ HeldInv' /\ CountInv'
    BY <2>1 DEF LInv, LogTypes, HeldInv, CountInv
  <2>3. ~crossed /\ lost = 0 => of' = {tail} /\ repeated' > 0
    BY <1>1, <2>1 DEF LInv, LogTypes, HeldInv, BehindInv
  <2>4. BehindInv'
    BY <2>1, <2>3 DEF LInv, LogTypes, HeldInv, BehindInv
  <2> QED  BY <2>2, <2>4 DEF LInv
<1>2. CASE str # buffer
  <2>1. /\ pc' = "open" /\ pc = "compare" /\ buffer' = str
        /\ UNCHANGED <<repeated, of, str, held, tail, told, filed, lost, crossed, misled>>
    BY <1>2 DEF compare
  <2> QED  BY <2>1 DEF LInv, LogTypes, HeldInv, CountInv, BehindInv
<1> QED  BY <1>1, <1>2

LEMMA LogOpen == ASSUME LInv, open PROVE LInv'
<1>1. CASE pc' = "idle" /\ lost' = lost + 1 /\ UNCHANGED held
  BY <1>1 DEF open, LInv, LogTypes, HeldInv, CountInv, BehindInv
<1>2. CASE pc' = "clear" /\ held' = repeated /\ UNCHANGED lost
  BY <1>2 DEF open, LInv, LogTypes, HeldInv, CountInv, BehindInv
<1> QED  BY <1>1, <1>2 DEF open

LEMMA LogClear == ASSUME LInv, clear PROVE LInv'
<1>1. /\ pc = "clear" /\ pc' = "write" /\ repeated' = IF held > 0 THEN 0 ELSE repeated
      /\ UNCHANGED <<buffer, str, held, of, tail, told, filed, lost, crossed, misled>>
  BY DEF clear, history
<1> QED  BY <1>1 DEF LInv, LogTypes, HeldInv, CountInv, BehindInv

\* The line written is the last one's message from then on; a line that is not is lost.
LEMMA LogWrite == ASSUME LInv, write PROVE LInv'
<1>1. /\ pc = "write" /\ pc' = "idle" /\ held' = 0
      /\ UNCHANGED <<buffer, repeated, str, told, crossed>>
  BY DEF write
<1>2. CASE Written(str, held) /\ UNCHANGED lost
  <2>1. /\ tail' = str /\ filed' = filed + held + 1
        /\ misled' = (misled \/ (held > 0 /\ of # {tail})) /\ of' = {}
    BY <1>2 DEF Written
  <2>2. LogTypes' /\ HeldInv' /\ CountInv'
    BY <1>1, <1>2, <2>1 DEF LInv, LogTypes, HeldInv, CountInv
  <2>3. ~crossed /\ lost = 0 => ~misled'
    BY <1>1, <2>1 DEF LInv, BehindInv
  <2>4. BehindInv'
    BY <1>1, <1>2, <2>1, <2>3 DEF LInv, LogTypes, HeldInv, BehindInv
  <2> QED  BY <2>2, <2>4 DEF LInv
<1>3. CASE Unwritten(held)
  <2>1. lost' = lost + held + 1 /\ UNCHANGED <<tail, filed, misled>>
    BY <1>3 DEF Unwritten
  <2>2. LogTypes' /\ HeldInv' /\ CountInv'
    BY <1>1, <2>1 DEF LInv, LogTypes, HeldInv, CountInv
  <2>3. lost' # 0
    BY <2>1 DEF LInv, LogTypes
  <2> QED  BY <2>2, <2>3 DEF LInv, BehindInv
<1> QED  BY <1>2, <1>3 DEF write

\* The timer's call runs to its end; what it does in the middle of another call is
\* nothing the invariant tells of.
LEMMA LogTimer == ASSUME LInv, NEW m \in Marks, timer_vmlog(m) PROVE LInv'
<1>1. told' = told + 1 /\ UNCHANGED <<pc, str, held>>
  BY DEF timer_vmlog, call
<1>2. crossed' = (crossed \/ pc # "idle")
  BY DEF timer_vmlog
<1>3. ~crossed' => ~crossed /\ pc = "idle"
  BY <1>2
<1>4. ~crossed' => held = 0
  BY <1>3 DEF LInv, HeldInv
<1>5. ~crossed' => told = filed + repeated + lost
  BY <1>3 DEF LInv, CountInv
<1>6. ~crossed' /\ lost = 0 => ~misled /\ buffer = tail
  BY <1>3 DEF LInv, BehindInv
<1>7. ~crossed' /\ lost = 0 => (repeated > 0 => of = {tail}) /\ (repeated = 0 => of = {})
  BY <1>3, <1>4 DEF LInv, BehindInv
<1>8. CASE /\ m = buffer
           /\ repeated' = repeated + 1 /\ of' = of \cup {m}
           /\ UNCHANGED <<buffer, tail, filed, lost, misled>>
  <2>1. LogTypes' /\ HeldInv'
    BY <1>1, <1>3, <1>4, <1>8 DEF LInv, LogTypes, HeldInv
  <2>2. CountInv'
    BY <1>1, <1>3, <1>5, <1>8 DEF LInv, LogTypes, CountInv
  <2>3. ASSUME ~crossed', lost = 0 PROVE of' = {tail}
    <3>1. buffer = tail
      BY <1>6, <2>3
    <3>2. of = {tail} \/ of = {}
      BY <1>7, <2>3 DEF LInv, LogTypes
    <3> QED  BY <1>8, <3>1, <3>2
  <2>4. repeated' > 0
    BY <1>8 DEF LInv, LogTypes
  <2>5. BehindInv'
    BY <1>1, <1>3, <1>6, <1>8, <2>3, <2>4 DEF BehindInv
  <2> QED  BY <2>1, <2>2, <2>5 DEF LInv
<1>9. CASE /\ m # buffer /\ buffer' = m /\ lost' = lost + 1
           /\ UNCHANGED <<repeated, of, tail, filed, misled>>
  <2>1. LogTypes' /\ HeldInv'
    BY <1>1, <1>3, <1>4, <1>9 DEF LInv, LogTypes, HeldInv
  <2>2. CountInv'
    BY <1>1, <1>3, <1>5, <1>9 DEF LInv, LogTypes, CountInv
  <2>3. lost' # 0
    BY <1>9 DEF LInv, LogTypes
  <2> QED  BY <2>1, <2>2, <2>3 DEF LInv, BehindInv
<1>10. CASE /\ m # buffer /\ buffer' = m /\ repeated' = 0
            /\ Written(m, repeated)
            /\ UNCHANGED lost
  <2>1. tail' = m /\ filed' = filed + repeated + 1 /\ of' = {}
    BY <1>10 DEF Written
  <2>2. misled' = (misled \/ (repeated > 0 /\ of # {tail}))
    BY <1>10 DEF Written
  <2>3. LogTypes' /\ HeldInv'
    BY <1>1, <1>3, <1>4, <1>10, <2>1 DEF LInv, LogTypes, HeldInv
  <2>4. CountInv'
    BY <1>1, <1>3, <1>5, <1>10, <2>1 DEF LInv, LogTypes, CountInv
  <2>5. ASSUME ~crossed', lost = 0 PROVE ~misled'
    <3>1. ~misled /\ ~(repeated > 0 /\ of # {tail})
      BY <1>6, <1>7, <2>5
    <3> QED  BY <2>2, <3>1
  <2>6. BehindInv'
    BY <1>1, <1>3, <1>4, <1>10, <2>1, <2>5 DEF BehindInv
  <2> QED  BY <2>3, <2>4, <2>6 DEF LInv
<1>11. CASE /\ m # buffer /\ buffer' = m /\ repeated' = 0
            /\ Unwritten(repeated)
  <2>1. lost' = lost + repeated + 1 /\ UNCHANGED <<tail, filed, misled>>
    BY <1>11 DEF Unwritten
  <2>2. LogTypes' /\ HeldInv'
    BY <1>1, <1>3, <1>4, <1>11, <2>1 DEF LInv, LogTypes, HeldInv
  <2>3. CountInv'
    BY <1>1, <1>3, <1>5, <1>11, <2>1 DEF LInv, LogTypes, CountInv
  <2>4. lost' # 0
    BY <2>1 DEF LInv, LogTypes
  <2> QED  BY <2>2, <2>3, <2>4 DEF LInv, BehindInv
<1> QED  BY <1>8, <1>9, <1>10, <1>11 DEF timer_vmlog

LEMMA LogInvariant == LSpec => []LInv
<1>1. LInv /\ [LNext]_lvars => LInv'
  <2> SUFFICES ASSUME LInv, [LNext]_lvars PROVE LInv'
    OBVIOUS
  <2>1. CASE LNext
    BY <2>1, LogVmlog, LogCompare, LogOpen, LogClear, LogWrite, LogTimer DEF LNext
  <2>2. CASE UNCHANGED lvars
    BY <2>2 DEF LInv, LogTypes, HeldInv, CountInv, BehindInv, lvars, call, history
  <2> QED  BY <2>1, <2>2
<1> QED  BY InitLInv, <1>1, PTL DEF LSpec

\* No message is forgotten: each is in the file, in the count, or was in hand when the
\* file could not be opened or written.
THEOREM LogAccounted == LSpec => []Accounted
<1>1. LInv => Accounted
  BY DEF LInv, CountInv, Accounted
<1> QED  BY <1>1, LogInvariant, PTL

\* "Last message repeated" is said of the message that stands above it.
THEOREM LogRepeats == LSpec => []RepeatsLast
<1>1. LInv => RepeatsLast
  BY DEF LInv, BehindInv, RepeatsLast
<1> QED  BY <1>1, LogInvariant, PTL
=============================================================================
