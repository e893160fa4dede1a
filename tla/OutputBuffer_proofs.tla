------------------------ MODULE OutputBuffer_proofs ------------------------
(***************************************************************************)
(* What TLAPS proves of OutputBuffer: that no copy leaves the buffer,      *)
(* whatever the timer does, that every call ends, and that the client gets *)
(* what it was told in order when the timer is silent; and of              *)
(* FormatOutput, which every text passes before it comes to the buffer:    *)
(* that lines fit and that its loop ends.                                  *)
(***************************************************************************)
EXTENDS OutputBuffer, FormatOutput, SequenceTheorems, TLAPS

\* What size, at and pos are while buffer_add or a flush is under way.
Shape ==
    /\ size <= said
    /\ pc = "idle" => size = 0 /\ left = 0
    /\ pc \in {"copy", "advance"} =>
         size \in Text /\ left = 0 /\ at + size + 1 <= BUFFER_SIZE /\ pos + 2 <= BUFFER_SIZE
    /\ size > 0 /\ pc \in {"flush", "write", "clear"} => at = 0
    /\ leaving => size = 0
    /\ sent = 0 \/ pc = "write"

MemoryInv == TypeOK /\ Shape

USE DEF Other, Index

-----------------------------------------------------------------------------
(* The operators.                                                          *)

LEMMA BytesType ==
    ASSUME TypeOK, NEW a \in Nat, NEW n \in Nat
    PROVE  /\ Bytes(a, n) \in Seq(0..MaxSaid)
           /\ Len(Bytes(a, n)) = n
           /\ \A i \in 1..n : Bytes(a, n)[i] = IF a + i - 1 \in Index THEN out[a + i - 1] ELSE 0
<1> USE BufferAssumption
<1>1. Bytes(a, n) \in [1..n -> 0..MaxSaid]
  BY DEF Bytes, TypeOK
<1>2. Bytes(a, n) \in Seq(0..MaxSaid) /\ Len(Bytes(a, n)) = n
  BY <1>1, LenProperties
<1>3. QED
  BY <1>2 DEF Bytes

LEMMA AppendedType ==
    ASSUME TypeOK, NEW a \in Nat, NEW n \in Nat
    PROVE  client \o Bytes(a, n) \in Seq(0..MaxSaid)
BY BytesType, ConcatProperties DEF TypeOK

\* What client holds when n bytes have been written.
LEMMA Appended ==
    ASSUME TypeOK, NEW n \in Nat, sent \in Nat, client' = client \o Bytes(sent, n)
    PROVE  /\ DOMAIN client' = 1..Len(client) + n
           /\ \A i \in 1..Len(client) : client'[i] = client[i]
           /\ \A i \in Len(client) + 1..Len(client) + n :
                client'[i] = IF sent + i - Len(client) - 1 \in Index
                             THEN out[sent + i - Len(client) - 1] ELSE 0
<1>1. client \in Seq(0..MaxSaid) /\ Len(client) \in Nat
  BY DEF TypeOK
<1>. DEFINE s == Bytes(sent, n)
<1>2. /\ s \in Seq(0..MaxSaid) /\ Len(s) = n
      /\ \A m \in 1..n : s[m] = IF sent + m - 1 \in Index THEN out[sent + m - 1] ELSE 0
  BY BytesType
<1> HIDE DEF s
<1>3. Len(client \o s) = Len(client) + n /\ client \o s \in Seq(0..MaxSaid)
  BY <1>1, <1>2, ConcatProperties
<1>4. \A i \in 1..Len(client) + n :
         (client \o s)[i] = IF i <= Len(client) THEN client[i] ELSE s[i - Len(client)]
  BY <1>1, <1>2, ConcatProperties
<1>5. client' = client \o s
  BY DEF s
<1>6. DOMAIN client' = 1..Len(client) + n
  BY <1>3, <1>5
<1>7. \A i \in 1..Len(client) : client'[i] = client[i]
  BY <1>1, <1>4, <1>5
<1>8. ASSUME NEW i \in Len(client) + 1..Len(client) + n
      PROVE  client'[i] = IF sent + i - Len(client) - 1 \in Index
                          THEN out[sent + i - Len(client) - 1] ELSE 0
  <2>1. i - Len(client) \in 1..n /\ i \in 1..Len(client) + n /\ ~(i <= Len(client))
    BY <1>1
  <2>2. sent + (i - Len(client)) - 1 = sent + i - Len(client) - 1
    BY <1>1
  <2>3. QED
    BY <2>1, <2>2, <1>2, <1>4, <1>5
<1>9. QED
  BY <1>6, <1>7, <1>8

LEMMA CopiedType ==
    ASSUME TypeOK, NEW a \in Index, NEW n \in Nat, NEW b \in 0..MaxSaid,
           a + n + 1 <= BUFFER_SIZE, b = 0 \/ b + n - 1 <= MaxSaid
    PROVE  Copied(a, n, b) \in [Index -> 0..MaxSaid]
<1>1. ASSUME NEW i \in Index, i \in a..a + n - 1, b # 0
      PROVE  b + i - a \in 0..MaxSaid
  BY <1>1, BufferAssumption
<1>2. QED
  BY <1>1, BufferAssumption DEF Copied, TypeOK

-----------------------------------------------------------------------------
(* TypeOK and Fits.                                                        *)

LEMMA InitMemory == Init => MemoryInv
<1> SUFFICES ASSUME Init PROVE MemoryInv
  OBVIOUS
<1>1. client \in Seq(0..MaxSaid)
  BY DEF Init
<1>2. 0 \in Index /\ pos \in 0..2 * BUFFER_SIZE
  BY BufferAssumption DEF Init
<1>3. out \in [Index -> 0..MaxSaid] /\ 0 \in 0..MaxSaid /\ 0 \in 0..MaxAlarms
  BY BufferAssumption DEF Init
<1>4. TypeOK
  <2>1. said \in 0..MaxSaid /\ alarms \in 0..MaxAlarms
    BY <1>3 DEF Init
  <2>2. left \in 0..2 * BUFFER_SIZE /\ sent \in 0..left /\ at \in Index
    BY <1>2, BufferAssumption DEF Init
  <2>3. pc = "idle" /\ size = 0 /\ leaving = FALSE /\ short = FALSE /\ fresh = TRUE
    BY DEF Init
  <2>4. QED
    BY <1>1, <1>2, <1>3, <2>1, <2>2, <2>3 DEF TypeOK
<1>5. Shape
  BY BufferAssumption DEF Init, Shape
<1>6. QED
  BY <1>4, <1>5 DEF MemoryInv

LEMMA AddMemory ==
    ASSUME MemoryInv, NEW n \in Text, buffer_add(n)
    PROVE  MemoryInv'
<1>1. n \in Nat \ {0} /\ n + 1 < BUFFER_SIZE
  BY BufferAssumption
<1>2. said' \in 0..MaxSaid /\ size' \in {0} \cup Text /\ size' <= said'
  BY <1>1, BufferAssumption DEF buffer_add, MemoryInv, TypeOK, Shape
<1>3. at' \in Index
  BY <1>1, BufferAssumption DEF buffer_add, MemoryInv, TypeOK
<1>4. TypeOK'
  BY <1>2, <1>3 DEF buffer_add, buffer, MemoryInv, TypeOK
<1>5. Shape'
  BY <1>1, <1>2, BufferAssumption DEF buffer_add, buffer, MemoryInv, TypeOK, Shape
<1>6. QED
  BY <1>4, <1>5 DEF MemoryInv

LEMMA CopyMemory ==
    ASSUME MemoryInv, Copy
    PROVE  MemoryInv'
<1>1. size \in Nat \ {0} /\ size <= said /\ at + size + 1 <= BUFFER_SIZE /\ at \in Index
  BY BufferAssumption DEF Copy, MemoryInv, TypeOK, Shape
<1>2. said - size + 1 \in 0..MaxSaid /\ said - size + 1 + size - 1 <= MaxSaid
  BY <1>1, BufferAssumption DEF MemoryInv, TypeOK
<1>3. out' \in [Index -> 0..MaxSaid]
  BY <1>1, <1>2, CopiedType DEF Copy, MemoryInv
<1>4. TypeOK'
  BY <1>3 DEF Copy, call, history, MemoryInv, TypeOK
<1>5. Shape'
  BY DEF Copy, call, history, MemoryInv, Shape
<1>6. QED
  BY <1>4, <1>5 DEF MemoryInv

LEMMA WriteMemory ==
    ASSUME MemoryInv, NEW k \in 0..swBLOCKSIZE, sock_write(k)
    PROVE  MemoryInv'
<1>1. sent \in Nat /\ left \in Nat /\ k \in Nat /\ k <= left - sent
  BY BufferAssumption DEF sock_write, Block, Lesser, MemoryInv, TypeOK
<1>2. client' \in Seq(0..MaxSaid)
  BY <1>1, AppendedType DEF sock_write, MemoryInv
<1>3. sent' \in 0..left' /\ left' \in 0..2 * BUFFER_SIZE
  BY <1>1 DEF sock_write, MemoryInv, TypeOK
<1>4. pc' \in {"write", "clear"} /\ short' \in BOOLEAN
  BY DEF sock_write, MemoryInv, TypeOK
<1>5. TypeOK'
  BY <1>2, <1>3, <1>4 DEF sock_write, buffer, MemoryInv, TypeOK
<1>6. Shape'
  BY <1>4 DEF sock_write, buffer, MemoryInv, Shape
<1>7. QED
  BY <1>5, <1>6 DEF MemoryInv

LEMMA TimerMemory ==
    ASSUME MemoryInv, timer_tells
    PROVE  MemoryInv'
<1>. DEFINE start == IF pos + Alarm + 1 >= BUFFER_SIZE THEN 0 ELSE pos
<1>1. Alarm \in Nat \ {0} /\ Alarm + 1 < BUFFER_SIZE
  BY BufferAssumption
<1>2. start \in Index /\ start + Alarm + 2 <= BUFFER_SIZE
  BY <1>1, BufferAssumption DEF MemoryInv, TypeOK
<1>3. out' \in [Index -> 0..MaxSaid]
  <2>1. out' = Copied(start, Alarm, 0)
    BY DEF timer_tells
  <2>2. QED
    <3>1. 0 \in 0..MaxSaid /\ TypeOK /\ start + Alarm + 1 <= BUFFER_SIZE
      BY <1>1, <1>2, BufferAssumption DEF MemoryInv
    <3>2. QED
      BY <2>1, <3>1, <1>1, <1>2, CopiedType
<1>4. pos' = start + Alarm
  BY DEF timer_tells
<1>5. client' \in Seq(0..MaxSaid) /\ short' \in BOOLEAN
  <2>1. CASE UNCHANGED <<client, short>>
    BY <2>1 DEF MemoryInv, TypeOK
  <2>2. CASE \E k \in {0, pos} :
               client' = client \o Bytes(0, k) /\ short' = (short \/ k < pos)
    <3>1. PICK k \in {0, pos} : client' = client \o Bytes(0, k) /\ short' = (short \/ k < pos)
      BY <2>2
    <3>2. k \in Nat
      BY <3>1 DEF MemoryInv, TypeOK
    <3>3. QED
      BY <3>1, <3>2, AppendedType DEF MemoryInv, TypeOK
  <2>3. QED
    BY <2>1, <2>2 DEF timer_tells
<1>6. TypeOK'
  <2>1. pos' \in 0..2 * BUFFER_SIZE /\ alarms' \in 0..MaxAlarms
    BY <1>1, <1>2, <1>4, BufferAssumption DEF timer_tells, MemoryInv, TypeOK
  <2>2. QED
    BY <2>1, <1>3, <1>5 DEF timer_tells, call, MemoryInv, TypeOK
<1>7. Shape'
  <2>1. pos' + 2 <= BUFFER_SIZE \/ ~(pc \in {"copy", "advance"})
    BY <1>1, <1>2, <1>4
  <2>2. QED
    BY <1>1, <1>2, <1>4 DEF timer_tells, call, MemoryInv, Shape
<1>8. QED
  BY <1>6, <1>7 DEF MemoryInv

LEMMA ProgramMemory ==
    ASSUME MemoryInv, Advance \/ buffer_send \/ Clear \/ Sweep
    PROVE  MemoryInv'
<1>1. CASE Advance
  <2>1. pos' \in 0..2 * BUFFER_SIZE /\ at' \in Index
    BY <1>1, BufferAssumption DEF Advance, MemoryInv, TypeOK, Shape
  <2>2. TypeOK'
    BY <1>1, <2>1 DEF Advance, history, MemoryInv, TypeOK
  <2>3. Shape'
    BY <1>1 DEF Advance, history, MemoryInv, TypeOK, Shape
  <2>4. QED
    BY <2>2, <2>3 DEF MemoryInv
<1>2. CASE buffer_send
  <2>1. Return \in {"copy", "idle"} /\ (Return = "copy" <=> size > 0)
    BY DEF Return
  <2>2. TypeOK'
    BY <1>2, <2>1 DEF buffer_send, buffer, history, MemoryInv, TypeOK
  <2>3. Shape'
    <3>1. \/ size = 0
          \/ /\ size \in Text /\ at = 0 /\ size > 0
             /\ at + size + 1 <= BUFFER_SIZE /\ 0 + 2 <= BUFFER_SIZE
      BY <1>2, BufferAssumption DEF buffer_send, MemoryInv, TypeOK, Shape
    <3>2. pos \in Nat
      BY DEF MemoryInv, TypeOK
    <3>3. CASE pos = 0 /\ size > 0
      BY <1>2, <2>1, <3>1, <3>3 DEF buffer_send, buffer, history, MemoryInv, Shape
    <3>4. CASE pos = 0 /\ size = 0
      BY <1>2, <2>1, <3>4 DEF buffer_send, buffer, history, MemoryInv, Shape
    <3>5. CASE pos # 0
      BY <1>2, <3>5 DEF buffer_send, buffer, history, MemoryInv, Shape
    <3>6. QED
      BY <3>1, <3>3, <3>4, <3>5
  <2>4. QED
    BY <2>2, <2>3 DEF MemoryInv
<1>3. CASE Clear
  <2>1. Return \in {"copy", "idle"} /\ (Return = "copy" <=> size > 0)
    BY DEF Return
  <2>2. sent = 0 => TypeOK'
    BY <1>3, <2>1, BufferAssumption DEF Clear, history, MemoryInv, TypeOK
  <2>3. Shape'
    <3>1. \/ size = 0
          \/ /\ size \in Text /\ at = 0 /\ size > 0
             /\ at + size + 1 <= BUFFER_SIZE /\ 0 + 2 <= BUFFER_SIZE
      BY <1>3, BufferAssumption DEF Clear, MemoryInv, TypeOK, Shape
    <3>2. CASE size > 0
      BY <1>3, <2>1, <3>1, <3>2 DEF Clear, history, MemoryInv, Shape
    <3>3. CASE size = 0
      BY <1>3, <2>1, <3>3 DEF Clear, history, MemoryInv, Shape
    <3>4. QED
      BY <3>1, <3>2, <3>3
  <2>4. sent = 0
    BY <1>3 DEF Clear, MemoryInv, Shape
  <2>5. QED
    BY <2>2, <2>3, <2>4 DEF MemoryInv
<1>4. CASE Sweep
  <2>1. TypeOK'
    BY <1>4 DEF Sweep, buffer, call, history, MemoryInv, TypeOK
  <2>2. Shape'
    BY <1>4 DEF Sweep, buffer, call, history, MemoryInv, Shape
  <2>3. QED
    BY <2>1, <2>2 DEF MemoryInv
<1>5. QED
  BY <1>1, <1>2, <1>3, <1>4

LEMMA NewcomerMemory ==
    ASSUME MemoryInv, player_init
    PROVE  MemoryInv'
<1>1. out' \in [Index -> 0..MaxSaid] /\ said' \in 0..MaxSaid
  BY BufferAssumption DEF player_init
<1>2. client' \in Seq(0..MaxSaid)
  BY DEF player_init
<1>3. pos' \in 0..2 * BUFFER_SIZE /\ alarms' \in 0..MaxAlarms /\ fresh' \in BOOLEAN
  <2>1. CASE fresh' = FALSE /\ UNCHANGED <<pos, alarms>>
    BY <2>1 DEF MemoryInv, TypeOK
  <2>2. CASE fresh' = TRUE /\ pos' \in 0..BUFFER_SIZE + 1 /\ alarms' = 0
    BY <2>2, BufferAssumption
  <2>3. QED
    BY <2>1, <2>2 DEF player_init
<1>4. /\ UNCHANGED <<pc, size, at, left, sent>>
      /\ leaving' \in BOOLEAN /\ short' \in BOOLEAN /\ leaving' = FALSE
      /\ pc = "idle" /\ size = 0 /\ said' = 0
  BY DEF player_init, call, MemoryInv, Shape
<1>5. TypeOK'
  BY <1>1, <1>2, <1>3, <1>4 DEF MemoryInv, TypeOK
<1>6. Shape'
  BY <1>4 DEF MemoryInv, Shape
<1>7. QED
  BY <1>5, <1>6 DEF MemoryInv

LEMMA NextMemory == MemoryInv /\ [Next]_vars => MemoryInv'
<1> SUFFICES ASSUME MemoryInv, [Next]_vars PROVE MemoryInv'
  OBVIOUS
<1>1. ASSUME NEW n \in Text, buffer_add(n) PROVE MemoryInv'
  BY <1>1, AddMemory
<1>2. CASE Copy
  BY <1>2, CopyMemory
<1>3. CASE Advance \/ buffer_send \/ Clear \/ Sweep
  BY <1>3, ProgramMemory
<1>4. ASSUME NEW k \in 0..swBLOCKSIZE, sock_write(k) PROVE MemoryInv'
  BY <1>4, WriteMemory
<1>5. CASE player_init
  BY <1>5, NewcomerMemory
<1>6. CASE timer_tells
  BY <1>6, TimerMemory
<1>7. CASE UNCHANGED vars
  BY <1>7 DEF vars, buffer, call, history, MemoryInv, TypeOK, Shape
<1>8. QED
  BY <1>1, <1>2, <1>3, <1>4, <1>5, <1>6, <1>7 DEF Next, Program

LEMMA MemoryAlways == Spec => []MemoryInv
BY InitMemory, NextMemory, PTL DEF Spec

\* The variables of the buffer keep their ranges: pos, which the timer and the
\* program both add to, never gets to twice the buffer's size (src/buffer.c:42).
THEOREM OutputTypeOK == Spec => []TypeOK
<1>1. MemoryInv => TypeOK
  BY DEF MemoryInv
<1>2. QED
  BY <1>1, MemoryAlways, PTL

\* No copy of buffer_add leaves the buffer, whatever the timer's tell_player does
\* between the test and the copy, for buffers, texts and blocks of any size
\* (src/buffer.c:41).
THEOREM OutputFits == Spec => []Fits
<1>1. MemoryInv => Fits
  BY DEF MemoryInv, Shape, Fits
<1>2. QED
  BY <1>1, MemoryAlways, PTL

\* The statements a call may still execute, each byte of a write counted as one.
\* pos is not among them: while the buffer is flushed the timer may change it.
StatementsLeft ==
    CASE pc = "advance" -> 1
      [] pc = "copy"    -> 2
      [] pc = "clear"   -> 3
      [] pc = "write"   -> 4 + left - sent
      [] pc = "flush"   -> 5 + 2 * BUFFER_SIZE
      [] OTHER -> 0

LEMMA StatementUsed ==
    ASSUME MemoryInv, NEW k \in 0..swBLOCKSIZE,
           Copy \/ Advance \/ buffer_send \/ Clear \/ sock_write(k)
    PROVE  StatementsLeft' \in Nat /\ StatementsLeft' < StatementsLeft
<1> USE BufferAssumption
<1>0. pos \in 0..2 * BUFFER_SIZE /\ left \in 0..2 * BUFFER_SIZE /\ sent \in 0..left
      /\ BUFFER_SIZE \in Nat /\ swBLOCKSIZE \in Nat \ {0}
  BY DEF MemoryInv, TypeOK
<1>1. CASE Copy
  BY <1>1 DEF Copy, StatementsLeft
<1>2. CASE Advance
  BY <1>2 DEF Advance, StatementsLeft
<1>3. CASE Clear
  BY <1>3 DEF Clear, Return, StatementsLeft
<1>4. CASE buffer_send
  <2>1. /\ pc = "flush" /\ left' = pos /\ sent' = 0
        /\ pc' \in {"copy", "idle", "write"}
    BY <1>4 DEF buffer_send, Return
  <2>2. StatementsLeft = 5 + 2 * BUFFER_SIZE
    BY <2>1 DEF StatementsLeft
  <2>3. StatementsLeft' \in {0, 2, 4 + pos - 0}
    BY <2>1 DEF StatementsLeft
  <2> QED  BY <1>0, <2>2, <2>3
<1>5. CASE sock_write(k)
  <2>1. pc = "write" /\ left' = left
    BY <1>5 DEF sock_write
  <2>2. StatementsLeft = 4 + left - sent
    BY <2>1 DEF StatementsLeft
  <2>3. CASE k = Block /\ sent + k < left /\ sent' = sent + k /\ pc' = pc
    <3>1. k > 0
      BY <1>0, <2>3 DEF Block, Lesser
    <3>2. StatementsLeft' = 4 + left - (sent + k)
      BY <2>1, <2>3 DEF StatementsLeft
    <3> QED  BY <1>0, <2>2, <2>3, <3>1, <3>2
  <2>4. CASE pc' = "clear"
    <3>1. StatementsLeft' = 3
      BY <2>4 DEF StatementsLeft
    <3> QED  BY <1>0, <2>2, <3>1
  <2> QED  BY <1>5, <2>3, <2>4 DEF sock_write
<1> QED  BY <1>1, <1>2, <1>3, <1>4, <1>5

\* Every call of buffer_add and every flush ends: it begins with a number of
\* statements and bytes to write that only the buffer's size limits, each of its
\* steps leaves fewer, and what the timer tells meanwhile adds none, although it
\* moves the pos that buffer_send writes up to (src/buffer.c:52, src/socket.c:66).
THEOREM OutputShrinks ==
    Spec => [][/\ pc # "idle" /\ Program => StatementsLeft' < StatementsLeft
               /\ pc # "idle" /\ timer_tells => StatementsLeft' = StatementsLeft
               /\ pc = "idle" => StatementsLeft' <= 5 + 2 * BUFFER_SIZE
               /\ StatementsLeft' \in Nat]_vars
<1> DEFINE Shrinks == /\ pc # "idle" /\ Program => StatementsLeft' < StatementsLeft
                      /\ pc # "idle" /\ timer_tells => StatementsLeft' = StatementsLeft
                      /\ pc = "idle" => StatementsLeft' <= 5 + 2 * BUFFER_SIZE
                      /\ StatementsLeft' \in Nat
<1>1. ASSUME MemoryInv, MemoryInv', Next
      PROVE  Shrinks
  <2>0. BUFFER_SIZE \in Nat
    BY BufferAssumption
  <2>1. StatementsLeft' \in Nat
    <3>1. left' \in 0..2 * BUFFER_SIZE /\ sent' \in 0..left'
      BY <1>1 DEF MemoryInv, TypeOK
    <3>2. \/ StatementsLeft' \in {0, 1, 2, 3}
          \/ StatementsLeft' = 4 + left' - sent'
          \/ StatementsLeft' = 5 + 2 * BUFFER_SIZE
      BY DEF StatementsLeft
    <3>3. left' \in Nat /\ sent' \in Nat /\ sent' <= left'
      <4>1. \A l, d : l \in 0..2 * BUFFER_SIZE /\ d \in 0..l => l \in Nat /\ d \in Nat /\ d <= l
        BY <2>0
      <4> QED  BY <3>1, <4>1
    <3> QED  BY <2>0, <3>2, <3>3
  <2>2. pc # "idle" /\ Program => StatementsLeft' < StatementsLeft
    <3> SUFFICES ASSUME pc # "idle", Program PROVE StatementsLeft' < StatementsLeft
      OBVIOUS
    <3>1. PICK k \in 0..swBLOCKSIZE : Copy \/ Advance \/ buffer_send \/ Clear \/ sock_write(k)
      <4>1. 0 \in 0..swBLOCKSIZE
        BY BufferAssumption
      <4> QED  BY <4>1 DEF Program, buffer_add, Sweep
    <3> QED  BY <1>1, <3>1, StatementUsed
  <2>3. pc # "idle" /\ timer_tells => StatementsLeft' = StatementsLeft
    BY DEF timer_tells, call, StatementsLeft
  <2>4. pc = "idle" => StatementsLeft' <= 5 + 2 * BUFFER_SIZE
    <3> SUFFICES ASSUME pc = "idle" PROVE StatementsLeft' <= 5 + 2 * BUFFER_SIZE
      OBVIOUS
    <3>1. pc' \in {"idle", "flush", "copy"}
      BY <1>1 DEF Next, Program, buffer_add, Copy, Advance, buffer_send, Clear, Sweep,
                  sock_write, player_init, timer_tells
    <3>2. StatementsLeft' \in {0, 2, 5 + 2 * BUFFER_SIZE}
      BY <3>1 DEF StatementsLeft
    <3> QED  BY <2>0, <3>2
  <2> QED  BY <2>1, <2>2, <2>3, <2>4
<1>2. ASSUME MemoryInv, [Next]_vars
      PROVE  [Shrinks]_vars
  BY <1>1, <1>2, NextMemory
<1> QED  BY <1>2, MemoryAlways, PTL DEF Spec

-----------------------------------------------------------------------------
(* InOrder.  What the client has, and what is queued behind it, is in order *)
(* as long as the timer is silent.                                          *)

First == IF pc = "write" THEN sent ELSE 0
Beyond == IF pc = "clear" THEN 0 ELSE pos
Queued == {k \in Index : First <= k /\ k < Beyond}

SentOrder ==
    /\ \A i, j \in DOMAIN client :
          i < j /\ client[i] # 0 /\ client[j] # 0 => client[i] < client[j]
    /\ \A i \in DOMAIN client : client[i] <= said - size

QueuedOrder ==
    /\ \A k \in Queued : out[k] <= said - size
    /\ \A k, l \in Queued : k < l /\ out[k] # 0 /\ out[l] # 0 => out[k] < out[l]
    /\ \A i \in DOMAIN client, k \in Queued :
          client[i] # 0 /\ out[k] # 0 => client[i] < out[k]

Whole ==
    \/ fresh
    \/ /\ \A i \in DOMAIN client : client[i] # 0
       /\ \A k \in Queued : out[k] # 0
       /\ pos <= BUFFER_SIZE

Place ==
    /\ pc \in {"copy", "advance"} => at = pos
    /\ pc = "advance" => \A i \in at..at + size - 1 : out[i] = said - size + 1 + i - at
    /\ pc = "write" => left = pos
    /\ leaving /\ pc = "idle" => pos = 0

OrderInv == SentOrder /\ QueuedOrder /\ Whole /\ Place

Order == alarms = 0 => OrderInv

LEMMA AtMost ==
    ASSUME NEW a \in Int, NEW b \in Int, NEW c \in Int, NEW d \in Int, NEW e \in Int,
           e <= a - b, c - d >= a - b
    PROVE  e <= c - d
OBVIOUS

\* A step that neither writes nor copies keeps the order, if it queues nothing new.
LEMMA Kept ==
    ASSUME OrderInv, UNCHANGED <<out, client, fresh>>, Queued' \subseteq Queued,
           said' - size' >= said - size, said \in Int, size \in Int,
           said' \in Int, size' \in Int, TypeOK, pos' <= pos, pos' \in Nat
    PROVE  SentOrder' /\ QueuedOrder' /\ Whole'
<1>1. \A i \in DOMAIN client : client[i] \in Int
  BY BufferAssumption DEF TypeOK
<1>2. \A k \in Queued : out[k] \in Int
  BY BufferAssumption DEF TypeOK, Queued
<1>0. ASSUME NEW b \in Int, b <= said - size PROVE b <= said' - size'
  BY <1>0, AtMost
<1>3. SentOrder'
  <2>1. \A i \in DOMAIN client : client[i] <= said' - size'
    BY <1>0, <1>1 DEF OrderInv, SentOrder
  <2>2. QED
    BY <2>1 DEF OrderInv, SentOrder
<1>4. QueuedOrder'
  <2>1. \A k \in Queued : out[k] <= said' - size'
    BY <1>0, <1>2 DEF OrderInv, QueuedOrder
  <2>2. QED
    BY <2>1 DEF OrderInv, QueuedOrder
<1>5. Whole'
  BY BufferAssumption DEF OrderInv, Whole, TypeOK
<1>6. QED
  BY <1>3, <1>4, <1>5

LEMMA InitOrder == Init => Order
<1> SUFFICES ASSUME Init PROVE OrderInv
  BY DEF Order
<1>1. DOMAIN client = {} /\ \A k \in Queued : out[k] = 0
  BY DEF Init, Queued
<1>2. SentOrder /\ Whole /\ Place
  BY <1>1 DEF Init, SentOrder, Whole, Place
<1>3. QueuedOrder
  <2>1. said = 0 /\ size = 0
    BY DEF Init
  <2>2. \A k \in Queued : out[k] <= said - size
    BY <1>1, <2>1
  <2>3. QED
    BY <1>1, <2>2 DEF QueuedOrder
<1>4. QED
  BY <1>2, <1>3 DEF OrderInv

LEMMA AddOrder ==
    ASSUME MemoryInv, OrderInv, NEW n \in Text, buffer_add(n)
    PROVE  OrderInv'
<1>1. Queued' \subseteq Queued
  BY DEF buffer_add, buffer, Queued, First, Beyond
<1>2. n \in Nat /\ size = 0 /\ said \in Nat /\ said' = said + n /\ size' = n /\ pos' = pos /\ pos \in Nat
  BY BufferAssumption DEF buffer_add, buffer, MemoryInv, TypeOK, Shape
<1>3. SentOrder' /\ QueuedOrder' /\ Whole'
  BY <1>1, <1>2, Kept DEF buffer_add, buffer, MemoryInv
<1>4. Place'
  BY DEF buffer_add, buffer, Place
<1>5. QED
  BY <1>3, <1>4 DEF OrderInv

LEMMA CopyOrder ==
    ASSUME MemoryInv, OrderInv, Copy
    PROVE  OrderInv'
<1>1. /\ size \in Nat \ {0} /\ size <= said /\ said \in Nat /\ pos \in Nat
      /\ at = pos /\ at + size + 1 <= BUFFER_SIZE
  BY BufferAssumption DEF Copy, MemoryInv, TypeOK, Shape, OrderInv, Place
<1>2. Queued' = Queued /\ \A k \in Queued : k \in Index /\ k < pos
  BY DEF Copy, call, Queued, First, Beyond
<1>3. \A k \in Queued : out'[k] = out[k]
  BY <1>1, <1>2, BufferAssumption DEF Copy, Copied
<1>4. UNCHANGED <<client, said, size, fresh, pos, at, leaving>>
  BY DEF Copy, call, history
<1>5. SentOrder' /\ QueuedOrder' /\ Whole'
  BY <1>2, <1>3, <1>4 DEF OrderInv, SentOrder, QueuedOrder, Whole
<1>6. Place'
  <2>1. said - size + 1 # 0
    BY <1>1
  <2>2. \A i \in at..at + size - 1 : i \in Index /\ out'[i] = said - size + 1 + i - at
    BY <2>1, <1>1, BufferAssumption DEF Copy, Copied
  <2>3. QED
    BY <2>2, <1>1, <1>4 DEF Copy, Place
<1>7. QED
  BY <1>5, <1>6 DEF OrderInv

LEMMA AdvanceOrder ==
    ASSUME MemoryInv, OrderInv, Advance
    PROVE  OrderInv'
<1>1. /\ size \in Nat \ {0} /\ size <= said /\ said \in Nat /\ pos \in Nat
      /\ at = pos /\ at + size + 1 <= BUFFER_SIZE /\ BUFFER_SIZE \in Nat
  BY BufferAssumption DEF Advance, MemoryInv, TypeOK, Shape, OrderInv, Place
<1>2. UNCHANGED <<out, client, said, fresh, leaving>> /\ size' = 0 /\ pos' = pos + size
  BY DEF Advance, history
<1>3. \A k \in Queued' : k \in Queued \/ k \in at..at + size - 1
  BY <1>1, <1>2 DEF Advance, Queued, First, Beyond
<1>4. \A k \in at..at + size - 1 : out[k] = said - size + 1 + k - at
  BY DEF Advance, OrderInv, Place
<1>5. \A k \in Queued : k \in Int /\ out[k] \in Int /\ out[k] <= said - size /\ k < pos
  BY BufferAssumption DEF Advance, MemoryInv, TypeOK, OrderInv, QueuedOrder, Queued, Beyond
<1>6. \A i \in DOMAIN client : client[i] \in Int /\ client[i] <= said - size
  BY BufferAssumption DEF MemoryInv, TypeOK, OrderInv, SentOrder
<1>7. SentOrder'
  BY <1>1, <1>2, <1>6 DEF OrderInv, SentOrder
<1>8. QueuedOrder'
  <2>1. ASSUME NEW k \in Queued' PROVE out[k] <= said
    BY <1>1, <1>3, <1>4, <1>5
  <2>2. ASSUME NEW k \in Queued', NEW l \in Queued', k < l, out[k] # 0, out[l] # 0
        PROVE  out[k] < out[l]
    <3>1. CASE k \in Queued /\ l \in Queued
      BY <2>2, <3>1 DEF OrderInv, QueuedOrder
    <3>2. CASE k \in Queued /\ l \in at..at + size - 1
      BY <3>2, <1>1, <1>4, <1>5
    <3>3. CASE k \in at..at + size - 1 /\ l \in Queued
      BY <2>2, <3>3, <1>1, <1>5
    <3>4. CASE k \in at..at + size - 1 /\ l \in at..at + size - 1
      BY <2>2, <3>4, <1>1, <1>4
    <3>5. QED
      BY <1>3, <3>1, <3>2, <3>3, <3>4
  <2>3. ASSUME NEW i \in DOMAIN client, NEW k \in Queued', client[i] # 0, out[k] # 0
        PROVE  client[i] < out[k]
    <3>1. CASE k \in Queued
      BY <2>3, <3>1 DEF OrderInv, QueuedOrder
    <3>2. CASE k \in at..at + size - 1
      BY <3>2, <1>1, <1>4, <1>6
    <3>3. QED
      BY <1>3, <3>1, <3>2
  <2>4. QED
    BY <1>1, <1>2, <2>1, <2>2, <2>3 DEF QueuedOrder
<1>9. Whole'
  BY <1>1, <1>2, <1>3, <1>4 DEF OrderInv, Whole
<1>10. Place'
  <2>1. leaving = FALSE
    BY <1>1 DEF MemoryInv, TypeOK, Shape
  <2>2. QED
    BY <1>2, <2>1 DEF Advance, Place
<1>11. QED
  BY <1>7, <1>8, <1>9, <1>10 DEF OrderInv

\* The bytes a write takes are the first that are queued.
LEMMA WriteOrder ==
    ASSUME MemoryInv, OrderInv, NEW n \in 0..swBLOCKSIZE, sock_write(n)
    PROVE  OrderInv'
<1>. DEFINE L == Len(client)
<1>1. /\ sent \in Nat /\ left \in Nat /\ n \in Nat /\ sent + n <= left /\ left = pos
      /\ pos \in Nat /\ L \in Nat /\ DOMAIN client = 1..L /\ BUFFER_SIZE \in Nat
      /\ said \in Nat /\ size \in Int /\ size <= said
  BY BufferAssumption DEF sock_write, Block, Lesser, MemoryInv, TypeOK, Shape, OrderInv, Place
<1>2. UNCHANGED <<out, pos, size, at, left, leaving, said, fresh>> /\ pc = "write"
  BY DEF sock_write, buffer
<1>3. /\ DOMAIN client' = 1..L + n
      /\ \A i \in 1..L : client'[i] = client[i]
      /\ \A i \in L + 1..L + n :
           client'[i] = IF sent + i - L - 1 \in Index THEN out[sent + i - L - 1] ELSE 0
  <2>1. client' = client \o Bytes(sent, n) /\ TypeOK
    BY DEF sock_write, MemoryInv
  <2>2. sent \in Nat /\ n \in Nat
    BY <1>1
  <2>3. QED
    BY <2>1, <2>2, Appended
<1> HIDE DEF L
<1>4. Queued = {k \in Index : sent <= k /\ k < pos}
  BY <1>2 DEF Queued, First, Beyond
<1>. DEFINE q(i) == sent + i - L - 1
<1>5. ASSUME NEW i \in L + 1..L + n
      PROVE  /\ q(i) \in Int /\ q(i) < sent + n /\ q(i) >= sent
             /\ q(i) \in Index => q(i) \in Queued
             /\ client'[i] = IF q(i) \in Index THEN out[q(i)] ELSE 0
  BY <1>1, <1>3, <1>4
<1>6. ASSUME NEW i \in DOMAIN client' PROVE i \in DOMAIN client \/ i \in L + 1..L + n
  BY <1>1, <1>3
<1>7. ASSUME NEW i \in DOMAIN client', NEW j \in DOMAIN client', i < j,
             client'[i] # 0, client'[j] # 0
      PROVE  client'[i] < client'[j]
  <2>1. CASE i \in DOMAIN client /\ j \in DOMAIN client
    BY <1>1, <1>3, <1>7, <2>1 DEF OrderInv, SentOrder
  <2>2. CASE i \in DOMAIN client /\ j \in L + 1..L + n
    <3>1. q(j) \in Queued /\ client'[j] = out[q(j)]
      BY <1>5, <1>7, <2>2
    <3>2. QED
      BY <1>1, <1>3, <1>7, <2>2, <3>1 DEF OrderInv, QueuedOrder
  <2>3. CASE i \in L + 1..L + n /\ j \in L + 1..L + n
    <3>1. q(i) \in Queued /\ client'[i] = out[q(i)] /\ q(j) \in Queued /\ client'[j] = out[q(j)]
      BY <1>5, <1>7, <2>3
    <3>2. q(i) < q(j)
      BY <1>1, <1>7, <2>3
    <3>3. QED
      BY <1>7, <3>1, <3>2 DEF OrderInv, QueuedOrder
  <2>4. CASE i \in L + 1..L + n /\ j \in DOMAIN client
    BY <1>1, <1>7, <2>4
  <2>5. QED
    BY <1>6, <2>1, <2>2, <2>3, <2>4
<1>8. ASSUME NEW i \in DOMAIN client' PROVE client'[i] <= said - size
  <2>1. CASE i \in DOMAIN client
    BY <1>1, <1>3, <2>1 DEF OrderInv, SentOrder
  <2>2. CASE i \in L + 1..L + n
    <3>1. 0 <= said - size
      BY <1>1
    <3>2. QED
      BY <1>5, <2>2, <3>1 DEF OrderInv, QueuedOrder
  <2>3. QED
    BY <1>6, <2>1, <2>2
<1>9. SentOrder'
  BY <1>2, <1>7, <1>8 DEF SentOrder
<1>10. Queued' \subseteq Queued
  BY <1>1, <1>2, <1>4 DEF sock_write, Queued, First, Beyond
<1>11. ASSUME NEW i \in DOMAIN client', NEW k \in Queued', client'[i] # 0, out[k] # 0
       PROVE  client'[i] < out[k]
  <2>1. CASE i \in DOMAIN client
    BY <1>1, <1>3, <1>10, <1>11, <2>1 DEF OrderInv, QueuedOrder
  <2>2. CASE i \in L + 1..L + n
    <3>1. k \in Queued /\ sent + n <= k
      BY <1>1, <1>2, <1>10 DEF sock_write, Queued, First, Beyond
    <3>2. q(i) \in Queued /\ client'[i] = out[q(i)] /\ q(i) < k
      BY <1>1, <1>4, <1>5, <1>11, <2>2, <3>1
    <3>3. QED
      BY <1>11, <3>1, <3>2 DEF OrderInv, QueuedOrder
  <2>3. QED
    BY <1>6, <2>1, <2>2
<1>12. QueuedOrder'
  BY <1>2, <1>10, <1>11 DEF OrderInv, QueuedOrder
<1>13. Whole'
  <2>1. CASE fresh
    BY <1>2, <2>1 DEF Whole
  <2>2. CASE ~fresh
    <3>1. /\ \A i \in DOMAIN client : client[i] # 0
          /\ \A k \in Queued : out[k] # 0 /\ pos <= BUFFER_SIZE
          /\ pos <= BUFFER_SIZE
      BY <2>2 DEF OrderInv, Whole
    <3>2. ASSUME NEW i \in L + 1..L + n PROVE client'[i] # 0
      BY <1>1, <1>5, <3>1, <3>2
    <3>3. \A i \in DOMAIN client' : client'[i] # 0
      BY <1>1, <1>3, <1>6, <3>1, <3>2
    <3>4. QED
      BY <1>2, <1>10, <3>1, <3>3 DEF Whole
  <2>3. QED
    BY <2>1, <2>2
<1>14. Place'
  BY <1>1, <1>2 DEF sock_write, Place
<1>15. QED
  BY <1>9, <1>12, <1>13, <1>14 DEF OrderInv

LEMMA FlushOrder ==
    ASSUME MemoryInv, OrderInv, buffer_send \/ Clear \/ Sweep
    PROVE  OrderInv'
<1>1. said \in Int /\ size \in Int /\ pos \in Nat /\ BUFFER_SIZE \in Nat
  BY BufferAssumption DEF MemoryInv, TypeOK
<1>2. /\ UNCHANGED <<out, client, fresh, said, size, at>>
      /\ pos' \in Nat /\ pos' <= pos
  BY <1>1 DEF buffer_send, Clear, Sweep, buffer, call, history
<1>3. Queued' \subseteq Queued
  <2>1. CASE buffer_send
    BY <2>1, <1>1 DEF buffer_send, buffer, Return, Queued, First, Beyond
  <2>2. CASE Clear
    <3>1. Queued' = {}
      BY <2>2 DEF Clear, Return, Queued, First, Beyond
    <3>2. QED
      BY <3>1
  <2>3. CASE Sweep
    BY <2>3 DEF Sweep, buffer, call, Queued, First, Beyond
  <2>4. QED
    BY <2>1, <2>2, <2>3
<1>4. SentOrder' /\ QueuedOrder' /\ Whole'
  BY <1>1, <1>2, <1>3, Kept DEF MemoryInv
<1>5. Place'
  <2>1. CASE buffer_send
    BY <2>1 DEF buffer_send, buffer, Return, MemoryInv, Shape, Place
  <2>2. CASE Clear
    BY <2>2 DEF Clear, Return, MemoryInv, Shape, Place
  <2>3. CASE Sweep
    BY <2>3, <1>1 DEF Sweep, buffer, call, Place
  <2>4. QED
    BY <2>1, <2>2, <2>3
<1>6. QED
  BY <1>4, <1>5 DEF OrderInv

LEMMA NewcomerOrder ==
    ASSUME MemoryInv, Order, player_init
    PROVE  Order'
<1> SUFFICES ASSUME alarms' = 0 PROVE OrderInv'
  BY DEF Order
<1>1. DOMAIN client' = {} /\ leaving' = FALSE /\ pc' = "idle" /\ said' = 0 /\ size' = 0
  BY DEF player_init, call, MemoryInv, Shape
<1>2. \A k \in Queued' : out'[k] = 0
  BY DEF player_init, Queued
<1>3. fresh' \/ (pos' = 0 /\ Queued' = {})
  <2>1. CASE fresh' = FALSE /\ UNCHANGED <<pos, alarms>>
    <3>1. pos = 0
      BY <2>1 DEF player_init, Order, OrderInv, Place
    <3>2. QED
      BY <2>1, <3>1, <1>1 DEF Queued, First, Beyond
  <2>2. QED
    BY <2>1 DEF player_init
<1>4. SentOrder' /\ Place'
  BY <1>1 DEF SentOrder, Place
<1>5. QueuedOrder'
  <2>1. \A k \in Queued' : out'[k] <= said' - size'
    BY <1>1, <1>2
  <2>2. QED
    BY <1>1, <1>2, <2>1 DEF QueuedOrder
<1>6. Whole'
  BY <1>1, <1>3, BufferAssumption DEF Whole
<1>7. QED
  BY <1>4, <1>5, <1>6 DEF OrderInv

LEMMA NextOrder == MemoryInv /\ Order /\ [Next]_vars => Order'
<1> SUFFICES ASSUME MemoryInv, Order, [Next]_vars PROVE Order'
  OBVIOUS
<1>1. CASE Program
  <2>1. alarms' = alarms
    BY <1>1 DEF Program, buffer_add, Copy, Advance, buffer_send, Clear, Sweep, sock_write, history
  <2>2. SUFFICES ASSUME alarms = 0, OrderInv PROVE OrderInv'
    BY <2>1 DEF Order
  <2>3. QED
    BY <1>1, <2>2, AddOrder, CopyOrder, AdvanceOrder, WriteOrder, FlushOrder DEF Program
<1>2. CASE player_init
  BY <1>2, NewcomerOrder
<1>3. CASE timer_tells
  BY <1>3 DEF timer_tells, MemoryInv, TypeOK, Order
<1>4. CASE UNCHANGED vars
  BY <1>4 DEF vars, buffer, call, history, Order, OrderInv, SentOrder, QueuedOrder, Whole, Place,
              Queued, First, Beyond
<1>5. QED
  BY <1>1, <1>2, <1>3, <1>4 DEF Next

\* When the timer is silent a client gets what it was told in order, nothing twice
\* and nothing else, whatever the writes take: the bytes sent, those queued and those
\* yet to be told are one rising series (src/buffer.c:52, src/socket.c:66).
THEOREM OutputInOrder == Spec => []InOrder
<1>1. Init => Order
  BY InitOrder
<1>2. MemoryInv /\ Order /\ [Next]_vars => Order'
  BY NextOrder
<1>3. Order => InOrder
  BY DEF Order, OrderInv, SentOrder, Whole, InOrder
<1>4. QED
  BY <1>1, <1>2, <1>3, MemoryAlways, PTL DEF Spec


-----------------------------------------------------------------------------
(* FormatOutput: that lines fit, for screens of any width from 10, prompts *)
(* and texts of any length.                                                *)

\* How the column is tied to count, which the code compares: what stands before the
\* text on its line is the prompt, or the space put in, and the rest of a sequence that
\* was begun is counted already.
FitInv ==
    WW /\ shown < width =>
        /\ prompt = 0 => count <= width - 2 /\ col <= count + 1 + colours + pending
        /\ prompt > 0 => count <= width - 1 - prompt /\ col <= count + prompt + colours + pending
        /\ col < width + colours

FormatInv == FTypeOK /\ FitInv

LEMMA InitFormat == ASSUME FInit PROVE FormatInv
<1>1. width \in Nat /\ width >= 10 /\ shown \in Nat
  BY WidthAssumption, ShownAssumption DEF FInit
<1>2. FTypeOK
  <2>1. prompt \in {0, shown} /\ count \in Int /\ pending \in 0..3 /\ rest \in 0..MaxText
    BY TextAssumption DEF FInit
  <2>2. col \in Nat /\ colours \in Nat
    BY <1>1 DEF FInit
  <2>3. char \in Kind \cup {"part", "end"} /\ (char = "part" <=> pending > 0)
    BY DEF FInit, Kind
  <2>4. WW \in BOOLEAN
    BY Zenon DEF FInit
  <2>5. width \in Width /\ shown \in Shown
    BY DEF FInit
  <2>6. QED
    BY <2>1, <2>2, <2>3, <2>4, <2>5 DEF FTypeOK
<1>3. FitInv
  BY <1>1 DEF FInit, FitInv
<1>4. QED
  BY <1>2, <1>3 DEF FormatInv

LEMMA StepTypes ==
    ASSUME FTypeOK, Step, pending' \in 0..3
    PROVE  /\ char' \in Kind \cup {"part", "end"}
           /\ char' = "part" <=> pending' > 0
           /\ rest' \in 0..MaxText
BY TextAssumption DEF FTypeOK, Step, Kind

LEMMA Numbers ==
    ASSUME FTypeOK
    PROVE  /\ width \in Nat /\ width >= 10 /\ shown \in Nat
           /\ prompt \in Nat /\ count \in Int /\ pending \in 0..3
           /\ col \in Nat /\ colours \in Nat
           /\ char \in {"plain", "return", "newline", "reset", "colour", "iac"} => pending = 0
BY WidthAssumption, ShownAssumption DEF FTypeOK

LEMMA EscapeKeeps == ASSUME FormatInv, Escape PROVE FormatInv'
<1>1. FTypeOK /\ FitInv
  BY DEF FormatInv
<1>2. UNCHANGED <<width, WW, shown, prompt, col>> /\ Step
  BY DEF Escape, given
<1>3. \/ pending' = 0 /\ count' = count /\ colours' = colours /\ pending = 0
      \/ pending' = 3 /\ count' = count - 4 /\ colours' = colours + 1 /\ pending = 0
  BY <1>1, Numbers DEF Escape
<1>4. FTypeOK'
  BY <1>1, <1>2, <1>3, StepTypes, Numbers DEF FTypeOK
<1>5. FitInv'
  BY <1>1, <1>2, <1>3, Numbers DEF FitInv
<1>6. QED
  BY <1>4, <1>5 DEF FormatInv

LEMMA NewlineKeeps == ASSUME FormatInv, Newline PROVE FormatInv'
<1>1. FTypeOK /\ FitInv
  BY DEF FormatInv
<1>2. /\ UNCHANGED <<width, WW, shown, prompt>> /\ Step
      /\ count' = 0 /\ col' = 0 /\ colours' = 0 /\ pending' = 0
  BY DEF Newline, given
<1>3. FTypeOK'
  BY <1>1, <1>2, StepTypes, Numbers DEF FTypeOK
<1>4. FitInv'
  BY <1>1, <1>2, Numbers DEF FitInv, FTypeOK
<1>5. QED
  BY <1>3, <1>4 DEF FormatInv

LEMMA WrapKeeps == ASSUME FormatInv, Wrap PROVE FormatInv'
<1>1. FTypeOK /\ FitInv
  BY DEF FormatInv
<1>2. /\ UNCHANGED <<width, WW, shown, char, pending, rest>>
      /\ prompt' = 0 /\ count' = 0 /\ col' = 1 /\ colours' = 0
  BY DEF Wrap, given
<1>4. FTypeOK'
  BY <1>1, <1>2 DEF FTypeOK
<1>5. FitInv'
  BY <1>1, <1>2, Numbers DEF FitInv
<1>6. QED
  BY <1>4, <1>5 DEF FormatInv

\* A character that takes a column is taken when the line is not full.
LEMMA DefaultKeeps == ASSUME FormatInv, Default PROVE FormatInv'
<1>1. FTypeOK /\ FitInv
  BY DEF FormatInv
<1>2. /\ UNCHANGED <<width, WW, shown, prompt, colours>> /\ Step
      /\ count' = count + 1 /\ ~(WW /\ Full)
  BY DEF Default, given
<1>3. \/ col' = col + 1 /\ pending' = 0 /\ pending = 0
      \/ col' = 0 /\ pending' = 0 /\ pending = 0
      \/ col' = col /\ pending' = 1 /\ pending = 0
      \/ col' = col /\ pending' = pending - 1 /\ pending > 0
  BY <1>1, Numbers DEF Default, FTypeOK
<1>4. pending' \in 0..3 /\ col' \in Nat
  BY <1>1, <1>3, Numbers
<1>5. FTypeOK'
  BY <1>1, <1>2, <1>4, StepTypes, Numbers DEF FTypeOK
<1>6. ASSUME WW, shown < width PROVE FitInv'
  <2>1. prompt = 0 => count + 1 <= width - 2
    BY <1>1, <1>2, <1>6, Numbers DEF FitInv, Full
  <2>2. prompt > 0 => count + 1 <= width - 1 - prompt
    BY <1>1, <1>2, <1>6, Numbers DEF FitInv, Full
  <2>3. QED
    BY <1>1, <1>2, <1>3, <1>6, <2>1, <2>2, Numbers DEF FitInv
<1>7. FitInv'
  BY <1>2, <1>6 DEF FitInv
<1>8. QED
  BY <1>5, <1>7 DEF FormatInv

LEMMA FormatAlways == FSpec => []FormatInv
<1>1. FInit => FormatInv
  BY InitFormat
<1>2. FormatInv /\ [FNext]_fvars => FormatInv'
  <2>1. FormatInv /\ UNCHANGED fvars => FormatInv'
    BY DEF FormatInv, FTypeOK, FitInv, fvars, given
  <2>2. QED
    BY <2>1, EscapeKeeps, NewlineKeeps, WrapKeeps, DefaultKeeps DEF FNext, format_output
<1>3. QED
  BY <1>1, <1>2, PTL DEF FSpec

\* The variables of format_output keep their types: no more of a sequence is pending than
\* its three last characters, and the prompt is the one the call was given, or 0.
THEOREM FormatTypeOK == FSpec => []FTypeOK
<1>1. FormatInv => FTypeOK
  BY DEF FormatInv
<1>2. QED
  BY <1>1, FormatAlways, PTL

\* Word wrap keeps lines within the screen, up to a column for each colour.
THEOREM FormatLinesFit == FSpec => []LinesFit
<1>1. FormatInv => LinesFit
  BY DEF FormatInv, FitInv, LinesFit
<1>2. QED
  BY <1>1, FormatAlways, PTL


-----------------------------------------------------------------------------
(* That the loop of format_output ends.  "It ends" needs fairness; that it *)
(* cannot go on for ever is a measure that every turn lowers.              *)

\* Turns that one character may still take, those put in for it apart: a colour and an
\* IAC are longer than they look.
Ahead == [c \in Kind \cup {"part", "end"} |->
            CASE c = "colour" -> 4 [] c = "iac" -> 2 [] c \in {"part", "end"} -> 0 [] OTHER -> 1]

\* Characters of the text to come, at the most.
Remaining == pending + Ahead[char] + 5 * rest

\* A full line is wrapped, and then the same character is passed, where the width leaves
\* room for it.
WrapNext == IF WW /\ Full THEN 1 ELSE 0

TurnsLeft == 2 * Remaining + WrapNext

LEMMA AheadFacts ==
    /\ Ahead["colour"] = 4 /\ Ahead["iac"] = 2 /\ Ahead["part"] = 0 /\ Ahead["end"] = 0
    /\ Ahead["plain"] = 1 /\ Ahead["return"] = 1 /\ Ahead["newline"] = 1 /\ Ahead["reset"] = 1
    /\ \A c \in Kind \cup {"part", "end"} : Ahead[c] \in 0..4
BY DEF Ahead, Kind

LEMMA RemainingType == ASSUME FTypeOK PROVE Remaining \in Nat
<1>1. pending \in 0..3 /\ Ahead[char] \in 0..4 /\ rest \in Nat
  BY TextAssumption, AheadFacts DEF FTypeOK
<1>2. QED
  BY <1>1 DEF Remaining

\* Passing a character uses it up, whatever comes behind it.
LEMMA StepUses ==
    ASSUME FTypeOK, Step, pending' \in 0..3,
           \/ char \in {"plain", "return", "newline", "reset"} /\ pending' = 0
           \/ char = "colour" /\ pending' = 3
           \/ char = "iac" /\ pending' = 1
           \/ char = "part" /\ pending' = pending - 1
    PROVE  Remaining' < Remaining
<1>1. /\ pending \in 0..3 /\ rest \in Nat /\ rest' \in Nat /\ Ahead[char] \in 0..4
      /\ char = "part" <=> pending > 0
  BY TextAssumption, AheadFacts, StepTypes DEF FTypeOK
<1>2. pending' < pending + Ahead[char]
  BY <1>1, AheadFacts
<1>3. CASE pending' > 0 /\ char' = "part" /\ rest' = rest
  <2>1. Ahead[char'] = 0
    BY <1>3, AheadFacts
  <2>2. QED
    BY <1>1, <1>2, <1>3, <2>1 DEF Remaining
<1>4. CASE pending' = 0 /\ rest > 0 /\ char' \in Kind /\ rest' = rest - 1
  <2>1. Ahead[char'] \in 0..4
    BY <1>4, AheadFacts
  <2>2. QED
    BY <1>1, <1>4, <2>1 DEF Remaining
<1>5. CASE pending' = 0 /\ char' = "end" /\ rest' = rest
  <2>1. Ahead[char'] = 0
    BY <1>5, AheadFacts
  <2>2. QED
    BY <1>1, <1>2, <1>5, <2>1 DEF Remaining
<1>6. QED
  BY <1>3, <1>4, <1>5 DEF Step

\* Every turn of the loop lowers TurnsLeft, which is a natural number: format_output ends,
\* for every text, every prompt and every width from 10 (src/pseudo-stream.c:56; with a
\* width of 2 an empty line would be full and be wrapped again and again).
THEOREM FormatShrinks == FSpec => [][TurnsLeft' < TurnsLeft /\ TurnsLeft' \in Nat]_fvars
<1>1. ASSUME FTypeOK, FTypeOK', FNext
      PROVE  TurnsLeft' < TurnsLeft /\ TurnsLeft' \in Nat
  <2>1. Remaining \in Nat /\ Remaining' \in Nat
    <3>1. FTypeOK => Remaining \in Nat
      BY RemainingType
    <3>2. Remaining \in Nat
      BY <1>1, <3>1
    <3>3. pending' \in 0..3 /\ Ahead[char'] \in 0..4 /\ rest' \in Nat
      BY <1>1, TextAssumption, AheadFacts DEF FTypeOK
    <3>4. QED
      BY <3>2, <3>3 DEF Remaining
  <2>2. ASSUME Remaining' < Remaining
        PROVE  TurnsLeft' < TurnsLeft /\ TurnsLeft' \in Nat
    <3>1. WrapNext \in {0, 1} /\ WrapNext' \in {0, 1}
      BY DEF WrapNext
    <3>2. \A a, b \in Nat : \A x, y \in {0, 1} :
            b < a => 2 * b + y < 2 * a + x /\ 2 * b + y \in Nat
      OBVIOUS
    <3>3. QED
      BY <2>1, <2>2, <3>1, <3>2 DEF TurnsLeft
  <2>3. CASE Escape \/ Newline
    <3>1. Step /\ pending' \in 0..3
          /\ \/ char \in {"newline", "reset"} /\ pending' = 0
             \/ char = "colour" /\ pending' = 3
      BY <2>3, <1>1 DEF Escape, Newline, FTypeOK
    <3>2. QED
      BY <1>1, <2>2, <3>1, StepUses
  <2>4. CASE Default
    <3>1. Step /\ pending' \in 0..3
          /\ \/ char \in {"plain", "return"} /\ pending' = 0
             \/ char = "iac" /\ pending' = 1
             \/ char = "part" /\ pending' = pending - 1
      BY <2>4, <1>1 DEF Default, FTypeOK
    <3>2. QED
      BY <1>1, <2>2, <3>1, StepUses
  <2>5. CASE Wrap
    <3>1. WW /\ Full /\ WW' = WW /\ width' = width /\ prompt' = 0 /\ count' = 0
          /\ Remaining' = Remaining
      BY <2>5 DEF Wrap, given, Remaining
    <3>2. width \in Nat /\ width >= 10
      BY <1>1, Numbers
    <3>3. ~Full'
      BY <3>1, <3>2 DEF Full
    <3>4. WrapNext = 1 /\ WrapNext' = 0
      BY <3>1, <3>3 DEF WrapNext
    <3>5. QED
      BY <2>1, <3>1, <3>4 DEF TurnsLeft
  <2>6. QED
    BY <1>1, <2>3, <2>4, <2>5 DEF FNext, format_output
<1>2. QED
  BY <1>1, FormatTypeOK, PTL DEF FSpec
=============================================================================
