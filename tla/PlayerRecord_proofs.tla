------------------------ MODULE PlayerRecord_proofs ------------------------
(***************************************************************************)
(* What TLAPS proves of PlayerRecord: that reading a record undoes writing *)
(* it, that no record leaves a player without a prompt, and that no client *)
(* and no command gets the width out of range; for any names, any records  *)
(* people write and any widths clients send.                               *)
(***************************************************************************)
EXTENDS PlayerRecord, SequenceTheorems, WellFoundedInduction, TLAPS

\* What a line may hold, also when it is damaged.
GoodLine(l) ==
    /\ l.key \in {"flags", "name", "title", "prompt"}
    /\ l.key = "flags" => l.form = "whole" /\ l.data \subseteq Flag
    /\ l.key = "name" => l.form = "whole" /\ l.data \in Name
    /\ l.key = "title" => l.data \in Title
    /\ l.key = "prompt" => l.form = "empty" \/ l.data \in Prompt \ {Empty}

GoodRecord(r) ==
    /\ Len(r) \in Nat /\ DOMAIN r = 1..Len(r)
    /\ \A i \in DOMAIN r : GoodLine(r[i])

FilesInv == \A n \in Name : files[n] # NULL => GoodRecord(files[n])

\* run_command: where the prompt is.
PromptInv ==
    /\ ~in => step = "idle"
    /\ step = "idle" => pr = NULL
    /\ pr = NULL => prompt # Empty
    /\ pr # NULL => pr # Empty
    /\ step = "command" => (pr # NULL <=> "WRAP_PROMPT" \in flags)

\* What save wrote under a name is still there.
Written(f, n, t, p) == <<Line("flags", f), Text("name", n), Text("title", t), Text("prompt", p)>>

SavedInv ==
    \A n \in Name : saved[n] # NULL =>
        /\ n # Empty
        /\ saved[n].flags \subseteq Flag /\ saved[n].title \in Title
        /\ saved[n].prompt \in Prompt \ {Empty}
        /\ \E p \in Prompt : /\ files[n] = Written(saved[n].flags, n, saved[n].title, p)
                             /\ "WRAP_PROMPT" \notin saved[n].flags => p = saved[n].prompt

RecordInv == TypeOK /\ FilesInv /\ PromptInv /\ SavedInv

\* The prover that does arithmetic has no empty string.
LEMMA NotEmpty == Empty \notin {"cut", "newbie", "mine", "-> ", "hm: "}
BY Zenon DEF Empty

-----------------------------------------------------------------------------
(* Reading a record.                                                       *)

LEMMA MaxExists ==
    ASSUME NEW S \in SUBSET Nat, NEW c \in Nat, \A i \in S : i <= c, S # {}
    PROVE  \E i \in S : \A j \in S : j <= i
<1>. DEFINE T == {c - i : i \in S}
<1>0. \A i \in S : c - i \in Nat /\ i \in Nat
  OBVIOUS
<1>1. T \subseteq Nat /\ T # {}
  BY <1>0
<1>2. IsWellFoundedOn(OpToRel(<, Nat), Nat)
  BY NatLessThanWellFounded
<1>3. PICK x \in T : \A y \in T : ~(<<y, x>> \in OpToRel(<, Nat))
  <2> HIDE DEF T
  <2>1. QED
    BY <1>1, <1>2, WFMin
<1>4. \A y \in T : ~(y < x)
  BY <1>1, <1>3 DEF OpToRel
<1>5. PICK i \in S : x = c - i
  BY <1>3
<1>6. ASSUME NEW j \in S PROVE j <= i
  <2>1. ~(c - j < c - i)
    BY <1>4, <1>5
  <2>2. QED
    BY <2>1, <1>0
<1>7. QED
  BY <1>6

\* A field is as it was or what one of the lines, accepted, says.
LEMMA AssignedFrom ==
    ASSUME NEW r, GoodRecord(r), NEW k, NEW default, Assigned(r, k, default) # default
    PROVE  \E i \in DOMAIN r : r[i].key = k /\ Accepted(r[i]) /\ Assigned(r, k, default) = Data(r[i])
<1>. DEFINE at == {i \in DOMAIN r : i <= Capacity /\ r[i].key = k /\ Accepted(r[i])}
<1>1. at # {} /\ Assigned(r, k, default) = Data(r[CHOOSE i \in at : \A j \in at : j <= i])
  BY DEF Assigned
<1>2. at \in SUBSET Nat /\ \A i \in at : i <= Capacity
  BY DEF GoodRecord
<1>3. \E i \in at : \A j \in at : j <= i
  <2> HIDE DEF at
  <2>1. QED
    BY <1>1, <1>2, MaxExists, CapacityAssumption
<1>4. (CHOOSE i \in at : \A j \in at : j <= i) \in at
  BY <1>3
<1>5. QED
  BY <1>1, <1>4

\* A line that is read twice over is the only one of its key here.
LEMMA AssignedOne ==
    ASSUME NEW r, NEW k, NEW default, NEW i \in DOMAIN r, i \in Nat, i <= Capacity,
           r[i].key = k, Accepted(r[i]), \A j \in DOMAIN r : r[j].key = k => j = i
    PROVE  Assigned(r, k, default) = Data(r[i])
<1>. DEFINE at == {j \in DOMAIN r : j <= Capacity /\ r[j].key = k /\ Accepted(r[j])}
<1>1. at = {i}
  OBVIOUS
<1>2. (CHOOSE m \in at : \A j \in at : j <= m) = i
  <2> HIDE DEF at
  <2>1. QED
    BY <1>1
<1>3. QED
  BY <1>1, <1>2 DEF Assigned

\* What a line that is accepted assigns is of its field's type.
LEMMA DataTypes ==
    ASSUME NEW l, GoodLine(l), Accepted(l)
    PROVE  /\ l.key = "name" => Data(l) \in Name
           /\ l.key = "flags" => Data(l) \subseteq Flag
           /\ l.key = "title" => Data(l) \in Title
           /\ l.key = "prompt" => Data(l) \in Prompt \ {Empty}
<1>1. l.form # "empty"
  BY DEF Accepted, Fields
<1>2. Data(l) = IF l.form = "long" THEN "cut" ELSE l.data
  BY DEF Data
<1>3. l.key = "name" => Data(l) \in Name
  BY <1>2 DEF GoodLine
<1>4. l.key = "flags" => Data(l) \subseteq Flag
  BY <1>2 DEF GoodLine
<1>5. l.key = "title" => Data(l) \in Title
  BY <1>2 DEF GoodLine, Title
<1>6. l.key = "prompt" => Data(l) \in Prompt \ {Empty}
  BY <1>1, <1>2, NotEmpty DEF GoodLine, Prompt
<1>7. QED
  BY <1>3, <1>4, <1>5, <1>6

LEMMA AssignedLine ==
    ASSUME NEW r, GoodRecord(r), NEW k, NEW default, Assigned(r, k, default) # default
    PROVE  \E l : GoodLine(l) /\ Accepted(l) /\ l.key = k /\ Assigned(r, k, default) = Data(l)
<1>1. PICK i \in DOMAIN r :
        r[i].key = k /\ Accepted(r[i]) /\ Assigned(r, k, default) = Data(r[i])
  BY AssignedFrom
<1>2. GoodLine(r[i])
  BY DEF GoodRecord
<1>3. QED
  BY <1>1, <1>2

LEMMA AssignedTypes ==
    ASSUME NEW r, GoodRecord(r), NEW default
    PROVE  /\ Assigned(r, "name", default) \in Name \cup {default}
           /\ default \subseteq Flag => Assigned(r, "flags", default) \subseteq Flag
           /\ Assigned(r, "title", default) \in Title \cup {default}
           /\ Assigned(r, "prompt", default) \in (Prompt \ {Empty}) \cup {default}
<1>1. ASSUME Assigned(r, "name", default) # default PROVE Assigned(r, "name", default) \in Name
  <2>1. PICK l : GoodLine(l) /\ Accepted(l) /\ l.key = "name" /\ Assigned(r, "name", default) = Data(l)
    BY <1>1, AssignedLine
  <2>2. QED
    BY <2>1, DataTypes
<1>2. ASSUME Assigned(r, "flags", default) # default PROVE Assigned(r, "flags", default) \subseteq Flag
  <2>1. PICK l : GoodLine(l) /\ Accepted(l) /\ l.key = "flags" /\ Assigned(r, "flags", default) = Data(l)
    BY <1>2, AssignedLine
  <2>2. QED
    BY <2>1, DataTypes
<1>3. ASSUME Assigned(r, "title", default) # default PROVE Assigned(r, "title", default) \in Title
  <2>1. PICK l : GoodLine(l) /\ Accepted(l) /\ l.key = "title" /\ Assigned(r, "title", default) = Data(l)
    BY <1>3, AssignedLine
  <2>2. QED
    BY <2>1, DataTypes
<1>4. ASSUME Assigned(r, "prompt", default) # default PROVE Assigned(r, "prompt", default) \in Prompt \ {Empty}
  <2>1. PICK l : GoodLine(l) /\ Accepted(l) /\ l.key = "prompt" /\ Assigned(r, "prompt", default) = Data(l)
    BY <1>4, AssignedLine
  <2>2. QED
    BY <2>1, DataTypes
<1>5. QED
  BY <1>1, <1>2, <1>3, <1>4

LEMMA FourLines ==
    ASSUME NEW a, NEW b, NEW c, NEW d, NEW r, r = <<a, b, c, d>>
    PROVE  DOMAIN r = 1..4 /\ Len(r) = 4 /\ r[1] = a /\ r[2] = b /\ r[3] = c /\ r[4] = d
OBVIOUS

\* What a line that save writes is like.
LEMMA LineFields ==
    ASSUME NEW k, NEW v, NEW l, l = Line(k, v)
    PROVE  l.key = k /\ l.type = TypeOf[k] /\ l.form = "whole" /\ l.data = v
BY DEF Line

LEMMA TextFields ==
    ASSUME NEW k, NEW v, NEW l, l = Text(k, v)
    PROVE  /\ l.key = k /\ l.type = TypeOf[k] /\ l.data = v
           /\ v # Empty => l.form = "whole"
           /\ v = Empty => l.form = "empty"
BY DEF Text

\* What save writes is read back, but for a prompt that was empty.
LEMMA ReadBack ==
    ASSUME NEW f, NEW n, n # Empty, NEW t \in Title, NEW p, NEW default,
           NEW r, r = Written(f, n, t, p)
    PROVE  /\ Assigned(r, "flags", default) = f
           /\ Assigned(r, "name", default) = n
           /\ Assigned(r, "title", default) = t
           /\ p # Empty => Assigned(r, "prompt", default) = p
<1>1. /\ DOMAIN r = 1..4
      /\ r[1] = Line("flags", f) /\ r[2] = Text("name", n)
      /\ r[3] = Text("title", t) /\ r[4] = Text("prompt", p)
  BY FourLines DEF Written
<1>2. r[1].key = "flags" /\ r[1].type = TypeOf["flags"] /\ r[1].data = f /\ r[1].form = "whole"
  BY <1>1, LineFields
<1>3. r[2].key = "name" /\ r[2].type = TypeOf["name"] /\ r[2].data = n /\ r[2].form = "whole"
  BY <1>1, TextFields
<1>4. r[3].key = "title" /\ r[3].type = TypeOf["title"] /\ r[3].data = t /\ r[3].form = "whole"
  <2>1. t # Empty
    BY NotEmpty DEF Title
  <2>2. QED
    BY <1>1, <2>1, TextFields
<1>5. /\ r[4].key = "prompt" /\ r[4].type = TypeOf["prompt"] /\ r[4].data = p
      /\ p # Empty => r[4].form = "whole"
  BY <1>1, TextFields
<1>6. \A i, j \in 1..4 : r[i].key = r[j].key => i = j
  <2>1. \A i \in 1..4 : i = 1 \/ i = 2 \/ i = 3 \/ i = 4
    OBVIOUS
  <2>2. QED
    BY <1>2, <1>3, <1>4, <1>5, <2>1
<1>7. ASSUME NEW i \in 1..4, NEW k, r[i].key = k, r[i].type = TypeOf[k], r[i].form = "whole"
      PROVE  Assigned(r, k, default) = r[i].data
  <2>1. Accepted(r[i]) /\ Data(r[i]) = r[i].data
    BY <1>7 DEF Accepted, Fields, Data
  <2>2. i \in Nat /\ i <= Capacity
    BY CapacityAssumption
  <2>3. \A j \in DOMAIN r : r[j].key = k => j = i
    BY <1>1, <1>6, <1>7
  <2>4. QED
    BY <1>1, <1>7, <2>1, <2>2, <2>3, AssignedOne
<1>8. QED
  BY <1>2, <1>3, <1>4, <1>5, <1>7

-----------------------------------------------------------------------------
(* What records there are.                                                 *)

LEMMA HandmadeGood == \A r \in Handmade : GoodRecord(r)
<1>. SUFFICES ASSUME NEW r \in Handmade PROVE GoodRecord(r)
  OBVIOUS
<1>1. Len(r) \in Nat /\ DOMAIN r = 1..Len(r)
  BY RecordAssumption
<1>2. ASSUME NEW i \in DOMAIN r PROVE GoodLine(r[i])
  BY RecordAssumption DEF GoodLine, TypeOf
<1>3. QED
  BY <1>1, <1>2 DEF GoodRecord

LEMMA WrittenLines ==
    ASSUME NEW f \in SUBSET Flag, NEW n \in Name, n # Empty, NEW t \in Title, NEW p \in Prompt,
           NEW r, r = Written(f, n, t, p)
    PROVE  DOMAIN r = 1..4 /\ Len(r) = 4 /\ \A i \in 1..4 : GoodLine(r[i])
<1>1. /\ DOMAIN r = 1..4 /\ Len(r) = 4
      /\ r[1] = Line("flags", f) /\ r[2] = Text("name", n)
      /\ r[3] = Text("title", t) /\ r[4] = Text("prompt", p)
  BY FourLines DEF Written
<1>2. GoodLine(r[1])
  BY <1>1, LineFields DEF GoodLine
<1>3. GoodLine(r[2])
  BY <1>1, TextFields DEF GoodLine
<1>4. GoodLine(r[3])
  BY <1>1, TextFields DEF GoodLine
<1>5. GoodLine(r[4])
  BY <1>1, TextFields DEF GoodLine
<1>6. QED
  BY <1>1, <1>2, <1>3, <1>4, <1>5

\* What has reached the disk when not all has.
LEMMA PartlyGood ==
    ASSUME NEW f \in SUBSET Flag, NEW n \in Name, n # Empty, NEW t \in Title, NEW p \in Prompt,
           NEW m \in 0..3
    PROVE  GoodRecord(SubSeq(Written(f, n, t, p), 1, m))
<1>. DEFINE r == Written(f, n, t, p)
            S == {r[i] : i \in 1..4}
<1>1. DOMAIN r = 1..4 /\ Len(r) = 4 /\ \A i \in 1..4 : GoodLine(r[i])
  BY WrittenLines
<1>2. r \in Seq(S)
  BY <1>1 DEF Written
<1>3. /\ Len(SubSeq(r, 1, m)) = m
      /\ \A i \in 1..m : SubSeq(r, 1, m)[i] = r[i]
      /\ DOMAIN SubSeq(r, 1, m) = 1..m
  <2> HIDE DEF r
  <2>1. QED
    BY <1>1, <1>2, SubSeqProperties
<1>4. QED
  <2> DEFINE s == SubSeq(r, 1, m)
  <2>1. DOMAIN s = 1..m /\ Len(s) = m /\ m \in Nat
    BY <1>3
  <2>2. \A i \in 1..m : i \in 1..4 /\ s[i] = r[i]
    BY <1>3
  <2>3. \A i \in 1..m : GoodLine(s[i])
    <3> HIDE DEF r, s
    <3>1. QED
      BY <1>1, <2>2
  <2>4. GoodRecord(s)
    <3> HIDE DEF r, s
    <3>1. QED
      BY <2>1, <2>3 DEF GoodRecord
  <2>5. QED
    BY <2>4

-----------------------------------------------------------------------------
(* One lemma per action.                                                   *)

LEMMA InitRecord == Init => RecordInv
<1>. SUFFICES ASSUME Init PROVE RecordInv
  OBVIOUS
<1>1. TypeOK
  <2>1. in \in BOOLEAN /\ TEL_NAWS \in BOOLEAN /\ auto_term \in BOOLEAN 
    BY Zenon DEF Init, Out
  <2>0. width \in 10..255
    <3>1. width = 80
      BY DEF Init, Out
    <3>2. QED
      BY <3>1
  <2>2. /\ name \in Name \cup {Empty} /\ flags \subseteq Flag /\ title \in Title
        /\ prompt \in Prompt /\ pr \in Prompt \cup {NULL}
    BY DEF Init, Out, Title, Prompt
  <2>3. step \in {"idle", "command", "done"} /\ DOMAIN files = Name /\ DOMAIN saved = Name
    BY DEF Init, Out
  <2>4. QED
    BY <2>0, <2>1, <2>2, <2>3 DEF TypeOK
<1>2. FilesInv
  BY HandmadeGood DEF Init, FilesInv
<1>3. PromptInv
  BY NotEmpty DEF Init, Out, PromptInv
<1>4. SavedInv
  BY DEF Init, SavedInv
<1>5. QED
  BY <1>1, <1>2, <1>3, <1>4 DEF RecordInv

LEMMA EditKeeps ==
    ASSUME RecordInv, NEW n \in Name, NEW r \in Handmade \cup {NULL}, Edit(n, r)
    PROVE  RecordInv'
<1>. USE DEF RecordInv
<1>1. TypeOK'
  BY DEF Edit, TypeOK, player
<1>2. FilesInv'
  BY HandmadeGood DEF Edit, FilesInv, TypeOK
<1>3. PromptInv'
  BY DEF Edit, PromptInv, player
<1>4. SavedInv'
  BY DEF Edit, SavedInv, TypeOK
<1>5. QED
  BY <1>1, <1>2, <1>3, <1>4

LEMMA ReadKeeps ==
    ASSUME RecordInv, NEW t \in Name, Read(t)
    PROVE  RecordInv'
<1>. USE DEF RecordInv
<1>1. GoodRecord(files[t])
  BY DEF FilesInv, Read
<1>2. /\ name' \in Name \cup {Empty}
      /\ flags' \subseteq Flag
      /\ title' \in Title
      /\ prompt' \in Prompt \ {Empty}
  <2>1. name' \in Name \cup {Empty}
    BY <1>1, AssignedTypes DEF Read
  <2>2. flags' \subseteq Flag
    BY <1>1, AssignedTypes DEF Read, Flag
  <2>3. title' \in Title \cup {"newbie"}
    BY <1>1, AssignedTypes DEF Read
  <2>4. prompt' \in (Prompt \ {Empty}) \cup {"-> "}
    BY <1>1, AssignedTypes DEF Read
  <2>5. QED
    BY <2>1, <2>2, <2>3, <2>4, NotEmpty DEF Title, Prompt
<1>3. TypeOK'
  BY <1>2 DEF Read, TypeOK
<1>4. FilesInv'
  BY DEF Read, FilesInv
<1>5. PromptInv'
  BY <1>2 DEF Read, PromptInv
<1>6. SavedInv'
  BY DEF Read, SavedInv
<1>7. QED
  BY <1>3, <1>4, <1>5, <1>6

LEMMA LoadKeeps ==
    ASSUME RecordInv, NEW t \in Name, load_player(t)
    PROVE  RecordInv'
<1>1. LowerCase[t] \in Name /\ Read(LowerCase[t])
  BY CaseAssumption DEF load_player
<1> QED
  BY <1>1, ReadKeeps

LEMMA NAWSKeeps ==
    ASSUME RecordInv, NEW x \in Width, NAWS(x)
    PROVE  RecordInv'
<1>. USE DEF RecordInv
<1>1. width' \in 10..255
  BY RecordAssumption DEF NAWS
<1>2. flags' \subseteq Flag
  BY DEF NAWS, TypeOK, Flag
<1>3. TypeOK'
  BY <1>1, <1>2 DEF NAWS, TypeOK
<1>4. FilesInv'
  BY DEF NAWS, FilesInv
<1>5. PromptInv'
  BY DEF NAWS, PromptInv
<1>6. SavedInv'
  BY DEF NAWS, SavedInv
<1>7. QED
  BY <1>3, <1>4, <1>5, <1>6

LEMMA RunCommandKeeps == RecordInv /\ run_command => RecordInv'
<1>. SUFFICES ASSUME RecordInv, run_command PROVE RecordInv'
  OBVIOUS
<1>. USE DEF RecordInv
<1>1. TypeOK'
  BY DEF run_command, TypeOK, Prompt
<1>2. FilesInv'
  BY DEF run_command, FilesInv
<1>3. PromptInv'
  <2>1. prompt # Empty /\ prompt # NULL /\ pr = NULL
    BY RecordAssumption DEF run_command, PromptInv, TypeOK
  <2>2. QED
    BY <2>1 DEF run_command, PromptInv
<1>4. SavedInv'
  BY DEF run_command, SavedInv
<1>5. QED
  BY <1>1, <1>2, <1>3, <1>4

LEMMA ReturnKeeps == RecordInv /\ Return => RecordInv'
<1>. SUFFICES ASSUME RecordInv, Return PROVE RecordInv'
  OBVIOUS
<1>. USE DEF RecordInv
<1>1. TypeOK'
  BY DEF Return, TypeOK
<1>2. FilesInv'
  BY DEF Return, FilesInv
<1>3. PromptInv'
  BY DEF Return, PromptInv
<1>4. SavedInv'
  BY DEF Return, SavedInv
<1>5. QED
  BY <1>1, <1>2, <1>3, <1>4

LEMMA ToggleKeeps == RecordInv /\ term_toggle => RecordInv'
<1>. SUFFICES ASSUME RecordInv, term_toggle PROVE RecordInv'
  OBVIOUS
<1>. USE DEF RecordInv
<1>1. TypeOK'
  BY DEF term_toggle, Running, TypeOK, Flag
<1>2. FilesInv'
  BY DEF term_toggle, FilesInv
<1>3. PromptInv'
  BY DEF term_toggle, Running, PromptInv
<1>4. SavedInv'
  BY DEF term_toggle, SavedInv
<1>5. QED
  BY <1>1, <1>2, <1>3, <1>4

LEMMA SetWWKeeps ==
    ASSUME RecordInv, NEW x \in Width, term_set_ww(x)
    PROVE  RecordInv'
<1>. USE DEF RecordInv
<1>1. TypeOK'
  <2>1. width' \in 10..255
    BY DEF term_set_ww, TypeOK
  <2>2. flags' \subseteq Flag
    BY DEF term_set_ww, TypeOK, Flag
  <2>3. TEL_NAWS' \in BOOLEAN
    BY Zenon DEF term_set_ww, TypeOK
  <2>4. QED
    BY <2>1, <2>2, <2>3 DEF term_set_ww, Running, TypeOK
<1>2. FilesInv'
  BY DEF term_set_ww, FilesInv
<1>3. PromptInv'
  BY DEF term_set_ww, Running, PromptInv
<1>4. SavedInv'
  BY DEF term_set_ww, SavedInv
<1>5. QED
  BY <1>1, <1>2, <1>3, <1>4

LEMMA SetOffKeeps == RecordInv /\ term_set_off => RecordInv'
<1>. SUFFICES ASSUME RecordInv, term_set_off PROVE RecordInv'
  OBVIOUS
<1>. USE DEF RecordInv
<1>1. TypeOK'
  BY DEF term_set_off, Running, TypeOK
<1>2. FilesInv'
  BY DEF term_set_off, FilesInv
<1>3. PromptInv'
  BY DEF term_set_off, Running, PromptInv
<1>4. SavedInv'
  BY DEF term_set_off, SavedInv
<1>5. QED
  BY <1>1, <1>2, <1>3, <1>4

LEMMA TimerKeeps == RecordInv /\ timer_click => RecordInv'
<1>. SUFFICES ASSUME RecordInv, timer_click PROVE RecordInv'
  OBVIOUS
<1>. USE DEF RecordInv
<1>1. TypeOK'
  BY DEF timer_click, TypeOK
<1>2. FilesInv'
  BY DEF timer_click, FilesInv
<1>3. PromptInv'
  BY DEF timer_click, PromptInv
<1>4. SavedInv'
  BY DEF timer_click, SavedInv
<1>5. QED
  BY <1>1, <1>2, <1>3, <1>4

LEMMA OtherKeeps == RecordInv /\ Other => RecordInv'
<1>. SUFFICES ASSUME RecordInv, Other PROVE RecordInv'
  OBVIOUS
<1>. USE DEF RecordInv
<1>1. TypeOK'
  BY DEF Other, Running, TypeOK
<1>2. FilesInv'
  BY DEF Other, FilesInv
<1>3. PromptInv'
  BY DEF Other, Running, PromptInv
<1>4. SavedInv'
  BY DEF Other, SavedInv
<1>5. QED
  BY <1>1, <1>2, <1>3, <1>4

LEMMA LeaveKeeps == RecordInv /\ Leave => RecordInv'
<1>. SUFFICES ASSUME RecordInv, Leave PROVE RecordInv'
  OBVIOUS
<1>. USE DEF RecordInv
<1>1. width' \in 10..255
  <2>1. width' = 80
    BY DEF Leave
  <2>2. QED
    BY <2>1
<1>2. TypeOK'
  BY <1>1 DEF Leave, TypeOK, Title, Prompt
<1>3. FilesInv'
  BY DEF Leave, FilesInv
<1>4. PromptInv'
  BY NotEmpty DEF Leave, PromptInv
<1>5. SavedInv'
  BY DEF Leave, SavedInv
<1>6. QED
  BY <1>2, <1>3, <1>4, <1>5

LEMMA SaveKeeps == RecordInv /\ comm_save => RecordInv'
<1>. SUFFICES ASSUME RecordInv, comm_save PROVE RecordInv'
  OBVIOUS
<1>. USE DEF RecordInv
<1>1. save_player = Written(flags, name, title, prompt)
  BY DEF save_player, Written
<1>2. UNCHANGED <<in, name, title, prompt, pr, flags, width, TEL_NAWS, auto_term>>
      /\ step = "command" /\ step' = "done"
  BY DEF comm_save, Running
<1>3. PromptInv'
  BY <1>2 DEF PromptInv
<1>4. CASE UNCHANGED <<files, saved>>
  BY <1>2, <1>3, <1>4 DEF TypeOK, FilesInv, SavedInv
<1>5. ASSUME name # Empty, files' = [files EXCEPT ![name] = save_player],
             saved' = [saved EXCEPT ![name] =
               [flags |-> flags, title |-> title, prompt |-> IF pr = NULL THEN prompt ELSE pr]]
      PROVE  RecordInv'
  <2>1. name \in Name /\ title \in Title /\ prompt \in Prompt /\ flags \in SUBSET Flag
    BY <1>5 DEF TypeOK
  <2>2. GoodRecord(save_player)
    BY <1>1, <1>5, <2>1, WrittenLines DEF GoodRecord
  <2>3. TypeOK'
    BY <1>2, <1>5 DEF TypeOK
  <2>4. FilesInv'
    BY <1>5, <2>1, <2>2 DEF FilesInv, TypeOK
  <2>5. SavedInv'
    <3>1. /\ saved'[name].flags = flags /\ saved'[name].title = title
          /\ saved'[name].prompt = IF pr = NULL THEN prompt ELSE pr
      BY <1>5, <2>1 DEF TypeOK
    <3>2. saved'[name].prompt \in Prompt \ {Empty}
      BY <3>1 DEF TypeOK, PromptInv
    <3>3. "WRAP_PROMPT" \notin flags => prompt = saved'[name].prompt
      BY <1>2, <3>1 DEF PromptInv
    <3>4. files'[name] = Written(flags, name, title, prompt)
      BY <1>1, <1>5, <2>1 DEF TypeOK
    <3>5. \A n \in Name \ {name} : files'[n] = files[n] /\ saved'[n] = saved[n]
      BY <1>5 DEF TypeOK
    <3>6. ASSUME NEW n \in Name, saved'[n] # NULL
          PROVE  /\ n # Empty
                 /\ saved'[n].flags \subseteq Flag /\ saved'[n].title \in Title
                 /\ saved'[n].prompt \in Prompt \ {Empty}
                 /\ \E p \in Prompt :
                      /\ files'[n] = Written(saved'[n].flags, n, saved'[n].title, p)
                      /\ "WRAP_PROMPT" \notin saved'[n].flags => p = saved'[n].prompt
      <4>1. CASE n = name
        BY <1>5, <2>1, <3>1, <3>2, <3>3, <3>4, <4>1
      <4>2. CASE n # name
        BY <3>5, <3>6, <4>2 DEF SavedInv
      <4>3. QED
        BY <4>1, <4>2
    <3>7. QED
      BY <3>6 DEF SavedInv
  <2>6. QED
    BY <1>3, <2>3, <2>4, <2>5
<1>6. ASSUME name # Empty, NEW m \in 0..Len(save_player) - 1,
             files' = [files EXCEPT ![name] = SubSeq(save_player, 1, m)],
             saved' = [saved EXCEPT ![name] = NULL]
      PROVE  RecordInv'
  <2>1. name \in Name /\ title \in Title /\ prompt \in Prompt /\ flags \in SUBSET Flag
    BY <1>6 DEF TypeOK
  <2>2. Len(save_player) = 4
    BY <1>1, <1>6, <2>1, WrittenLines
  <2>3. m \in 0..3
    BY <1>6, <2>2
  <2>4. GoodRecord(SubSeq(save_player, 1, m))
    BY <1>1, <1>6, <2>1, <2>3, PartlyGood
  <2>5. TypeOK'
    BY <1>2, <1>6 DEF TypeOK
  <2>6. FilesInv'
    BY <1>6, <2>1, <2>4 DEF FilesInv, TypeOK
  <2>7. SavedInv'
    BY <1>6, <2>1 DEF SavedInv, TypeOK
  <2>8. QED
    BY <1>3, <2>5, <2>6, <2>7
<1>7. QED
  BY <1>4, <1>5, <1>6 DEF comm_save

-----------------------------------------------------------------------------
(* The theorems.                                                           *)

LEMMA NextRecord == RecordInv /\ [Next]_vars => RecordInv'
<1>. SUFFICES ASSUME RecordInv, [Next]_vars PROVE RecordInv'
  OBVIOUS
<1>1. CASE UNCHANGED vars
  BY <1>1 DEF vars, player, RecordInv, TypeOK, FilesInv, PromptInv, SavedInv
<1>2. CASE run_command
  BY <1>2, RunCommandKeeps
<1>3. CASE Return
  BY <1>3, ReturnKeeps
<1>4. CASE term_toggle
  BY <1>4, ToggleKeeps
<1>5. CASE term_set_off
  BY <1>5, SetOffKeeps
<1>6. CASE timer_click
  BY <1>6, TimerKeeps
<1>7. CASE comm_save
  BY <1>7, SaveKeeps
<1>8. CASE Other
  BY <1>8, OtherKeeps
<1>9. CASE Leave
  BY <1>9, LeaveKeeps
<1>10. CASE \E x \in Width : NAWS(x) \/ term_set_ww(x)
  BY <1>10, NAWSKeeps, SetWWKeeps
<1>11. CASE \E t \in Name : load_player(t)
  BY <1>11, LoadKeeps
<1>12. CASE \E n \in Name, r \in Handmade \cup {NULL} : Edit(n, r)
  BY <1>12, EditKeeps
<1>13. QED
  BY <1>1, <1>2, <1>3, <1>4, <1>5, <1>6, <1>7, <1>8, <1>9, <1>10, <1>11, <1>12 DEF Next

LEMMA RecordAlways == Spec => []RecordInv
<1>1. QED
  BY InitRecord, NextRecord, PTL DEF Spec

\* The type invariant; in it, that the screen is 10 to 255 wide whatever a client tells,
\* which terminal set ww promises of what it sets.
THEOREM RecordTypeOK == Spec => []TypeOK
<1>1. RecordInv => TypeOK
  BY DEF RecordInv
<1>2. QED
  BY <1>1, RecordAlways, PTL

\* No record, damaged or saved in the middle of a command, and no command leaves a
\* player without a prompt.
THEOREM RecordPromptThere == Spec => []PromptThere
<1>1. RecordInv => PromptThere
  BY DEF RecordInv, PromptInv, PromptThere
<1>2. QED
  BY <1>1, RecordAlways, PTL

\* load_player undoes save_player, however the two are reached, for every name that lower
\* case does not change.  That name is the only one whose file a login reads.
THEOREM RecordSurvivesLogin == Spec => SurvivesLogin
<1>. DEFINE Undone(n) ==
       /\ name' = n
       /\ flags' = saved[n].flags \cup {"WW"}
       /\ title' = saved[n].title
       /\ "WRAP_PROMPT" \notin saved[n].flags => prompt' = saved[n].prompt
<1>1. ASSUME RecordInv, NEW n \in Name, Read(n), saved[n] # NULL
      PROVE  Undone(n)
  <2>1. PICK p \in Prompt :
          /\ files[n] = Written(saved[n].flags, n, saved[n].title, p)
          /\ "WRAP_PROMPT" \notin saved[n].flags => p = saved[n].prompt
    BY <1>1 DEF RecordInv, SavedInv
  <2>2. n # Empty /\ saved[n].title \in Title /\ saved[n].prompt # Empty
    BY <1>1 DEF RecordInv, SavedInv
  <2>3. /\ Assigned(files[n], "flags", {}) = saved[n].flags
        /\ Assigned(files[n], "name", Empty) = n
        /\ Assigned(files[n], "title", "newbie") = saved[n].title
        /\ p # Empty => Assigned(files[n], "prompt", "-> ") = p
    <3> DEFINE f == saved[n].flags
               s == saved[n].title
               r == files[n]
    <3>1. r = Written(f, n, s, p) /\ s \in Title
      BY <2>1, <2>2
    <3> HIDE DEF f, s, r
    <3>2. \A d : /\ Assigned(r, "flags", d) = f
                 /\ Assigned(r, "name", d) = n
                 /\ Assigned(r, "title", d) = s
                 /\ p # Empty => Assigned(r, "prompt", d) = p
      BY <2>2, <3>1, ReadBack
    <3>3. QED
      BY <3>2 DEF f, s, r
  <2>4. QED
    BY <1>1, <2>1, <2>2, <2>3 DEF Read
<1>2. ASSUME RecordInv, NEW t \in Name, NEW n \in Name, load_player(t),
             LowerCase[t] = LowerCase[n], saved[n] # NULL, LowerCase[n] = n
      PROVE  Undone(n)
  BY <1>1, <1>2 DEF load_player
<1>. HIDE DEF Undone
<1>3. RecordInv => [\A t, n \in Name :
          load_player(t) /\ LowerCase[t] = LowerCase[n] /\ saved[n] # NULL /\ LowerCase[n] = n
              => Undone(n)]_vars
  BY <1>2
<1>4. RecordInv => [\A t, n \in Name :
          load_player(t) /\ LowerCase[t] = LowerCase[n] /\ saved[n] # NULL /\ LowerCase[n] = n =>
              /\ name' = n
              /\ flags' = saved[n].flags \cup {"WW"}
              /\ title' = saved[n].title
              /\ "WRAP_PROMPT" \notin saved[n].flags => prompt' = saved[n].prompt]_vars
  BY <1>3 DEF Undone
<1>5. QED
  BY <1>4, RecordAlways, PTL DEF SurvivesLogin

=============================================================================
