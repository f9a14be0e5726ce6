---------------------------- MODULE MxXflowProofs ----------------------------
(* The register windows are at rest when no call is under way, and the      *)
(* accessors implement MxRegisters: for any number of users and of chips,   *)
(* in all layouts of the BARs, for the accessors alone and beside the files *)
(* of /proc and /sys.                                                       *)
EXTENDS MxDebugFs, TLAPS

WindowKinds == {"control", "base", "buffer"}

OpKinds == {"control", "base", "poke", "put", "get", "await", "address", "data", "issue",
            "fetch", "refuse"}
Ops == [kind : OpKinds, chip : Chips, word : Words]

(* Only chip 0's base leads to words of a window, and of no own window.     *)
WordOK(c, w) == w[1] \in WindowKinds => mode = "fourBar" /\ c = 0 /\ w[2] \in Chips /\ w[2] # 0

OpOK(op) ==
  /\ op \in Ops
  /\ op.kind = "control" => Own(op.chip) /\ op.word \in {Data(0), Data(1)}
  /\ op.kind = "base" => WordOK(op.chip, op.word)
  /\ op.kind \in {"poke", "put"} => op.word[1] \notin WindowKinds

(* A part of a program that uses the control word of chip c only, and that  *)
(* is not given up on.                                                      *)
Part(s, c) ==
  /\ s \in Seq(Ops)
  /\ \A i \in DOMAIN s : /\ OpOK(s[i])
                         /\ s[i].kind = "control" => s[i].chip = c
                         /\ s[i].kind \notin {"await", "refuse"}

(* It ends by closing the window, or does not open it.                      *)
Closing(s, c) ==
  \/ s[Len(s)] = Op("control", c, Data(0))
  \/ \A i \in DOMAIN s : s[i].kind = "control" => s[i].word = Data(0)

TodoOK(s) ==
  /\ s \in Seq(Ops)
  /\ \A i \in DOMAIN s : OpOK(s[i])
  /\ \/ \A i \in DOMAIN s : s[i].kind # "control"
     \/ \E c \in Chips : Part(s, c) /\ Closing(s, c)

LEMMA ChipsFacts ==
  /\ 0 \in Chips
  /\ \A c \in Chips : /\ Control(c) \in Words /\ Base(c) \in Words /\ Window(c) \in Words
  /\ \A r \in Registers : Address(r) \in Words
  /\ Data(0) \in Words /\ Data(1) \in Words /\ Nowhere \in Words
BY XflowAssumption DEF XflowAssumption, Chips, Words

LEMMA WordKinds ==
  /\ \A c \in Chips : /\ Control(c)[1] = "control" /\ Base(c)[1] = "base"
                      /\ Window(c)[1] = "buffer"
                      /\ Control(c)[2] = c /\ Base(c)[2] = c /\ Window(c)[2] = c
  /\ \A r \in Registers : Address(r)[1] \notin WindowKinds
  /\ \A v \in 0 .. 1 : Data(v)[1] \notin WindowKinds
  /\ Nowhere[1] \notin WindowKinds
  /\ Data(0) # Data(1)
BY DEF Control, Base, Window, Address, Data, Nowhere, WindowKinds, Registers, MpuRegisters

LEMMA PartConcat ==
  ASSUME NEW c \in Chips, NEW s, NEW r, Part(s, c), Part(r, c)
  PROVE  Part(s \o r, c)
<1>1. s \in Seq(Ops) /\ r \in Seq(Ops) /\ s \o r \in Seq(Ops)
  BY DEF Part
<1>2. \A i \in DOMAIN (s \o r) : \/ i \in DOMAIN s /\ (s \o r)[i] = s[i]
                                 \/ i - Len(s) \in DOMAIN r /\ (s \o r)[i] = r[i - Len(s)]
  BY <1>1
<1> QED BY <1>1, <1>2 DEF Part

LEMMA LastConcat ==
  ASSUME NEW s \in Seq(Ops), NEW r \in Seq(Ops), r # <<>>
  PROVE  (s \o r)[Len(s \o r)] = r[Len(r)]
OBVIOUS

LEMMA TodoTail ==
  ASSUME NEW s, TodoOK(s), s # <<>>
  PROVE  TodoOK(Tail(s))
<1>1. /\ s \in Seq(Ops) /\ Tail(s) \in Seq(Ops) /\ Len(Tail(s)) = Len(s) - 1
      /\ \A i \in DOMAIN Tail(s) : i + 1 \in DOMAIN s /\ Tail(s)[i] = s[i + 1]
  BY DEF TodoOK
<1>2. \A i \in DOMAIN Tail(s) : OpOK(Tail(s)[i])
  BY <1>1 DEF TodoOK
<1>3. CASE \A i \in DOMAIN s : s[i].kind # "control"
  BY <1>1, <1>2, <1>3 DEF TodoOK
<1>4. ASSUME NEW c \in Chips, Part(s, c), Closing(s, c)
      PROVE  TodoOK(Tail(s))
  <2>1. Part(Tail(s), c)
    BY <1>1, <1>2, <1>4 DEF Part
  <2>2. CASE Tail(s) = <<>>
    BY <1>1, <1>2, <2>2 DEF TodoOK
  <2>3. CASE Tail(s) # <<>> /\ s[Len(s)] = Op("control", c, Data(0))
    <3>1. Tail(s)[Len(Tail(s))] = s[Len(s)]
      BY <1>1, <2>3
    <3> QED BY <1>1, <1>2, <2>1, <2>3, <3>1 DEF TodoOK, Closing
  <2>4. CASE \A i \in DOMAIN s : s[i].kind = "control" => s[i].word = Data(0)
    BY <1>1, <1>2, <2>1, <2>4 DEF TodoOK, Closing
  <2> QED BY <1>4, <2>2, <2>3, <2>4 DEF Closing
<1> QED BY <1>3, <1>4 DEF TodoOK

-----------------------------------------------------------------------------
(* The programs.                                                            *)

(* The chip whose control word a call uses directly.                        *)
Door(c) == IF Own(c) THEN c ELSE 0

LEMMA OpFacts ==
  ASSUME NEW c \in Chips
  PROVE  /\ Door(c) \in Chips /\ Own(Door(c)) /\ Own(0)
         /\ ~Own(c) => mode = "fourBar" /\ c # 0
BY ChipsFacts DEF Door, Own

LEMMA OpType ==
  ASSUME NEW kind \in OpKinds, NEW c \in Chips, NEW w \in Words
  PROVE  /\ Op(kind, c, w) \in Ops
         /\ Op(kind, c, w).kind = kind /\ Op(kind, c, w).chip = c /\ Op(kind, c, w).word = w
BY DEF Op, Ops

(* A single access.                                                         *)
LEMMA PartOne ==
  ASSUME NEW c \in Chips, NEW op, OpOK(op), op.kind = "control" => op.chip = c,
         op.kind \notin {"await", "refuse"}
  PROVE  Part(<<op>>, c)
<1>1. op \in Ops
  BY DEF OpOK
<1>2. <<op>> \in Seq(Ops) /\ DOMAIN <<op>> = {1} /\ <<op>>[1] = op
  BY <1>1
<1> QED BY <1>2 DEF Part

LEMMA PartThrough ==
  ASSUME mode = "fourBar", NEW c \in Chips, c # 0, NEW a \in {Control(c), Base(c), Window(c)},
         NEW op, OpOK(op), op.kind \in {"poke", "put", "get"}
  PROVE  Part(Through(a, op), 0)
<1> DEFINE one == Op("control", 0, Data(1))
           two == Op("base", 0, a)
<1>1. OpOK(one) /\ one.kind = "control" /\ one.chip = 0
  <2>1. one \in Ops /\ one.kind = "control" /\ one.chip = 0 /\ one.word = Data(1)
    BY OpType, ChipsFacts DEF OpKinds
  <2>2. Own(0)
    BY DEF Own
  <2> QED BY <2>1, <2>2 DEF OpOK
<1>2. OpOK(two) /\ two.kind = "base"
  <2>1. a \in Words /\ WordOK(0, a)
    BY ChipsFacts, WordKinds DEF WordOK
  <2> QED BY <2>1, OpType, ChipsFacts DEF OpOK, OpKinds
<1>3. Part(<<one>>, 0) /\ Part(<<two>>, 0) /\ Part(<<op>>, 0)
  BY <1>1, <1>2, PartOne, ChipsFacts
<1>4. Part((<<one>> \o <<two>>) \o <<op>>, 0)
  BY <1>3, PartConcat, ChipsFacts
<1>5. one \in Ops /\ two \in Ops /\ op \in Ops
  BY <1>1, <1>2 DEF OpOK
<1>6. Through(a, op) = (<<one>> \o <<two>>) \o <<op>>
  <2> HIDE DEF one, two
  <2>1. <<one, two, op>> = (<<one>> \o <<two>>) \o <<op>>
    BY <1>5
  <2> QED BY <2>1 DEF Through, one, two
<1> QED BY <1>4, <1>6

LEMMA SetModePart ==
  ASSUME NEW c \in Chips, NEW v \in 0 .. 1
  PROVE  Part(SetMode(c, Data(v)), Door(c))
<1>1. Data(v) \in Words /\ Data(v) \in {Data(0), Data(1)} /\ Data(v)[1] \notin WindowKinds
  BY ChipsFacts, WordKinds
<1>2. CASE Own(c)
  <2>1. OpOK(Op("control", c, Data(v)))
    BY <1>1, <1>2, OpType DEF OpOK, OpKinds
  <2> QED BY <1>1, <1>2, <2>1, PartOne, OpType DEF SetMode, Door, OpKinds
<1>3. CASE ~Own(c)
  <2>1. OpOK(Op("poke", 0, Data(v))) /\ Op("poke", 0, Data(v)).kind = "poke"
    BY <1>1, OpType, ChipsFacts DEF OpOK, OpKinds
  <2> QED BY <1>3, <2>1, PartThrough, OpFacts DEF SetMode, Door
<1> QED BY <1>2, <1>3

LEMMA SetBasePart ==
  ASSUME NEW c \in Chips, NEW r \in Registers
  PROVE  Part(SetBase(c, Address(r)), Door(c))
<1>1. Address(r) \in Words /\ Address(r)[1] \notin WindowKinds
  BY ChipsFacts, WordKinds
<1>2. CASE Own(c)
  <2>1. OpOK(Op("base", c, Address(r))) /\ Op("base", c, Address(r)).kind = "base"
    BY <1>1, OpType DEF OpOK, OpKinds, WordOK
  <2> QED BY <1>2, <2>1, PartOne DEF SetBase, Door
<1>3. CASE ~Own(c)
  <2>1. OpOK(Op("poke", 0, Address(r))) /\ Op("poke", 0, Address(r)).kind = "poke"
    BY <1>1, OpType, ChipsFacts DEF OpOK, OpKinds
  <2> QED BY <1>3, <2>1, PartThrough, OpFacts DEF SetBase, Door
<1> QED BY <1>2, <1>3

LEMMA BufferPart ==
  ASSUME NEW c \in Chips, NEW v \in 0 .. 1
  PROVE  Part(WriteBuffer(c, Data(v)), Door(c)) /\ Part(ReadBuffer(c), Door(c))
<1>1. /\ Data(v) \in Words /\ Data(v)[1] \notin WindowKinds
      /\ Data(0) \in Words /\ Data(0)[1] \notin WindowKinds
  BY ChipsFacts, WordKinds
<1>2. ASSUME NEW x \in Chips
      PROVE  /\ OpOK(Op("put", x, Data(v))) /\ Op("put", x, Data(v)).kind = "put"
             /\ OpOK(Op("get", x, Data(0))) /\ Op("get", x, Data(0)).kind = "get"
  BY <1>1, <1>2, OpType DEF OpOK, OpKinds
<1>3. CASE Own(c)
  BY <1>2, <1>3, PartOne DEF WriteBuffer, ReadBuffer, Door
<1>4. CASE ~Own(c)
  BY <1>2, <1>4, PartThrough, OpFacts, ChipsFacts DEF WriteBuffer, ReadBuffer, Door
<1> QED BY <1>3, <1>4

(* A call behind chip 0 or to a configuration register closes the window.   *)
LEMMA AfterPart ==
  ASSUME NEW k \in XCalls
  PROVE  /\ k.chip \in Chips /\ k.name \in Registers /\ k.value \in {Data(0), Data(1)}
         /\ After(k) # <<>> => After(k)[Len(After(k))] = Op("control", Door(k.chip), Data(0))
         /\ After(k) = <<>> => Own(k.chip) /\ Mpu(k.name)
         /\ Part(After(k), Door(k.chip))
<1>1. k.chip \in Chips /\ k.name \in Registers /\ k.value \in {Data(0), Data(1)}
  BY ChipsFacts DEF XCalls, Doorbells, Connections, LocalInterrupts, Call, Registers,
                    MpuRegisters
<1> DEFINE d == Door(k.chip)
           close == <<Op("control", d, Data(0))>>
           one == IF Mpu(k.name) THEN <<>> ELSE SetMode(k.chip, Data(0))
           two == IF mode = "fourBar" /\ k.chip > 0 THEN SetMode(0, Data(0)) ELSE <<>>
<1>2. d \in Chips /\ After(k) = one \o two
  BY <1>1, OpFacts DEF After
<1>3. Part(<<>>, d)
  BY DEF Part
<1>4. Part(one, d)
  BY <1>1, <1>3, SetModePart
<1>5. CASE ~Own(k.chip)
  <2>1. d = 0 /\ two = close /\ Own(0)
    BY <1>1, <1>5, OpFacts DEF Door, SetMode, Chips, Own
  <2>2. Part(two, d)
    <3>1. Part(SetMode(0, Data(0)), Door(0))
      BY SetModePart, ChipsFacts
    <3>2. Door(0) = 0 /\ SetMode(0, Data(0)) = close
      BY <2>1 DEF Door, SetMode
    <3> QED BY <2>1, <3>1, <3>2
  <2>3. Part(After(k), d)
    BY <1>2, <1>4, <2>2, PartConcat
  <2>4. one \in Seq(Ops) /\ two \in Seq(Ops) /\ two # <<>>
    BY <1>4, <2>1, <2>2 DEF Part
  <2>5. two[Len(two)] = Op("control", d, Data(0))
    BY <2>1
  <2>6. After(k)[Len(After(k))] = Op("control", d, Data(0)) /\ After(k) # <<>>
    <3> HIDE DEF one, two, d
    <3>1. (one \o two)[Len(one \o two)] = two[Len(two)] /\ one \o two # <<>>
      BY <2>4, LastConcat
    <3> QED BY <1>2, <2>5, <3>1
  <2> QED BY <1>1, <2>3, <2>6
<1>6. CASE Own(k.chip)
  <2>1. two = <<>> /\ d = k.chip
    BY <1>1, <1>6 DEF Door, Chips, Own
  <2>2. one \in Seq(Ops)
    BY <1>4 DEF Part
  <2>3. After(k) = one
    <3> HIDE DEF one, two
    <3>1. one \o <<>> = one
      BY <2>2
    <3> QED BY <1>2, <2>1, <3>1
  <2>4. one = IF Mpu(k.name) THEN <<>> ELSE close
    BY <1>6, <2>1 DEF SetMode
  <2>5. Mpu(k.name) => one = <<>>
    BY <2>4
  <2>6. ~Mpu(k.name) => (one # <<>> /\ one[Len(one)] = Op("control", d, Data(0)))
    BY <2>4
  <2> HIDE DEF one, two, close, d
  <2>7. Part(After(k), d)
    BY <1>4, <2>3
  <2> QED BY <1>1, <1>6, <2>3, <2>5, <2>6, <2>7 DEF d
<1> QED BY <1>5, <1>6

(* Every program a call can be given.                                       *)
LEMMA ProgramOK ==
  ASSUME NEW k \in XCalls
  PROVE  TodoOK(Program(k))
<1>1. /\ k.chip \in Chips /\ k.name \in Registers /\ k.value \in {Data(0), Data(1)}
      /\ After(k) # <<>> => After(k)[Len(After(k))] = Op("control", Door(k.chip), Data(0))
      /\ After(k) = <<>> => Own(k.chip) /\ Mpu(k.name)
      /\ Part(After(k), Door(k.chip))
  BY AfterPart
<1>2. CASE mode = "mailbox" \/ Refused(k)
  <2>1. /\ Await \in Ops /\ Op("refuse", 0, Nowhere) \in Ops /\ Op("fetch", 0, Nowhere) \in Ops
        /\ Op("address", 0, Address(k.name)) \in Ops /\ Op("data", 0, k.value) \in Ops
        /\ Op("issue", k.chip, Nowhere) \in Ops
    BY <1>1, OpType, ChipsFacts, SMTT(20) DEF Await, OpKinds
  <2>2. Program(k) \in Seq(Ops)
    BY <1>2, <2>1 DEF Program, XflowWrite, XflowRead
  <2>3. \A i \in DOMAIN Program(k) :
          Program(k)[i].kind \in {"await", "refuse", "fetch", "address", "data", "issue"}
    <3>1. /\ Await.kind = "await" /\ Op("refuse", 0, Nowhere).kind = "refuse"
          /\ Op("fetch", 0, Nowhere).kind = "fetch"
          /\ Op("address", 0, Address(k.name)).kind = "address"
          /\ Op("data", 0, k.value).kind = "data" /\ Op("issue", k.chip, Nowhere).kind = "issue"
      BY DEF Op, Await
    <3>2. \/ Program(k) = <<Op("refuse", 0, Nowhere)>>
          \/ Program(k) = <<Await, Op("address", 0, Address(k.name)), Op("data", 0, k.value),
                            Op("issue", k.chip, Nowhere), Await>>
          \/ Program(k) = <<Await, Op("address", 0, Address(k.name)),
                            Op("issue", k.chip, Nowhere), Await, Op("fetch", 0, Nowhere)>>
      BY <1>2 DEF Program, XflowWrite, XflowRead
    <3> QED BY <3>1, <3>2
  <2>4. \A i \in DOMAIN Program(k) : Program(k)[i] \in Ops
    BY <2>2
  <2> QED BY <2>2, <2>3, <2>4 DEF TodoOK, OpOK
<1>3. CASE mode # "mailbox" /\ ~Refused(k)
  <2> DEFINE d == Door(k.chip)
             mid == IF k.op = "write" THEN WriteBuffer(k.chip, k.value) ELSE ReadBuffer(k.chip)
             open == SetMode(k.chip, Data(IF Mpu(k.name) THEN 0 ELSE 1))
             place == SetBase(k.chip, Address(k.name))
             after == After(k)
  <2>1. Program(k) = ((open \o place) \o mid) \o after
    BY <1>3 DEF Program, XflowWrite, XflowRead, Before
  <2>2. d \in Chips
    BY <1>1, OpFacts
  <2>3. Part(open, d) /\ Part(place, d) /\ Part(mid, d) /\ Part(after, d)
    <3>1. Part(open, d)
      BY <1>1, SetModePart
    <3>2. Part(place, d)
      BY <1>1, SetBasePart
    <3>3. Part(mid, d)
      BY <1>1, BufferPart
    <3> QED BY <1>1, <3>1, <3>2, <3>3
  <2>4. open \in Seq(Ops) /\ place \in Seq(Ops) /\ mid \in Seq(Ops) /\ after \in Seq(Ops)
    BY <2>3 DEF Part
  <2>5. CASE after # <<>>
    <3> HIDE DEF open, place, mid, after, d
    <3>1. Part((open \o place) \o mid, d) /\ Part(((open \o place) \o mid) \o after, d)
      BY <2>2, <2>3, PartConcat
    <3>2. (open \o place) \o mid \in Seq(Ops)
      BY <2>4
    <3>3. (((open \o place) \o mid) \o after)[Len(((open \o place) \o mid) \o after)]
            = after[Len(after)]
      BY <2>4, <2>5, <3>2, LastConcat
    <3>4. after[Len(after)] = Op("control", d, Data(0))
      BY <1>1, <2>5 DEF after, d
    <3>5. Closing(Program(k), d) /\ Part(Program(k), d)
      BY <2>1, <3>1, <3>3, <3>4 DEF Closing
    <3> QED BY <2>2, <3>5 DEF TodoOK, Part
  <2>6. CASE after = <<>>
    <3>1. Own(k.chip) /\ Mpu(k.name) /\ d = k.chip
      BY <1>1, <2>6 DEF Door
    <3>2. open = <<Op("control", d, Data(0))>>
      BY <3>1 DEF SetMode
    <3>3. \A i \in DOMAIN place : place[i].kind # "control"
      BY <3>1 DEF SetBase, Op
    <3>4. \A i \in DOMAIN mid : mid[i].kind # "control"
      BY <3>1 DEF WriteBuffer, ReadBuffer, Op
    <3>5. \A i \in DOMAIN open : open[i].word = Data(0)
      BY <3>2 DEF Op
    <3> HIDE DEF open, place, mid, after, d
    <3>6. Part(open \o place, d) /\ Part((open \o place) \o mid, d)
      BY <2>2, <2>3, PartConcat
    <3>7. \A i \in DOMAIN (open \o place) :
            (open \o place)[i].kind = "control" => (open \o place)[i].word = Data(0)
      <4>1. \A i \in DOMAIN (open \o place) :
              \/ i \in DOMAIN open /\ (open \o place)[i] = open[i]
              \/ i - Len(open) \in DOMAIN place /\ (open \o place)[i] = place[i - Len(open)]
        BY <2>4
      <4> QED BY <3>3, <3>5, <4>1
    <3>8. (open \o place) \o mid \in Seq(Ops) /\ open \o place \in Seq(Ops)
      BY <2>4
    <3>9. Closing((open \o place) \o mid, d)
      <4> DEFINE two == open \o place
      <4>1. \A i \in DOMAIN (two \o mid) :
              \/ i \in DOMAIN two /\ (two \o mid)[i] = two[i]
              \/ i - Len(two) \in DOMAIN mid /\ (two \o mid)[i] = mid[i - Len(two)]
        <5> HIDE DEF two
        <5> QED BY <2>4, <3>8 DEF two
      <4> QED BY <3>4, <3>7, <4>1 DEF Closing
    <3>10. Program(k) = (open \o place) \o mid
      BY <2>1, <2>6, <3>8
    <3> QED BY <2>2, <3>6, <3>9, <3>10 DEF TodoOK, Part
  <2> QED BY <2>5, <2>6
<1> QED BY <1>2, <1>3

-----------------------------------------------------------------------------
(* The invariant: a window that does not show the MPU has a call under way  *)
(* that will turn it back.                                                  *)
Shapes ==
  /\ ctl \in [Chips -> Words] /\ base \in [Chips -> Words]
  /\ call \in [Users -> XCalls \cup {NoCall}]
  /\ todo \in [Users -> Seq(Ops)]

Bases == \A c \in Chips : WordOK(c, base[c])

Todos == \A u \in Users : TodoOK(todo[u]) /\ (todo[u] # <<>> => call[u] # NoCall)

Closes(u, i, c) == i \in DOMAIN todo[u] /\ todo[u][i] = Op("control", c, Data(0))

Restored ==
  \/ gone
  \/ \A c \in Chips : Own(c) /\ ctl[c] # Data(0) => \E u \in Users, i \in Nat : Closes(u, i, c)

WinInv == Shapes /\ Bases /\ Todos /\ Restored

winVars == <<mode, gone, ctl, base, call, todo>>

XStep ==
  \/ \E u \in Users : Access(u) \/ (\E k \in XCalls : Begin(u, k))
  \/ Execute \/ Unplug \/ UNCHANGED winVars

LEMMA InitWin == XInit => WinInv
<1> SUFFICES ASSUME XInit PROVE WinInv
  OBVIOUS
<1>1. Shapes
  BY ChipsFacts DEF XInit, Shapes
<1>2. Bases
  BY WordKinds DEF XInit, Bases, WordOK
<1>3. Todos
  BY DEF XInit, Todos, TodoOK
<1>4. Restored
  BY DEF XInit, Restored
<1> QED BY <1>1, <1>2, <1>3, <1>4 DEF WinInv

(* What holds of words, accesses and programs does not depend on the step.  *)
LEMMA SameMode ==
  ASSUME mode' = mode
  PROVE  /\ \A c, w : WordOK(c, w)' <=> WordOK(c, w)
         /\ \A c : Own(c)' <=> Own(c)
         /\ \A s : TodoOK(s)' <=> TodoOK(s)
<1>1. \A c, w : WordOK(c, w)' <=> WordOK(c, w)
  BY DEF WordOK
<1>2. \A c : Own(c)' <=> Own(c)
  BY DEF Own
<1>3. \A op : OpOK(op)' <=> OpOK(op)
  BY <1>1, <1>2 DEF OpOK
<1>4. \A s, c : Part(s, c)' <=> Part(s, c)
  BY <1>3 DEF Part
<1>5. \A s, c : Closing(s, c)' <=> Closing(s, c)
  BY DEF Closing
<1>6. \A s : TodoOK(s)' <=> TodoOK(s)
  BY <1>3, <1>4, <1>5 DEF TodoOK
<1> QED BY <1>1, <1>2, <1>6

LEMMA WinStutter == WinInv /\ UNCHANGED winVars => WinInv'
<1> SUFFICES ASSUME WinInv, UNCHANGED winVars PROVE WinInv'
  OBVIOUS
<1> USE SameMode DEF winVars
<1>1. Shapes'
  BY DEF WinInv, Shapes
<1>2. Bases'
  BY DEF WinInv, Bases
<1>3. Todos'
  BY DEF WinInv, Todos
<1>4. \A u, i, c : Closes(u, i, c)' <=> Closes(u, i, c)
  BY DEF Closes
<1>5. Restored'
  BY <1>4 DEF WinInv, Restored
<1> QED BY <1>1, <1>2, <1>3, <1>5 DEF WinInv

(* Only chip 0's window leads to the words of another.                      *)
LEMMA TargetOK ==
  ASSUME WinInv, NEW c \in Chips, Target(c)[1] \in {"control", "base"}
  PROVE  mode = "fourBar" /\ Target(c)[2] \in Chips /\ Target(c)[2] # 0
<1>1. \A x \in Chips : Shown(x)[1] \in WindowKinds =>
        mode = "fourBar" /\ x = 0 /\ Shown(x)[2] \in Chips /\ Shown(x)[2] # 0
  BY DEF WinInv, Bases, WordOK, Shown, Nowhere, WindowKinds, Registers, MpuRegisters
<1>2. Shown(c)[1] \in WindowKinds
  BY <1>1 DEF Target, WindowKinds
<1>3. Shown(c)[2] \in Chips /\ Shown(c)[2] # 0 /\ mode = "fourBar"
  BY <1>1, <1>2
<1> QED BY <1>1, <1>3 DEF Target, WindowKinds

(* A user makes the next access of its program.                             *)
LEMMA WinAdvance ==
  ASSUME WinInv, NEW u \in Users, Done(u), todo[u] # <<>>, UNCHANGED <<mode, gone, call>>,
         ctl' \in [Chips -> Words], base' \in [Chips -> Words], Bases',
         \/ gone
         \/ /\ Head(todo[u]).kind # "control"
            /\ \A c \in Chips : Own(c) => ctl'[c] = ctl[c]
         \/ /\ Head(todo[u]).kind = "control"
            /\ ctl' = [ctl EXCEPT ![Head(todo[u]).chip] = Head(todo[u]).word]
  PROVE  WinInv'
<1> DEFINE op == Head(todo[u])
<1>1. /\ todo \in [Users -> Seq(Ops)] /\ todo[u] \in Seq(Ops) /\ TodoOK(todo[u])
      /\ call[u] # NoCall
  BY DEF WinInv, Shapes, Todos
<1>2. /\ Tail(todo[u]) \in Seq(Ops) /\ todo' = [todo EXCEPT ![u] = Tail(todo[u])]
      /\ op \in Ops /\ OpOK(op) /\ op = todo[u][1] /\ 1 \in DOMAIN todo[u]
  BY <1>1 DEF Done, TodoOK
<1>3. Shapes'
  BY <1>1, <1>2 DEF WinInv, Shapes
<1>4. Todos'
  <2> SUFFICES ASSUME NEW v \in Users
               PROVE  TodoOK(todo'[v]) /\ (todo'[v] # <<>> => call[v] # NoCall)
    BY SameMode DEF Todos
  <2>1. TodoOK(Tail(todo[u]))
    BY <1>1, TodoTail
  <2> QED BY <1>1, <1>2, <2>1 DEF WinInv, Todos
<1>5. \A v \in Users, i \in Nat, c \in Chips :
        Closes(v, i, c) => \/ v = u /\ i = 1 /\ op = Op("control", c, Data(0))
                           \/ \E j \in Nat : Closes(v, j, c)'
  <2> SUFFICES ASSUME NEW v \in Users, NEW i \in Nat, NEW c \in Chips, Closes(v, i, c)
               PROVE  \/ v = u /\ i = 1 /\ op = Op("control", c, Data(0))
                      \/ \E j \in Nat : Closes(v, j, c)'
    OBVIOUS
  <2>1. CASE v # u
    BY <1>1, <1>2, <2>1 DEF Closes
  <2>2. CASE v = u /\ i = 1
    BY <1>2, <2>2 DEF Closes
  <2>3. CASE v = u /\ i # 1
    <3>1. /\ i - 1 \in Nat /\ i - 1 \in DOMAIN Tail(todo[u])
          /\ Tail(todo[u])[i - 1] = todo[u][i]
      BY <1>1, <2>3 DEF Closes
    <3>2. todo'[u] = Tail(todo[u])
      BY <1>1, <1>2
    <3>3. Closes(v, i - 1, c)'
      BY <2>3, <3>1, <3>2 DEF Closes
    <3> QED BY <3>1, <3>3
  <2> QED BY <2>1, <2>2, <2>3
<1>6. Restored'
  <2>1. CASE gone
    BY <2>1 DEF Restored
  <2> SUFFICES ASSUME ~gone, NEW c \in Chips, Own(c), ctl'[c] # Data(0)
               PROVE  \E v \in Users, i \in Nat : Closes(v, i, c)'
    BY <2>1, SameMode DEF Restored
  <2>2. CASE op.kind # "control"
    <3>1. ctl[c] # Data(0)
      BY <2>2
    <3>2. PICK v \in Users, i \in Nat : Closes(v, i, c)
      BY <3>1 DEF WinInv, Restored
    <3>3. op # Op("control", c, Data(0))
      BY <2>2 DEF Op
    <3> QED BY <1>5, <3>2, <3>3
  <2>3. CASE op.kind = "control" /\ op.chip # c
    <3>1. ctl[c] # Data(0)
      BY <2>3 DEF WinInv, Shapes
    <3>2. PICK v \in Users, i \in Nat : Closes(v, i, c)
      BY <3>1 DEF WinInv, Restored
    <3>3. op # Op("control", c, Data(0))
      BY <2>3 DEF Op
    <3> QED BY <1>5, <3>2, <3>3
  <2>4. CASE op.kind = "control" /\ op.chip = c
    <3>1. ctl'[c] = op.word /\ op.word # Data(0)
      BY <2>4 DEF WinInv, Shapes
    <3>2. PICK d \in Chips : Part(todo[u], d) /\ Closing(todo[u], d)
      BY <1>1, <1>2, <2>4 DEF TodoOK
    <3>3. d = c
      BY <1>2, <2>4, <3>2 DEF Part
    <3>4. todo[u][Len(todo[u])] = Op("control", c, Data(0))
      BY <1>2, <2>4, <3>1, <3>2, <3>3 DEF Closing
    <3>5. op # Op("control", c, Data(0))
      BY <3>1 DEF Op
    <3>6. Len(todo[u]) \in Nat /\ Len(todo[u]) \in DOMAIN todo[u]
      BY <1>1
    <3>7. Closes(u, Len(todo[u]), c)
      BY <3>4, <3>6 DEF Closes
    <3> QED BY <1>5, <3>5, <3>6, <3>7
  <2> QED BY <2>2, <2>3, <2>4
<1> QED BY <1>3, <1>4, <1>6 DEF WinInv

(* A user is done with a call: none of its program is left that matters.    *)
LEMMA WinLeave ==
  ASSUME WinInv, NEW u \in Users, UNCHANGED <<mode, gone, ctl, base>>,
         call' = [call EXCEPT ![u] = NoCall], todo' = [todo EXCEPT ![u] = <<>>],
         \A i \in DOMAIN todo[u] : todo[u][i].kind # "control"
  PROVE  WinInv'
<1>1. Shapes'
  BY DEF WinInv, Shapes
<1>2. Bases'
  BY SameMode DEF WinInv, Bases
<1>3. Todos'
  <2>1. TodoOK(<<>>)
    BY DEF TodoOK
  <2> QED BY <2>1, SameMode DEF WinInv, Shapes, Todos
<1>4. \A v \in Users, i \in Nat, c \in Chips : Closes(v, i, c) => Closes(v, i, c)'
  <2> SUFFICES ASSUME NEW v \in Users, NEW i \in Nat, NEW c \in Chips, Closes(v, i, c)
               PROVE  Closes(v, i, c)'
    OBVIOUS
  <2>1. v # u
    BY DEF Closes, Op
  <2> QED BY <2>1 DEF Closes, WinInv, Shapes
<1>5. Restored'
  BY <1>4, SameMode DEF WinInv, Restored
<1> QED BY <1>1, <1>2, <1>3, <1>5 DEF WinInv

LEMMA WinBegin ==
  ASSUME WinInv, NEW u \in Users, NEW k \in XCalls, Begin(u, k)
  PROVE  WinInv'
<1>1. /\ todo[u] = <<>> /\ call' = [call EXCEPT ![u] = k]
      /\ todo' = [todo EXCEPT ![u] = Program(k)] /\ UNCHANGED <<mode, gone, ctl, base>>
  BY DEF WinInv, Todos, Begin, windows
<1>2. TodoOK(Program(k)) /\ Program(k) \in Seq(Ops)
  BY ProgramOK DEF TodoOK
<1>3. Shapes'
  BY <1>1, <1>2 DEF WinInv, Shapes
<1>4. Bases'
  BY <1>1, SameMode DEF WinInv, Bases
<1>5. Todos'
  BY <1>1, <1>2, SameMode, NoCallAssumption DEF WinInv, Shapes, Todos, NoCallAssumption
<1>6. \A v \in Users, i \in Nat, c \in Chips : Closes(v, i, c) => Closes(v, i, c)'
  BY <1>1 DEF Closes, WinInv, Shapes
<1>7. Restored'
  BY <1>1, <1>6, SameMode DEF WinInv, Restored
<1> QED BY <1>3, <1>4, <1>5, <1>7 DEF WinInv

LEMMA WinUnplug == WinInv /\ Unplug => WinInv'
<1> SUFFICES ASSUME WinInv, Unplug PROVE WinInv'
  OBVIOUS
<1>1. UNCHANGED <<mode, ctl, base, call, todo>> /\ gone' = TRUE
  BY DEF Unplug, windows
<1>2. Shapes' /\ Bases' /\ Todos'
  BY <1>1, SameMode DEF WinInv, Shapes, Bases, Todos
<1>3. Restored'
  BY <1>1 DEF Restored
<1> QED BY <1>2, <1>3 DEF WinInv

LEMMA WinWrite ==
  ASSUME WinInv, NEW u \in Users, Write(u)
  PROVE  WinInv'
<1> DEFINE op == Head(todo[u])
           t == IF op.kind \in {"poke", "put"} THEN Target(op.chip) ELSE <<op.kind, op.chip>>
<1>1. /\ todo[u] # <<>> /\ op.kind \in {"control", "base", "poke", "put"} /\ Done(u)
      /\ Store(t, op.word) /\ UNCHANGED <<mode, gone, call>>
  BY DEF Write, Ready
<1>2. op \in Ops /\ OpOK(op) /\ op.chip \in Chips /\ op.word \in Words
  <2>1. TodoOK(todo[u]) /\ todo[u] \in Seq(Ops)
    BY DEF WinInv, Shapes, Todos
  <2>2. op \in Ops /\ op = todo[u][1] /\ 1 \in DOMAIN todo[u]
    BY <1>1, <2>1
  <2> HIDE DEF op
  <2>3. OpOK(op)
    BY <2>1, <2>2 DEF TodoOK
  <2> QED BY <2>2, <2>3 DEF Ops
<1>3. /\ t[1] = "control" => t[2] \in Chips
      /\ t[1] = "base" => t[2] \in Chips /\ WordOK(t[2], op.word)
      /\ op.kind \notin {"control", "base"} /\ t[1] = "control" => ~Own(t[2])
  <2>1. CASE op.kind \in {"poke", "put"}
    BY <1>2, <2>1, TargetOK DEF OpOK, WordOK, Own
  <2>2. CASE op.kind \in {"control", "base"}
    BY <1>2, <2>2 DEF OpOK
  <2> QED BY <1>1, <2>1, <2>2
<1>4. ctl \in [Chips -> Words] /\ base \in [Chips -> Words] /\ Bases
  BY DEF WinInv, Shapes
<1> HIDE DEF t
<1>5. ctl' \in [Chips -> Words] /\ base' \in [Chips -> Words]
  BY <1>1, <1>2, <1>3, <1>4 DEF Store
<1>6. Bases'
  <2>1. \A c \in Chips : WordOK(c, base'[c])
    BY <1>1, <1>3, <1>4 DEF Store, Bases
  <2> QED BY <1>1, <2>1, SameMode DEF Bases
<1>7. CASE op.kind = "control"
  <2>1. t = <<"control", op.chip>>
    BY <1>7 DEF t
  <2>2. gone \/ ctl' = [ctl EXCEPT ![op.chip] = op.word]
    BY <1>1, <2>1 DEF Store
  <2> QED BY <1>1, <1>5, <1>6, <1>7, <2>2, WinAdvance
<1>8. CASE op.kind # "control"
  <2>1. \A c \in Chips : Own(c) => ctl'[c] = ctl[c]
    <3>1. t[1] = "control" => ~Own(t[2])
      BY <1>1, <1>3, <1>8 DEF t
    <3> QED BY <1>1, <1>3, <1>4, <3>1 DEF Store
  <2> QED BY <1>1, <1>5, <1>6, <1>8, <2>1, WinAdvance
<1> QED BY <1>7, <1>8

LEMMA WinAccess ==
  ASSUME WinInv, NEW u \in Users, Access(u)
  PROVE  WinInv'
<1>1. CASE Write(u)
  BY <1>1, WinWrite
<1>2. CASE Read(u) \/ Post(u) \/ Completed(u) \/ Fetch(u)
  <2>1. /\ todo[u] # <<>> /\ Head(todo[u]).kind # "control" /\ Done(u)
        /\ UNCHANGED <<mode, gone, call, ctl, base>>
    BY <1>2 DEF Read, Post, Completed, Fetch, Ready, windows
  <2>2. ctl' \in [Chips -> Words] /\ base' \in [Chips -> Words] /\ Bases'
    BY <2>1, SameMode DEF WinInv, Shapes, Bases
  <2> QED BY <2>1, <2>2, WinAdvance
<1>3. CASE Return(u)
  <2>1. /\ UNCHANGED <<mode, gone, ctl, base>> /\ call' = [call EXCEPT ![u] = NoCall]
        /\ todo' = [todo EXCEPT ![u] = <<>>] /\ todo[u] = <<>>
    BY <1>3 DEF Return, Leave, windows
  <2>2. \A i \in DOMAIN todo[u] : todo[u][i].kind # "control"
    BY <2>1
  <2> QED BY <2>1, <2>2, WinLeave
<1>4. CASE TimeOut(u)
  <2>1. /\ todo[u] # <<>> /\ Head(todo[u]).kind \in {"refuse", "await"}
        /\ TodoOK(todo[u]) /\ todo[u] \in Seq(Ops)
    BY <1>4 DEF TimeOut, Ready, WinInv, Shapes, Todos
  <2>2. Head(todo[u]) = todo[u][1] /\ 1 \in DOMAIN todo[u]
    BY <2>1
  <2>3. \A i \in DOMAIN todo[u] : todo[u][i].kind # "control"
    BY <2>1, <2>2 DEF TodoOK, Part
  <2>4. /\ UNCHANGED <<mode, gone, ctl, base>> /\ call' = [call EXCEPT ![u] = NoCall]
        /\ todo' = [todo EXCEPT ![u] = <<>>]
    BY <1>4 DEF TimeOut, Leave, windows
  <2> QED BY <2>3, <2>4, WinLeave
<1> QED BY <1>1, <1>2, <1>3, <1>4 DEF Access

LEMMA WinStep == WinInv /\ XStep => WinInv'
<1> SUFFICES ASSUME WinInv, XStep PROVE WinInv'
  OBVIOUS
<1>1. CASE \E u \in Users : Access(u) \/ (\E k \in XCalls : Begin(u, k))
  BY <1>1, WinAccess, WinBegin
<1>2. CASE Execute
  BY <1>2, WinStutter DEF Execute, winVars, windows
<1>3. CASE Unplug
  BY <1>3, WinUnplug
<1>4. CASE UNCHANGED winVars
  BY <1>4, WinStutter
<1> QED BY <1>1, <1>2, <1>3, <1>4 DEF XStep

LEMMA WinRest == WinInv => WindowsAtRest
<1> SUFFICES ASSUME WinInv, Calling = {}, ~gone, NEW c \in Chips, Own(c)
             PROVE  ctl[c] = Data(0)
  BY DEF WindowsAtRest
<1>1. \A u \in Users : todo[u] = <<>>
  BY DEF WinInv, Todos, Calling
<1>2. \A u \in Users, i \in Nat : ~Closes(u, i, c)
  BY <1>1 DEF Closes
<1> QED BY <1>2 DEF WinInv, Restored

(* However many calls run side by side, in any order and in every layout of *)
(* the BARs, the windows that calls use directly show the MPU again when no *)
(* call is under way (memx_xflow.c:167-253): the accessors alone.           *)
THEOREM WindowsCorrect == XSpec => []WindowsAtRest
<1>1. WinInv /\ [XNext]_xvars => WinInv'
  <2>1. XNext \/ UNCHANGED xvars => XStep
    BY DEF XNext, XStep, xvars, winVars, windows
  <2> QED BY <2>1, WinStep
<1> QED BY InitWin, <1>1, WinRest, PTL DEF XSpec

(* A step of a handler leaves the windows and the calls in them alone.      *)
LEMMA HandlerStep ==
  ASSUME NEW u \in Users, Handler(u)
  PROVE  UNCHANGED winVars
BY DEF Handler, WriteCmd, WriteThermal, WriteFwlog, ReadUpdateFlash, WriteGpio, ReadGpio,
       SlotWrite, StrayWrite, PointerWrite, SetFlag, LogStep, FlashStep, FlashPoll, FlashTimeOut, FlashReport, GpioStep,
       Start, xvars, winVars, windows

(* The same beside the files of /proc and /sys, whose handlers, connections *)
(* of the log and loss of the device come in any order (memx_fs_proc.c,     *)
(* memx_fw_log.c).                                                          *)
THEOREM WindowsBesideFiles == DSpec => []WindowsAtRest
<1>1. DInit => WinInv
  BY InitWin DEF DInit
<1>2. WinInv /\ [DNext]_vars => WinInv'
  <2> SUFFICES ASSUME WinInv, [DNext]_vars PROVE XStep
    BY WinStep
  <2>1. CASE \E u \in Users : Handler(u)
    BY <2>1, HandlerStep DEF XStep
  <2>2. CASE (\E c \in Chips : FwTake(c)) \/ FwFlash
    BY <2>2 DEF FwTake, FwFlash, xvars, winVars, windows, XStep
  <2>3. CASE RegisterCalls
    BY <2>3 DEF RegisterCalls, XStep
  <2>4. CASE UNCHANGED vars
    BY <2>4 DEF vars, xvars, winVars, windows, XStep
  <2> QED BY <2>1, <2>2, <2>3, <2>4 DEF DNext
<1> QED BY <1>1, <1>2, WinRest, PTL DEF DSpec

-----------------------------------------------------------------------------
(* The registers and the mailbox keep their types, whatever is under way.   *)
XTypeInv ==
  /\ mode \in Modes /\ gone \in BOOLEAN
  /\ reg \in [Chips -> [Registers -> Words]]
  /\ box \in [command : XCalls \cup {Complete}, address : Words, data : Words]
  /\ got \in [Users -> Words]
  /\ spoilt \subseteq Calling /\ left \in XCalls \cup {NoCall, Wild}

-----------------------------------------------------------------------------
(* The command slots.                                                       *)
Left(u, f, c) == \E i \in DOMAIN work[u] : work[u][i] = Step(f, c)

KnownIds ==
  /\ \A c \in Chips : pending[c] \subseteq 1 .. jobs /\ slot[c].command.id <= jobs
  /\ crossed \subseteq 1 .. jobs

Met == \A c \in Chips : \A a, b \in pending[c] : a # b => a \in crossed

CommandPends == \A c \in Chips : slot[c].command # NoJob => slot[c].command.id \in pending[c]

NotSentYet ==
  \A u \in Users, c \in Chips, f \in Fields : Left(u, f, c) => slot[c].command.id # job[u].id

(* The words that come before a command are there, or still to come.        *)
WordsReady ==
  \A u \in Users, c \in Chips : Left(u, "command", c) =>
    \A f \in Uses(job[u].kind) :
      \/ Left(u, f, c)
      \/ slot[c][f] = job[u] /\ job[u].id \in pending[c]
      \/ job[u].id \in crossed

SlotInv == KnownIds /\ Met /\ CommandPends /\ NotSentYet /\ WordsReady /\ CommandIsWhole

-----------------------------------------------------------------------------
(* Heat.                                                                    *)
Effective(c) == IF slot[c].command.kind \in Heats THEN slot[c].param.value ELSE throttle[c]

ThermalInv ==
  crossed = {} =>
    /\ \A u, v \in Working("thermal") : u = v
    /\ Working("thermal") = {} => \A c \in Chips \ remote : disabled = 1 - Effective(c)
    /\ \A u \in Working("thermal"), c \in Chips \ remote :
         Left(u, "command", c) \/ Effective(c) = job[u].value

-----------------------------------------------------------------------------
(* The log.                                                                 *)
Dist(a, b) == (b - a) % LogSize

Dumping(c) == {u \in Working("fwlog") : Now(u).chip = c}

LogOK(c) ==
  LET l == log[c]
      n == Dist(l.rp, l.wp)
  IN
  /\ n <= l.made
  /\ \A i \in 1 .. n : l.cells[(l.rp + i - 1) % LogSize] = l.made - n + i
  /\ \A u, v \in Dumping(c) : u = v
  /\ \A u \in Dumping(c) :
       /\ At(u, {"rp", "print", "advance"}) => Dist(l.rp, seen[u][1]) <= n
       /\ At(u, {"print", "advance"}) => seen[u][2] = l.rp
       /\ At(u, {"advance"}) =>
            l.printed = [i \in 1 .. (l.made - n + Dist(l.rp, seen[u][1])) |-> i]
  /\ (\A u \in Dumping(c) : ~At(u, {"advance"})) => l.printed = [i \in 1 .. (l.made - n) |-> i]

LogInv == \A c \in Chips \ muddled : LogOK(c)

-----------------------------------------------------------------------------
(* The flash.                                                               *)
FlashInv ==
  (~gone /\ ~flashSpoilt) =>
    /\ \A u, v \in Working("update") : u = v
    /\ sram.order => \E u \in Working("update") : At(u, {"poll"})
    /\ \A u \in Users :
         /\ At(u, {"clear", "order", "poll"}) => sram.image = job[u].id
         /\ At(u, {"order"}) => sram.outcome = 0
         /\ At(u, {"poll"}) => IF sram.order THEN sram.outcome = 0
                               ELSE sram.outcome = 1 => flash = job[u].id
         /\ At(u, {"report"}) /\ sram.outcome = 1 => flash = job[u].id

(* The pins.                                                                *)
PinInv ==
  \A u \in Users \ (moved \cup failed) :
    /\ At(u, {"ask"}) => seen[u][2] = gpio[2]
    /\ At(u, {"fetch", "label"}) => seen[u] = gpio

LEMMA WordShapes ==
  ASSUME NEW w \in Words
  PROVE  /\ w[1] = "buffer" => w[2] \in Chips
         /\ w[1] \in {"control", "base"} => w[2] \in Chips
BY DEF Words, Data, Address, Control, Base, Window, Nowhere, Registers, MpuRegisters

LEMMA TargetChip ==
  ASSUME base \in [Chips -> Words], NEW c \in Chips
  PROVE  /\ Target(c)[1] \in Registers => Target(c)[2] \in Chips
         /\ Target(c)[1] \in {"control", "base"} => Target(c)[2] \in Chips
<1>1. \A x \in Chips : /\ Shown(x)[1] \in Registers => Shown(x)[2] \in Chips
                       /\ Shown(x)[1] \in {"control", "base", "buffer"} => Shown(x)[2] \in Chips
  <2> SUFFICES ASSUME NEW x \in Chips
               PROVE  /\ Shown(x)[1] \in Registers => Shown(x)[2] \in Chips
                      /\ Shown(x)[1] \in {"control", "base", "buffer"} => Shown(x)[2] \in Chips
    OBVIOUS
  <2>1. base[x] \in Words
    OBVIOUS
  <2>2. CASE Shown(x) = Nowhere
    BY <2>2 DEF Nowhere, Registers, MpuRegisters
  <2>3. CASE base[x][1] \in Registers /\ Shown(x) = <<base[x][1], x>>
    BY <2>3
  <2>4. CASE base[x][1] \notin Registers /\ Shown(x) = base[x]
    BY <2>1, <2>4, WordShapes
  <2>5. \/ Shown(x) = Nowhere
        \/ base[x][1] \in Registers /\ Shown(x) = <<base[x][1], x>>
        \/ base[x][1] \notin Registers /\ Shown(x) = base[x]
    BY DEF Shown
  <2> QED BY <2>2, <2>3, <2>4, <2>5
<1> QED BY <1>1 DEF Target

LEMMA OnesIsWord == Ones \in Words /\ \A v \in 0 .. 2 : Data(v) \in Words
BY DEF Ones, Words, Data

LEMMA LoadIsWord ==
  ASSUME XTypeInv, WinInv, NEW c \in Chips
  PROVE  Load(Target(c)) \in Words
<1>1. base \in [Chips -> Words] /\ reg \in [Chips -> [Registers -> Words]]
  BY DEF WinInv, Shapes, XTypeInv
<1>2. Target(c)[1] \in Registers => Target(c)[2] \in Chips
  BY <1>1, TargetChip
<1> QED BY <1>1, <1>2, OnesIsWord, ChipsFacts DEF Load

LEMMA HeadOK ==
  ASSUME WinInv, NEW u \in Users, todo[u] # <<>>
  PROVE  Head(todo[u]) \in Ops /\ Head(todo[u]).chip \in Chips /\ Head(todo[u]).word \in Words
<1>1. todo[u] \in Seq(Ops)
  BY DEF WinInv, Shapes
<1>2. Head(todo[u]) \in Ops
  BY <1>1
<1> QED BY <1>2 DEF Ops

LEMMA CallFacts ==
  ASSUME NEW k \in XCalls
  PROVE  k.chip \in Chips /\ k.name \in Registers /\ k # NoCall
BY AfterPart, NoCallAssumption DEF NoCallAssumption

LEMMA XTypeWrite ==
  ASSUME XTypeInv, WinInv, NEW u \in Users, Write(u)
  PROVE  XTypeInv'
<1> DEFINE op == Head(todo[u])
           t == IF op.kind \in {"poke", "put"} THEN Target(op.chip) ELSE <<op.kind, op.chip>>
<1>1. /\ todo[u] # <<>> /\ op.kind \in {"control", "base", "poke", "put"}
      /\ Store(t, op.word) /\ UNCHANGED <<mode, gone, box, call, got, spoilt, left>>
  BY DEF Write, Ready
<1>2. op.chip \in Chips /\ op.word \in Words
  BY <1>1, HeadOK
<1>3. base \in [Chips -> Words] /\ reg \in [Chips -> [Registers -> Words]]
  BY DEF WinInv, Shapes, XTypeInv
<1>4. t[1] \in Registers => t[2] \in Chips
  BY <1>1, <1>2, <1>3, TargetChip DEF Registers, MpuRegisters
<1> HIDE DEF t, op
<1>5. reg' \in [Chips -> [Registers -> Words]]
  BY <1>1, <1>2, <1>3, <1>4 DEF Store
<1>6. Calling' = Calling
  BY <1>1 DEF Calling
<1> QED BY <1>1, <1>5, <1>6 DEF XTypeInv

LEMMA XTypeRead ==
  ASSUME XTypeInv, WinInv, NEW u \in Users, Read(u) \/ Completed(u) \/ Fetch(u)
  PROVE  XTypeInv'
<1>1. UNCHANGED <<mode, gone, reg, box, call, spoilt, left>>
  BY DEF Read, Completed, Fetch
<1>2. got' \in [Users -> Words]
  <2>1. got \in [Users -> Words] /\ box.data \in Words
    BY DEF XTypeInv
  <2>2. CASE Read(u)
    <3>1. Load(Target(Head(todo[u]).chip)) \in Words
      BY <2>2, HeadOK, LoadIsWord DEF Read, Ready
    <3> QED BY <2>1, <2>2, <3>1 DEF Read
  <2>3. CASE Completed(u) \/ Fetch(u)
    BY <2>1, <2>3, OnesIsWord DEF Completed, Fetch
  <2> QED BY <2>2, <2>3
<1>3. Calling' = Calling
  BY <1>1 DEF Calling
<1> QED BY <1>1, <1>2, <1>3 DEF XTypeInv

LEMMA XTypePost ==
  ASSUME XTypeInv, WinInv, NEW u \in Users, Post(u)
  PROVE  XTypeInv'
<1>1. UNCHANGED <<mode, gone, reg, call, got, spoilt, left>> /\ todo[u] # <<>>
  BY DEF Post, Ready
<1>2. Head(todo[u]).word \in Words /\ call[u] \in XCalls
  BY <1>1, HeadOK DEF WinInv, Shapes, Todos
<1>3. box' \in [command : XCalls \cup {Complete}, address : Words, data : Words]
  BY <1>2 DEF Post, XTypeInv
<1>4. Calling' = Calling
  BY <1>1 DEF Calling
<1> QED BY <1>1, <1>3, <1>4 DEF XTypeInv

LEMMA XTypeLeave ==
  ASSUME XTypeInv, WinInv, NEW u \in Users, Return(u) \/ TimeOut(u)
  PROVE  XTypeInv'
<1>1. /\ UNCHANGED <<mode, gone, reg, box>> /\ call' = [call EXCEPT ![u] = NoCall]
      /\ spoilt' = spoilt \ {u}
  BY DEF Return, TimeOut, Leave
<1>2. call \in [Users -> XCalls \cup {NoCall}]
  BY DEF WinInv, Shapes
<1>3. got' \in [Users -> Words]
  BY OnesIsWord DEF Return, TimeOut, XTypeInv
<1>4. left' \in XCalls \cup {NoCall, Wild}
  BY <1>2 DEF Return, TimeOut, XTypeInv
<1>5. spoilt' \subseteq Calling'
  BY <1>1, <1>2 DEF XTypeInv, Calling
<1> QED BY <1>1, <1>3, <1>4, <1>5 DEF XTypeInv

LEMMA XTypeBegin ==
  ASSUME XTypeInv, WinInv, NEW u \in Users, NEW k \in XCalls, Begin(u, k)
  PROVE  XTypeInv'
<1>1. /\ UNCHANGED <<mode, gone, reg, box, got, left>> /\ call' = [call EXCEPT ![u] = k]
      /\ spoilt' \subseteq spoilt \cup Calling \cup {u}
  BY DEF Begin
<1>2. call \in [Users -> XCalls \cup {NoCall}]
  BY DEF WinInv, Shapes
<1>3. spoilt' \subseteq Calling'
  BY <1>1, <1>2, CallFacts DEF XTypeInv, Calling
<1> QED BY <1>1, <1>3 DEF XTypeInv

LEMMA XTypeFirmware ==
  ASSUME XTypeInv, WinInv, Execute \/ Unplug
  PROVE  XTypeInv'
<1>1. CASE Execute
  <2>1. /\ UNCHANGED <<mode, gone, call, got, spoilt>> /\ left' = NoCall
        /\ box.command # NoCall
    BY <1>1 DEF Execute, Complete
  <2>2. /\ reg \in [Chips -> [Registers -> Words]] /\ box.command \in XCalls
        /\ box \in [command : XCalls \cup {Complete}, address : Words, data : Words]
    BY <2>1 DEF XTypeInv, Complete
  <2>3. box.command.chip \in Chips /\ box.data \in Words
    BY <2>2, CallFacts
  <2>4. reg' \in [Chips -> [Registers -> Words]]
    BY <1>1, <2>2, <2>3 DEF Execute
  <2>5. box' \in [command : XCalls \cup {Complete}, address : Words, data : Words]
    BY <1>1, <2>2, <2>3, ChipsFacts DEF Execute
  <2>6. Calling' = Calling
    BY <2>1 DEF Calling
  <2> QED BY <2>1, <2>4, <2>5, <2>6 DEF XTypeInv
<1>2. CASE Unplug
  <2>1. /\ UNCHANGED <<mode, reg, box, call, got, left>> /\ gone' = TRUE
        /\ spoilt' = Calling
    BY <1>2 DEF Unplug
  <2> QED BY <2>1 DEF XTypeInv, Calling
<1> QED BY <1>1, <1>2

LEMMA XTypeStutter ==
  ASSUME XTypeInv, UNCHANGED <<mode, gone, reg, box, call, got, spoilt, left>>
  PROVE  XTypeInv'
BY DEF XTypeInv, Calling

LEMMA XTypeAccess ==
  ASSUME XTypeInv, WinInv, NEW u \in Users, Access(u)
  PROVE  XTypeInv'
BY XTypeWrite, XTypeRead, XTypePost, XTypeLeave DEF Access

LEMMA XTypeInit == XInit => XTypeInv
<1> SUFFICES ASSUME XInit PROVE XTypeInv
  OBVIOUS
<1>1. Data(0) \in Words /\ Data(1) \in Words
  BY ChipsFacts
<1>2. reg \in [Chips -> [Registers -> Words]]
  BY <1>1 DEF XInit
<1> QED BY <1>1, <1>2 DEF XInit, XTypeInv

-----------------------------------------------------------------------------
(* The accessors implement MxRegisters.                                     *)

(* What a call does, counted from its end: StepAt(k, n) is its access with  *)
(* n to go.  A call to an MPU register in a window used directly leaves out *)
(* the last, which closes the window.                                       *)
Use(k, c) == IF k.op = "write" THEN Op("put", c, k.value) ELSE Op("get", c, Data(0))

OwnStep(k, n) ==
  CASE n = 4 -> Op("control", k.chip, Data(IF Mpu(k.name) THEN 0 ELSE 1))
    [] n = 3 -> Op("base", k.chip, Address(k.name))
    [] n = 2 -> Use(k, k.chip)
    [] OTHER -> Op("control", k.chip, Data(0))

DistantStep(k, n) ==
  CASE n \in {13, 10, 7, 4} -> Op("control", 0, Data(1))
    [] n \in {12, 3}        -> Op("base", 0, Control(k.chip))
    [] n = 11 -> Op("poke", 0, Data(1))
    [] n = 9  -> Op("base", 0, Base(k.chip))
    [] n = 8  -> Op("poke", 0, Address(k.name))
    [] n = 6  -> Op("base", 0, Window(k.chip))
    [] n = 5  -> Use(k, 0)
    [] n = 2  -> Op("poke", 0, Data(0))
    [] OTHER  -> Op("control", 0, Data(0))

IssueAt(k) == IF k.op = "write" THEN 2 ELSE 3

MailStep(k, n) ==
  CASE n = 5 -> Await
    [] n = 4 -> Op("address", 0, Address(k.name))
    [] n = IssueAt(k)     -> Op("issue", k.chip, Nowhere)
    [] n = IssueAt(k) - 1 -> Await
    [] n = 3 /\ k.op = "write" -> Op("data", 0, k.value)
    [] OTHER -> Op("fetch", 0, Nowhere)

Direct(k) == ~Refused(k) /\ mode # "mailbox" /\ Own(k.chip)
Distant(k) == ~Refused(k) /\ mode # "mailbox" /\ ~Own(k.chip)
Mailed(k) == ~Refused(k) /\ mode = "mailbox"

StepAt(k, n) ==
  IF Direct(k) THEN OwnStep(k, n) ELSE IF Distant(k) THEN DistantStep(k, n)
  ELSE IF Mailed(k) THEN MailStep(k, n) ELSE Op("refuse", 0, Nowhere)

Longest(k) == IF Direct(k) THEN 4 ELSE IF Distant(k) THEN 13 ELSE IF Mailed(k) THEN 5 ELSE 1
Skips(k) == IF Direct(k) /\ Mpu(k.name) THEN 1 ELSE 0

(* s is what a call has left.                                               *)
Rest(s, k) ==
  /\ Len(s) + Skips(k) <= Longest(k)
  /\ \A i \in DOMAIN s : s[i] = StepAt(k, Len(s) + Skips(k) + 1 - i)

(* The accesses of a program from the one with a to go to the one with b+1. *)
Span(s, k, a, b) ==
  /\ s \in Seq(Ops) /\ Len(s) = a - b
  /\ \A i \in DOMAIN s : s[i] = StepAt(k, a + 1 - i)

(* Two parts of a program, one after the other.                             *)
LEMMA SpanJoin ==
  ASSUME NEW k, NEW a \in Nat, NEW b \in Nat, NEW c \in Nat, NEW s, NEW r,
         Span(s, k, a, b), Span(r, k, b, c)
  PROVE  Span(s \o r, k, a, c)
<1>1. /\ s \in Seq(Ops) /\ r \in Seq(Ops) /\ Len(s) = a - b /\ Len(r) = b - c
      /\ s \o r \in Seq(Ops)
  BY DEF Span
<1>2. Len(s \o r) = Len(s) + Len(r)
  BY <1>1
<1>3. ASSUME NEW i \in DOMAIN (s \o r)
      PROVE  (s \o r)[i] = StepAt(k, a + 1 - i)
  <2>1. CASE i <= Len(s)
    <3>1. i \in DOMAIN s /\ (s \o r)[i] = s[i]
      BY <1>1, <2>1
    <3> QED BY <3>1 DEF Span
  <2>2. CASE i > Len(s)
    <3>1. i - Len(s) \in DOMAIN r /\ (s \o r)[i] = r[i - Len(s)]
      BY <1>1, <2>2
    <3>2. r[i - Len(s)] = StepAt(k, b + 1 - (i - Len(s)))
      BY <3>1 DEF Span
    <3>3. b + 1 - (i - Len(s)) = a + 1 - i
      BY <1>1
    <3> QED BY <3>1, <3>2, <3>3
  <2> QED BY <1>1, <2>1, <2>2
<1> QED BY <1>1, <1>2, <1>3 DEF Span

LEMMA SpanOne ==
  ASSUME NEW k, NEW a \in Nat, NEW x \in Ops, x = StepAt(k, a + 1)
  PROVE  Span(<<x>>, k, a + 1, a)
BY DEF Span

(* Three accesses that reach a word behind chip 0.                          *)
LEMMA SpanThrough ==
  ASSUME NEW k, NEW n \in Nat, NEW c \in Chips, NEW w \in {Control(c), Base(c), Window(c)},
         NEW x \in Ops, Op("control", 0, Data(1)) = StepAt(k, n + 3),
         Op("base", 0, w) = StepAt(k, n + 2), x = StepAt(k, n + 1)
  PROVE  Span(Through(w, x), k, n + 3, n)
<1> DEFINE one == Op("control", 0, Data(1))
           two == Op("base", 0, w)
<1>1. one \in Ops /\ two \in Ops
  BY OpType, ChipsFacts DEF OpKinds
<1> HIDE DEF one, two
<1>2. <<one, two, x>> \in Seq(Ops) /\ Len(<<one, two, x>>) = 3
  BY <1>1
<1>3. /\ one = StepAt(k, n + 3 + 1 - 1) /\ two = StepAt(k, n + 3 + 1 - 2)
      /\ x = StepAt(k, n + 3 + 1 - 3)
  <2>1. n + 3 + 1 - 1 = n + 3 /\ n + 3 + 1 - 2 = n + 2 /\ n + 3 + 1 - 3 = n + 1
    OBVIOUS
  <2> QED BY <2>1 DEF one, two
<1>4. Span(<<one, two, x>>, k, n + 3, n)
  BY <1>2, <1>3 DEF Span
<1> QED BY <1>4 DEF Through, one, two

(* A span down to the end of a program is what is left of it.               *)
LEMMA SpanRest ==
  ASSUME NEW k \in XCalls, NEW s, Span(s, k, Longest(k), Skips(k))
  PROVE  Rest(s, k) /\ Len(s) + Skips(k) = Longest(k)
<1>1. Longest(k) \in Nat /\ Skips(k) \in Nat
  BY DEF Longest, Skips
<1>2. Len(s) + Skips(k) = Longest(k) /\ Len(s) \in Nat
  BY <1>1 DEF Span
<1>3. ASSUME NEW i \in DOMAIN s PROVE s[i] = StepAt(k, Len(s) + Skips(k) + 1 - i)
  BY <1>2 DEF Span
<1> QED BY <1>1, <1>2, <1>3 DEF Rest

(* The values of the calls.                                                 *)
LEMMA CallValues ==
  ASSUME NEW k \in XCalls
  PROVE  /\ k.chip \in Chips /\ k.name \in Registers /\ k.value \in {Data(0), Data(1)}
         /\ Address(k.name) \in Words /\ Address(k.name)[1] = k.name
         /\ k.value \in Words /\ k.op \in {"write", "read"}
         /\ k.name = "irq" <=> Mpu(k.name)
         /\ k.name = "irq" <=> k \in Doorbells
         /\ k # NoCall /\ k # Wild
<1>1. k.chip \in Chips /\ k.name \in Registers /\ k.value \in {Data(0), Data(1)}
  BY AfterPart
<1>2. Address(k.name) \in Words /\ Address(k.name)[1] = k.name /\ k.value \in Words
  BY <1>1, ChipsFacts DEF Address
<1>3. k.op \in {"write", "read"} /\ (k.name = "irq" <=> k \in Doorbells)
  BY DEF XCalls, Doorbells, Connections, LocalInterrupts, Call
<1>4. k # NoCall
  BY NoCallAssumption DEF NoCallAssumption
<1>5. k # Wild
  BY <1>1 DEF Wild, Call, Registers, MpuRegisters
<1> QED BY <1>1, <1>2, <1>3, <1>4, <1>5 DEF Mpu, MpuRegisters

LEMMA ModeCases ==
  ASSUME mode \in Modes
  PROVE  mode \in {"direct", "short", "fourBar", "mailbox"}
BY XflowAssumption DEF XflowAssumption

(* A call begins with all of its program to go.                             *)
LEMMA ProgramRest ==
  ASSUME NEW k \in XCalls, mode = "fourBar" => ~Mpu(k.name)
  PROVE  Rest(Program(k), k) /\ Len(Program(k)) + Skips(k) = Longest(k)
<1>1. /\ k.chip \in Chips /\ k.name \in Registers /\ k.value \in {Data(0), Data(1)}
      /\ Address(k.name) \in Words /\ k.value \in Words /\ 0 \in Chips
      /\ Data(0) \in Words /\ Data(1) \in Words /\ Nowhere \in Words
  BY CallValues, ChipsFacts
<1>2. ASSUME NEW kind \in OpKinds, NEW c \in Chips, NEW w \in Words
      PROVE  Op(kind, c, w) \in Ops
  BY OpType
<1> DEFINE mid == IF k.op = "write" THEN WriteBuffer(k.chip, k.value) ELSE ReadBuffer(k.chip)
           open == SetMode(k.chip, Data(IF Mpu(k.name) THEN 0 ELSE 1))
           place == SetBase(k.chip, Address(k.name))
           one == IF Mpu(k.name) THEN <<>> ELSE SetMode(k.chip, Data(0))
           two == IF mode = "fourBar" /\ k.chip > 0 THEN SetMode(0, Data(0)) ELSE <<>>
<1>3. ASSUME NEW c \in Chips PROVE Use(k, c) \in Ops
  BY <1>1, <1>2 DEF Use, OpKinds
<1>4. ~Refused(k) /\ mode # "mailbox" => Program(k) = ((open \o place) \o mid) \o (one \o two)
  BY DEF Program, XflowWrite, XflowRead, Before, After
<1>5. CASE Direct(k)
  <2> DEFINE a == Op("control", k.chip, Data(IF Mpu(k.name) THEN 0 ELSE 1))
             b == Op("base", k.chip, Address(k.name))
             z == Op("control", k.chip, Data(0))
  <2>1. a \in Ops /\ b \in Ops /\ z \in Ops /\ Use(k, k.chip) \in Ops
    BY <1>1, <1>2, <1>3 DEF OpKinds
  <2>2. /\ a = StepAt(k, 3 + 1) /\ b = StepAt(k, 2 + 1) /\ Use(k, k.chip) = StepAt(k, 1 + 1)
        /\ z = StepAt(k, 0 + 1)
    BY <1>5 DEF StepAt, OwnStep
  <2>3. /\ open = <<a>> /\ place = <<b>> /\ mid = <<Use(k, k.chip)>> /\ two = <<>>
        /\ one = IF Mpu(k.name) THEN <<>> ELSE <<z>>
    BY <1>1, <1>5 DEF Direct, SetMode, SetBase, WriteBuffer, ReadBuffer, Use, Own, Chips
  <2> HIDE DEF a, b, z, mid, open, place, one, two
  <2>4. /\ Span(<<a>>, k, 3 + 1, 3) /\ Span(<<b>>, k, 2 + 1, 2)
        /\ Span(<<Use(k, k.chip)>>, k, 1 + 1, 1) /\ Span(<<z>>, k, 0 + 1, 0)
    BY <2>1, <2>2, SpanOne
  <2>5. Span(open, k, 4, 3) /\ Span(place, k, 3, 2) /\ Span(mid, k, 2, 1) /\ Span(<<z>>, k, 1, 0)
    BY <2>3, <2>4
  <2>6. Span((open \o place) \o mid, k, 4, 1)
    <3>1. Span(open \o place, k, 4, 2)
      BY <2>5, SpanJoin
    <3> QED BY <2>5, <3>1, SpanJoin
  <2>7. Span(one \o two, k, 1, Skips(k))
    <3>1. Mpu(k.name) => Skips(k) = 1 /\ one \o two = <<>>
      BY <1>5, <2>3 DEF Skips
    <3>2. Span(<<>>, k, 1, 1)
      BY DEF Span
    <3>3. ~Mpu(k.name) => Skips(k) = 0 /\ one \o two = <<z>>
      BY <1>5, <2>1, <2>3 DEF Skips
    <3> QED BY <2>5, <3>1, <3>2, <3>3
  <2>8. Longest(k) = 4 /\ Skips(k) \in Nat
    BY <1>5 DEF Longest, Skips
  <2>9. Span(Program(k), k, 4, Skips(k))
    BY <1>4, <1>5, <2>6, <2>7, <2>8, SpanJoin DEF Direct
  <2> QED BY <2>8, <2>9, SpanRest
<1>6. CASE Distant(k)
  <2>1. ~Own(k.chip) /\ mode = "fourBar" /\ k.chip # 0 /\ k.chip > 0 /\ ~Mpu(k.name)
    BY <1>1, <1>6 DEF Distant, Own, Chips
  <2> DEFINE z == Op("control", 0, Data(0))
             x == Op("poke", 0, Data(1))
             y == Op("poke", 0, Address(k.name))
             w == Op("poke", 0, Data(0))
             c == k.chip
  <2>2. z \in Ops /\ x \in Ops /\ y \in Ops /\ w \in Ops /\ Use(k, 0) \in Ops
    BY <1>1, <1>2, <1>3 DEF OpKinds
  <2>3. /\ open = Through(Control(c), x) /\ place = Through(Base(c), y)
        /\ mid = Through(Window(c), Use(k, 0))
        /\ one = Through(Control(c), w) /\ two = <<z>>
    BY <2>1 DEF SetMode, SetBase, WriteBuffer, ReadBuffer, Use, Own
  <2>4. \A n : StepAt(k, n) = DistantStep(k, n)
    BY <1>6 DEF StepAt, Direct, Distant
  <2> HIDE DEF mid, open, place, one, two
  <2>5. Span(open, k, 13, 10)
    <3>1. /\ Op("control", 0, Data(1)) = StepAt(k, 10 + 3)
          /\ Op("base", 0, Control(c)) = StepAt(k, 10 + 2) /\ x = StepAt(k, 10 + 1)
      BY <2>4 DEF DistantStep
    <3>2. Span(Through(Control(c), x), k, 10 + 3, 10)
      BY <1>1, <2>2, <3>1, SpanThrough
    <3> QED BY <2>3, <3>2
  <2>6. Span(place, k, 10, 7)
    <3>1. /\ Op("control", 0, Data(1)) = StepAt(k, 7 + 3)
          /\ Op("base", 0, Base(c)) = StepAt(k, 7 + 2) /\ y = StepAt(k, 7 + 1)
      BY <2>4 DEF DistantStep
    <3>2. Span(Through(Base(c), y), k, 7 + 3, 7)
      BY <1>1, <2>2, <3>1, SpanThrough
    <3> QED BY <2>3, <3>2
  <2>7. Span(mid, k, 7, 4)
    <3>1. /\ Op("control", 0, Data(1)) = StepAt(k, 4 + 3)
          /\ Op("base", 0, Window(c)) = StepAt(k, 4 + 2) /\ Use(k, 0) = StepAt(k, 4 + 1)
      BY <2>4 DEF DistantStep
    <3>2. Span(Through(Window(c), Use(k, 0)), k, 4 + 3, 4)
      BY <1>1, <2>2, <3>1, SpanThrough
    <3> QED BY <2>3, <3>2
  <2>8. Span(one, k, 4, 1)
    <3>1. /\ Op("control", 0, Data(1)) = StepAt(k, 1 + 3)
          /\ Op("base", 0, Control(c)) = StepAt(k, 1 + 2) /\ w = StepAt(k, 1 + 1)
      BY <2>4 DEF DistantStep
    <3>2. Span(Through(Control(c), w), k, 1 + 3, 1)
      BY <1>1, <2>2, <3>1, SpanThrough
    <3> QED BY <2>3, <3>2
  <2>9. Span(two, k, 1, 0)
    <3>1. z = StepAt(k, 0 + 1)
      BY <2>4 DEF DistantStep
    <3>2. Span(<<z>>, k, 0 + 1, 0)
      BY <2>2, <3>1, SpanOne
    <3> QED BY <2>3, <3>2
  <2>10. Span((open \o place) \o mid, k, 13, 4)
    <3>1. Span(open \o place, k, 13, 7)
      BY <2>5, <2>6, SpanJoin
    <3> QED BY <2>7, <3>1, SpanJoin
  <2>11. Span(one \o two, k, 4, 0)
    BY <2>8, <2>9, SpanJoin
  <2>12. Span(Program(k), k, 13, 0)
    BY <1>4, <1>6, <2>10, <2>11, SpanJoin DEF Distant
  <2>13. Longest(k) = 13 /\ Skips(k) = 0
    BY <1>6 DEF Longest, Skips, Direct, Distant
  <2> QED BY <2>12, <2>13, SpanRest
<1>7. CASE Mailed(k)
  <2> DEFINE a == Op("address", 0, Address(k.name))
             d == Op("data", 0, k.value)
             i == Op("issue", k.chip, Nowhere)
             f == Op("fetch", 0, Nowhere)
  <2>1. Await \in Ops /\ a \in Ops /\ d \in Ops /\ i \in Ops /\ f \in Ops
    BY <1>1, <1>2 DEF OpKinds, Await
  <2>2. Program(k) = IF k.op = "write" THEN <<Await, a, d, i, Await>> ELSE <<Await, a, i, Await, f>>
    BY <1>7 DEF Mailed, Program, XflowWrite, XflowRead
  <2>3. /\ \A n : StepAt(k, n) = MailStep(k, n)
        /\ Longest(k) = 5 /\ Skips(k) = 0
    BY <1>7 DEF StepAt, Longest, Skips, Direct, Distant, Mailed
  <2>4. /\ StepAt(k, 5) = Await /\ StepAt(k, 4) = a
        /\ k.op = "write" => StepAt(k, 3) = d /\ StepAt(k, 2) = i /\ StepAt(k, 1) = Await
        /\ k.op # "write" => StepAt(k, 3) = i /\ StepAt(k, 2) = Await /\ StepAt(k, 1) = f
    BY <2>3 DEF MailStep, IssueAt
  <2> HIDE DEF a, d, i, f
  <2>5. Program(k) \in Seq(Ops) /\ Len(Program(k)) = 5
    BY <2>1, <2>2
  <2>6. ASSUME NEW j \in DOMAIN Program(k)
        PROVE  Program(k)[j] = StepAt(k, 5 + 1 - j)
    <3>1. j \in {1, 2, 3, 4, 5}
      BY <2>5
    <3> QED BY <2>1, <2>2, <2>4, <3>1
  <2>7. Span(Program(k), k, 5, 0)
    BY <2>5, <2>6 DEF Span
  <2> QED BY <2>3, <2>7, SpanRest
<1>8. CASE Refused(k)
  <2> DEFINE r == Op("refuse", 0, Nowhere)
  <2>1. r \in Ops
    BY <1>1, <1>2 DEF OpKinds
  <2>2. Program(k) = <<r>> /\ Longest(k) = 1 /\ Skips(k) = 0
    BY <1>8 DEF Program, Longest, Skips, Direct, Distant, Mailed
  <2>3. r = StepAt(k, 0 + 1)
    BY <1>8 DEF StepAt, Direct, Distant, Mailed
  <2> HIDE DEF r
  <2>4. Span(<<r>>, k, 0 + 1, 0)
    BY <2>1, <2>3, SpanOne
  <2> QED BY <2>2, <2>4, SpanRest
<1> QED BY <1>5, <1>6, <1>7, <1>8 DEF Direct, Distant, Mailed

-----------------------------------------------------------------------------
(* The invariant of the refinement.                                         *)

(* The step at which a call takes effect, or has the firmware do it.        *)
UseAt(k) == IF Direct(k) THEN 2 ELSE IF Distant(k) THEN 5 ELSE IssueAt(k)

ToGo(u) == Len(todo[u]) + Skips(call[u])

Planned ==
  \A u \in Calling : /\ Rest(todo[u], call[u])
                     /\ Refused(call[u]) => todo[u] # <<>>
                     /\ mode = "fourBar" => ~Mpu(call[u].name)

Apart == \A u, v \in Calling : u # v /\ u \notin spoilt => ~Meet(call[u], call[v])

GoneSpoils == gone => Calling = spoilt

(* What a call has set up when n of its steps are to go: the window that    *)
(* will lead to its register, or the words of the mailbox.                  *)
OwnReady(k, n) ==
  /\ n \in {2, 3} => ctl[k.chip] = Data(IF Mpu(k.name) THEN 0 ELSE 1)
  /\ n = 2 => base[k.chip] = Address(k.name)

DistantReady(k, n) ==
  /\ n \in 2 .. 12  => ctl[0] = Data(1)
  /\ n \in {11, 2}  => base[0] = Control(k.chip)
  /\ n = 8          => base[0] = Base(k.chip)
  /\ n = 5          => base[0] = Window(k.chip)
  /\ n \in 5 .. 10  => ctl[k.chip] = Data(1)
  /\ n \in 5 .. 7   => base[k.chip] = Address(k.name)

Worded(k) == box.address = Address(k.name) /\ (k.op = "write" => box.data = k.value)

MailReady(k, n) ==
  /\ n \notin {5, IssueAt(k) - 1} => box.command = Complete
  /\ n \in {3, 2} => box.address = Address(k.name)
  /\ n = 2 /\ k.op = "write" => box.data = k.value
  /\ n = IssueAt(k) - 1 => box.command = Complete \/ (box.command = k /\ Worded(k))

ReadyAt(k, n) ==
  /\ Direct(k)  => OwnReady(k, n)
  /\ Distant(k) => DistantReady(k, n)
  /\ Mailed(k)  => MailReady(k, n)

Prepared == \A u \in Calling \ spoilt : ReadyAt(call[u], ToGo(u))

Sent(u) == mode = "mailbox" /\ Len(todo[u]) = IssueAt(call[u]) - 1

(* A command in the mailbox is that of a call which waits for it, or of one *)
(* given up on, and then nobody else has come past its first wait.          *)
CommandOwned ==
  /\ mode # "mailbox" => box.command = Complete
  /\ ~gone /\ box.command # Complete => left # NoCall \/ \E u \in Calling : Sent(u)

LeftBehind ==
  /\ left # NoCall =>
       box.command # Complete /\ \A u \in Calling \ spoilt : Len(todo[u]) = 5
  /\ left \notin {NoCall, Wild} =>
       box.command = left /\ Worded(left) /\ \A u \in Calling : Len(todo[u]) = 5

RefInv ==
  /\ XTypeInv /\ WinInv /\ Planned /\ Apart /\ GoneSpoils /\ Prepared
  /\ CommandOwned /\ LeftBehind

(* What a call does depends on the layout only.                             *)
LEMMA SameProgram ==
  ASSUME mode' = mode
  PROVE  /\ \A k : /\ Refused(k)' <=> Refused(k)
                   /\ Direct(k)' <=> Direct(k)
                   /\ Distant(k)' <=> Distant(k)
                   /\ Mailed(k)' <=> Mailed(k)
                   /\ Skips(k)' = Skips(k) /\ UseAt(k)' = UseAt(k)
         /\ \A s, k : Rest(s, k)' <=> Rest(s, k)
         /\ \A a, b : Meet(a, b)' <=> Meet(a, b)
<1>1. \A c : Own(c)' <=> Own(c)
  BY DEF Own
<1>2. \A k : Refused(k)' <=> Refused(k)
  BY DEF Refused
<1>3. \A k : /\ Direct(k)' <=> Direct(k)
             /\ Distant(k)' <=> Distant(k)
             /\ Mailed(k)' <=> Mailed(k)
  BY <1>1, <1>2 DEF Direct, Distant, Mailed
<1>4. \A k : Skips(k)' = Skips(k) /\ Longest(k)' = Longest(k) /\ UseAt(k)' = UseAt(k)
  BY <1>3 DEF Skips, Longest, UseAt
<1>5. \A k, n : StepAt(k, n)' = StepAt(k, n)
  BY <1>3 DEF StepAt
<1>6. \A s, k : Rest(s, k)' <=> Rest(s, k)
  BY <1>4, <1>5 DEF Rest
<1>7. \A a, b : Meet(a, b)' <=> Meet(a, b)
  BY DEF Meet
<1> QED BY <1>2, <1>3, <1>4, <1>6, <1>7

(* What the accesses of a call are, by the steps it has to go.              *)
LEMMA AccessKinds ==
  ASSUME NEW k \in XCalls, NEW n \in Nat, Skips(k) < n, n <= Longest(k)
  PROVE  /\ StepAt(k, n).kind \in {"put", "get", "issue"} <=> ~Refused(k) /\ n = UseAt(k)
         /\ StepAt(k, n).kind \in {"control", "base", "poke", "put", "get"} =>
              Direct(k) \/ Distant(k)
         /\ StepAt(k, n).kind \in {"address", "data", "issue", "await", "fetch"} =>
              Mailed(k)
         /\ StepAt(k, n).kind = "refuse" <=> Refused(k)
<1>1. CASE Direct(k)
  BY <1>1, CallValues DEF Direct, Distant, Mailed, StepAt, OwnStep, UseAt, Longest, Skips, Use, Op
<1>2. CASE Distant(k)
  BY <1>2, CallValues
     DEF Direct, Distant, Mailed, StepAt, DistantStep, UseAt, Longest, Skips, Use, Op
<1>3. CASE Mailed(k)
  BY <1>3, CallValues
     DEF Direct, Distant, Mailed, StepAt, MailStep, UseAt, IssueAt, Longest, Skips, Op, Await
<1>4. CASE Refused(k)
  BY <1>4 DEF Direct, Distant, Mailed, StepAt, Op
<1> QED BY <1>1, <1>2, <1>3, <1>4 DEF Direct, Distant, Mailed

(* The accesses of a call to the mailbox.                                   *)
LEMMA MailKinds ==
  ASSUME NEW k \in XCalls, NEW n \in Nat, 0 < n, n <= 5, Mailed(k)
  PROVE  /\ StepAt(k, n).kind = "await"   <=> n = 5 \/ n = IssueAt(k) - 1
         /\ StepAt(k, n).kind = "address" <=> n = 4
         /\ StepAt(k, n).kind = "data"    <=> n = 3 /\ k.op = "write"
         /\ StepAt(k, n).kind = "issue"   <=> n = IssueAt(k)
         /\ StepAt(k, n).kind = "fetch"   <=> n = 1 /\ k.op = "read"
         /\ n = 4 => StepAt(k, n).word = Address(k.name)
         /\ n = 3 /\ k.op = "write" => StepAt(k, n).word = k.value
         /\ IssueAt(k) = (IF k.op = "write" THEN 2 ELSE 3)
<1>1. StepAt(k, n) = MailStep(k, n)
  BY DEF StepAt, Direct, Distant, Mailed
<1>2. k.op \in {"write", "read"}
  BY CallValues
<1> QED BY <1>1, <1>2 DEF MailStep, IssueAt, Op, Await

(* A call under way, and how much of it is to go.                           *)
LEMMA CallerFacts ==
  ASSUME RefInv, NEW u \in Calling
  PROVE  /\ u \in Users /\ call[u] \in XCalls /\ todo[u] \in Seq(Ops)
         /\ Skips(call[u]) \in 0 .. 1 /\ ToGo(u) \in Nat /\ Len(todo[u]) \in Nat
         /\ ToGo(u) = Len(todo[u]) + Skips(call[u])
         /\ ToGo(u) <= Longest(call[u]) /\ Longest(call[u]) \in Nat
         /\ \/ UseAt(call[u]) > Skips(call[u]) /\ UseAt(call[u]) < Longest(call[u])
            \/ Refused(call[u])
         /\ UseAt(call[u]) \in Nat
         /\ Mailed(call[u]) <=> mode = "mailbox"
         /\ mode = "mailbox" => Skips(call[u]) = 0 /\ ToGo(u) = Len(todo[u])
<1>1. u \in Users /\ call[u] \in XCalls /\ todo[u] \in Seq(Ops)
  BY DEF RefInv, WinInv, Shapes, Calling
<1>2. Skips(call[u]) \in 0 .. 1 /\ Longest(call[u]) \in Nat /\ UseAt(call[u]) \in Nat
  BY DEF Skips, Longest, UseAt, IssueAt
<1>3. ToGo(u) \in Nat /\ Len(todo[u]) \in Nat /\ ToGo(u) = Len(todo[u]) + Skips(call[u])
  BY <1>1, <1>2 DEF ToGo
<1>4. ToGo(u) <= Longest(call[u])
  BY <1>3 DEF RefInv, Planned, Rest
<1>5. \/ UseAt(call[u]) > Skips(call[u]) /\ UseAt(call[u]) < Longest(call[u])
      \/ Refused(call[u])
  BY DEF UseAt, IssueAt, Skips, Longest, Direct, Distant, Mailed
<1>6. Mailed(call[u]) <=> mode = "mailbox"
  BY DEF Mailed, Refused
<1>7. mode = "mailbox" => Skips(call[u]) = 0
  BY DEF Skips, Direct
<1> QED BY <1>1, <1>2, <1>3, <1>4, <1>5, <1>6, <1>7

(* The next access of a call is that of the steps it has to go.             *)
LEMMA NextAccess ==
  ASSUME RefInv, NEW u \in Users, todo[u] # <<>>
  PROVE  /\ u \in Calling /\ Skips(call[u]) < ToGo(u) /\ ToGo(u) > 0
         /\ Head(todo[u]) = StepAt(call[u], ToGo(u))
<1>1. u \in Calling
  BY DEF RefInv, WinInv, Todos, Calling
<1>2. /\ todo[u] \in Seq(Ops) /\ Skips(call[u]) \in 0 .. 1 /\ Len(todo[u]) \in Nat
      /\ ToGo(u) = Len(todo[u]) + Skips(call[u])
  BY <1>1, CallerFacts
<1>3. Len(todo[u]) > 0 /\ 1 \in DOMAIN todo[u] /\ Head(todo[u]) = todo[u][1]
  BY <1>2
<1>4. todo[u][1] = StepAt(call[u], ToGo(u) + 1 - 1)
  BY <1>1, <1>2, <1>3 DEF RefInv, Planned, Rest
<1>5. ToGo(u) + 1 - 1 = ToGo(u)
  BY <1>2
<1> QED BY <1>1, <1>2, <1>3, <1>4, <1>5

(* What is left behind the next access.                                     *)
LEMMA RestTail ==
  ASSUME NEW k, Skips(k) \in Nat, Longest(k) \in Nat, NEW s \in Seq(Ops), s # <<>>, Rest(s, k)
  PROVE  Rest(Tail(s), k)
<1>1. /\ Tail(s) \in Seq(Ops) /\ Len(Tail(s)) = Len(s) - 1 /\ Len(s) \in Nat
      /\ \A i \in DOMAIN Tail(s) : i \in Nat /\ i + 1 \in DOMAIN s /\ Tail(s)[i] = s[i + 1]
  OBVIOUS
<1>2. ASSUME NEW i \in DOMAIN Tail(s)
      PROVE  Tail(s)[i] = StepAt(k, Len(Tail(s)) + Skips(k) + 1 - i)
  <2>1. s[i + 1] = StepAt(k, Len(s) + Skips(k) + 1 - (i + 1))
    BY <1>1 DEF Rest
  <2>2. Len(s) + Skips(k) + 1 - (i + 1) = Len(Tail(s)) + Skips(k) + 1 - i
    BY <1>1
  <2> QED BY <1>1, <2>1, <2>2
<1> QED BY <1>1, <1>2 DEF Rest

(* A user that makes its next access has one step less to go.               *)
LEMMA OneLess ==
  ASSUME RefInv, NEW u \in Users, todo[u] # <<>>, Done(u), UNCHANGED <<mode, call>>,
         ~Refused(call[u])
  PROVE  /\ Planned' /\ Calling' = Calling
         /\ ToGo(u)' = ToGo(u) - 1 /\ Len(todo[u])' = Len(todo[u]) - 1
         /\ \A v \in Users : v # u => todo'[v] = todo[v] /\ ToGo(v)' = ToGo(v)
<1>1. u \in Calling /\ call[u] \in XCalls /\ todo[u] \in Seq(Ops) /\ Len(todo[u]) \in Nat
      /\ Skips(call[u]) \in Nat /\ Longest(call[u]) \in Nat
  BY NextAccess, CallerFacts
<1>2. todo \in [Users -> Seq(Ops)]
  BY DEF RefInv, WinInv, Shapes
<1>3. todo'[u] = Tail(todo[u]) /\ \A v \in Users : v # u => todo'[v] = todo[v]
  BY <1>2 DEF Done
<1>4. Len(Tail(todo[u])) = Len(todo[u]) - 1
  BY <1>1
<1>5. Calling' = Calling
  BY DEF Calling
<1>6. \A v \in Users : Skips(call[v])' = Skips(call[v])
  BY SameProgram
<1>7. ToGo(u)' = ToGo(u) - 1
  BY <1>1, <1>3, <1>4, <1>6 DEF ToGo
<1>8. \A v \in Users : v # u => ToGo(v)' = ToGo(v)
  BY <1>3, <1>6 DEF ToGo
<1>9. Planned'
  <2> SUFFICES ASSUME NEW v \in Calling
               PROVE  /\ Rest(todo[v], call[v])'
                      /\ Refused(call[v])' => todo'[v] # <<>>
                      /\ mode = "fourBar" => ~Mpu(call[v].name)
    BY <1>5 DEF Planned
  <2>1. /\ Rest(todo[v], call[v])
        /\ Refused(call[v]) => todo[v] # <<>>
        /\ mode = "fourBar" => ~Mpu(call[v].name)
    BY DEF RefInv, Planned
  <2>2. v \in Users /\ (v # u => todo'[v] = todo[v])
    BY <1>3 DEF Calling
  <2>3. Rest(todo'[v], call[v])
    <3>1. Rest(Tail(todo[u]), call[u])
      BY <1>1, RestTail DEF RefInv, Planned
    <3> QED BY <1>3, <2>1, <2>2, <3>1
  <2>4. Refused(call[v]) => todo'[v] # <<>>
    BY <2>1, <2>2
  <2> QED BY <2>1, <2>3, <2>4, SameProgram
<1> QED BY <1>3, <1>4, <1>5, <1>7, <1>8, <1>9

(* In the mailbox, a call that met no other is the only one.                *)
LEMMA OnlyCaller ==
  ASSUME RefInv, mode = "mailbox", NEW u \in Calling, NEW v \in Calling \ spoilt
  PROVE  u = v
BY DEF RefInv, Apart, Meet

-----------------------------------------------------------------------------
(* The windows of a call.                                                   *)

(* Where the window of a call leads, once the call has set it up.           *)
LEMMA DirectTarget ==
  ASSUME NEW k \in XCalls, OwnReady(k, 2)
  PROVE  Target(k.chip) = <<k.name, k.chip>>
<1>1. k.name \in Registers /\ Address(k.name)[1] = k.name /\ Data(0) # Data(1)
  BY CallValues, WordKinds
<1>2. base[k.chip] = Address(k.name) /\ (ctl[k.chip] = Data(0) <=> Mpu(k.name))
  BY <1>1 DEF OwnReady
<1>3. Shown(k.chip) = <<k.name, k.chip>>
  BY <1>1, <1>2 DEF Shown, Mpu
<1>4. k.name # "buffer"
  BY <1>1 DEF Registers, MpuRegisters
<1> QED BY <1>3, <1>4 DEF Target

LEMMA DistantTarget ==
  ASSUME NEW k \in XCalls, NEW n \in {11, 8, 5, 2}, DistantReady(k, n), ~Mpu(k.name),
         k.chip # 0
  PROVE  Target(0) = IF n = 8 THEN Base(k.chip) ELSE IF n = 5 THEN <<k.name, k.chip>>
                     ELSE Control(k.chip)
<1>1. /\ k.name \in Registers /\ Address(k.name)[1] = k.name /\ Data(0) # Data(1)
      /\ k.name \notin WindowKinds
  BY CallValues, WordKinds DEF Registers, MpuRegisters, WindowKinds
<1>2. ctl[0] = Data(1)
  BY DEF DistantReady
<1>3. CASE n # 5
  <2>1. base[0] = IF n = 8 THEN Base(k.chip) ELSE Control(k.chip)
    BY <1>3 DEF DistantReady
  <2>2. Shown(0) = base[0]
    BY <1>1, <1>2, <2>1 DEF Shown, Base, Control, Registers, MpuRegisters
  <2> QED BY <1>3, <2>1, <2>2 DEF Target, Base, Control
<1>4. CASE n = 5
  <2>1. base[0] = Window(k.chip) /\ ctl[k.chip] = Data(1) /\ base[k.chip] = Address(k.name)
    BY <1>4 DEF DistantReady
  <2>2. Shown(0) = Window(k.chip)
    BY <1>1, <1>2, <2>1 DEF Shown, Window, Registers, MpuRegisters
  <2>3. Shown(k.chip) = <<k.name, k.chip>>
    BY <1>1, <2>1 DEF Shown, Mpu
  <2>4. Target(0) = Shown(k.chip)
    BY <2>2 DEF Target, Window
  <2> QED BY <1>4, <2>3, <2>4
<1> QED BY <1>3, <1>4

(* What a call finds at its use of the register.                            *)
LEMMA UseFacts ==
  ASSUME RefInv, NEW u \in Calling \ spoilt, ToGo(u) = UseAt(call[u]),
         Direct(call[u]) \/ Distant(call[u])
  PROVE  /\ Head(todo[u]) = Use(call[u], Head(todo[u]).chip) \/ todo[u] = <<>>
         /\ todo[u] # <<>> => Target(Head(todo[u]).chip) = <<call[u].name, call[u].chip>>
<1> DEFINE k == call[u]
<1>1. k \in XCalls /\ ReadyAt(k, UseAt(k))
  BY CallerFacts DEF RefInv, Prepared
<1>2. todo[u] # <<>> => Head(todo[u]) = StepAt(k, UseAt(k))
  BY NextAccess, CallerFacts
<1>3. CASE Direct(k)
  <2>1. UseAt(k) = 2 /\ OwnReady(k, 2)
    BY <1>1, <1>3 DEF UseAt, ReadyAt
  <2>2. StepAt(k, UseAt(k)) = Use(k, k.chip)
    BY <1>3, <2>1 DEF StepAt, OwnStep
  <2>3. Use(k, k.chip).chip = k.chip
    BY DEF Use, Op
  <2> HIDE DEF k
  <2> QED BY <1>1, <1>2, <2>1, <2>2, <2>3, DirectTarget DEF k
<1>4. CASE Distant(k)
  <2>1. UseAt(k) = 5 /\ DistantReady(k, 5) /\ ~Direct(k)
    BY <1>1, <1>4 DEF UseAt, ReadyAt, Direct, Distant
  <2>2. StepAt(k, UseAt(k)) = Use(k, 0)
    BY <1>4, <2>1 DEF StepAt, DistantStep
  <2>3. Use(k, 0).chip = 0
    BY DEF Use, Op
  <2>4. k.chip # 0 /\ ~Mpu(k.name)
    BY <1>4 DEF Distant, Own, RefInv, Planned
  <2>5. Target(0) = <<k.name, k.chip>>
    BY <1>1, <2>1, <2>4, DistantTarget
  <2> QED BY <1>2, <2>2, <2>3, <2>5
<1> QED BY <1>3, <1>4

(* What a store of a call that met no other does.                           *)
LEMMA WriteFacts ==
  ASSUME RefInv, NEW u \in Users, Write(u), u \notin spoilt,
         NEW k, k = call[u], NEW n, n = ToGo(u)
  PROVE  /\ u \in Calling /\ k \in XCalls /\ n \in Nat /\ Skips(k) < n /\ n <= Longest(k)
         /\ ~gone /\ ~Refused(k) /\ (Direct(k) \/ Distant(k))
         /\ Head(todo[u]) = StepAt(k, n) /\ Done(u) /\ todo[u] # <<>>
         /\ StepAt(k, n).kind \in {"control", "base", "poke", "put"}
         /\ StepAt(k, n).kind \in {"poke", "put"} =>
              Store(Target(StepAt(k, n).chip), StepAt(k, n).word)
         /\ StepAt(k, n).kind \notin {"poke", "put"} =>
              Store(<<StepAt(k, n).kind, StepAt(k, n).chip>>, StepAt(k, n).word)
         /\ UNCHANGED <<mode, gone, box, call, got, jobs, spoilt, left>>
<1>1. /\ todo[u] # <<>> /\ Head(todo[u]).kind \in {"control", "base", "poke", "put"} /\ Done(u)
      /\ Store(IF Head(todo[u]).kind \in {"poke", "put"} THEN Target(Head(todo[u]).chip)
               ELSE <<Head(todo[u]).kind, Head(todo[u]).chip>>, Head(todo[u]).word)
      /\ UNCHANGED <<mode, gone, box, call, got, jobs, spoilt, left>>
  BY DEF Write, Ready
<1>2. u \in Calling /\ Skips(k) < n /\ Head(todo[u]) = StepAt(k, n)
  BY <1>1, NextAccess
<1>3. k \in XCalls /\ n \in Nat /\ n <= Longest(k)
  BY <1>2, CallerFacts
<1>4. ~gone
  BY <1>2 DEF RefInv, GoneSpoils
<1>5. Direct(k) \/ Distant(k)
  BY <1>1, <1>2, <1>3, AccessKinds
<1>6. ~Refused(k)
  BY <1>5 DEF Direct, Distant
<1> HIDE DEF Store
<1>7. /\ StepAt(k, n).kind \in {"poke", "put"} =>
            Store(Target(StepAt(k, n).chip), StepAt(k, n).word)
      /\ StepAt(k, n).kind \notin {"poke", "put"} =>
            Store(<<StepAt(k, n).kind, StepAt(k, n).chip>>, StepAt(k, n).word)
  BY <1>1, <1>2
<1> QED BY <1>1, <1>2, <1>3, <1>4, <1>5, <1>6, <1>7

(* A store through a window of the call's own.                              *)
LEMMA WriteDirect ==
  ASSUME RefInv, NEW u \in Users, Write(u), u \notin spoilt,
         NEW k, k = call[u], NEW n, n = ToGo(u), Direct(k)
  PROVE  /\ n # 2 => reg' = reg
         /\ n = 2 => k.op = "write" /\ reg' = [reg EXCEPT ![k.chip][k.name] = k.value]
         /\ OwnReady(k, n - 1)'
<1> DEFINE op == StepAt(k, n)
<1>1. /\ u \in Calling /\ k \in XCalls /\ ~gone /\ n \in 1 .. 4
      /\ op.kind \in {"control", "base", "poke", "put"}
      /\ op.kind \in {"poke", "put"} => Store(Target(op.chip), op.word)
      /\ op.kind \notin {"poke", "put"} => Store(<<op.kind, op.chip>>, op.word)
  BY WriteFacts DEF Longest, Skips
<1>2. op = OwnStep(k, n)
  BY DEF StepAt
<1>3. OwnReady(k, n)
  BY <1>1 DEF RefInv, Prepared, ReadyAt
<1>4. k.chip \in Chips /\ ctl \in [Chips -> Words] /\ base \in [Chips -> Words]
      /\ k.name \in Registers /\ k.name \notin WindowKinds
  BY <1>1, CallValues DEF RefInv, WinInv, Shapes, Registers, MpuRegisters, WindowKinds
<1> HIDE DEF op
<1>5. CASE n = 4
  <2>1. op = Op("control", k.chip, Data(IF Mpu(k.name) THEN 0 ELSE 1))
    BY <1>2, <1>5 DEF OwnStep
  <2>2. Store(<<"control", k.chip>>, Data(IF Mpu(k.name) THEN 0 ELSE 1))
    BY <1>1, <2>1 DEF Op
  <2>3. /\ reg' = reg /\ base' = base
        /\ ctl' = [ctl EXCEPT ![k.chip] = Data(IF Mpu(k.name) THEN 0 ELSE 1)]
    BY <1>1, <2>2 DEF Store, Registers, MpuRegisters
  <2> QED BY <1>4, <1>5, <2>3 DEF OwnReady
<1>6. CASE n = 3
  <2>1. op = Op("base", k.chip, Address(k.name))
    BY <1>2, <1>6 DEF OwnStep
  <2>2. Store(<<"base", k.chip>>, Address(k.name))
    BY <1>1, <2>1 DEF Op
  <2>3. reg' = reg /\ base' = [base EXCEPT ![k.chip] = Address(k.name)] /\ ctl' = ctl
    BY <1>1, <2>2 DEF Store, Registers, MpuRegisters
  <2> QED BY <1>3, <1>4, <1>6, <2>3 DEF OwnReady
<1>7. CASE n = 2
  <2>1. op = Use(k, k.chip) /\ op.kind = "put"
    BY <1>1, <1>2, <1>7 DEF OwnStep, Use, Op
  <2>2. k.op = "write" /\ op.chip = k.chip /\ op.word = k.value
    BY <2>1 DEF Use, Op
  <2>3. Target(k.chip) = <<k.name, k.chip>>
    BY <1>1, <1>3, <1>7, DirectTarget
  <2>4. Store(<<k.name, k.chip>>, k.value)
    BY <1>1, <2>1, <2>2, <2>3
  <2>5. reg' = [reg EXCEPT ![k.chip][k.name] = k.value]
    BY <1>1, <1>4, <2>4 DEF Store
  <2> QED BY <1>7, <2>2, <2>5 DEF OwnReady
<1>8. CASE n = 1
  <2>1. op = Op("control", k.chip, Data(0))
    BY <1>2, <1>8 DEF OwnStep
  <2>2. Store(<<"control", k.chip>>, Data(0))
    BY <1>1, <2>1 DEF Op
  <2>3. reg' = reg
    BY <2>2 DEF Store, Registers, MpuRegisters
  <2> QED BY <1>8, <2>3 DEF OwnReady
<1> QED BY <1>1, <1>5, <1>6, <1>7, <1>8

(* A store on the way to a chip behind chip 0, or to that chip.             *)
LEMMA WriteDistant ==
  ASSUME RefInv, NEW u \in Users, Write(u), u \notin spoilt,
         NEW k, k = call[u], NEW n, n = ToGo(u), Distant(k)
  PROVE  /\ n # 5 => reg' = reg
         /\ n = 5 => k.op = "write" /\ reg' = [reg EXCEPT ![k.chip][k.name] = k.value]
         /\ DistantReady(k, n - 1)'
<1> DEFINE op == StepAt(k, n)
<1>1. /\ u \in Calling /\ k \in XCalls /\ ~gone /\ n \in 1 .. 13
      /\ op.kind \in {"control", "base", "poke", "put"}
      /\ op.kind \in {"poke", "put"} => Store(Target(op.chip), op.word)
      /\ op.kind \notin {"poke", "put"} => Store(<<op.kind, op.chip>>, op.word)
  <2>1. Longest(k) = 13 /\ Skips(k) = 0
    BY DEF Longest, Skips, Direct, Distant
  <2> QED BY <2>1, WriteFacts
<1>2. op = DistantStep(k, n)
  BY DEF StepAt, Direct, Distant
<1>3. DistantReady(k, n)
  BY <1>1 DEF RefInv, Prepared, ReadyAt
<1>4. k.chip \in Chips /\ 0 \in Chips /\ ctl \in [Chips -> Words] /\ base \in [Chips -> Words]
      /\ k.name \in Registers /\ k.name \notin WindowKinds
  BY <1>1, CallValues, ChipsFacts
     DEF RefInv, WinInv, Shapes, Registers, MpuRegisters, WindowKinds
<1>5. k.chip # 0 /\ ~Mpu(k.name)
  BY <1>1 DEF Distant, Own, RefInv, Planned
<1> HIDE DEF op
<1>6. CASE n \in {13, 10, 7, 4, 1}
  <2>1. op = Op("control", 0, Data(IF n = 1 THEN 0 ELSE 1))
    BY <1>2, <1>6 DEF DistantStep
  <2>2. Store(<<"control", 0>>, Data(IF n = 1 THEN 0 ELSE 1))
    BY <1>1, <2>1 DEF Op
  <2>3. reg' = reg /\ base' = base /\ ctl' = [ctl EXCEPT ![0] = Data(IF n = 1 THEN 0 ELSE 1)]
    BY <1>1, <2>2 DEF Store, Registers, MpuRegisters
  <2>4. ctl'[0] = Data(IF n = 1 THEN 0 ELSE 1) /\ ctl'[k.chip] = ctl[k.chip]
    BY <1>4, <1>5, <2>3
  <2>5. DistantReady(k, n - 1)'
    BY <1>3, <1>6, <2>3, <2>4 DEF DistantReady
  <2> QED BY <1>6, <2>3, <2>5
<1>7. CASE n \in {12, 9, 6, 3}
  <2> DEFINE w == IF n = 9 THEN Base(k.chip) ELSE IF n = 6 THEN Window(k.chip)
                  ELSE Control(k.chip)
  <2>1. op = Op("base", 0, w)
    BY <1>2, <1>7 DEF DistantStep
  <2> HIDE DEF w
  <2>2. Store(<<"base", 0>>, w)
    BY <1>1, <2>1 DEF Op
  <2>3. reg' = reg /\ ctl' = ctl /\ base' = [base EXCEPT ![0] = w]
    BY <1>1, <2>2 DEF Store, Registers, MpuRegisters
  <2>4. base'[0] = w /\ base'[k.chip] = base[k.chip]
    BY <1>4, <1>5, <2>3
  <2>5. DistantReady(k, n - 1)'
    BY <1>3, <1>7, <2>3, <2>4 DEF DistantReady, w
  <2> QED BY <1>7, <2>3, <2>5
<1>8. CASE n \in {11, 8, 2}
  <2> DEFINE w == IF n = 8 THEN Address(k.name) ELSE Data(IF n = 2 THEN 0 ELSE 1)
             t == IF n = 8 THEN Base(k.chip) ELSE Control(k.chip)
  <2>1. op = Op("poke", 0, w)
    BY <1>2, <1>8 DEF DistantStep
  <2>2. Target(0) = t
    BY <1>1, <1>3, <1>5, <1>8, DistantTarget
  <2>3. t = <<IF n = 8 THEN "base" ELSE "control", k.chip>>
    BY DEF Base, Control
  <2> HIDE DEF w, t
  <2>4. Store(t, w)
    BY <1>1, <2>1, <2>2 DEF Op
  <2>5. /\ reg' = reg
        /\ ctl' = IF n = 8 THEN ctl ELSE [ctl EXCEPT ![k.chip] = w]
        /\ base' = IF n = 8 THEN [base EXCEPT ![k.chip] = w] ELSE base
    BY <1>1, <2>3, <2>4 DEF Store, Registers, MpuRegisters
  <2>6. /\ ctl'[0] = ctl[0] /\ base'[0] = base[0]
        /\ n = 8 => base'[k.chip] = Address(k.name) /\ ctl'[k.chip] = ctl[k.chip]
        /\ n = 11 => ctl'[k.chip] = Data(1)
    BY <1>4, <1>5, <2>5 DEF w
  <2>7. DistantReady(k, n - 1)'
    BY <1>3, <1>8, <2>6 DEF DistantReady
  <2> QED BY <1>8, <2>5, <2>7
<1>9. CASE n = 5
  <2>1. op = Use(k, 0) /\ op.kind = "put"
    BY <1>1, <1>2, <1>9 DEF DistantStep, Use, Op
  <2>2. k.op = "write" /\ op.chip = 0 /\ op.word = k.value
    BY <2>1 DEF Use, Op
  <2>3. Target(0) = <<k.name, k.chip>>
    BY <1>1, <1>3, <1>5, <1>9, DistantTarget
  <2>4. Store(<<k.name, k.chip>>, k.value)
    BY <1>1, <2>1, <2>2, <2>3
  <2>5. reg' = [reg EXCEPT ![k.chip][k.name] = k.value] /\ ctl' = ctl /\ base' = base
    BY <1>1, <1>4, <2>4 DEF Store, WindowKinds
  <2> QED BY <1>3, <1>9, <2>2, <2>5 DEF DistantReady
<1> QED BY <1>1, <1>6, <1>7, <1>8, <1>9

(* The windows of the other calls that met none are left alone.             *)
LEMMA WriteAway ==
  ASSUME RefInv, NEW u \in Users, Write(u), NEW v \in Calling \ spoilt, v # u
  PROVE  /\ mode \notin {"fourBar", "mailbox"}
         /\ ctl'[call[v].chip] = ctl[call[v].chip] /\ base'[call[v].chip] = base[call[v].chip]
<1> DEFINE k == call[u]
           op == Head(todo[u])
           t == IF op.kind \in {"poke", "put"} THEN Target(op.chip) ELSE <<op.kind, op.chip>>
<1>1. /\ todo[u] # <<>> /\ op.kind \in {"control", "base", "poke", "put"} /\ Store(t, op.word)
  BY DEF Write, Ready
<1>2. u \in Calling /\ op = StepAt(k, ToGo(u)) /\ k \in XCalls /\ op.chip \in Chips
      /\ Skips(k) < ToGo(u) /\ ToGo(u) \in Nat /\ ToGo(u) <= Longest(k)
  BY <1>1, NextAccess, CallerFacts, HeadOK DEF RefInv
<1>3. mode \notin {"fourBar", "mailbox"} /\ call[v].chip # k.chip
  BY <1>2 DEF RefInv, Apart, Meet
<1>4. Direct(k)
  BY <1>1, <1>2, <1>3, AccessKinds DEF Direct, Distant, Own
<1>5. op.chip = k.chip
  BY <1>2, <1>4 DEF StepAt, OwnStep, Use, Op
<1>6. t[1] \in {"control", "base"} => t = <<op.kind, k.chip>>
  BY <1>2, <1>3, <1>5, TargetOK DEF RefInv
<1>7. call[v].chip \in Chips /\ ctl \in [Chips -> Words] /\ base \in [Chips -> Words]
  BY CallerFacts, CallValues DEF RefInv, WinInv, Shapes
<1> HIDE DEF t, op
<1>8. ctl'[call[v].chip] = ctl[call[v].chip] /\ base'[call[v].chip] = base[call[v].chip]
  BY <1>1, <1>3, <1>6, <1>7 DEF Store
<1> QED BY <1>3, <1>8

-----------------------------------------------------------------------------
(* The invariant is kept.                                                   *)
LEMMA RefAdvance ==
  ASSUME RefInv, NEW u \in Users, todo[u] # <<>>, Done(u),
         UNCHANGED <<mode, gone, call, spoilt>>, ~Refused(call[u]), XTypeInv', WinInv',
         \A n : u \notin spoilt /\ n = ToGo(u) - 1 => ReadyAt(call[u], n)',
         \A v \in Calling \ spoilt : \A n : v # u /\ n = ToGo(v) => ReadyAt(call[v], n)',
         CommandOwned', LeftBehind'
  PROVE  RefInv'
<1>1. /\ Planned' /\ Calling' = Calling /\ ToGo(u)' = ToGo(u) - 1
      /\ \A v \in Users : v # u => ToGo(v)' = ToGo(v)
  BY OneLess
<1>2. Apart' /\ GoneSpoils'
  BY <1>1, SameProgram DEF RefInv, Apart, GoneSpoils
<1>3. Prepared'
  <2> SUFFICES ASSUME NEW v \in Calling \ spoilt PROVE ReadyAt(call[v], ToGo(v))'
    BY <1>1 DEF Prepared
  <2>1. CASE v = u
    BY <1>1, <2>1
  <2>2. CASE v # u
    BY <1>1, <2>2 DEF Calling
  <2> QED BY <2>1, <2>2
<1> QED BY <1>1, <1>2, <1>3 DEF RefInv

(* The mailbox is empty in the other layouts, and stays so.                 *)
LEMMA NoMailbox ==
  ASSUME RefInv, mode # "mailbox", UNCHANGED <<mode, box, left>>
  PROVE  CommandOwned' /\ LeftBehind'
<1>1. box.command = Complete /\ left = NoCall
  BY DEF RefInv, CommandOwned, LeftBehind
<1> QED BY <1>1 DEF CommandOwned, LeftBehind

(* What a call has set up lasts while windows and mailbox do.               *)
LEMMA SameReady ==
  ASSUME UNCHANGED <<mode, ctl, base, box>>
  PROVE  \A k, n : ReadyAt(k, n)' <=> ReadyAt(k, n)
<1>1. \A k, n : /\ OwnReady(k, n)' <=> OwnReady(k, n)
                /\ DistantReady(k, n)' <=> DistantReady(k, n)
                /\ MailReady(k, n)' <=> MailReady(k, n)
  BY DEF OwnReady, DistantReady, MailReady, Worded
<1> QED BY <1>1, SameProgram DEF ReadyAt

LEMMA RefWrite ==
  ASSUME RefInv, NEW u \in Users, Write(u), XTypeInv', WinInv'
  PROVE  RefInv'
<1> DEFINE k == call[u]
<1>1. /\ todo[u] # <<>> /\ Head(todo[u]).kind \in {"control", "base", "poke", "put"} /\ Done(u)
      /\ UNCHANGED <<mode, gone, box, call, spoilt, left>>
  BY DEF Write, Ready
<1>2. u \in Calling /\ Head(todo[u]) = StepAt(k, ToGo(u)) /\ k \in XCalls
      /\ Skips(k) < ToGo(u) /\ ToGo(u) \in Nat /\ ToGo(u) <= Longest(k)
  BY <1>1, NextAccess, CallerFacts
<1>3. Direct(k) \/ Distant(k)
  BY <1>1, <1>2, AccessKinds
<1>4. mode # "mailbox" /\ ~Refused(k)
  BY <1>3 DEF Direct, Distant
<1>5. ASSUME NEW n, u \notin spoilt, n = ToGo(u) - 1
      PROVE  ReadyAt(k, n)'
  <2> DEFINE m == ToGo(u)
  <2>1. \A kk, mm : kk = k /\ mm = m =>
           /\ Direct(kk) => OwnReady(kk, mm - 1)'
           /\ Distant(kk) => DistantReady(kk, mm - 1)'
    BY <1>5, WriteDirect, WriteDistant
  <2>2. \A kk : kk = k => ReadyAt(kk, n)'
    BY <1>1, <1>4, <1>5, <2>1, SameProgram DEF ReadyAt, Mailed
  <2> QED BY <1>1, <2>2
<1>6. ASSUME NEW v \in Calling \ spoilt, NEW n, v # u, n = ToGo(v)
      PROVE  ReadyAt(call[v], n)'
  <2>1. /\ mode \notin {"fourBar", "mailbox"} /\ ReadyAt(call[v], n)
        /\ ctl'[call[v].chip] = ctl[call[v].chip] /\ base'[call[v].chip] = base[call[v].chip]
    BY <1>6, WriteAway DEF RefInv, Prepared
  <2>2. ~Distant(call[v]) /\ ~Mailed(call[v])
    BY <2>1 DEF Distant, Mailed, Own
  <2>3. ASSUME NEW c, c = call[v] PROVE ReadyAt(c, n)'
    <3>1. Direct(c) => OwnReady(c, n)'
      BY <2>1, <2>3 DEF ReadyAt, OwnReady
    <3> QED BY <1>1, <2>2, <2>3, <3>1, SameProgram DEF ReadyAt
  <2> QED BY <1>1, <2>3
<1>7. CommandOwned' /\ LeftBehind'
  BY <1>1, <1>4, NoMailbox
<1> QED BY <1>1, <1>4, <1>5, <1>6, <1>7, RefAdvance

LEMMA RefRead ==
  ASSUME RefInv, NEW u \in Users, Read(u), XTypeInv', WinInv'
  PROVE  RefInv'
<1> DEFINE k == call[u]
<1>1. /\ todo[u] # <<>> /\ Head(todo[u]).kind = "get" /\ Done(u)
      /\ UNCHANGED <<mode, gone, ctl, base, box, call, spoilt, left>>
  BY DEF Read, Ready, windows
<1>2. u \in Calling /\ Head(todo[u]) = StepAt(k, ToGo(u)) /\ k \in XCalls
      /\ Skips(k) < ToGo(u) /\ ToGo(u) \in Nat /\ ToGo(u) <= Longest(k)
  BY <1>1, NextAccess, CallerFacts
<1>3. (Direct(k) \/ Distant(k)) /\ ToGo(u) = UseAt(k)
  BY <1>1, <1>2, AccessKinds
<1>4. mode # "mailbox" /\ ~Refused(k) /\ ~Mailed(k)
  BY <1>3 DEF Direct, Distant, Mailed
<1>5. ASSUME NEW n, u \notin spoilt, n = ToGo(u) - 1
      PROVE  ReadyAt(k, n)'
  <2>1. ReadyAt(k, ToGo(u))
    BY <1>2, <1>5 DEF RefInv, Prepared
  <2>2. Direct(k) => n = 1 /\ OwnReady(k, n)
    BY <1>3, <1>5 DEF UseAt, OwnReady
  <2>3. Distant(k) => n = 4 /\ DistantReady(k, n)
    <3>1. Distant(k) => ToGo(u) = 5
      BY <1>3 DEF UseAt, Direct, Distant
    <3> QED BY <1>5, <2>1, <3>1 DEF ReadyAt, DistantReady
  <2>4. ReadyAt(k, n)
    BY <1>4, <2>2, <2>3 DEF ReadyAt
  <2> QED BY <1>1, <2>4, SameReady
<1>6. ASSUME NEW v \in Calling \ spoilt, NEW n, v # u, n = ToGo(v)
      PROVE  ReadyAt(call[v], n)'
  BY <1>1, <1>6, SameReady DEF RefInv, Prepared
<1>7. CommandOwned' /\ LeftBehind'
  BY <1>1, <1>4, NoMailbox
<1> QED BY <1>1, <1>4, <1>5, <1>6, <1>7, RefAdvance

(* An access of a call to the mailbox.                                      *)
LEMMA MailAccess ==
  ASSUME RefInv, NEW u \in Users, todo[u] # <<>>,
         Head(todo[u]).kind \in {"address", "data", "issue", "await", "fetch"},
         NEW k, k = call[u], NEW n, n = Len(todo[u])
  PROVE  /\ mode = "mailbox" /\ u \in Calling /\ k \in XCalls /\ Mailed(k) /\ ~Refused(k)
         /\ n \in 1 .. 5 /\ n = ToGo(u) /\ Head(todo[u]) = StepAt(k, n)
         /\ \A v \in Calling : v # u => v \in spoilt
         /\ k.op \in {"write", "read"} /\ k # NoCall /\ k # Wild
         /\ u \notin spoilt => ~gone /\ MailReady(k, n)
<1>1. /\ u \in Calling /\ k \in XCalls /\ Head(todo[u]) = StepAt(k, ToGo(u))
      /\ Skips(k) < ToGo(u) /\ ToGo(u) \in Nat /\ ToGo(u) <= Longest(k)
      /\ Mailed(k) <=> mode = "mailbox"
      /\ mode = "mailbox" => ToGo(u) = Len(todo[u])
      /\ Skips(k) \in 0 .. 1
  BY NextAccess, CallerFacts
<1>2. Mailed(k)
  BY <1>1, AccessKinds
<1>3. Longest(k) = 5 /\ ~Refused(k) /\ mode = "mailbox"
  BY <1>2 DEF Longest, Mailed, Direct, Distant
<1>4. \A v \in Calling : v # u => v \in spoilt
  BY <1>1, <1>3, OnlyCaller
<1>5. u \notin spoilt => ~gone /\ ReadyAt(k, n)
  BY <1>1, <1>3 DEF RefInv, GoneSpoils, Prepared
<1>6. k.op \in {"write", "read"} /\ k # NoCall /\ k # Wild
  BY <1>1, CallValues
<1>7. u \notin spoilt => MailReady(k, n)
  BY <1>2, <1>5 DEF ReadyAt
<1>8. n = ToGo(u)
  BY <1>1, <1>3
<1>9. n \in 1 .. 5 /\ Head(todo[u]) = StepAt(k, n)
  BY <1>1, <1>3, <1>8
<1> QED BY <1>1, <1>2, <1>3, <1>4, <1>5, <1>6, <1>7, <1>8, <1>9

(* A call makes its next access to the mailbox.                             *)
LEMMA MailAdvance ==
  ASSUME RefInv, NEW u \in Users, todo[u] # <<>>, Done(u),
         UNCHANGED <<mode, gone, call, spoilt>>, XTypeInv', WinInv',
         Head(todo[u]).kind \in {"address", "data", "issue", "await", "fetch"},
         \A k, n : k = call[u] /\ n = Len(todo[u]) /\ u \notin spoilt => MailReady(k, n - 1)',
         CommandOwned', LeftBehind'
  PROVE  RefInv'
<1>1. /\ mode = "mailbox" /\ u \in Calling /\ Mailed(call[u]) /\ ~Refused(call[u])
      /\ Len(todo[u]) = ToGo(u) /\ \A v \in Calling : v # u => v \in spoilt
  BY MailAccess
<1>2. ASSUME NEW n, u \notin spoilt, n = ToGo(u) - 1
      PROVE  ReadyAt(call[u], n)'
  <2>1. \A k : k = call[u] => ~Direct(k) /\ ~Distant(k) /\ MailReady(k, n)'
    BY <1>1, <1>2 DEF Mailed, Direct, Distant
  <2>2. \A k : k = call[u] => ReadyAt(k, n)'
    BY <2>1, SameProgram DEF ReadyAt
  <2> QED BY <2>2
<1> QED BY <1>1, <1>2, RefAdvance

LEMMA RefPost ==
  ASSUME RefInv, NEW u \in Users, Post(u), XTypeInv', WinInv'
  PROVE  RefInv'
<1> DEFINE op == Head(todo[u])
<1>1. /\ todo[u] # <<>> /\ op.kind \in {"address", "data", "issue"} /\ Done(u)
      /\ UNCHANGED <<mode, gone, call, spoilt, left>>
      /\ box' = IF gone THEN box
                ELSE IF op.kind = "address" THEN [box EXCEPT !.address = op.word]
                ELSE IF op.kind = "data" THEN [box EXCEPT !.data = op.word]
                ELSE [box EXCEPT !.command = call[u]]
  BY DEF Post, Ready
<1>2. PICK k, n : k = call[u] /\ n = Len(todo[u])
  OBVIOUS
<1>3. /\ mode = "mailbox" /\ u \in Calling /\ k \in XCalls /\ Mailed(k) /\ ~Refused(k)
      /\ n \in 1 .. 5 /\ op = StepAt(k, n)
      /\ \A v \in Calling : v # u => v \in spoilt
      /\ k.op \in {"write", "read"} /\ k # NoCall
      /\ u \notin spoilt => ~gone /\ MailReady(k, n)
  BY <1>1, <1>2, MailAccess
<1>4. /\ op.kind = "address" => n = 4 /\ op.word = Address(k.name)
      /\ op.kind = "data" => n = 3 /\ k.op = "write" /\ op.word = k.value
      /\ op.kind = "issue" => n = IssueAt(k)
      /\ n # 5 /\ n # IssueAt(k) - 1
      /\ IssueAt(k) = IF k.op = "write" THEN 2 ELSE 3
  BY <1>1, <1>3, MailKinds
<1> HIDE DEF op
<1>5. /\ box.command \in XCalls \cup {Complete}
      /\ box = [command |-> box.command, address |-> box.address, data |-> box.data]
  BY DEF RefInv, XTypeInv
<1>6. ASSUME u \notin spoilt PROVE MailReady(k, n - 1)'
  <2>1. ~gone /\ MailReady(k, n) /\ (n # IssueAt(k) - 1 => box.command = Complete)
    BY <1>3, <1>4, <1>6 DEF MailReady
  <2>2. CASE op.kind = "address"
    <3>1. /\ n = 4 /\ box'.address = Address(k.name) /\ box'.command = Complete
      BY <1>1, <1>4, <1>5, <2>1, <2>2
    <3> QED BY <1>4, <3>1 DEF MailReady, Worded
  <2>3. CASE op.kind = "data"
    <3>1. /\ n = 3 /\ box'.address = box.address /\ box'.command = Complete
          /\ box'.data = k.value /\ k.op = "write"
      BY <1>1, <1>4, <1>5, <2>1, <2>3
    <3> QED BY <1>4, <2>1, <3>1 DEF MailReady, Worded
  <2>4. CASE op.kind = "issue"
    <3>1. /\ n = IssueAt(k) /\ box'.address = box.address /\ box'.command = k
          /\ box'.data = box.data
      BY <1>1, <1>2, <1>4, <1>5, <2>1, <2>4
    <3> QED BY <1>3, <1>4, <2>1, <3>1 DEF MailReady, Worded
  <2> QED BY <1>1, <2>2, <2>3, <2>4 DEF op
<1>7. Len(todo[u])' = n - 1 /\ Calling' = Calling
  BY <1>1, <1>2, <1>3, OneLess
<1>8. CommandOwned'
  <2>1. CASE gone \/ op.kind # "issue"
    <3>1. box'.command = box.command
      BY <1>1, <1>5, <2>1
    <3>2. ASSUME NEW w \in Calling, Sent(w), ~gone PROVE Sent(w)'
      <4>1. w # u
        BY <1>2, <1>3, <1>4, <3>2 DEF Sent
      <4>2. todo'[w] = todo[w]
        BY <1>1, <1>2, <1>3, <4>1, OneLess DEF Calling
      <4> QED BY <1>1, <3>2, <4>2 DEF Sent, IssueAt
    <3> QED BY <1>1, <1>7, <3>1, <3>2 DEF RefInv, CommandOwned
  <2>2. CASE op.kind = "issue"
    <3>1. Sent(u)'
      BY <1>1, <1>2, <1>3, <1>4, <1>7, <2>2 DEF Sent, IssueAt
    <3> QED BY <1>1, <1>3, <1>7, <3>1 DEF CommandOwned
  <2> QED BY <2>1, <2>2
<1>9. LeftBehind'
  <2>1. left \in {NoCall, Wild} /\ (left # NoCall => u \in spoilt)
    BY <1>2, <1>3, <1>4 DEF RefInv, LeftBehind
  <2>2. left # NoCall => box'.command # Complete
    BY <1>1, <1>2, <1>3, <1>5 DEF RefInv, LeftBehind, Complete
  <2> QED BY <1>1, <1>3, <1>7, <2>1, <2>2 DEF LeftBehind
<1> QED BY <1>1, <1>2, <1>6, <1>8, <1>9, MailAdvance DEF op

LEMMA RefCompleted ==
  ASSUME RefInv, NEW u \in Users, Completed(u), XTypeInv', WinInv'
  PROVE  RefInv'
<1>1. /\ todo[u] # <<>> /\ Head(todo[u]).kind = "await" /\ Done(u)
      /\ box.command = Complete /\ ~gone
      /\ UNCHANGED <<mode, gone, box, call, spoilt, left>>
  BY DEF Completed, Ready
<1>2. PICK k, n : k = call[u] /\ n = Len(todo[u])
  OBVIOUS
<1>3. /\ k \in XCalls /\ Mailed(k) /\ n \in 1 .. 5 /\ Head(todo[u]) = StepAt(k, n)
      /\ k.op \in {"write", "read"} /\ (u \notin spoilt => MailReady(k, n))
  BY <1>1, <1>2, MailAccess
<1>4. (n = 5 \/ n = IssueAt(k) - 1) /\ IssueAt(k) = IF k.op = "write" THEN 2 ELSE 3
  BY <1>1, <1>3, MailKinds
<1>5. u \notin spoilt => MailReady(k, n - 1)'
  BY <1>1, <1>3, <1>4 DEF MailReady
<1>6. CommandOwned' /\ LeftBehind'
  <2>1. left = NoCall
    BY <1>1 DEF RefInv, LeftBehind
  <2> QED BY <1>1, <2>1 DEF CommandOwned, LeftBehind
<1> QED BY <1>1, <1>2, <1>5, <1>6, MailAdvance

LEMMA RefFetch ==
  ASSUME RefInv, NEW u \in Users, Fetch(u), XTypeInv', WinInv'
  PROVE  RefInv'
<1>1. /\ todo[u] # <<>> /\ Head(todo[u]).kind = "fetch" /\ Done(u)
      /\ UNCHANGED <<mode, gone, box, call, spoilt, left>>
  BY DEF Fetch, Ready
<1>2. PICK k, n : k = call[u] /\ n = Len(todo[u])
  OBVIOUS
<1>3. /\ mode = "mailbox" /\ u \in Calling /\ k \in XCalls /\ Mailed(k) /\ ~Refused(k)
      /\ n \in 1 .. 5 /\ Head(todo[u]) = StepAt(k, n)
      /\ \A v \in Calling : v # u => v \in spoilt
      /\ k.op \in {"write", "read"} /\ (u \notin spoilt => MailReady(k, n))
  BY <1>1, <1>2, MailAccess
<1>4. n = 1 /\ IssueAt(k) = 3
  BY <1>1, <1>3, MailKinds
<1>5. u \notin spoilt => MailReady(k, n - 1)'
  BY <1>1, <1>3, <1>4 DEF MailReady, IssueAt
<1>6. Calling' = Calling
  BY <1>1 DEF Calling
<1>7. CommandOwned'
  <2>1. ASSUME NEW w \in Calling, Sent(w) PROVE Sent(w)'
    <3>1. ~Sent(u)
      BY <1>2, <1>4 DEF Sent
    <3>2. w # u
      BY <2>1, <3>1
    <3>3. todo'[w] = todo[w]
      BY <1>1, <1>2, <1>3, <3>2, OneLess DEF Calling
    <3> QED BY <1>1, <2>1, <3>3 DEF Sent, IssueAt
  <2> QED BY <1>1, <1>6, <2>1 DEF RefInv, CommandOwned
<1>8. LeftBehind'
  <2>1. u \in Calling /\ Len(todo[u]) # 5
    BY <1>2, <1>3, <1>4
  <2>2. left \in {NoCall, Wild} /\ (left # NoCall => u \in spoilt)
    BY <2>1 DEF RefInv, LeftBehind
  <2> QED BY <1>1, <1>3, <1>6, <2>2 DEF RefInv, LeftBehind
<1> QED BY <1>1, <1>2, <1>5, <1>7, <1>8, MailAdvance

(* A call that is answered or given up on takes nothing with it.            *)
LEMMA RefLeave ==
  ASSUME RefInv, NEW u \in Calling, Leave(u), XTypeInv', WinInv', CommandOwned', LeftBehind'
  PROVE  RefInv'
<1>1. /\ call' = [call EXCEPT ![u] = NoCall] /\ todo' = [todo EXCEPT ![u] = <<>>]
      /\ spoilt' = spoilt \ {u} /\ UNCHANGED <<mode, gone, ctl, base, box>>
  BY DEF Leave, windows
<1>2. /\ call \in [Users -> XCalls \cup {NoCall}] /\ todo \in [Users -> Seq(Ops)]
  BY DEF RefInv, WinInv, Shapes
<1>3. /\ Calling' = Calling \ {u}
      /\ \A v \in Calling : v # u => call'[v] = call[v] /\ todo'[v] = todo[v]
  BY <1>1, <1>2 DEF Calling
<1>4. \A v \in Calling : v # u => ToGo(v)' = ToGo(v)
  BY <1>1, <1>3, SameProgram DEF ToGo
<1>5. Planned'
  <2> SUFFICES ASSUME NEW v \in Calling, v # u
               PROVE  /\ Rest(todo[v], call[v])'
                      /\ Refused(call[v])' => todo'[v] # <<>>
                      /\ mode = "fourBar" => ~Mpu(call'[v].name)
    BY <1>1, <1>3 DEF Planned
  <2>1. /\ Rest(todo[v], call[v])
        /\ Refused(call[v]) => todo[v] # <<>>
        /\ mode = "fourBar" => ~Mpu(call[v].name)
    BY DEF RefInv, Planned
  <2> QED BY <1>1, <1>3, <2>1, SameProgram
<1>6. Apart' /\ GoneSpoils'
  BY <1>1, <1>3, SameProgram DEF RefInv, Apart, GoneSpoils
<1>7. Prepared'
  <2> SUFFICES ASSUME NEW v \in Calling \ spoilt, v # u PROVE ReadyAt(call[v], ToGo(v))'
    BY <1>1, <1>3 DEF Prepared
  <2>1. ReadyAt(call[v], ToGo(v))
    BY DEF RefInv, Prepared
  <2> QED BY <1>1, <1>3, <1>4, <2>1, SameReady
<1> QED BY <1>5, <1>6, <1>7 DEF RefInv

LEMMA RefReturn ==
  ASSUME RefInv, NEW u \in Users, Return(u), XTypeInv', WinInv'
  PROVE  RefInv'
<1>1. /\ u \in Calling /\ todo[u] = <<>> /\ Leave(u)
      /\ call' = [call EXCEPT ![u] = NoCall] /\ todo' = [todo EXCEPT ![u] = <<>>]
      /\ spoilt' = spoilt \ {u} /\ UNCHANGED <<mode, gone, box, left>>
  BY DEF Return, Leave, Calling
<1>2. /\ call \in [Users -> XCalls \cup {NoCall}] /\ todo \in [Users -> Seq(Ops)]
  BY DEF RefInv, WinInv, Shapes
<1>3. /\ Calling' = Calling \ {u}
      /\ \A v \in Calling : v # u => call'[v] = call[v] /\ todo'[v] = todo[v]
  BY <1>1, <1>2 DEF Calling
<1>4. CommandOwned'
  <2>1. ASSUME NEW w \in Calling, Sent(w) PROVE w # u /\ Sent(w)'
    <3>1. ~Sent(u)
      BY <1>1 DEF Sent, IssueAt
    <3>2. w # u
      BY <2>1, <3>1
    <3> QED BY <1>1, <1>3, <2>1, <3>2 DEF Sent, IssueAt
  <2> QED BY <1>1, <1>3, <2>1 DEF RefInv, CommandOwned
<1>5. LeftBehind'
  BY <1>1, <1>3 DEF RefInv, LeftBehind, Worded
<1> QED BY <1>1, <1>4, <1>5, RefLeave

(* A call given up on behind its second wait leaves its command.            *)
LEMMA GivenUp ==
  ASSUME RefInv, NEW u \in Users, TimeOut(u)
  PROVE  /\ u \in Calling /\ todo[u] # <<>> /\ call[u] \in XCalls
         /\ Head(todo[u]).kind = "refuse" => Refused(call[u]) /\ left' = left
         /\ Head(todo[u]).kind = "await" =>
              /\ mode = "mailbox" /\ (gone \/ box.command # Complete)
              /\ Len(todo[u]) \in {5, IssueAt(call[u]) - 1}
              /\ Len(todo[u]) = 5 \/ gone => left' = left
              /\ Len(todo[u]) # 5 /\ ~gone =>
                   left' = IF u \in spoilt THEN Wild ELSE call[u]
         /\ Head(todo[u]).kind \in {"refuse", "await"}
<1>1. /\ todo[u] # <<>> /\ Head(todo[u]).kind \in {"refuse", "await"}
      /\ Head(todo[u]).kind = "await" => box.command # Complete \/ gone
      /\ left' = IF gone \/ (\E i \in DOMAIN todo[u] : todo[u][i].kind = "issue")
                    \/ Head(todo[u]).kind = "refuse" THEN left
                 ELSE IF u \in spoilt THEN Wild ELSE call[u]
  BY DEF TimeOut, Ready
<1>2. /\ u \in Calling /\ call[u] \in XCalls /\ Head(todo[u]) = StepAt(call[u], ToGo(u))
      /\ Skips(call[u]) < ToGo(u) /\ ToGo(u) \in Nat /\ ToGo(u) <= Longest(call[u])
  BY <1>1, NextAccess, CallerFacts
<1>3. Head(todo[u]).kind = "refuse" => Refused(call[u]) /\ left' = left
  BY <1>1, <1>2, AccessKinds
<1>4. ASSUME Head(todo[u]).kind = "await"
      PROVE  /\ mode = "mailbox"
             /\ Len(todo[u]) \in {5, IssueAt(call[u]) - 1}
             /\ Len(todo[u]) = 5 \/ gone => left' = left
             /\ Len(todo[u]) # 5 /\ ~gone =>
                  left' = IF u \in spoilt THEN Wild ELSE call[u]
  <2>1. PICK k, n : k = call[u] /\ n = Len(todo[u])
    OBVIOUS
  <2>2. /\ mode = "mailbox" /\ Mailed(k) /\ n \in 1 .. 5 /\ Head(todo[u]) = StepAt(k, n)
        /\ k.op \in {"write", "read"} /\ k \in XCalls
    BY <1>1, <1>4, <2>1, MailAccess
  <2>3. /\ n = 5 \/ n = IssueAt(k) - 1
        /\ IssueAt(k) = IF k.op = "write" THEN 2 ELSE 3
    BY <1>4, <2>2, MailKinds
  <2>4. /\ todo[u] \in Seq(Ops) /\ ToGo(u) = Len(todo[u]) /\ Skips(k) = 0
        /\ \A i \in DOMAIN todo[u] : todo[u][i] = StepAt(k, n + 0 + 1 - i)
    BY <1>2, <2>1, <2>2, CallerFacts DEF RefInv, Planned, Rest
  <2>5. ASSUME n = 5 PROVE \E i \in DOMAIN todo[u] : todo[u][i].kind = "issue"
    <3>1. 6 - IssueAt(k) \in DOMAIN todo[u]
      <4>1. IssueAt(k) \in {2, 3}
        BY <2>3
      <4>2. Len(todo[u]) = 5 /\ todo[u] \in Seq(Ops)
        BY <2>1, <2>4, <2>5
      <4> QED BY <4>1, <4>2
    <3>2. todo[u][6 - IssueAt(k)] = StepAt(k, 5 + 0 + 1 - (6 - IssueAt(k)))
      BY <2>4, <2>5, <3>1
    <3>3. 5 + 0 + 1 - (6 - IssueAt(k)) = IssueAt(k)
      BY <2>3
    <3>4. StepAt(k, IssueAt(k)).kind = "issue"
      BY <2>2, <2>3, MailKinds
    <3> QED BY <3>1, <3>2, <3>3, <3>4
  <2>6. ASSUME n # 5, NEW i \in DOMAIN todo[u] PROVE todo[u][i].kind # "issue"
    <3>1. i \in 1 .. n
      BY <2>1, <2>4
    <3>2. todo[u][i] = StepAt(k, n + 0 + 1 - i) /\ n + 0 + 1 - i \in 1 .. n
      BY <2>2, <2>4, <3>1
    <3>3. n + 0 + 1 - i < IssueAt(k)
      BY <2>3, <2>6, <3>1, <3>2
    <3> QED BY <2>2, <3>2, <3>3, MailKinds
  <2> QED BY <1>1, <1>4, <2>1, <2>2, <2>3, <2>5, <2>6
<1> QED BY <1>1, <1>2, <1>3, <1>4

LEMMA RefTimeOut ==
  ASSUME RefInv, NEW u \in Users, TimeOut(u), XTypeInv', WinInv'
  PROVE  RefInv'
<1>1. /\ Leave(u) /\ UNCHANGED <<mode, gone, box>>
      /\ call' = [call EXCEPT ![u] = NoCall] /\ todo' = [todo EXCEPT ![u] = <<>>]
      /\ spoilt' = spoilt \ {u}
  BY DEF TimeOut, Leave
<1>2. /\ call \in [Users -> XCalls \cup {NoCall}] /\ todo \in [Users -> Seq(Ops)]
  BY DEF RefInv, WinInv, Shapes
<1>3. /\ Calling' = Calling \ {u}
      /\ \A v \in Calling : v # u => call'[v] = call[v] /\ todo'[v] = todo[v]
  BY <1>1, <1>2 DEF Calling
<1>4. /\ u \in Calling /\ todo[u] # <<>> /\ call[u] \in XCalls
      /\ Head(todo[u]).kind = "refuse" => Refused(call[u]) /\ left' = left
      /\ Head(todo[u]).kind = "await" =>
           /\ mode = "mailbox" /\ (gone \/ box.command # Complete)
           /\ Len(todo[u]) \in {5, IssueAt(call[u]) - 1}
           /\ Len(todo[u]) = 5 \/ gone => left' = left
           /\ Len(todo[u]) # 5 /\ ~gone =>
                left' = IF u \in spoilt THEN Wild ELSE call[u]
      /\ Head(todo[u]).kind \in {"refuse", "await"}
  BY GivenUp
<1>5. call[u] # NoCall /\ call[u] # Wild /\ Wild # NoCall
  BY <1>4, CallValues, NoCallAssumption DEF NoCallAssumption
<1>6. \A w \in Calling : Sent(w) /\ w # u => Sent(w)'
  BY <1>1, <1>3 DEF Sent, IssueAt
<1>7. CASE left' = left
  <2>1. CommandOwned'
    <3>1. ASSUME Sent(u), ~gone PROVE left # NoCall
      <4>1. mode = "mailbox" /\ Len(todo[u]) = IssueAt(call[u]) - 1 /\ ~Refused(call[u])
        BY <3>1 DEF Sent, Refused
      <4>2. Len(todo[u]) # 5
        BY <4>1 DEF IssueAt
      <4> QED BY <1>4, <1>5, <1>7, <3>1, <4>1, <4>2
    <3> QED BY <1>1, <1>3, <1>6, <1>7, <3>1 DEF RefInv, CommandOwned
  <2>2. LeftBehind'
    BY <1>1, <1>3, <1>7 DEF RefInv, LeftBehind, Worded
  <2> QED BY <1>1, <1>4, <2>1, <2>2, RefLeave
<1>8. CASE left' # left
  <2>1. /\ mode = "mailbox" /\ ~gone /\ box.command # Complete
        /\ Len(todo[u]) = IssueAt(call[u]) - 1
        /\ left' = IF u \in spoilt THEN Wild ELSE call[u]
    BY <1>4, <1>8
  <2>2. CommandOwned'
    BY <1>1, <1>5, <2>1 DEF CommandOwned
  <2>3. \A v \in Calling : v # u => v \in spoilt
    BY <1>4, <2>1, OnlyCaller
  <2>4. ASSUME u \notin spoilt
        PROVE  Calling' = {} /\ box.command = call[u] /\ Worded(call[u])
    <3>1. Calling' = {}
      BY <1>3, <1>4, <2>1, <2>4, OnlyCaller
    <3>2. ToGo(u) = Len(todo[u]) /\ Mailed(call[u])
      BY <1>4, <2>1, CallerFacts
    <3>3. MailReady(call[u], Len(todo[u]))
      BY <1>4, <2>4, <3>2 DEF RefInv, Prepared, ReadyAt
    <3> QED BY <2>1, <3>1, <3>3 DEF MailReady
  <2>5. LeftBehind'
    <3>1. CASE u \in spoilt
      BY <1>1, <1>3, <2>1, <2>3, <3>1 DEF LeftBehind
    <3>2. CASE u \notin spoilt
      <4>1. \A k : Worded(k)' <=> Worded(k)
        BY <1>1 DEF Worded
      <4>2. Worded(left)'
        <5>1. PICK k : k = call[u]
          OBVIOUS
        <5>2. left' = k /\ Worded(k)'
          BY <2>1, <2>4, <3>2, <4>1, <5>1
        <5> QED BY <5>2
      <4> QED BY <1>1, <2>1, <2>4, <3>2, <4>2 DEF LeftBehind
    <3> QED BY <3>1, <3>2
  <2> QED BY <1>1, <1>4, <2>2, <2>5, RefLeave
<1> QED BY <1>7, <1>8

LEMMA RefBegin ==
  ASSUME RefInv, NEW u \in Users, NEW k \in XCalls, Begin(u, k), XTypeInv', WinInv'
  PROVE  RefInv'
<1> DEFINE met == {v \in Calling : Meet(call[v], k)}
<1>1. /\ call[u] = NoCall /\ ~gone /\ (k \in Doorbells => mode # "fourBar")
      /\ call' = [call EXCEPT ![u] = k] /\ todo' = [todo EXCEPT ![u] = Program(k)]
      /\ spoilt' = spoilt \cup met \cup (IF met # {} THEN {u} ELSE {})
      /\ UNCHANGED <<mode, gone, ctl, base, box, left>>
  BY DEF Begin, windows
<1>2. /\ call \in [Users -> XCalls \cup {NoCall}] /\ todo \in [Users -> Seq(Ops)]
  BY DEF RefInv, WinInv, Shapes
<1>3. k # NoCall /\ (k.name = "irq" <=> Mpu(k.name)) /\ (k.name = "irq" <=> k \in Doorbells)
  BY CallValues
<1>4. /\ Calling' = Calling \cup {u} /\ u \notin Calling
      /\ call'[u] = k /\ todo'[u] = Program(k)
      /\ \A v \in Calling : v # u /\ call'[v] = call[v] /\ todo'[v] = todo[v]
  BY <1>1, <1>2, <1>3 DEF Calling
<1>5. Rest(Program(k), k) /\ Len(Program(k)) + Skips(k) = Longest(k)
  BY <1>1, <1>3, ProgramRest
<1>6. Refused(k) => Program(k) # <<>>
  BY DEF Program
<1>7. ToGo(u)' = Longest(k) /\ \A v \in Calling : ToGo(v)' = ToGo(v)
  BY <1>1, <1>4, <1>5, SameProgram DEF ToGo
<1>8. Planned'
  <2>1. ASSUME NEW v \in Calling
        PROVE  /\ Rest(todo[v], call[v])'
               /\ Refused(call[v])' => todo'[v] # <<>>
               /\ mode' = "fourBar" => ~Mpu(call'[v].name)
    <3>1. /\ Rest(todo[v], call[v])
          /\ Refused(call[v]) => todo[v] # <<>>
          /\ mode = "fourBar" => ~Mpu(call[v].name)
      BY DEF RefInv, Planned
    <3> QED BY <1>1, <1>4, <3>1, SameProgram
  <2>2. /\ Rest(todo[u], call[u])'
        /\ Refused(call[u])' => todo'[u] # <<>>
        /\ mode' = "fourBar" => ~Mpu(call'[u].name)
    BY <1>1, <1>3, <1>4, <1>5, <1>6, SameProgram
  <2> QED BY <1>4, <2>1, <2>2 DEF Planned
<1>9. Apart'
  <2> SUFFICES ASSUME NEW a \in Calling', NEW b \in Calling', a # b, a \notin spoilt'
               PROVE  ~Meet(call'[a], call'[b])
    BY <1>1, SameProgram DEF Apart
  <2>1. CASE a = u
    <3>1. met = {} /\ b \in Calling
      BY <1>1, <1>4, <2>1
    <3>2. ~Meet(call[b], k)
      BY <3>1
    <3> QED BY <1>4, <2>1, <3>1, <3>2 DEF Meet
  <2>2. CASE b = u
    <3>1. a \in Calling /\ a \notin met
      BY <1>1, <1>4, <2>2
    <3> QED BY <1>4, <2>2, <3>1
  <2>3. CASE a # u /\ b # u
    <3>1. a \in Calling /\ b \in Calling /\ a \notin spoilt
      BY <1>1, <1>4, <2>3
    <3>2. ~Meet(call[a], call[b])
      BY <3>1 DEF RefInv, Apart
    <3> QED BY <1>4, <3>1, <3>2
  <2> QED BY <2>1, <2>2, <2>3
<1>10. GoneSpoils'
  BY <1>1 DEF GoneSpoils
<1>11. Prepared'
  <2> SUFFICES ASSUME NEW v \in Calling', v \notin spoilt' PROVE ReadyAt(call[v], ToGo(v))'
    BY DEF Prepared
  <2>1. CASE v = u
    <3>1. ReadyAt(k, Longest(k))
      <4>1. Direct(k) => OwnReady(k, Longest(k))
        BY DEF Longest, OwnReady
      <4>2. Distant(k) => DistantReady(k, Longest(k))
        <5>1. Distant(k) => Longest(k) = 13
          BY DEF Longest, Direct, Distant
        <5> QED BY <5>1 DEF DistantReady
      <4>3. Mailed(k) => MailReady(k, Longest(k))
        <5>1. Mailed(k) => Longest(k) = 5 /\ IssueAt(k) - 1 # 5
          BY DEF Longest, Direct, Distant, Mailed, IssueAt
        <5> QED BY <5>1 DEF MailReady
      <4> QED BY <4>1, <4>2, <4>3 DEF ReadyAt
    <3> QED BY <1>1, <1>4, <1>7, <2>1, <3>1, SameReady
  <2>2. CASE v # u
    <3>1. v \in Calling \ spoilt
      BY <1>1, <1>4, <2>2
    <3>2. ReadyAt(call[v], ToGo(v))
      BY <3>1 DEF RefInv, Prepared
    <3> QED BY <1>1, <1>4, <1>7, <3>1, <3>2, SameReady
  <2> QED BY <2>1, <2>2
<1>12. CommandOwned'
  <2>1. \A w \in Calling : Sent(w) => Sent(w)'
    BY <1>1, <1>4 DEF Sent, IssueAt
  <2> QED BY <1>1, <1>4, <2>1 DEF RefInv, CommandOwned
<1>13. LeftBehind'
  <2>1. left # NoCall => Len(Program(k)) = 5
    <3>1. left # NoCall => mode = "mailbox"
      BY DEF RefInv, LeftBehind, CommandOwned
    <3>2. mode = "mailbox" => Longest(k) = 5 /\ Skips(k) = 0
      BY DEF Longest, Skips, Direct, Distant, Mailed, Refused
    <3>3. Program(k) \in Seq(Ops)
      BY <1>1, <1>2, <1>4 DEF WinInv, Shapes
    <3> QED BY <1>5, <3>1, <3>2, <3>3
  <2>2. \A v \in Calling' \ spoilt' : v = u \/ v \in Calling \ spoilt
    BY <1>1, <1>4
  <2> QED BY <1>1, <1>4, <2>1, <2>2 DEF RefInv, LeftBehind, Worded
<1> QED BY <1>8, <1>9, <1>10, <1>11, <1>12, <1>13 DEF RefInv

LEMMA RefExecute ==
  ASSUME RefInv, Execute, XTypeInv', WinInv'
  PROVE  RefInv'
<1>1. /\ box.command # Complete /\ ~gone /\ left' = NoCall
      /\ UNCHANGED <<mode, gone, ctl, base, call, todo, spoilt>>
  BY DEF Execute, windows
<1>2. box'.command = Complete /\ box'.address = box.address
  BY DEF Execute, RefInv, XTypeInv
<1>3. Calling' = Calling /\ \A v \in Users : ToGo(v)' = ToGo(v)
  BY <1>1, SameProgram DEF Calling, ToGo
<1>4. Planned' /\ Apart' /\ GoneSpoils'
  <2>1. Planned'
    BY <1>1, <1>3, SameProgram DEF RefInv, Planned
  <2> QED BY <1>1, <1>3, <2>1, SameProgram DEF RefInv, Apart, GoneSpoils
<1>5. CommandOwned' /\ LeftBehind'
  BY <1>1, <1>2 DEF CommandOwned, LeftBehind
<1>6. mode = "mailbox"
  BY <1>1 DEF RefInv, CommandOwned
<1>7. Prepared'
  <2> SUFFICES ASSUME NEW v \in Calling \ spoilt PROVE ReadyAt(call[v], ToGo(v))'
    BY <1>1, <1>3 DEF Prepared
  <2>1. PICK k, n : k = call[v] /\ n = ToGo(v)
    OBVIOUS
  <2>2. /\ Mailed(k) /\ n = Len(todo[v]) /\ MailReady(k, n) /\ v \in Users
    BY <1>6, <2>1, CallerFacts DEF RefInv, Prepared, ReadyAt
  <2>3. left = NoCall => Sent(v)
    BY <1>1, <1>6, OnlyCaller DEF RefInv, CommandOwned
  <2>4. n = 5 \/ n = IssueAt(k) - 1
    BY <2>1, <2>2, <2>3 DEF RefInv, LeftBehind, Sent
  <2>5. MailReady(k, n)'
    <3>1. IssueAt(k) = (IF k.op = "write" THEN 2 ELSE 3) /\ Complete' = Complete
      BY DEF IssueAt, Complete
    <3>2. n \in {3, 2} => box'.address = Address(k.name)
      BY <1>2, <2>2 DEF MailReady
    <3>3. ~(n = 2 /\ k.op = "write")
      BY <2>4, <3>1
    <3> QED BY <1>2, <2>4, <3>1, <3>2, <3>3 DEF MailReady
  <2>6. ReadyAt(k, n)'
    BY <1>1, <2>2, <2>5, SameProgram DEF ReadyAt, Mailed, Direct, Distant
  <2> QED BY <1>1, <1>3, <2>1, <2>2, <2>6
<1> QED BY <1>4, <1>5, <1>7 DEF RefInv

LEMMA RefUnplug ==
  ASSUME RefInv, Unplug, XTypeInv', WinInv'
  PROVE  RefInv'
<1>1. /\ gone' = TRUE /\ spoilt' = Calling
      /\ UNCHANGED <<mode, ctl, base, box, call, todo, left>>
  BY DEF Unplug, windows
<1>2. Calling' = Calling
  BY <1>1 DEF Calling
<1>3. Planned'
  BY <1>1, <1>2, SameProgram DEF RefInv, Planned
<1>4. Apart' /\ GoneSpoils' /\ Prepared'
  BY <1>1, <1>2 DEF Apart, GoneSpoils, Prepared
<1>5. CommandOwned' /\ LeftBehind'
  BY <1>1, <1>2 DEF RefInv, CommandOwned, LeftBehind, Worded
<1> QED BY <1>3, <1>4, <1>5 DEF RefInv

refVars == <<mode, gone, reg, ctl, base, box, call, todo, got, spoilt, left>>

LEMMA RefStutter == RefInv /\ UNCHANGED refVars => RefInv'
<1> SUFFICES ASSUME RefInv, UNCHANGED refVars PROVE RefInv'
  OBVIOUS
<1>1. UNCHANGED <<mode, gone, reg, ctl, base, box, call, todo, got, spoilt, left>>
  BY DEF refVars
<1>2. XTypeInv' /\ WinInv'
  BY <1>1, XTypeStutter, WinStutter DEF RefInv, winVars
<1>3. Calling' = Calling /\ \A v \in Users : ToGo(v)' = ToGo(v)
  BY <1>1, SameProgram DEF Calling, ToGo
<1>4. Planned' /\ Apart' /\ GoneSpoils'
  <2>1. Planned'
    BY <1>1, <1>3, SameProgram DEF RefInv, Planned
  <2> QED BY <1>1, <1>3, <2>1, SameProgram DEF RefInv, Apart, GoneSpoils
<1>5. Prepared'
  <2> SUFFICES ASSUME NEW v \in Calling \ spoilt PROVE ReadyAt(call[v], ToGo(v))'
    BY <1>1, <1>3 DEF Prepared
  <2>1. ReadyAt(call[v], ToGo(v)) /\ v \in Users
    BY DEF RefInv, Prepared, Calling
  <2> QED BY <1>1, <1>3, <2>1, SameReady
<1>6. CommandOwned' /\ LeftBehind'
  <2>1. \A v : Sent(v)' <=> Sent(v)
    BY <1>1 DEF Sent, IssueAt
  <2> QED BY <1>1, <1>3, <2>1 DEF RefInv, CommandOwned, LeftBehind, Worded
<1> QED BY <1>2, <1>4, <1>5, <1>6 DEF RefInv

LEMMA RefInit == XInit => RefInv
<1> SUFFICES ASSUME XInit PROVE RefInv
  OBVIOUS
<1>1. XTypeInv /\ WinInv
  BY XTypeInit, InitWin
<1>2. Calling = {} /\ gone = FALSE /\ spoilt = {} /\ left = NoCall /\ box.command = Complete
  BY DEF XInit, Calling
<1> QED BY <1>1, <1>2
        DEF RefInv, Planned, Apart, GoneSpoils, Prepared, CommandOwned, LeftBehind

LEMMA RefStep == RefInv /\ [XNext]_xvars => RefInv'
<1> SUFFICES ASSUME RefInv, [XNext]_xvars PROVE RefInv'
  OBVIOUS
<1>1. XTypeInv /\ WinInv
  BY DEF RefInv
<1>2. ASSUME NEW u \in Users, Access(u) PROVE RefInv'
  <2>1. XTypeInv' /\ WinInv'
    BY <1>1, <1>2, XTypeAccess, WinAccess
  <2> QED BY <1>2, <2>1, RefWrite, RefRead, RefPost, RefCompleted, RefFetch, RefReturn,
             RefTimeOut
          DEF Access
<1>3. ASSUME NEW u \in Users, NEW k \in XCalls, Begin(u, k) PROVE RefInv'
  BY <1>1, <1>3, XTypeBegin, WinBegin, RefBegin
<1>4. CASE Execute
  <2>1. WinInv'
    BY <1>1, <1>4, WinStep DEF XStep
  <2> QED BY <1>1, <1>4, <2>1, XTypeFirmware, RefExecute
<1>5. CASE Unplug
  BY <1>1, <1>5, XTypeFirmware, WinUnplug, RefUnplug
<1>6. CASE UNCHANGED xvars
  BY <1>6, RefStutter DEF xvars, windows, refVars
<1> QED BY <1>2, <1>3, <1>4, <1>5, <1>6 DEF XNext

-----------------------------------------------------------------------------
(* The mapping, step by step.                                               *)
TookEffect(u) ==
  /\ ~Refused(call[u]) /\ ToGo(u) < UseAt(call[u])
  /\ mode = "mailbox" => box.command = Complete

ActedEq == Acted = {u \in Calling \ spoilt : TookEffect(u)}

(* The answer of the firmware waits in the mailbox.                         *)
Fetching(u) ==
  /\ u \in Calling /\ mode = "mailbox" /\ call[u].op = "read"
  /\ Len(todo[u]) = 1 \/ (Len(todo[u]) = 2 /\ box.command = Complete)

GotEq == \A u \in Users : Got(u) = IF Fetching(u) THEN box.data ELSE got[u]

LEMMA ActedIs == RefInv => ActedEq
<1> SUFFICES ASSUME RefInv PROVE ActedEq
  OBVIOUS
<1>1. ASSUME NEW u \in Calling \ spoilt, ~Refused(call[u])
      PROVE  (\A i \in DOMAIN todo[u] : todo[u][i].kind \notin {"put", "get", "issue"})
               <=> ToGo(u) < UseAt(call[u])
  <2>1. PICK k, n, use : k = call[u] /\ n = ToGo(u) /\ use = UseAt(k)
    OBVIOUS
  <2>2. /\ k \in XCalls /\ todo[u] \in Seq(Ops) /\ Skips(k) \in 0 .. 1 /\ n \in Nat
        /\ Len(todo[u]) \in Nat /\ n = Len(todo[u]) + Skips(k)
        /\ n <= Longest(k) /\ Longest(k) \in Nat /\ use \in Nat
        /\ use > Skips(k) /\ use < Longest(k)
    BY <1>1, <2>1, CallerFacts
  <2>3. \A i \in DOMAIN todo[u] : todo[u][i] = StepAt(k, n + 1 - i)
    BY <2>1, <2>2 DEF RefInv, Planned, Rest
  <2>4. ASSUME n < use, NEW i \in DOMAIN todo[u]
        PROVE  todo[u][i].kind \notin {"put", "get", "issue"}
    <3>1. i \in 1 .. Len(todo[u])
      BY <2>2
    <3>2. n + 1 - i \in Nat /\ Skips(k) < n + 1 - i /\ n + 1 - i <= n
      BY <2>2, <3>1
    <3>3. n + 1 - i <= Longest(k) /\ n + 1 - i # use
      BY <2>2, <2>4, <3>2
    <3>4. StepAt(k, n + 1 - i).kind \notin {"put", "get", "issue"}
      BY <2>1, <2>2, <3>2, <3>3, AccessKinds
    <3> QED BY <2>3, <3>4
  <2>5. ASSUME ~(n < use)
        PROVE  \E i \in DOMAIN todo[u] : todo[u][i].kind \in {"put", "get", "issue"}
    <3>1. n + 1 - use \in DOMAIN todo[u] /\ n + 1 - (n + 1 - use) = use
      BY <2>2, <2>5
    <3>2. StepAt(k, use).kind \in {"put", "get", "issue"}
      BY <1>1, <2>1, <2>2, AccessKinds
    <3> QED BY <2>3, <3>1, <3>2
  <2> QED BY <2>1, <2>4, <2>5
<1> QED BY <1>1 DEF ActedEq, Acted, TookEffect

LEMMA GotIs == RefInv => GotEq
<1> SUFFICES ASSUME RefInv, NEW u \in Users
             PROVE  Got(u) = IF Fetching(u) THEN box.data ELSE got[u]
  BY DEF GotEq
<1>1. CASE todo[u] = <<>>
  BY <1>1 DEF Got, Ready, Fetching
<1>2. CASE todo[u] # <<>> /\ mode # "mailbox"
  <2>1. Head(todo[u]).kind \notin {"fetch", "await"}
    BY <1>2, MailAccess
  <2> QED BY <1>2, <2>1 DEF Got, Ready, Fetching
<1>3. CASE todo[u] # <<>> /\ mode = "mailbox"
  <2>1. PICK k, n : k = call[u] /\ n = Len(todo[u])
    OBVIOUS
  <2>2. /\ u \in Calling /\ Mailed(k) /\ k \in XCalls /\ n \in Nat /\ 0 < n /\ n <= 5
        /\ Head(todo[u]) = StepAt(k, n)
    <3>1. /\ u \in Calling /\ Head(todo[u]) = StepAt(k, ToGo(u)) /\ ToGo(u) > 0
      BY <1>3, <2>1, NextAccess
    <3>2. Mailed(k) /\ k \in XCalls /\ n \in Nat /\ ToGo(u) = n /\ n <= Longest(k)
      BY <1>3, <2>1, <3>1, CallerFacts
    <3>3. Longest(k) = 5
      BY <3>2 DEF Longest, Mailed, Direct, Distant
    <3> QED BY <3>1, <3>2, <3>3
  <2>3. k.op \in {"write", "read"} /\ IssueAt(k) = (IF k.op = "write" THEN 2 ELSE 3)
    BY <2>2, CallValues DEF IssueAt
  <2>4. /\ Head(todo[u]).kind = "fetch" <=> n = 1 /\ k.op = "read"
        /\ Head(todo[u]).kind = "await" /\ n = 2 <=> n = 2 /\ k.op = "read"
    BY <2>2, <2>3, MailKinds
  <2> QED BY <1>3, <2>1, <2>2, <2>4 DEF Got, Ready, Fetching
<1> QED BY <1>1, <1>2, <1>3

LEMMA MappedNext == RefInv' => ActedEq' /\ GotEq'
BY ActedIs, GotIs, PTL

(* Steps the promise does not see.                                          *)
LEMMA Quiet ==
  ASSUME UNCHANGED <<mode, gone, reg, call, spoilt, left>>, Acted' = Acted,
         \A v \in Users : Got(v)' = Got(v)
  PROVE  UNCHANGED Promise!rvars
<1>1. [v \in Users |-> Got(v)]' = [v \in Users |-> Got(v)]
  OBVIOUS
<1> QED BY <1>1 DEF Promise!rvars

(* What a read brought, before and after a step.                            *)
LEMMA GotTyped ==
  ASSUME RefInv, RefInv'
  PROVE  /\ \A v \in Users : Got(v)' \in Words
         /\ reg' \in [Chips -> [Registers -> Words]]
         /\ \A v \in Users : Got(v) = IF Fetching(v) THEN box.data ELSE got[v]
         /\ \A v \in Users : Got(v)' = IF Fetching(v)' THEN box'.data ELSE got'[v]
<1>1. GotEq /\ GotEq'
  BY GotIs, MappedNext
<1>2. got' \in [Users -> Words] /\ box'.data \in Words /\ reg' \in [Chips -> [Registers -> Words]]
  BY DEF RefInv, XTypeInv
<1> QED BY <1>1, <1>2 DEF GotEq

LEMMA Strays ==
  ASSUME RefInv, RefInv', UNCHANGED <<mode, gone, call, spoilt>>, spoilt # {},
         \A v \in Users \ spoilt : Got(v)' = Got(v), left' \in {left, NoCall}, Acted' = Acted
  PROVE  Promise!Stray
<1>1. \A v \in Users : Got(v)' \in Words
  BY GotTyped
<1>2. reg' \in [Chips -> [Registers -> Words]]
  BY GotTyped
<1>3. [v \in Users |-> Got(v)]' \in [Users -> Words]
  BY <1>1
<1> QED BY <1>2, <1>3 DEF Promise!Stray

(* Who took effect, before and after a step.                                *)
LEMMA ActedMembers ==
  ASSUME RefInv, RefInv'
  PROVE  /\ Acted \subseteq Users /\ Acted' \subseteq Users
         /\ \A v : v \in Acted <=> v \in Calling \ spoilt /\ TookEffect(v)
         /\ \A v : v \in Acted' <=> v \in Calling' \ spoilt' /\ TookEffect(v)'
<1>1. ActedEq /\ ActedEq'
  BY ActedIs, MappedNext
<1> QED BY <1>1 DEF ActedEq, Calling

(* The calls that took effect, as a user makes its next access.             *)
LEMMA ActedAdvance ==
  ASSUME RefInv, RefInv', NEW u \in Users, todo[u] # <<>>, Done(u),
         UNCHANGED <<mode, call, spoilt>>, ~Refused(call[u]), box'.command = box.command
  PROVE  Acted' = IF u \notin spoilt /\ ToGo(u) = UseAt(call[u])
                       /\ (mode = "mailbox" => box.command = Complete)
                  THEN Acted \cup {u} ELSE Acted
<1>1. /\ Calling' = Calling /\ ToGo(u)' = ToGo(u) - 1 /\ u \in Calling
      /\ \A v \in Users : v # u => ToGo(v)' = ToGo(v)
  BY OneLess, NextAccess
<1>2. ToGo(u) \in Nat /\ UseAt(call[u]) \in Nat
  BY <1>1, CallerFacts
<1>3. \A v : /\ UseAt(call[v])' = UseAt(call[v])
             /\ Refused(call[v])' <=> Refused(call[v])
  BY SameProgram
<1>4. \A v \in Users : v # u => (TookEffect(v)' <=> TookEffect(v))
  BY <1>1, <1>3 DEF TookEffect, Complete
<1>5. TookEffect(u)' <=> /\ ToGo(u) - 1 < UseAt(call[u])
                         /\ mode = "mailbox" => box.command = Complete
  BY <1>1, <1>3 DEF TookEffect, Complete
<1>6. TookEffect(u) <=> /\ ToGo(u) < UseAt(call[u])
                        /\ mode = "mailbox" => box.command = Complete
  BY DEF TookEffect
<1>7. ToGo(u) - 1 < UseAt(call[u]) <=> ToGo(u) < UseAt(call[u]) \/ ToGo(u) = UseAt(call[u])
  BY <1>2
<1>8. \A v \in Users : v # u => (v \in Acted' <=> v \in Acted)
  BY <1>1, <1>4, ActedMembers
<1>9. u \in Acted' <=>
        u \in Acted \/ (u \notin spoilt /\ ToGo(u) = UseAt(call[u])
                        /\ (mode = "mailbox" => box.command = Complete))
  BY <1>1, <1>5, <1>6, <1>7, ActedMembers
<1>10. Acted \subseteq Users /\ Acted' \subseteq Users
  BY ActedMembers
<1> DEFINE uses == u \notin spoilt /\ ToGo(u) = UseAt(call[u])
                   /\ (mode = "mailbox" => box.command = Complete)
<1>11. CASE uses
  <2>1. \A v \in Users : v \in Acted' <=> v \in Acted \cup {u}
    BY <1>8, <1>9, <1>11
  <2>2. Acted' = Acted \cup {u}
    BY <1>10, <2>1
  <2> QED BY <1>11, <2>2
<1>12. CASE ~uses
  <2>1. \A v \in Users : v \in Acted' <=> v \in Acted
    BY <1>8, <1>9, <1>12
  <2>2. Acted' = Acted
    BY <1>10, <2>1
  <2> QED BY <1>12, <2>2
<1> QED BY <1>11, <1>12

(* A call's use of its register through a window.                           *)
LEMMA MapUse ==
  ASSUME RefInv, RefInv', NEW u \in Calling \ spoilt, ToGo(u) = UseAt(call[u]),
         mode # "mailbox", UNCHANGED <<mode, gone, call, spoilt, left>>, ~Refused(call[u]),
         Acted' = Acted \cup {u},
         NEW k, k = call[u], k.op \in {"write", "read"},
         k.op = "write" => /\ reg' = [reg EXCEPT ![k.chip][k.name] = k.value]
                           /\ got' = got,
         k.op = "read" => reg' = reg /\ got' = [got EXCEPT ![u] = reg[k.chip][k.name]]
  PROVE  Promise!Act(u)
<1>1. /\ \A v \in Users : Got(v) = got[v]
      /\ \A v \in Users : Got(v)' = got'[v]
  <2>1. \A v : ~Fetching(v) /\ ~Fetching(v)'
    BY DEF Fetching
  <2> QED BY <2>1, GotTyped
<1>2. [v \in Users |-> Got(v)] = [v \in Users |-> got[v]]
  BY <1>1
<1>3. [v \in Users |-> Got(v)]' = [v \in Users |-> got'[v]]
  BY <1>1
<1>4. got \in [Users -> Words]
  BY DEF RefInv, XTypeInv
<1>5. u \notin Acted
  <2>1. ~TookEffect(u)
    BY CallerFacts DEF TookEffect
  <2> QED BY <2>1, ActedMembers
<1>6. u \in Promise!UnderWay \ (spoilt \cup Acted)
  BY <1>5 DEF Promise!UnderWay, Calling
<1>7. reg' = Promise!Apply(call[u])
  BY DEF Promise!Apply
<1>8. [v \in Users |-> Got(v)]' =
        IF call[u].op = "write" THEN [v \in Users |-> Got(v)]
        ELSE [[v \in Users |-> Got(v)] EXCEPT ![u] = reg[call[u].chip][call[u].name]]
  <2>1. CASE k.op = "write"
    BY <1>2, <1>3, <2>1
  <2>2. CASE k.op = "read"
    <3>1. got' = [got EXCEPT ![u] = reg[k.chip][k.name]]
      BY <2>2
    <3>2. [v \in Users |-> got'[v]] =
            [[v \in Users |-> got[v]] EXCEPT ![u] = reg[k.chip][k.name]]
      BY <1>4, <3>1 DEF Calling
    <3> QED BY <1>2, <1>3, <2>2, <3>2
  <2> QED BY <2>1, <2>2
<1> QED BY <1>6, <1>7, <1>8 DEF Promise!Act

(* Only the mailbox holds an answer back.                                   *)
LEMMA GotDirect ==
  ASSUME RefInv, RefInv', mode # "mailbox", mode' = mode
  PROVE  \A v \in Users : Got(v) = got[v] /\ Got(v)' = got'[v]
<1>1. \A v : ~Fetching(v) /\ ~Fetching(v)'
  BY DEF Fetching
<1> QED BY <1>1, GotTyped

LEMMA MapWrite ==
  ASSUME RefInv, RefInv', NEW u \in Users, Write(u)
  PROVE  Promise!RNext \/ UNCHANGED Promise!rvars
<1>1. /\ todo[u] # <<>> /\ Head(todo[u]).kind \in {"control", "base", "poke", "put"} /\ Done(u)
      /\ UNCHANGED <<mode, gone, box, call, got, spoilt, left>>
  BY DEF Write, Ready
<1>2. PICK k, n : k = call[u] /\ n = ToGo(u)
  OBVIOUS
<1>3. u \in Calling /\ Head(todo[u]) = StepAt(k, n) /\ k \in XCalls
      /\ Skips(k) < n /\ n \in Nat /\ n <= Longest(k)
  BY <1>1, <1>2, NextAccess, CallerFacts
<1>4. Direct(k) \/ Distant(k)
  BY <1>1, <1>3, AccessKinds
<1>5. mode # "mailbox" /\ ~Refused(k)
  BY <1>4 DEF Direct, Distant
<1>6. \A v \in Users : Got(v)' = Got(v)
  BY <1>1, <1>5, GotDirect
<1>7. Acted' = IF u \notin spoilt /\ n = UseAt(k) THEN Acted \cup {u} ELSE Acted
  BY <1>1, <1>2, <1>5, ActedAdvance
<1>8. CASE u \in spoilt
  BY <1>1, <1>6, <1>7, <1>8, Strays DEF Promise!RNext
<1>9. ASSUME u \notin spoilt
      PROVE  /\ n # UseAt(k) => reg' = reg
             /\ n = UseAt(k) =>
                  k.op = "write" /\ reg' = [reg EXCEPT ![k.chip][k.name] = k.value]
  <2>1. CASE Direct(k)
    BY <1>2, <1>9, <2>1, WriteDirect DEF UseAt
  <2>2. CASE Distant(k)
    <3>1. UseAt(k) = 5
      BY <2>2 DEF UseAt, Direct, Distant
    <3> QED BY <1>2, <1>9, <2>2, <3>1, WriteDistant
  <2> QED BY <1>4, <2>1, <2>2
<1>10. CASE u \notin spoilt /\ n # UseAt(k)
  BY <1>1, <1>6, <1>7, <1>9, <1>10, Quiet
<1>11. CASE u \notin spoilt /\ n = UseAt(k)
  <2>1. Promise!Act(u)
    BY <1>1, <1>2, <1>3, <1>5, <1>7, <1>9, <1>11, MapUse
  <2> QED BY <2>1 DEF Promise!RNext
<1> QED BY <1>8, <1>10, <1>11

LEMMA MapRead ==
  ASSUME RefInv, RefInv', NEW u \in Users, Read(u)
  PROVE  Promise!RNext \/ UNCHANGED Promise!rvars
<1>1. /\ todo[u] # <<>> /\ Head(todo[u]).kind = "get" /\ Done(u)
      /\ got' = [got EXCEPT ![u] = Load(Target(Head(todo[u]).chip))]
      /\ UNCHANGED <<mode, gone, reg, box, call, spoilt, left>>
  BY DEF Read, Ready
<1>2. PICK k, n : k = call[u] /\ n = ToGo(u)
  OBVIOUS
<1>3. u \in Calling /\ Head(todo[u]) = StepAt(k, n) /\ k \in XCalls
      /\ Skips(k) < n /\ n \in Nat /\ n <= Longest(k)
  BY <1>1, <1>2, NextAccess, CallerFacts
<1>4. (Direct(k) \/ Distant(k)) /\ n = UseAt(k)
  BY <1>1, <1>3, AccessKinds
<1>5. mode # "mailbox" /\ ~Refused(k)
  BY <1>4 DEF Direct, Distant
<1>6. Acted' = IF u \notin spoilt THEN Acted \cup {u} ELSE Acted
  BY <1>1, <1>2, <1>4, <1>5, ActedAdvance
<1>7. got \in [Users -> Words]
  BY DEF RefInv, XTypeInv
<1>8. CASE u \in spoilt
  <2>1. \A v \in Users \ spoilt : Got(v)' = Got(v)
    BY <1>1, <1>5, <1>7, <1>8, GotDirect
  <2> QED BY <1>1, <1>6, <1>8, <2>1, Strays DEF Promise!RNext
<1>9. CASE u \notin spoilt
  <2>1. /\ Head(todo[u]) = Use(k, Head(todo[u]).chip)
        /\ Target(Head(todo[u]).chip) = <<k.name, k.chip>>
    BY <1>1, <1>2, <1>3, <1>4, <1>9, UseFacts
  <2>2. k.op # "write"
    BY <1>1, <2>1 DEF Use, Op
  <2>3. k.op = "read" /\ k.name \in Registers
    BY <1>3, <2>2, CallValues
  <2>4. ~gone
    BY <1>3, <1>9 DEF RefInv, GoneSpoils
  <2>5. Load(Target(Head(todo[u]).chip)) = reg[k.chip][k.name]
    BY <2>1, <2>3, <2>4 DEF Load
  <2>6. got' = [got EXCEPT ![u] = reg[k.chip][k.name]]
    BY <1>1, <2>5
  <2>7. Promise!Act(u)
    BY <1>1, <1>2, <1>3, <1>4, <1>5, <1>6, <1>9, <2>3, <2>6, MapUse
  <2> QED BY <2>7 DEF Promise!RNext
<1> QED BY <1>8, <1>9

(* The mailbox: where a call that met another is under way, all have.       *)
LEMMA MailCallers ==
  ASSUME RefInv, mode = "mailbox", NEW u \in Calling
  PROVE  IF u \in spoilt THEN Calling = spoilt ELSE Calling = {u} /\ spoilt = {} /\ ~gone
<1>1. spoilt \subseteq Calling
  BY DEF RefInv, XTypeInv
<1>2. CASE u \in spoilt
  <2>1. \A v \in Calling : v \in spoilt
    BY <1>2, OnlyCaller
  <2> QED BY <1>1, <1>2, <2>1
<1>3. CASE u \notin spoilt
  <2>1. \A v \in Calling : v = u
    BY <1>3, OnlyCaller
  <2>2. ~gone
    BY <1>3 DEF RefInv, GoneSpoils
  <2> QED BY <1>1, <1>3, <2>1, <2>2
<1> QED BY <1>2, <1>3

(* Any step of calls that met in the mailbox is a stray one.                *)
LEMMA SpoiltMail ==
  ASSUME RefInv, RefInv', mode = "mailbox", NEW u \in Calling, u \in spoilt,
         UNCHANGED <<mode, gone, call, spoilt>>, left' \in {left, NoCall},
         \A v \in Users \ spoilt : got'[v] = got[v]
  PROVE  Promise!Stray
<1>1. Calling = spoilt /\ Calling' = Calling
  BY MailCallers DEF Calling
<1>2. Acted' = Acted
  <2>1. \A v : v \notin Acted /\ v \notin Acted'
    BY <1>1, ActedMembers
  <2> QED BY <2>1, ActedMembers
<1>3. ASSUME NEW v \in Users, v \notin spoilt PROVE Got(v)' = Got(v)
  <2>1. v \notin Calling /\ v \notin Calling'
    BY <1>1, <1>3
  <2>2. ~Fetching(v) /\ ~Fetching(v)'
    BY <2>1 DEF Fetching
  <2> QED BY <1>3, <2>2, GotTyped
<1> QED BY <1>2, <1>3, Strays

LEMMA MapPost ==
  ASSUME RefInv, RefInv', NEW u \in Users, Post(u)
  PROVE  Promise!RNext \/ UNCHANGED Promise!rvars
<1> DEFINE op == Head(todo[u])
<1>1. /\ todo[u] # <<>> /\ op.kind \in {"address", "data", "issue"} /\ Done(u)
      /\ UNCHANGED <<mode, gone, reg, call, got, spoilt, left>>
      /\ box' = IF gone THEN box
                ELSE IF op.kind = "address" THEN [box EXCEPT !.address = op.word]
                ELSE IF op.kind = "data" THEN [box EXCEPT !.data = op.word]
                ELSE [box EXCEPT !.command = call[u]]
  BY DEF Post, Ready
<1>2. PICK k, n : k = call[u] /\ n = Len(todo[u])
  OBVIOUS
<1>3. /\ mode = "mailbox" /\ u \in Calling /\ k \in XCalls /\ Mailed(k) /\ ~Refused(k)
      /\ n \in 1 .. 5 /\ n = ToGo(u) /\ op = StepAt(k, n) /\ k.op \in {"write", "read"}
      /\ k # NoCall
  BY <1>1, <1>2, MailAccess
<1>4. /\ op.kind = "address" => n = 4
      /\ op.kind = "data" => n = 3 /\ k.op = "write"
      /\ op.kind = "issue" <=> n = IssueAt(k)
      /\ IssueAt(k) = IF k.op = "write" THEN 2 ELSE 3
  BY <1>1, <1>3, MailKinds
<1>5. UseAt(k) = IssueAt(k)
  BY <1>3 DEF UseAt, Mailed, Direct, Distant
<1> HIDE DEF op
<1>6. CASE u \in spoilt
  BY <1>1, <1>3, <1>6, SpoiltMail DEF Promise!RNext
<1>7. CASE u \notin spoilt
  <2>1. Calling = {u} /\ ~gone /\ Calling' = Calling
    BY <1>1, <1>3, <1>7, MailCallers DEF Calling
  <2>2. /\ op.kind # "issue" => box'.command = box.command
        /\ op.kind = "issue" => box'.command # Complete
    BY <1>1, <1>2, <1>3, <2>1 DEF RefInv, XTypeInv, Complete
  <2>3. Acted' = Acted
    <3>1. CASE op.kind # "issue"
      <4>1. ToGo(u) # UseAt(call[u])
        BY <1>2, <1>3, <1>4, <1>5, <3>1
      <4> QED BY <1>1, <1>2, <1>3, <2>2, <3>1, <4>1, ActedAdvance DEF op
    <3>2. CASE op.kind = "issue"
      <4>1. ~TookEffect(u)
        BY <1>2, <1>3, <1>4, <1>5, <3>2 DEF TookEffect
      <4>2. ~TookEffect(u)'
        BY <1>1, <1>3, <2>2, <3>2 DEF TookEffect, Complete
      <4>3. \A v : v \notin Acted /\ v \notin Acted'
        BY <2>1, <4>1, <4>2, ActedMembers
      <4> QED BY <4>3, ActedMembers
    <3> QED BY <3>1, <3>2
  <2>4. Len(todo[u])' = n - 1
    BY <1>1, <1>2, <1>3, OneLess
  <2>5. ~Fetching(u)
    BY <1>1, <1>2, <1>3, <1>4 DEF Fetching
  <2>6. ~Fetching(u)'
    <3>1. CASE k.op = "write"
      BY <1>1, <1>2, <3>1 DEF Fetching
    <3>2. CASE k.op = "read" /\ n = 3
      BY <1>4, <2>2, <2>4, <3>2 DEF Fetching, Complete
    <3>3. CASE k.op = "read" /\ n = 4
      BY <2>4, <3>3 DEF Fetching
    <3> QED BY <1>1, <1>3, <1>4, <3>1, <3>2, <3>3
  <2>7. \A v \in Users : ~Fetching(v) /\ ~Fetching(v)'
    <3>1. \A v \in Users : v # u => v \notin Calling /\ v \notin Calling'
      BY <2>1
    <3>2. \A v \in Users : v # u => ~Fetching(v) /\ ~Fetching(v)'
      BY <3>1 DEF Fetching
    <3> QED BY <2>5, <2>6, <3>2
  <2>8. \A v \in Users : Got(v)' = Got(v)
    BY <1>1, <2>7, GotTyped
  <2> QED BY <1>1, <2>3, <2>8, Quiet
<1> QED BY <1>6, <1>7

LEMMA MapAnswered ==
  ASSUME RefInv, RefInv', NEW u \in Users, Completed(u) \/ Fetch(u)
  PROVE  Promise!RNext \/ UNCHANGED Promise!rvars
<1>1. /\ todo[u] # <<>> /\ Head(todo[u]).kind \in {"await", "fetch"} /\ Done(u)
      /\ UNCHANGED <<mode, gone, reg, box, call, spoilt, left>>
      /\ Head(todo[u]).kind = "await" => box.command = Complete /\ got' = got
      /\ Head(todo[u]).kind = "fetch" =>
           got' = [got EXCEPT ![u] = IF gone THEN Ones ELSE box.data]
  BY DEF Completed, Fetch, Ready
<1>2. PICK k, n : k = call[u] /\ n = Len(todo[u])
  OBVIOUS
<1>3. /\ mode = "mailbox" /\ u \in Calling /\ k \in XCalls /\ Mailed(k) /\ ~Refused(k)
      /\ n \in 1 .. 5 /\ n = ToGo(u) /\ Head(todo[u]) = StepAt(k, n)
      /\ k.op \in {"write", "read"}
  BY <1>1, <1>2, MailAccess
<1>4. /\ Head(todo[u]).kind = "await" => n = 5 \/ n = IssueAt(k) - 1
      /\ Head(todo[u]).kind = "fetch" => n = 1 /\ k.op = "read"
      /\ IssueAt(k) = IF k.op = "write" THEN 2 ELSE 3
  BY <1>1, <1>3, MailKinds
<1>5. UseAt(k) = IssueAt(k) /\ n # IssueAt(k)
  BY <1>1, <1>3, <1>4 DEF UseAt, Mailed, Direct, Distant
<1>6. got \in [Users -> Words]
  BY DEF RefInv, XTypeInv
<1>7. CASE u \in spoilt
  <2>1. \A v \in Users \ spoilt : got'[v] = got[v]
    BY <1>1, <1>6, <1>7
  <2> QED BY <1>1, <1>3, <1>7, <2>1, SpoiltMail DEF Promise!RNext
<1>8. CASE u \notin spoilt
  <2>1. Calling = {u} /\ ~gone /\ Calling' = Calling
    BY <1>1, <1>3, <1>8, MailCallers DEF Calling
  <2>2. Acted' = Acted
    BY <1>1, <1>2, <1>3, <1>5, ActedAdvance
  <2>3. Len(todo[u])' = n - 1
    BY <1>1, <1>2, <1>3, OneLess
  <2>4. Got(u)' = Got(u)
    <3>1. CASE Head(todo[u]).kind = "fetch"
      <4>1. Fetching(u) /\ got'[u] = box.data
        BY <1>1, <1>2, <1>3, <1>4, <1>6, <2>1, <3>1 DEF Fetching
      <4>2. ~Fetching(u)'
        BY <1>4, <2>3, <3>1 DEF Fetching
      <4> QED BY <4>1, <4>2, GotTyped
    <3>2. CASE Head(todo[u]).kind = "await" /\ k.op = "read" /\ n = 2
      <4>1. Fetching(u)
        BY <1>1, <1>2, <1>3, <3>2 DEF Fetching
      <4>2. Fetching(u)'
        BY <1>1, <1>2, <1>3, <2>1, <2>3, <3>2 DEF Fetching
      <4> QED BY <1>1, <4>1, <4>2, GotTyped
    <3>3. CASE Head(todo[u]).kind = "await" /\ k.op = "write"
      <4>1. ~Fetching(u) /\ ~Fetching(u)'
        BY <1>1, <1>2, <3>3 DEF Fetching
      <4> QED BY <1>1, <3>3, <4>1, GotTyped
    <3>4. CASE Head(todo[u]).kind = "await" /\ n = 5
      <4>1. ~Fetching(u)
        BY <1>2, <3>4 DEF Fetching
      <4>2. ~Fetching(u)'
        BY <2>3, <3>4 DEF Fetching
      <4> QED BY <1>1, <3>4, <4>1, <4>2, GotTyped
    <3> QED BY <1>1, <1>3, <1>4, <3>1, <3>2, <3>3, <3>4
  <2>5. \A v \in Users : Got(v)' = Got(v)
    <3>1. ASSUME NEW v \in Users, v # u PROVE Got(v)' = Got(v)
      <4>1. v \notin Calling /\ v \notin Calling' /\ got'[v] = got[v]
        BY <1>1, <1>6, <2>1, <3>1
      <4>2. ~Fetching(v) /\ ~Fetching(v)'
        BY <4>1 DEF Fetching
      <4> QED BY <4>1, <4>2, GotTyped
    <3> QED BY <2>4, <3>1
  <2> QED BY <1>1, <2>2, <2>5, Quiet
<1> QED BY <1>7, <1>8

(* What leaving changes of what is promised.                                *)
LEMMA MapLeave ==
  ASSUME RefInv, RefInv', NEW u \in Calling, Leave(u),
         \A v \in Users : v # u => got'[v] = got[v]
  PROVE  /\ UNCHANGED <<mode, gone, reg>> /\ call' = [call EXCEPT ![u] = NoCall]
         /\ spoilt' = spoilt \ {u} /\ Acted' = Acted \ {u} /\ Got(u)' = got'[u]
         /\ \A v \in Users : v # u => Got(v)' = Got(v)
<1>1. /\ call' = [call EXCEPT ![u] = NoCall] /\ todo' = [todo EXCEPT ![u] = <<>>]
      /\ spoilt' = spoilt \ {u} /\ UNCHANGED <<mode, gone, reg, ctl, base, box>>
  BY DEF Leave, windows
<1>2. /\ call \in [Users -> XCalls \cup {NoCall}] /\ todo \in [Users -> Seq(Ops)]
  BY DEF RefInv, WinInv, Shapes
<1>3. /\ Calling' = Calling \ {u} /\ u \in Users
      /\ \A v \in Users : v # u => call'[v] = call[v] /\ todo'[v] = todo[v]
  BY <1>1, <1>2 DEF Calling
<1>4. \A v \in Users : v # u => (TookEffect(v)' <=> TookEffect(v))
  <2>1. \A v \in Users : v # u => ToGo(v)' = ToGo(v)
    BY <1>1, <1>3, SameProgram DEF ToGo
  <2> QED BY <1>1, <1>3, <2>1, SameProgram DEF TookEffect, Complete
<1>5. Acted' = Acted \ {u}
  <2>1. \A v \in Users : v \in Acted' <=> v \in Acted \ {u}
    BY <1>1, <1>3, <1>4, ActedMembers
  <2> QED BY <2>1, ActedMembers
<1>6. \A v \in Users : v # u => (Fetching(v)' <=> Fetching(v))
  BY <1>1, <1>3 DEF Fetching, Complete
<1>7. ~Fetching(u)'
  BY <1>3 DEF Fetching
<1> QED BY <1>1, <1>3, <1>5, <1>6, <1>7, GotTyped

(* A call that met another is answered in any way.                          *)
LEMMA SpoiltAnswer ==
  ASSUME RefInv, RefInv', NEW u \in Calling, u \in spoilt, Leave(u),
         \A v \in Users : v # u => got'[v] = got[v], left' \in {left, Wild}
  PROVE  Promise!Answer(u)
<1>1. /\ UNCHANGED <<mode, gone, reg>> /\ call' = [call EXCEPT ![u] = NoCall]
      /\ spoilt' = spoilt \ {u} /\ Acted' = Acted \ {u}
      /\ \A v \in Users : v # u => Got(v)' = Got(v)
  BY MapLeave
<1>2. u \in Promise!UnderWay /\ u \in Users
  BY DEF Promise!UnderWay, Calling
<1>3. Promise!Finish(u)
  BY <1>1 DEF Promise!Finish
<1>4. \E w \in Words : [v \in Users |-> Got(v)]' = [[v \in Users |-> Got(v)] EXCEPT ![u] = w]
  <2>1. PICK w \in Words : w = Got(u)'
    BY <1>2, GotTyped
  <2>2. [v \in Users |-> Got(v)]' = [[v \in Users |-> Got(v)] EXCEPT ![u] = w]
    BY <1>1, <1>2, <2>1
  <2> QED BY <2>2
<1> QED BY <1>2, <1>3, <1>4 DEF Promise!Answer

LEMMA MapReturn ==
  ASSUME RefInv, RefInv', NEW u \in Users, Return(u)
  PROVE  Promise!RNext
<1>1. u \in Calling /\ todo[u] = <<>> /\ Leave(u) /\ UNCHANGED <<got, left>>
  BY DEF Return, Calling
<1>2. CASE u \in spoilt
  <2>1. Promise!Answer(u)
    BY <1>1, <1>2, SpoiltAnswer
  <2> QED BY <2>1 DEF Promise!RNext
<1>3. CASE u \notin spoilt
  <2>1. /\ UNCHANGED <<mode, gone, reg>> /\ call' = [call EXCEPT ![u] = NoCall]
        /\ spoilt' = spoilt \ {u} /\ Acted' = Acted \ {u} /\ Got(u)' = got'[u]
        /\ \A v \in Users : v # u => Got(v)' = Got(v)
    BY <1>1, MapLeave
  <2>2. Len(todo[u]) = 0 /\ ~Refused(call[u])
    BY <1>1 DEF RefInv, Planned
  <2>3. ToGo(u) < UseAt(call[u])
    BY <1>1, <2>2, CallerFacts
  <2>4. mode = "mailbox" => box.command = Complete
    <3>1. mode = "mailbox" => MailReady(call[u], 0)
      <4>1. mode = "mailbox" => ToGo(u) = 0 /\ Mailed(call[u])
        BY <1>1, <2>2, CallerFacts
      <4> QED BY <1>1, <1>3, <4>1 DEF RefInv, Prepared, ReadyAt
    <3> QED BY <3>1 DEF MailReady, IssueAt
  <2>5. u \in Acted
    BY <1>1, <1>3, <2>2, <2>3, <2>4, ActedMembers DEF TookEffect
  <2>6. ~Fetching(u)
    BY <2>2 DEF Fetching
  <2>7. \A v \in Users : Got(v)' = Got(v)
    BY <1>1, <2>1, <2>6, GotTyped
  <2>8. [v \in Users |-> Got(v)]' = [v \in Users |-> Got(v)]
    BY <2>7
  <2>9. Promise!Finish(u) /\ u \in Promise!UnderWay
    BY <1>1, <2>1 DEF Promise!Finish, Promise!UnderWay, Calling
  <2>10. Promise!Answer(u)
    BY <1>1, <1>3, <2>5, <2>8, <2>9 DEF Promise!Answer
  <2> QED BY <2>10 DEF Promise!RNext
<1> QED BY <1>2, <1>3

LEMMA MapTimeOut ==
  ASSUME RefInv, RefInv', NEW u \in Users, TimeOut(u)
  PROVE  Promise!RNext
<1>1. /\ Leave(u)
      /\ got' = IF call[u].op = "write" THEN got ELSE [got EXCEPT ![u] = Data(0)]
  BY DEF TimeOut
<1>2. /\ u \in Calling /\ todo[u] # <<>> /\ call[u] \in XCalls
      /\ Head(todo[u]).kind = "refuse" => Refused(call[u]) /\ left' = left
      /\ Head(todo[u]).kind = "await" =>
           /\ mode = "mailbox" /\ (gone \/ box.command # Complete)
           /\ Len(todo[u]) \in {5, IssueAt(call[u]) - 1}
           /\ Len(todo[u]) = 5 \/ gone => left' = left
           /\ Len(todo[u]) # 5 /\ ~gone =>
                left' = IF u \in spoilt THEN Wild ELSE call[u]
      /\ Head(todo[u]).kind \in {"refuse", "await"}
  BY GivenUp
<1>3. /\ got \in [Users -> Words]
      /\ \A v \in Users : v # u => got'[v] = got[v]
  BY <1>1 DEF RefInv, XTypeInv
<1>4. CASE u \in spoilt
  <2>1. left' \in {left, Wild}
    BY <1>2, <1>4
  <2>2. Promise!Answer(u)
    BY <1>1, <1>2, <1>3, <1>4, <2>1, SpoiltAnswer
  <2> QED BY <2>2 DEF Promise!RNext
<1>5. CASE u \notin spoilt
  <2>1. /\ UNCHANGED <<mode, gone, reg>> /\ call' = [call EXCEPT ![u] = NoCall]
        /\ spoilt' = spoilt \ {u} /\ Acted' = Acted \ {u} /\ Got(u)' = got'[u]
        /\ \A v \in Users : v # u => Got(v)' = Got(v)
    BY <1>1, <1>2, <1>3, MapLeave
  <2>2. ~gone /\ call[u].chip \in Chips
    BY <1>2, <1>5, CallValues DEF RefInv, GoneSpoils
  <2>3. Refused(call[u]) \/ (mode = "mailbox" /\ box.command # Complete)
    BY <1>2, <2>2
  <2>4. u \notin Acted
    BY <2>3, ActedMembers DEF TookEffect
  <2>5. ~Fetching(u)
    <3>1. CASE mode # "mailbox"
      BY <3>1 DEF Fetching
    <3>2. CASE mode = "mailbox"
      <4>1. ~Refused(call[u])
        BY <3>2 DEF Refused
      <4>2. /\ Len(todo[u]) \in {5, IssueAt(call[u]) - 1} /\ box.command # Complete
        BY <1>2, <2>2, <4>1
      <4> QED BY <4>2 DEF Fetching, IssueAt
    <3> QED BY <3>1, <3>2
  <2>6. Got(u) = got[u] /\ u \in Users
    BY <2>5, GotTyped
  <2>7. [v \in Users |-> Got(v)]' =
          IF call[u].op = "write" THEN [v \in Users |-> Got(v)]
          ELSE [[v \in Users |-> Got(v)] EXCEPT ![u] = Data(0)]
    <3>1. CASE call[u].op = "write"
      <4>1. \A v \in Users : Got(v)' = Got(v)
        BY <1>1, <2>1, <2>6, <3>1
      <4> QED BY <3>1, <4>1
    <3>2. CASE call[u].op # "write"
      <4>1. Got(u)' = Data(0)
        BY <1>1, <1>3, <2>1, <3>2
      <4> QED BY <2>1, <3>2, <4>1
    <3> QED BY <3>1, <3>2
  <2>8. Promise!Finish(u) /\ u \in Promise!UnderWay
    BY <1>2, <2>1 DEF Promise!Finish, Promise!UnderWay, Calling
  <2>9. left' \in {left, call[u]}
    BY <1>2, <1>5, <2>2
  <2>10. call[u].chip \in (IF mode = "mailbox" THEN Chips
                           ELSE IF mode = "short" THEN {c \in Chips : c >= Reach} ELSE {})
    BY <2>2, <2>3 DEF Refused
  <2>11. Promise!GiveUp(u)
    BY <1>5, <2>4, <2>7, <2>8, <2>9, <2>10 DEF Promise!GiveUp
  <2> QED BY <2>11 DEF Promise!RNext
<1> QED BY <1>4, <1>5

LEMMA MapBegin ==
  ASSUME RefInv, RefInv', NEW u \in Users, NEW k \in XCalls, Begin(u, k)
  PROVE  Promise!RNext
<1> DEFINE met == {v \in Calling : Meet(call[v], k)}
           clash == {v \in Promise!UnderWay : Promise!Clashes(call[v], k)}
<1>1. /\ call[u] = NoCall /\ ~gone /\ (k \in Doorbells => mode # "fourBar")
      /\ call' = [call EXCEPT ![u] = k] /\ todo' = [todo EXCEPT ![u] = Program(k)]
      /\ spoilt' = spoilt \cup met \cup (IF met # {} THEN {u} ELSE {})
      /\ UNCHANGED <<mode, gone, reg, box, got, left>>
  BY DEF Begin
<1>2. /\ call \in [Users -> XCalls \cup {NoCall}] /\ todo \in [Users -> Seq(Ops)]
  BY DEF RefInv, WinInv, Shapes
<1>3. k # NoCall /\ (k.name = "irq" <=> Mpu(k.name)) /\ (k.name = "irq" <=> k \in Doorbells)
  BY CallValues
<1>4. /\ Calling' = Calling \cup {u} /\ u \notin Calling
      /\ call'[u] = k /\ todo'[u] = Program(k)
      /\ \A v \in Users : v # u => call'[v] = call[v] /\ todo'[v] = todo[v]
  BY <1>1, <1>2, <1>3 DEF Calling
<1>5. Len(Program(k)) + Skips(k) = Longest(k)
  BY <1>1, <1>3, ProgramRest
<1>6. clash = met
  <2>1. mode \in {"direct", "short", "fourBar", "mailbox"}
    BY ModeCases DEF RefInv, XTypeInv
  <2>2. \A v : Promise!Clashes(call[v], k) <=> Meet(call[v], k)
    BY <2>1 DEF Promise!Clashes, Meet
  <2> QED BY <2>2 DEF Promise!UnderWay, Calling
<1>7. \A v \in Users : v # u => (TookEffect(v)' <=> TookEffect(v))
  <2>1. \A v \in Users : v # u => ToGo(v)' = ToGo(v)
    BY <1>1, <1>4, SameProgram DEF ToGo
  <2> QED BY <1>1, <1>4, <2>1, SameProgram DEF TookEffect, Complete
<1>8. ~TookEffect(u)'
  <2>1. ToGo(u)' = Longest(k)
    BY <1>1, <1>4, <1>5, SameProgram DEF ToGo
  <2>2. Refused(k) \/ ~(Longest(k) < UseAt(k))
    BY DEF Longest, UseAt, IssueAt, Direct, Distant, Mailed
  <2> QED BY <1>1, <1>4, <2>1, <2>2, SameProgram DEF TookEffect
<1>9. Acted' = Acted \ spoilt'
  <2>1. \A v \in Users : v \in Acted' <=> v \in Acted \ spoilt'
    <3>1. spoilt \subseteq spoilt'
      BY <1>1
    <3> QED BY <1>4, <1>7, <1>8, <3>1, ActedMembers
  <2> QED BY <2>1, ActedMembers
<1>10. \A v \in Users : Got(v)' = Got(v)
  <2>1. \A v \in Users : v # u => (Fetching(v)' <=> Fetching(v))
    BY <1>1, <1>4 DEF Fetching, Complete
  <2>2. ~Fetching(u)
    BY <1>4 DEF Fetching
  <2>3. ~Fetching(u)'
    <3>1. mode = "mailbox" => Len(todo[u])' = 5
      <4>1. mode = "mailbox" => Longest(k) = 5 /\ Skips(k) = 0
        BY DEF Longest, Skips, Direct, Distant, Mailed, Refused
      <4>2. Program(k) \in Seq(Ops)
        BY <1>4 DEF RefInv, WinInv, Shapes
      <4> QED BY <1>4, <1>5, <4>1, <4>2
    <3> QED BY <1>1, <3>1 DEF Fetching
  <2> QED BY <1>1, <2>1, <2>2, <2>3, GotTyped
<1>11. [v \in Users |-> Got(v)]' = [v \in Users |-> Got(v)]
  BY <1>10
<1>12. spoilt' = spoilt \cup clash \cup (IF clash # {} THEN {u} ELSE {})
  BY <1>1, <1>6
<1>13. Promise!Ask(u)
  BY <1>1, <1>9, <1>11, <1>12 DEF Promise!Ask
<1> QED BY <1>13 DEF Promise!RNext

(* The firmware carries out a command: of a call under way, of one given up *)
(* on, or of calls that met.                                                *)
LEMMA MapExecute ==
  ASSUME RefInv, RefInv', Execute
  PROVE  Promise!RNext
<1>1. /\ box.command # Complete /\ ~gone /\ left' = NoCall
      /\ UNCHANGED <<mode, gone, call, todo, got, spoilt>>
  BY DEF Execute
<1>2. mode = "mailbox"
  BY <1>1 DEF RefInv, CommandOwned
<1>3. ASSUME NEW k, box.command = k, k \in XCalls, Worded(k)
      PROVE  /\ reg' = Promise!Apply(k)
             /\ box'.data = IF k.op = "write" THEN box.data ELSE reg[k.chip][k.name]
             /\ box'.command = Complete
  <2>1. box.address[1] = k.name /\ k.name \in Registers /\ (k.op = "write" => box.data = k.value)
    BY <1>3, CallValues DEF Worded
  <2>2. (Mpu(box.address[1]) = Mpu(k.name)) = TRUE
    BY <2>1 DEF Mpu
  <2>3. /\ reg' = IF k.op = "write" THEN [reg EXCEPT ![k.chip][k.name] = k.value] ELSE reg
        /\ box' = [box EXCEPT !.command = Complete,
                              !.data = IF k.op = "write" THEN @ ELSE reg[k.chip][k.name]]
    BY <1>3, <2>1, <2>2 DEF Execute
  <2> QED BY <2>3 DEF Promise!Apply, RefInv, XTypeInv
<1>4. box'.command = Complete
  BY DEF Execute, RefInv, XTypeInv
<1>5. Acted = {}
  <2>1. \A v : ~TookEffect(v)
    BY <1>1, <1>2 DEF TookEffect
  <2> QED BY <2>1, ActedMembers
<1>6. Calling' = Calling /\ \A v \in Users : ToGo(v)' = ToGo(v)
  BY <1>1, SameProgram DEF Calling, ToGo
<1>7. CASE spoilt # {}
  <2>1. PICK u \in Calling : u \in spoilt
    BY <1>7 DEF RefInv, XTypeInv
  <2>2. Promise!Stray
    BY <1>1, <1>2, <2>1, SpoiltMail
  <2> QED BY <2>2 DEF Promise!RNext
<1>8. CASE spoilt = {} /\ left # NoCall
  <2>1. \A v \in Calling : Len(todo[v]) = 5
    BY <1>8 DEF RefInv, LeftBehind
  <2>2. Acted' = {}
    <3>1. ASSUME NEW v \in Calling PROVE ~TookEffect(v)'
      <4>1. ToGo(v) = 5 /\ v \in Users /\ Mailed(call[v])
        BY <1>2, <2>1, CallerFacts
      <4>2. UseAt(call[v]) \in {2, 3}
        BY <4>1 DEF UseAt, IssueAt, Mailed, Direct, Distant
      <4>3. ToGo(v)' = 5 /\ UseAt(call[v])' = UseAt(call[v])
        BY <1>1, <1>6, <4>1, SameProgram
      <4> QED BY <4>2, <4>3 DEF TookEffect
    <3> QED BY <1>6, <3>1, ActedMembers
  <2>3. \A v \in Users : Got(v)' = Got(v)
    <3>1. \A v \in Users : ~Fetching(v) /\ ~Fetching(v)'
      BY <1>1, <1>6, <2>1 DEF Fetching
    <3> QED BY <1>1, <3>1, GotTyped
  <2>4. [v \in Users |-> Got(v)]' = [v \in Users |-> Got(v)]
    BY <2>3
  <2>5. left # Wild => reg' = Promise!Apply(left)
    <3>1. left # Wild => box.command = left /\ Worded(left) /\ left \in XCalls
      BY <1>8 DEF RefInv, LeftBehind, XTypeInv
    <3> QED BY <1>3, <3>1
  <2>6. reg' \in [Chips -> [Registers -> Words]]
    BY GotTyped
  <2>7. Promise!LateAct
    BY <1>1, <1>5, <1>8, <2>2, <2>4, <2>5, <2>6 DEF Promise!LateAct
  <2> QED BY <2>7 DEF Promise!RNext
<1>9. CASE spoilt = {} /\ left = NoCall
  <2>1. PICK u \in Calling : Sent(u)
    BY <1>1, <1>9 DEF RefInv, CommandOwned
  <2>2. PICK k, n : k = call[u] /\ n = Len(todo[u])
    OBVIOUS
  <2>3. /\ Calling = {u} /\ u \in Users /\ k \in XCalls /\ n = ToGo(u) /\ Mailed(k)
        /\ ~Refused(k) /\ k.op \in {"write", "read"}
    BY <1>2, <1>9, <2>1, <2>2, MailCallers, CallerFacts, CallValues DEF Mailed
  <2>4. MailReady(k, n) /\ n = IssueAt(k) - 1 /\ n = (IF k.op = "write" THEN 1 ELSE 2)
    BY <1>9, <2>1, <2>2, <2>3 DEF RefInv, Prepared, ReadyAt, Sent, IssueAt
  <2>5. box.command = k /\ Worded(k)
    BY <1>1, <2>4 DEF MailReady
  <2>6. reg' = Promise!Apply(k)
    BY <1>3, <2>3, <2>5
  <2>7. Acted' = {u}
    <3>1. TookEffect(u)'
      <4>1. UseAt(k) = IssueAt(k)
        BY <2>3 DEF UseAt, Mailed, Direct, Distant
      <4>2. n < UseAt(k)
        BY <2>3, <2>4, <4>1 DEF IssueAt
      <4>3. ToGo(u)' = n /\ call'[u] = k
        BY <1>1, <1>6, <2>2, <2>3
      <4> QED BY <1>1, <1>4, <2>3, <4>2, <4>3, SameProgram DEF TookEffect, Complete
    <3>2. \A v : v \in Acted' <=> v = u
      BY <1>1, <1>6, <1>9, <2>3, <3>1, ActedMembers
    <3> QED BY <3>2
  <2>8. ASSUME NEW v \in Users, v # u PROVE Got(v)' = Got(v)
    <3>1. v \notin Calling /\ v \notin Calling'
      BY <1>6, <2>3, <2>8
    <3>2. ~Fetching(v) /\ ~Fetching(v)'
      BY <3>1 DEF Fetching
    <3> QED BY <1>1, <3>2, GotTyped
  <2>9. k.op = "write" => Got(u)' = Got(u)
    <3>1. k.op = "write" => ~Fetching(u) /\ ~Fetching(u)'
      BY <1>1, <2>2 DEF Fetching
    <3> QED BY <1>1, <2>3, <3>1, GotTyped
  <2>10. k.op = "read" => Got(u)' = reg[k.chip][k.name]
    <3>1. k.op = "read" => Fetching(u)'
      BY <1>1, <1>2, <1>4, <1>6, <2>1, <2>2, <2>4 DEF Fetching, Complete
    <3> QED BY <1>3, <2>3, <2>5, <3>1, GotTyped
  <2>11. [v \in Users |-> Got(v)]' =
           IF call[u].op = "write" THEN [v \in Users |-> Got(v)]
           ELSE [[v \in Users |-> Got(v)] EXCEPT ![u] = reg[call[u].chip][call[u].name]]
    BY <2>2, <2>3, <2>8, <2>9, <2>10
  <2>12. u \in Promise!UnderWay \ (spoilt \cup Acted) /\ Acted' = Acted \cup {u}
    BY <1>5, <1>9, <2>1, <2>7 DEF Promise!UnderWay, Calling
  <2>13. Promise!Act(u)
    BY <1>1, <1>9, <2>2, <2>6, <2>11, <2>12 DEF Promise!Act
  <2> QED BY <2>3, <2>13 DEF Promise!RNext
<1> QED BY <1>7, <1>8, <1>9

LEMMA MapUnplug ==
  ASSUME RefInv, RefInv', Unplug
  PROVE  Promise!RNext
<1>1. /\ ~gone /\ gone' = TRUE /\ spoilt' = Calling
      /\ UNCHANGED <<mode, reg, box, call, todo, got, left>>
  BY DEF Unplug
<1>2. Calling' = Calling
  BY <1>1 DEF Calling
<1>3. Acted' = {}
  BY <1>1, <1>2, ActedMembers
<1>4. \A v \in Users : Got(v)' = Got(v)
  <2>1. \A v \in Users : Fetching(v)' <=> Fetching(v)
    BY <1>1, <1>2 DEF Fetching, Complete
  <2> QED BY <1>1, <2>1, GotTyped
<1>5. [v \in Users |-> Got(v)]' = [v \in Users |-> Got(v)]
  BY <1>4
<1>6. spoilt' = spoilt \cup Promise!UnderWay
  BY <1>1 DEF RefInv, XTypeInv, Promise!UnderWay, Calling
<1>7. Promise!Leaves
  BY <1>1, <1>3, <1>5, <1>6 DEF Promise!Leaves
<1> QED BY <1>7 DEF Promise!RNext

LEMMA MapStutter ==
  ASSUME RefInv, RefInv', UNCHANGED refVars
  PROVE  UNCHANGED Promise!rvars
<1>1. UNCHANGED <<mode, gone, reg, ctl, base, box, call, todo, got, spoilt, left>>
  BY DEF refVars
<1>2. Calling' = Calling /\ \A v \in Users : ToGo(v)' = ToGo(v)
  BY <1>1, SameProgram DEF Calling, ToGo
<1>3. Acted' = Acted
  <2>1. \A v \in Users : TookEffect(v)' <=> TookEffect(v)
    BY <1>1, <1>2, SameProgram DEF TookEffect, Complete
  <2>2. \A v \in Users : v \in Acted' <=> v \in Acted
    BY <1>1, <1>2, <2>1, ActedMembers
  <2> QED BY <2>2, ActedMembers
<1>4. \A v \in Users : Got(v)' = Got(v)
  <2>1. \A v \in Users : Fetching(v)' <=> Fetching(v)
    BY <1>1, <1>2 DEF Fetching, Complete
  <2> QED BY <1>1, <2>1, GotTyped
<1> QED BY <1>1, <1>3, <1>4, Quiet

LEMMA MapInit == XInit => Promise!RInit
<1> SUFFICES ASSUME XInit PROVE Promise!RInit
  OBVIOUS
<1>1. RefInv
  BY RefInit
<1>2. Acted = {}
  BY DEF XInit, Acted, Calling
<1>3. \A v \in Users : Got(v) = Data(0)
  BY DEF XInit, Got, Ready
<1>4. [v \in Users |-> Got(v)] = [v \in Users |-> Data(0)]
  BY <1>3
<1>5. reg \in [Chips -> [Registers -> Words]]
  BY <1>1 DEF RefInv, XTypeInv
<1>6. (IF mode = "mailbox" THEN Chips
       ELSE IF mode = "short" THEN {c \in Chips : c >= Reach} ELSE {}) \subseteq Chips
  OBVIOUS
<1>7. /\ gone = FALSE /\ call = [v \in Users |-> NoCall] /\ spoilt = {} /\ left = NoCall
  BY DEF XInit
<1> QED BY <1>2, <1>4, <1>5, <1>6, <1>7 DEF Promise!RInit

LEMMA MapStep ==
  RefInv /\ RefInv' /\ [XNext]_xvars => [Promise!RNext]_(Promise!rvars)
<1> SUFFICES ASSUME RefInv, RefInv', [XNext]_xvars
             PROVE  Promise!RNext \/ UNCHANGED Promise!rvars
  OBVIOUS
<1>1. ASSUME NEW u \in Users, Access(u) PROVE Promise!RNext \/ UNCHANGED Promise!rvars
  <2>1. CASE Write(u)
    BY <2>1, MapWrite
  <2>2. CASE Read(u)
    BY <2>2, MapRead
  <2>3. CASE Post(u)
    BY <2>3, MapPost
  <2>4. CASE Completed(u) \/ Fetch(u)
    BY <2>4, MapAnswered
  <2>5. CASE Return(u)
    BY <2>5, MapReturn
  <2>6. CASE TimeOut(u)
    BY <2>6, MapTimeOut
  <2> QED BY <1>1, <2>1, <2>2, <2>3, <2>4, <2>5, <2>6 DEF Access
<1>2. ASSUME NEW u \in Users, NEW k \in XCalls, Begin(u, k) PROVE Promise!RNext
  BY <1>2, MapBegin
<1>3. CASE Execute
  BY <1>3, MapExecute
<1>4. CASE Unplug
  BY <1>4, MapUnplug
<1>5. CASE UNCHANGED xvars
  BY <1>5, MapStutter DEF xvars, windows, refVars
<1> QED BY <1>1, <1>2, <1>3, <1>4, <1>5 DEF XNext

(* A call that meets no other in its window reads and writes exactly the    *)
(* register it names, at one moment, in every layout of the BARs and for    *)
(* any number of users and chips (memx_xflow.c:167-253): the accessors      *)
(* implement MxRegisters.                                                   *)
THEOREM RegistersCorrect == XSpec => RegistersRefined
<1>1. XInit => RefInv
  BY RefInit
<1>2. RefInv /\ [XNext]_xvars => RefInv'
  BY RefStep
<1>3. XInit => Promise!RInit
  BY MapInit
<1>4. RefInv /\ RefInv' /\ [XNext]_xvars => [Promise!RNext]_(Promise!rvars)
  BY MapStep
<1> QED BY <1>1, <1>2, <1>3, <1>4, PTL DEF XSpec, RegistersRefined, Promise!RSpec

LEMMA HandlerKeeps ==
  ASSUME NEW u \in Users, Handler(u)
  PROVE  UNCHANGED refVars
BY DEF Handler, WriteCmd, WriteThermal, WriteFwlog, ReadUpdateFlash, WriteGpio, ReadGpio,
       SlotWrite, StrayWrite, PointerWrite, SetFlag, LogStep, FlashStep, FlashPoll, FlashTimeOut, FlashReport, GpioStep,
       Start, xvars, refVars, windows

LEMMA BesideFiles == [DNext]_vars => XNext \/ UNCHANGED refVars
<1> SUFFICES ASSUME [DNext]_vars PROVE XNext \/ UNCHANGED refVars
  OBVIOUS
<1>1. CASE \E u \in Users : Handler(u)
  BY <1>1, HandlerKeeps
<1>2. CASE (\E c \in Chips : FwTake(c)) \/ FwFlash
  BY <1>2 DEF FwTake, FwFlash, xvars, refVars, windows
<1>3. CASE RegisterCalls
  BY <1>3 DEF RegisterCalls, XNext
<1>4. CASE UNCHANGED vars
  BY <1>4 DEF vars, xvars, refVars, windows
<1> QED BY <1>1, <1>2, <1>3, <1>4 DEF DNext

(* The same beside the files of /proc and /sys, whose handlers take no part *)
(* in it but to connect the log (memx_fs_proc.c, memx_fw_log.c).            *)
THEOREM RegistersBesideFiles == DSpec => RegistersRefined
<1>1. DInit => RefInv /\ Promise!RInit
  BY RefInit, MapInit DEF DInit
<1>2. RefInv /\ [DNext]_vars => RefInv'
  BY BesideFiles, RefStep, RefStutter
<1>3. RefInv /\ RefInv' /\ [DNext]_vars => [Promise!RNext]_(Promise!rvars)
  <2>1. RefInv /\ RefInv' /\ UNCHANGED refVars => UNCHANGED Promise!rvars
    BY MapStutter
  <2> QED BY <2>1, BesideFiles, MapStep
<1> QED BY <1>1, <1>2, <1>3, PTL DEF DSpec, RegistersRefined, Promise!RSpec
=============================================================================
