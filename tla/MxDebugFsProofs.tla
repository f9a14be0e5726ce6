--------------------------- MODULE MxDebugFsProofs ---------------------------
(* The files of /proc and /sys, for any number of processes, jobs and chips *)
(* and a log of any size: types, commands, the log, the flash, the thermal  *)
(* file and the pins.                                                       *)
EXTENDS MxXflowProofs

StepKinds == Fields \cup {"flag", "wp", "rp", "print", "advance", "image", "clear", "order",
                          "poll", "report", "pin", "ask", "fetch", "label", "stray", "pointer"}
Steps == [kind : StepKinds, chip : Chips]

(* What a job has left.  Follows has the steps that have one successor, for *)
(* the same chip; a job can end in Finals, or with a command.               *)
Follows == [wp |-> "rp", rp |-> "print", print |-> "advance",
            image |-> "clear", clear |-> "order", order |-> "poll", poll |-> "report",
            pin |-> "ask", ask |-> "fetch", fetch |-> "label"]
Finals == {"flag", "advance", "report", "label", "stray", "pointer"}

Follow(a, b) ==
  /\ a.kind \notin Finals
  /\ a.kind \in DOMAIN Follows => b.kind = Follows[a.kind] /\ b.chip = a.chip
  /\ a.kind \in {"param", "param2"} => b.kind \in Fields /\ b.chip = a.chip
  /\ a.kind = "command" => b.kind \in Fields \cup {"flag", "image"}

(* A chip gets no more words once it has its command.                       *)
Chained(s) ==
  /\ s \in Seq(Steps)
  /\ \A i \in DOMAIN s : i + 1 \in DOMAIN s => Follow(s[i], s[i + 1])
  /\ s # <<>> => s[Len(s)].kind \in Finals \cup {"command"}
  /\ \A i, j \in DOMAIN s :
       (i < j /\ s[i].kind = "command" /\ s[j].kind \in Fields) => s[j].chip # s[i].chip

KindsOf(kind) ==
  CASE kind \in {"read", "write", "memx", "rmtcmd"} -> Fields
    [] kind = "stray" -> {"stray"}
    [] kind = "pointer" -> {"pointer"}
    [] kind = "thermal" -> Fields \cup {"flag"}
    [] kind = "fwlog" -> {"wp", "rp", "print", "advance"}
    [] kind = "update" -> Fields \cup {"image", "clear", "order", "poll", "report"}
    [] kind = "show" -> {"pin", "ask", "fetch", "label"}
    [] OTHER -> {}

WorkOK(s, kind) ==
  /\ Chained(s)
  /\ \A i \in DOMAIN s : s[i].kind \in KindsOf(kind)
  /\ kind = "thermal" => s # <<>> /\ s[Len(s)].kind = "flag"

JobInv ==
  /\ job \in [Users -> Job] /\ work \in [Users -> Seq(Steps)]
  /\ cast \in Casts /\ jobs \in 0 .. MaxJobs
  /\ \A u \in Users :
       /\ WorkOK(work[u], job[u].kind)
       /\ job[u] = NoJob <=> work[u] = <<>>
       /\ job[u] # NoJob => job[u].id \in 1 .. jobs /\ job[u].kind # "none"
  /\ \A u, v \in Users : u # v /\ job[u] # NoJob => job[u].id # job[v].id

FileTypes ==
  /\ slot \in [Chips -> [Fields -> Job]]
  /\ throttle \in [Chips -> 0 .. 1] /\ disabled \in 0 .. 1 /\ remote \subseteq Chips
  /\ log \in [Chips -> Log] /\ muddled \subseteq Chips
  /\ sram \in [image : Ids, outcome : 0 .. 2, order : BOOLEAN] /\ flash \in Ids
  /\ gpio \in Pins /\ moved \subseteq Users /\ failed \subseteq Users
  /\ pending \in [Chips -> SUBSET Ids] /\ crossed \subseteq Ids
  /\ seen \in [Users -> Nat \X Nat]
  /\ \A u \in Users : At(u, {"rp", "print", "advance"}) => seen[u][1] \in 0 .. LogSize - 1

-----------------------------------------------------------------------------
(* The programs of the jobs.                                                *)
LEMMA StepType ==
  ASSUME NEW kind \in StepKinds, NEW c \in Chips
  PROVE  /\ Step(kind, c) \in Steps
         /\ Step(kind, c).kind = kind /\ Step(kind, c).chip = c
BY DEF Step, Steps

LEMMA TailFacts ==
  ASSUME NEW s \in Seq(Steps), s # <<>>
  PROVE  /\ Head(s) = s[1] /\ Head(s) \in Steps /\ 1 \in DOMAIN s
         /\ Tail(s) \in Seq(Steps) /\ Len(Tail(s)) = Len(s) - 1
         /\ \A i \in DOMAIN Tail(s) : i + 1 \in DOMAIN s /\ Tail(s)[i] = s[i + 1]
         /\ \A i \in DOMAIN s : i # 1 => i - 1 \in DOMAIN Tail(s) /\ Tail(s)[i - 1] = s[i]
         /\ Tail(s) # <<>> =>
              Tail(s)[Len(Tail(s))] = s[Len(s)] /\ Head(Tail(s)) = s[2] /\ 2 \in DOMAIN s
OBVIOUS

LEMMA TailChained ==
  ASSUME NEW s, Chained(s), s # <<>>
  PROVE  Chained(Tail(s))
<1>1. s \in Seq(Steps)
  BY DEF Chained
<1>2. /\ Tail(s) \in Seq(Steps)
      /\ \A i \in DOMAIN Tail(s) : i + 1 \in DOMAIN s /\ Tail(s)[i] = s[i + 1]
      /\ Tail(s) # <<>> => Tail(s)[Len(Tail(s))] = s[Len(s)]
  BY <1>1, TailFacts
<1>3. \A i \in DOMAIN Tail(s) : i \in Nat
  BY <1>2
<1>4. \A i \in DOMAIN Tail(s) : i + 1 \in DOMAIN Tail(s) => Follow(Tail(s)[i], Tail(s)[i + 1])
  BY <1>2 DEF Chained
<1>5. \A i, j \in DOMAIN Tail(s) :
        (i < j /\ Tail(s)[i].kind = "command" /\ Tail(s)[j].kind \in Fields)
          => Tail(s)[j].chip # Tail(s)[i].chip
  <2> SUFFICES ASSUME NEW i \in DOMAIN Tail(s), NEW j \in DOMAIN Tail(s), i < j,
                      Tail(s)[i].kind = "command", Tail(s)[j].kind \in Fields
               PROVE  Tail(s)[j].chip # Tail(s)[i].chip
    OBVIOUS
  <2>1. i + 1 \in DOMAIN s /\ j + 1 \in DOMAIN s /\ i + 1 < j + 1
    BY <1>2, <1>3
  <2> QED BY <1>2, <2>1 DEF Chained
<1> QED BY <1>2, <1>4, <1>5 DEF Chained

LEMMA TailWork ==
  ASSUME NEW s, NEW kind, WorkOK(s, kind), s # <<>>, Tail(s) # <<>>
  PROVE  WorkOK(Tail(s), kind)
<1>1. s \in Seq(Steps) /\ Chained(Tail(s))
  BY TailChained DEF WorkOK, Chained
<1>2. /\ \A i \in DOMAIN Tail(s) : i + 1 \in DOMAIN s /\ Tail(s)[i] = s[i + 1]
      /\ Tail(s)[Len(Tail(s))] = s[Len(s)]
  BY <1>1, TailFacts
<1> QED BY <1>1, <1>2 DEF WorkOK

LEMMA NoWork == WorkOK(<<>>, "none")
BY DEF WorkOK, Chained

LEMMA SameSeq ==
  ASSUME NEW S, NEW s \in Seq(S), NEW t \in Seq(S), Len(s) = Len(t),
         \A i \in 1 .. Len(s) : s[i] = t[i]
  PROVE  s = t
OBVIOUS

(* What \o gives, stated for all indices at once.                           *)
LEMMA JoinFacts ==
  ASSUME NEW s \in Seq(Steps), NEW t \in Seq(Steps)
  PROVE  /\ s \o t \in Seq(Steps) /\ Len(s \o t) = Len(s) + Len(t)
         /\ \A i \in 1 .. Len(s) : (s \o t)[i] = s[i]
         /\ \A i \in 1 .. Len(t) : (s \o t)[Len(s) + i] = t[i]
OBVIOUS

LEMMA Joined ==
  ASSUME NEW p \in Steps, NEW q \in Steps, NEW d \in Steps
  PROVE  /\ (<<>> \o <<>>) \o <<d>> = <<d>> /\ (<<p>> \o <<>>) \o <<d>> = <<p, d>>
         /\ (<<p>> \o <<q>>) \o <<d>> = <<p, q, d>>
<1> DEFINE P == <<p>>
           Q == <<q>>
           D == <<d>>
<1>1. P \in Seq(Steps) /\ Len(P) = 1 /\ P[1] = p
  OBVIOUS
<1>2. Q \in Seq(Steps) /\ Len(Q) = 1 /\ Q[1] = q
  OBVIOUS
<1>3. D \in Seq(Steps) /\ Len(D) = 1 /\ D[1] = d
  OBVIOUS
<1>4. /\ <<p, d>> \in Seq(Steps) /\ Len(<<p, d>>) = 2 /\ <<p, d>>[1] = p /\ <<p, d>>[2] = d
      /\ <<p, q, d>> \in Seq(Steps) /\ Len(<<p, q, d>>) = 3 /\ <<p, q, d>>[1] = p
      /\ <<p, q, d>>[2] = q /\ <<p, q, d>>[3] = d
  OBVIOUS
<1> DEFINE PD == <<p, d>>
           PQD == <<p, q, d>>
<1>5. /\ PD \in Seq(Steps) /\ Len(PD) = 2 /\ PD[1] = p /\ PD[2] = d
      /\ PQD \in Seq(Steps) /\ Len(PQD) = 3 /\ PQD[1] = p /\ PQD[2] = q /\ PQD[3] = d
  BY <1>4
<1> HIDE DEF P, Q, D, PD, PQD
<1>6. (<<>> \o <<>>) \o D = D
  BY <1>3
<1>7. (P \o <<>>) \o D = PD
  <2>1. P \o <<>> = P
    BY <1>1
  <2>2. P \o D \in Seq(Steps) /\ Len(P \o D) = 2 /\ (P \o D)[1] = p /\ (P \o D)[2] = d
    <3>1. /\ P \o D \in Seq(Steps) /\ Len(P \o D) = Len(P) + Len(D)
          /\ \A i \in 1 .. Len(P) : (P \o D)[i] = P[i]
          /\ \A i \in 1 .. Len(D) : (P \o D)[Len(P) + i] = D[i]
      BY <1>1, <1>3, JoinFacts
    <3>2. 1 \in 1 .. Len(P) /\ 1 \in 1 .. Len(D)
      BY <1>1, <1>3
    <3>3. (P \o D)[1] = P[1] /\ (P \o D)[Len(P) + 1] = D[1]
      BY <3>1, <3>2
    <3> QED BY <1>1, <1>3, <3>1, <3>3
  <2>3. \A i \in 1 .. 2 : (P \o D)[i] = PD[i]
    BY <1>5, <2>2
  <2> QED BY <1>5, <2>1, <2>2, <2>3, SameSeq
<1>8. (P \o Q) \o D = PQD
  <2>1. P \o Q \in Seq(Steps) /\ Len(P \o Q) = 2 /\ (P \o Q)[1] = p /\ (P \o Q)[2] = q
    <3>1. /\ P \o Q \in Seq(Steps) /\ Len(P \o Q) = Len(P) + Len(Q)
          /\ \A i \in 1 .. Len(P) : (P \o Q)[i] = P[i]
          /\ \A i \in 1 .. Len(Q) : (P \o Q)[Len(P) + i] = Q[i]
      BY <1>1, <1>2, JoinFacts
    <3>2. 1 \in 1 .. Len(P) /\ 1 \in 1 .. Len(Q)
      BY <1>1, <1>2
    <3>3. (P \o Q)[1] = P[1] /\ (P \o Q)[Len(P) + 1] = Q[1]
      BY <3>1, <3>2
    <3> QED BY <1>1, <1>2, <3>1, <3>3
  <2> DEFINE r == (P \o Q) \o D
  <2>2. r \in Seq(Steps) /\ Len(r) = 3 /\ r[1] = p /\ r[2] = q /\ r[3] = d
    <3> DEFINE pq == P \o Q
    <3>1. pq \in Seq(Steps) /\ Len(pq) = 2 /\ pq[1] = p /\ pq[2] = q
      BY <2>1
    <3> HIDE DEF pq
    <3>2. /\ pq \o D \in Seq(Steps) /\ Len(pq \o D) = Len(pq) + Len(D)
          /\ \A i \in 1 .. Len(pq) : (pq \o D)[i] = pq[i]
          /\ \A i \in 1 .. Len(D) : (pq \o D)[Len(pq) + i] = D[i]
      BY <1>3, <3>1, JoinFacts
    <3>3. 1 \in 1 .. Len(pq) /\ 2 \in 1 .. Len(pq) /\ 1 \in 1 .. Len(D)
      BY <1>3, <3>1
    <3>4. (pq \o D)[1] = p /\ (pq \o D)[2] = q /\ (pq \o D)[Len(pq) + 1] = d
      BY <1>3, <3>1, <3>2, <3>3
    <3>5. pq \o D = r
      BY DEF pq
    <3> HIDE DEF r
    <3> QED BY <1>3, <3>1, <3>2, <3>4, <3>5
  <2> HIDE DEF r
  <2>3. \A i \in 1 .. 3 : r[i] = PQD[i]
    BY <1>5, <2>2
  <2>4. r = PQD
    BY <1>5, <2>2, <2>3, SameSeq
  <2> QED BY <2>4 DEF r
<1> QED BY <1>6, <1>7, <1>8 DEF P, Q, D, PD, PQD

LEMMA SendSteps ==
  ASSUME NEW c \in Chips
  PROVE  /\ Send("memx", c) = <<Step("command", c)>>
         /\ Send("read", c) = <<Step("param", c), Step("command", c)>>
         /\ Send("thermal", c) = <<Step("param", c), Step("command", c)>>
         /\ Send("rmtcmd", c) = <<Step("param", c), Step("command", c)>>
         /\ Send("write", c) = <<Step("param", c), Step("param2", c), Step("command", c)>>
         /\ Send("update", c) = <<Step("param", c), Step("param2", c), Step("command", c)>>
<1>1. Step("param", c) \in Steps /\ Step("param2", c) \in Steps /\ Step("command", c) \in Steps
  BY StepType DEF StepKinds, Fields
<1>2. /\ Uses("memx") = {} /\ Uses("read") = {"param"} /\ Uses("thermal") = {"param"}
      /\ Uses("rmtcmd") = {"param"}
      /\ Uses("write") = {"param", "param2"} /\ Uses("update") = {"param", "param2"}
  BY DEF Uses
<1>3. Send("memx", c) = <<Step("command", c)>>
  BY <1>1, <1>2, Joined DEF Send
<1>4. /\ Send("read", c) = <<Step("param", c), Step("command", c)>>
      /\ Send("thermal", c) = <<Step("param", c), Step("command", c)>>
      /\ Send("rmtcmd", c) = <<Step("param", c), Step("command", c)>>
  BY <1>1, <1>2, Joined DEF Send
<1>5. /\ Send("write", c) = <<Step("param", c), Step("param2", c), Step("command", c)>>
      /\ Send("update", c) = <<Step("param", c), Step("param2", c), Step("command", c)>>
  BY <1>1, <1>2, Joined DEF Send
<1> QED BY <1>3, <1>4, <1>5

LEMMA SendWork ==
  ASSUME NEW kind \in {"read", "write", "memx", "rmtcmd"}, NEW c \in Chips
  PROVE  WorkOK(Send(kind, c), kind) /\ Send(kind, c) # <<>>
<1> DEFINE s == Send(kind, c)
<1>1. /\ Step("param", c) \in Steps /\ Step("param2", c) \in Steps /\ Step("command", c) \in Steps
      /\ Step("param", c).kind = "param" /\ Step("param2", c).kind = "param2"
      /\ Step("command", c).kind = "command" /\ Step("param", c).chip = c
      /\ Step("param2", c).chip = c /\ Step("command", c).chip = c
  BY StepType DEF StepKinds, Fields
<1>2. \/ s = <<Step("command", c)>>
      \/ s = <<Step("param", c), Step("command", c)>>
      \/ s = <<Step("param", c), Step("param2", c), Step("command", c)>>
  BY SendSteps
<1> HIDE DEF s
<1>3. /\ s \in Seq(Steps) /\ s # <<>> /\ s[Len(s)].kind = "command"
      /\ \A i \in DOMAIN s : s[i].kind \in Fields /\ s[i].chip = c
      /\ \A i \in DOMAIN s : i # Len(s) => s[i].kind \in {"param", "param2"}
  <2>1. CASE s = <<Step("command", c)>>
    BY <1>1, <2>1 DEF Fields
  <2>2. CASE s = <<Step("param", c), Step("command", c)>>
    BY <1>1, <2>2 DEF Fields
  <2>3. CASE s = <<Step("param", c), Step("param2", c), Step("command", c)>>
    BY <1>1, <2>3 DEF Fields
  <2> QED BY <1>2, <2>1, <2>2, <2>3
<1>4. /\ \A i, j \in DOMAIN s : i < j => i # Len(s)
      /\ \A i \in DOMAIN s : i + 1 \in DOMAIN s => i # Len(s)
  BY <1>3
<1>5. \A i \in DOMAIN s : i + 1 \in DOMAIN s => Follow(s[i], s[i + 1])
  BY <1>3, <1>4 DEF Follow, Follows, Finals
<1>6. Chained(s)
  BY <1>3, <1>4, <1>5 DEF Chained
<1> QED BY <1>3, <1>4, <1>6 DEF WorkOK, KindsOf, s

LEMMA DumpWork ==
  ASSUME NEW c \in Chips
  PROVE  WorkOK(DumpLog(c), "fwlog") /\ DumpLog(c) # <<>> /\ Head(DumpLog(c)).kind = "wp"
         /\ Head(DumpLog(c)).chip = c
<1> DEFINE s == DumpLog(c)
<1>1. /\ Step("wp", c) \in Steps /\ Step("rp", c) \in Steps /\ Step("print", c) \in Steps
      /\ Step("advance", c) \in Steps
      /\ \A k \in {"wp", "rp", "print", "advance"} : Step(k, c).kind = k /\ Step(k, c).chip = c
  BY StepType DEF StepKinds
<1>2. /\ s \in Seq(Steps) /\ Len(s) = 4 /\ DOMAIN s = 1 .. 4
      /\ s[1] = Step("wp", c) /\ s[2] = Step("rp", c) /\ s[3] = Step("print", c)
      /\ s[4] = Step("advance", c)
  BY <1>1 DEF DumpLog
<1> HIDE DEF s
<1>3. /\ s[1].kind = "wp" /\ s[2].kind = "rp" /\ s[3].kind = "print" /\ s[4].kind = "advance"
      /\ \A i \in DOMAIN s : s[i].chip = c /\ s[i].kind \notin Fields
      /\ \A i \in DOMAIN s : s[i].kind \in KindsOf("fwlog")
  BY <1>1, <1>2 DEF Fields, KindsOf
<1>4. \A i \in DOMAIN s : i + 1 \in DOMAIN s => Follow(s[i], s[i + 1])
  <2> SUFFICES ASSUME NEW i \in 1 .. 3 PROVE Follow(s[i], s[i + 1])
    BY <1>2
  <2>1. i = 1 \/ i = 2 \/ i = 3
    OBVIOUS
  <2>2. s[i + 1].chip = s[i].chip
    BY <1>2, <1>3
  <2> QED BY <1>3, <2>1, <2>2 DEF Follow, Follows, Finals
<1>5. Chained(s)
  BY <1>2, <1>3, <1>4 DEF Chained, Finals
<1>6. s # <<>> /\ Head(s) = s[1]
  BY <1>2
<1> QED BY <1>1, <1>2, <1>3, <1>5, <1>6 DEF WorkOK, s

LEMMA ShowWork ==
  WorkOK(ShowPin, "show") /\ ShowPin # <<>> /\ Head(ShowPin).kind = "pin"
<1> DEFINE s == ShowPin
<1>1. /\ Step("pin", 0) \in Steps /\ Step("ask", 0) \in Steps /\ Step("fetch", 0) \in Steps
      /\ Step("label", 0) \in Steps
      /\ \A k \in {"pin", "ask", "fetch", "label"} : Step(k, 0).kind = k /\ Step(k, 0).chip = 0
  BY StepType, ChipsFacts DEF StepKinds
<1>2. /\ s \in Seq(Steps) /\ Len(s) = 4 /\ DOMAIN s = 1 .. 4
      /\ s[1] = Step("pin", 0) /\ s[2] = Step("ask", 0) /\ s[3] = Step("fetch", 0)
      /\ s[4] = Step("label", 0)
  BY <1>1 DEF ShowPin
<1> HIDE DEF s
<1>3. /\ s[1].kind = "pin" /\ s[2].kind = "ask" /\ s[3].kind = "fetch" /\ s[4].kind = "label"
      /\ \A i \in DOMAIN s : s[i].chip = 0 /\ s[i].kind \notin Fields
      /\ \A i \in DOMAIN s : s[i].kind \in KindsOf("show")
  BY <1>1, <1>2 DEF Fields, KindsOf
<1>4. \A i \in DOMAIN s : i + 1 \in DOMAIN s => Follow(s[i], s[i + 1])
  <2> SUFFICES ASSUME NEW i \in 1 .. 3 PROVE Follow(s[i], s[i + 1])
    BY <1>2
  <2>1. i = 1 \/ i = 2 \/ i = 3
    OBVIOUS
  <2>2. s[i + 1].chip = s[i].chip
    BY <1>2, <1>3
  <2> QED BY <1>3, <2>1, <2>2 DEF Follow, Follows, Finals
<1>5. Chained(s)
  BY <1>2, <1>3, <1>4 DEF Chained, Finals
<1>6. s # <<>> /\ Head(s) = s[1]
  BY <1>2
<1> QED BY <1>1, <1>2, <1>3, <1>5, <1>6 DEF WorkOK, s

(* Each command of a program comes after its words.                         *)
Has(s, f, c) == \E i \in DOMAIN s : s[i] = Step(f, c)

HasWords(s, kind) ==
  \A c \in Chips : Has(s, "command", c) => \A f \in Uses(kind) : Has(s, f, c)

LEMMA SendHasWords ==
  ASSUME NEW kind \in {"read", "write", "memx", "rmtcmd"}, NEW c \in Chips
  PROVE  HasWords(Send(kind, c), kind)
<1> DEFINE s == Send(kind, c)
<1>1. \A d \in Chips : Has(s, "command", d) => d = c
  <2> SUFFICES ASSUME NEW d \in Chips, NEW i \in DOMAIN s, s[i] = Step("command", d)
               PROVE  d = c
    BY DEF Has
  <2>1. CASE s = <<Step("command", c)>>
    BY <2>1 DEF Step
  <2>2. CASE s = <<Step("param", c), Step("command", c)>>
    BY <2>2 DEF Step
  <2>3. CASE s = <<Step("param", c), Step("param2", c), Step("command", c)>>
    BY <2>3 DEF Step
  <2> QED BY <2>1, <2>2, <2>3, SendSteps
<1>2. CASE kind = "memx"
  BY <1>2 DEF HasWords, Uses
<1>3. CASE kind \in {"read", "rmtcmd"}
  <2>1. 1 \in DOMAIN s /\ s[1] = Step("param", c)
    BY <1>3, SendSteps
  <2>2. Has(s, "param", c)
    BY <2>1 DEF Has
  <2>3. Uses(kind) = {"param"}
    BY <1>3 DEF Uses
  <2> QED BY <1>1, <2>2, <2>3 DEF HasWords
<1>4. CASE kind = "write"
  <2>1. /\ 1 \in DOMAIN s /\ s[1] = Step("param", c)
        /\ 2 \in DOMAIN s /\ s[2] = Step("param2", c)
    BY <1>4, SendSteps
  <2>2. Has(s, "param", c) /\ Has(s, "param2", c)
    BY <2>1 DEF Has
  <2>3. Uses(kind) = {"param", "param2"}
    BY <1>4 DEF Uses
  <2> QED BY <1>1, <2>2, <2>3 DEF HasWords
<1> QED BY <1>2, <1>3, <1>4

LEMMA UpdateWork ==
  ASSUME NEW ok \in BOOLEAN
  PROVE  /\ WorkOK(UpdateFlash(ok), "update") /\ HasWords(UpdateFlash(ok), "update")
         /\ UpdateFlash(ok) # <<>> /\ Head(UpdateFlash(ok)).kind = "param"
<1> DEFINE a == <<Step("param", 0), Step("param2", 0), Step("command", 0)>>
           b == <<Step("image", 0), Step("clear", 0), Step("order", 0), Step("poll", 0),
                  Step("report", 0)>>
           s == UpdateFlash(ok)
           kinds == <<"param", "param2", "command", "image", "clear", "order", "poll", "report">>
<1>1. 0 \in Chips /\ Send("update", 0) = a
  BY ChipsFacts, SendSteps
<1>2. \A k \in StepKinds : Step(k, 0) \in Steps /\ Step(k, 0).kind = k /\ Step(k, 0).chip = 0
  BY <1>1, StepType
<1>3. /\ a \in Seq(Steps) /\ Len(a) = 3 /\ a[1] = Step("param", 0) /\ a[2] = Step("param2", 0)
      /\ a[3] = Step("command", 0)
  BY <1>2 DEF StepKinds, Fields
<1>4. /\ b \in Seq(Steps) /\ Len(b) = 5 /\ b[1] = Step("image", 0) /\ b[2] = Step("clear", 0)
      /\ b[3] = Step("order", 0) /\ b[4] = Step("poll", 0) /\ b[5] = Step("report", 0)
  BY <1>2 DEF StepKinds
<1> HIDE DEF a, b
<1>0. /\ a \o b \in Seq(Steps) /\ Len(a \o b) = Len(a) + Len(b)
      /\ \A i \in 1 .. Len(a) : (a \o b)[i] = a[i]
      /\ \A i \in 1 .. Len(b) : (a \o b)[Len(a) + i] = b[i]
  BY <1>3, <1>4, JoinFacts
<1>5. s \in Seq(Steps) /\ Len(s) = (IF ok THEN 8 ELSE 3)
  <2>1. CASE ok
    <3>1. s = a \o b
      BY <1>1, <2>1 DEF UpdateFlash, b
    <3> HIDE DEF s
    <3> QED BY <1>0, <1>3, <1>4, <2>1, <3>1
  <2>2. CASE ~ok
    BY <1>1, <1>3, <2>2 DEF UpdateFlash
  <2> QED BY <2>1, <2>2
<1>6. \A i \in 1 .. 3 : s[i] = a[i]
  <2>1. CASE ok
    <3>1. s = a \o b
      BY <1>1, <2>1 DEF UpdateFlash, b
    <3> HIDE DEF s
    <3> QED BY <1>0, <1>3, <3>1
  <2>2. CASE ~ok
    <3>1. s = a \o <<>>
      BY <1>1, <2>2 DEF UpdateFlash
    <3>2. a \o <<>> = a
      BY <1>3
    <3> QED BY <3>1, <3>2
  <2> QED BY <2>1, <2>2
<1>7. ok => \A i \in 1 .. 5 : s[3 + i] = b[i]
  <2> SUFFICES ASSUME ok PROVE \A i \in 1 .. 5 : s[3 + i] = b[i]
    OBVIOUS
  <2>1. s = a \o b
    BY <1>1 DEF UpdateFlash, b
  <2> HIDE DEF s
  <2> QED BY <1>0, <1>3, <1>4, <2>1
<1> HIDE DEF s
<1>8. /\ s[1] = Step("param", 0) /\ s[2] = Step("param2", 0) /\ s[3] = Step("command", 0)
      /\ ok => /\ s[4] = Step("image", 0) /\ s[5] = Step("clear", 0) /\ s[6] = Step("order", 0)
               /\ s[7] = Step("poll", 0) /\ s[8] = Step("report", 0)
  <2>1. 1 \in 1 .. 3 /\ 2 \in 1 .. 3 /\ 3 \in 1 .. 3
    OBVIOUS
  <2>2. ok => s[3 + 1] = b[1] /\ s[3 + 2] = b[2] /\ s[3 + 3] = b[3] /\ s[3 + 4] = b[4]
              /\ s[3 + 5] = b[5]
    BY <1>7
  <2> QED BY <1>3, <1>4, <1>6, <2>1, <2>2
<1>10. DOMAIN s = IF ok THEN 1 .. 8 ELSE 1 .. 3
  <2>1. s \in Seq(Steps)
    BY <1>5
  <2>2. DOMAIN s = 1 .. Len(s)
    BY <2>1
  <2> QED BY <1>5, <2>2
<1>9. /\ s[1].kind = "param" /\ s[2].kind = "param2" /\ s[3].kind = "command"
      /\ ok => /\ s[4].kind = "image" /\ s[5].kind = "clear" /\ s[6].kind = "order"
               /\ s[7].kind = "poll" /\ s[8].kind = "report"
      /\ \A i \in DOMAIN s : s[i].chip = 0
  <2>1. \A i \in DOMAIN s : \/ i = 1 \/ i = 2 \/ i = 3
                            \/ ok /\ (i = 4 \/ i = 5 \/ i = 6 \/ i = 7 \/ i = 8)
    BY <1>10
  <2> QED BY <1>2, <1>8, <2>1 DEF StepKinds, Fields
<1>11. \A i \in DOMAIN s : i + 1 \in DOMAIN s => Follow(s[i], s[i + 1])
  <2> SUFFICES ASSUME NEW i \in DOMAIN s, i + 1 \in DOMAIN s PROVE Follow(s[i], s[i + 1])
    OBVIOUS
  <2>1. s[i + 1].chip = s[i].chip
    BY <1>9
  <2>2. CASE i = 1 \/ i = 2
    BY <1>9, <2>1, <2>2 DEF Follow, Follows, Finals, Fields
  <2>3. CASE ok /\ i \in 3 .. 7
    <3>1. i = 3 \/ i = 4 \/ i = 5 \/ i = 6 \/ i = 7
      BY <2>3
    <3> QED BY <1>9, <2>1, <2>3, <3>1 DEF Follow, Follows, Finals, Fields
  <2> QED BY <1>10, <2>2, <2>3
<1>12. \A i, j \in DOMAIN s :
         (i < j /\ s[i].kind = "command" /\ s[j].kind \in Fields) => s[j].chip # s[i].chip
  <2> SUFFICES ASSUME NEW i \in DOMAIN s, NEW j \in DOMAIN s, i < j, s[i].kind = "command",
                      s[j].kind \in Fields
               PROVE  FALSE
    OBVIOUS
  <2>1. i \in 1 .. 8 /\ j \in 1 .. 8 /\ (j > 3 => ok)
    BY <1>10
  <2>2. i # 1 /\ i # 2
    BY <1>9
  <2>3. j > 3 /\ ok
    BY <2>1, <2>2
  <2>4. j = 4 \/ j = 5 \/ j = 6 \/ j = 7 \/ j = 8
    BY <2>1, <2>3
  <2> QED BY <1>9, <2>3, <2>4 DEF Fields
<1>13. s # <<>> /\ s[Len(s)].kind \in Finals \cup {"command"} /\ Head(s) = s[1]
  BY <1>5, <1>9 DEF Finals
<1>14. Chained(s)
  BY <1>5, <1>11, <1>12, <1>13 DEF Chained
<1>15. \A i \in DOMAIN s : s[i].kind \in KindsOf("update")
  <2> SUFFICES ASSUME NEW i \in DOMAIN s PROVE s[i].kind \in KindsOf("update")
    OBVIOUS
  <2>1. \/ i = 1 \/ i = 2 \/ i = 3
        \/ ok /\ (i = 4 \/ i = 5 \/ i = 6 \/ i = 7 \/ i = 8)
    BY <1>10
  <2>2. s[i].kind \in Fields \cup {"image", "clear", "order", "poll", "report"}
    BY <1>9, <2>1 DEF Fields
  <2> QED BY <2>2 DEF KindsOf
<1>16. HasWords(s, "update")
  <2>1. 1 \in DOMAIN s /\ 2 \in DOMAIN s
    BY <1>10
  <2>2. Has(s, "param", 0) /\ Has(s, "param2", 0)
    BY <1>8, <2>1 DEF Has
  <2>3. Uses("update") = {"param", "param2"}
    BY DEF Uses
  <2>4. \A c \in Chips : Has(s, "command", c) => c = 0
    BY <1>9 DEF Has, Step
  <2> QED BY <2>2, <2>3, <2>4 DEF HasWords
<1> QED BY <1>9, <1>13, <1>14, <1>15, <1>16 DEF WorkOK, s

LEMMA ThermalWork ==
  /\ WorkOK(SetThermal, "thermal") /\ HasWords(SetThermal, "thermal") /\ SetThermal # <<>>
  /\ Head(SetThermal).kind = "param" /\ \A c \in Chips : Has(SetThermal, "command", c)
<1> DEFINE n == 2 * (MaxChip + 1)
           a == SendUpTo(MaxChip + 1)
           f == <<Step("flag", 0)>>
           s == SetThermal
<1>0. MaxChip \in Nat /\ Chips = 0 .. MaxChip /\ n \in Nat /\ 0 \in Chips
  BY XflowAssumption DEF XflowAssumption, Chips
<1>1. \A c \in Chips : /\ Send("thermal", c) = <<Step("param", c), Step("command", c)>>
                       /\ Step("param", c) \in Steps /\ Step("command", c) \in Steps
                       /\ Step("param", c).kind = "param" /\ Step("command", c).kind = "command"
                       /\ Step("param", c).chip = c /\ Step("command", c).chip = c
  BY SendSteps, StepType DEF StepKinds, Fields
<1>2. \A i \in 1 .. n : /\ (i - 1) \div 2 \in Chips
                        /\ i - 2 * ((i - 1) \div 2) \in {1, 2}
  BY <1>0
<1>3. \A i \in 1 .. n : a[i] = IF i = 2 * ((i - 1) \div 2) + 1
                               THEN Step("param", (i - 1) \div 2)
                               ELSE Step("command", (i - 1) \div 2)
  <2> SUFFICES ASSUME NEW i \in 1 .. n
               PROVE  a[i] = IF i = 2 * ((i - 1) \div 2) + 1
                             THEN Step("param", (i - 1) \div 2)
                             ELSE Step("command", (i - 1) \div 2)
    OBVIOUS
  <2>1. PICK c \in Chips : c = (i - 1) \div 2
    BY <1>2
  <2>2. a[i] = <<Step("param", c), Step("command", c)>>[i - 2 * c]
    BY <1>1, <2>1 DEF SendUpTo
  <2>3. i - 2 * c = 1 \/ i - 2 * c = 2
    BY <1>2, <2>1
  <2>4. a[i] = IF i - 2 * c = 1 THEN Step("param", c) ELSE Step("command", c)
    BY <2>2, <2>3
  <2>5. i - 2 * c = 1 <=> i = 2 * c + 1
    BY <1>0, <2>1
  <2> QED BY <2>1, <2>4, <2>5
<1>4. a \in Seq(Steps) /\ Len(a) = n
  <2>1. DOMAIN a = 1 .. n
    BY DEF SendUpTo
  <2>2. \A i \in 1 .. n : a[i] \in Steps
    BY <1>1, <1>2, <1>3
  <2>3. a = [i \in 1 .. n |-> a[i]]
    BY DEF SendUpTo
  <2> HIDE DEF a, n
  <2> QED BY <1>0, <2>1, <2>2, <2>3
<1>5. Step("flag", 0) \in Steps /\ Step("flag", 0).kind = "flag"
  BY <1>0, StepType DEF StepKinds
<1>6. f \in Seq(Steps) /\ Len(f) = 1 /\ f[1] = Step("flag", 0)
  BY <1>5
<1>7. s = a \o f
  BY DEF SetThermal
<1> HIDE DEF a, f, s, n
<1>8. /\ s \in Seq(Steps) /\ Len(s) = n + 1 /\ DOMAIN s = 1 .. n + 1
      /\ \A i \in 1 .. n : s[i] = a[i]
      /\ s[n + 1] = Step("flag", 0)
  <2>1. /\ s \in Seq(Steps) /\ Len(s) = Len(a) + Len(f)
        /\ \A i \in 1 .. Len(a) : s[i] = a[i]
        /\ \A i \in 1 .. Len(f) : s[Len(a) + i] = f[i]
    BY <1>4, <1>6, <1>7, JoinFacts
  <2>2. 1 \in 1 .. Len(f)
    BY <1>6
  <2>3. s[Len(a) + 1] = f[1] /\ DOMAIN s = 1 .. Len(s)
    BY <2>1, <2>2
  <2> QED BY <1>0, <1>4, <1>6, <2>1, <2>3
<1>9. \A i \in 1 .. n : \E c \in Chips :
        \/ i = 2 * c + 1 /\ s[i] = Step("param", c)
        \/ i = 2 * c + 2 /\ s[i] = Step("command", c)
  BY <1>0, <1>2, <1>3, <1>8
<1>10. \A c \in Chips : /\ 2 * c + 1 \in 1 .. n /\ s[2 * c + 1] = Step("param", c)
                        /\ 2 * c + 2 \in 1 .. n /\ s[2 * c + 2] = Step("command", c)
  <2> SUFFICES ASSUME NEW c \in Chips
               PROVE  /\ 2 * c + 1 \in 1 .. n /\ s[2 * c + 1] = Step("param", c)
                      /\ 2 * c + 2 \in 1 .. n /\ s[2 * c + 2] = Step("command", c)
    OBVIOUS
  <2>1. c \in Nat /\ 2 * c + 1 \in 1 .. n /\ 2 * c + 2 \in 1 .. n
    BY <1>0 DEF n
  <2>2. ((2 * c + 1) - 1) \div 2 = c /\ ((2 * c + 2) - 1) \div 2 = c
    BY <2>1
  <2>3. 2 * c + 2 # 2 * c + 1
    BY <2>1
  <2> QED BY <1>3, <1>8, <2>1, <2>2, <2>3
<1>11. \A i \in DOMAIN s : i + 1 \in DOMAIN s => Follow(s[i], s[i + 1])
  <2> SUFFICES ASSUME NEW i \in 1 .. n PROVE Follow(s[i], s[i + 1])
    BY <1>0, <1>8
  <2>1. PICK c \in Chips : \/ i = 2 * c + 1 /\ s[i] = Step("param", c)
                           \/ i = 2 * c + 2 /\ s[i] = Step("command", c)
    BY <1>9
  <2>2. CASE i = 2 * c + 1 /\ s[i] = Step("param", c)
    <3>1. s[i + 1] = Step("command", c)
      BY <1>0, <1>10, <2>2
    <3> QED BY <1>1, <2>2, <3>1 DEF Follow, Follows, Finals, Fields
  <2>3. CASE i = 2 * c + 2 /\ s[i] = Step("command", c)
    <3>1. s[i + 1].kind \in Fields \cup {"flag", "image"}
      <4>1. CASE i = n
        BY <1>5, <1>8, <4>1
      <4>2. CASE i # n
        <5>1. i + 1 \in 1 .. n
          BY <1>0, <4>2
        <5> QED BY <1>1, <1>9, <5>1 DEF Fields
      <4> QED BY <4>1, <4>2
    <3> QED BY <1>1, <2>3, <3>1 DEF Follow, Follows, Finals
  <2> QED BY <2>1, <2>2, <2>3
<1>12. \A i, j \in DOMAIN s :
         (i < j /\ s[i].kind = "command" /\ s[j].kind \in Fields) => s[j].chip # s[i].chip
  <2> SUFFICES ASSUME NEW i \in DOMAIN s, NEW j \in DOMAIN s, i < j, s[i].kind = "command",
                      s[j].kind \in Fields
               PROVE  s[j].chip # s[i].chip
    OBVIOUS
  <2>1. i # n + 1 /\ j # n + 1
    BY <1>5, <1>8 DEF Fields
  <2>2. i \in 1 .. n /\ j \in 1 .. n
    BY <1>0, <1>8, <2>1
  <2>3. PICK c \in Chips : \/ i = 2 * c + 1 /\ s[i] = Step("param", c)
                           \/ i = 2 * c + 2 /\ s[i] = Step("command", c)
    BY <1>9, <2>2
  <2>4. PICK d \in Chips : \/ j = 2 * d + 1 /\ s[j] = Step("param", d)
                           \/ j = 2 * d + 2 /\ s[j] = Step("command", d)
    BY <1>9, <2>2
  <2>5. i = 2 * c + 2 /\ s[i].chip = c /\ s[j].chip = d
    BY <1>1, <2>3, <2>4
  <2>6. c \in Nat /\ d \in Nat
    BY <1>0
  <2> QED BY <2>4, <2>5, <2>6
<1>13. s # <<>> /\ s[Len(s)].kind = "flag" /\ Head(s) = s[1] /\ s[1] = Step("param", 0)
  <2>1. s[2 * 0 + 1] = Step("param", 0)
    BY <1>0, <1>10
  <2> QED BY <1>0, <1>5, <1>8, <2>1
<1>14. Chained(s)
  BY <1>8, <1>11, <1>12, <1>13 DEF Chained, Finals
<1>15. \A i \in DOMAIN s : s[i].kind \in KindsOf("thermal")
  <2>1. KindsOf("thermal") = Fields \cup {"flag"}
    BY DEF KindsOf
  <2>2. \A i \in 1 .. n : s[i].kind \in Fields
    BY <1>1, <1>9 DEF Fields
  <2>3. s[n + 1].kind = "flag"
    BY <1>5, <1>8
  <2>4. \A i \in DOMAIN s : i \in 1 .. n \/ i = n + 1
    <3>1. n \in Nat /\ DOMAIN s = 1 .. n + 1
      BY <1>0, <1>8
    <3> QED BY <3>1
  <2> SUFFICES ASSUME NEW i \in DOMAIN s PROVE s[i].kind \in Fields \cup {"flag"}
    BY <2>1
  <2>5. CASE i \in 1 .. n
    BY <2>2, <2>5
  <2>6. CASE i = n + 1
    BY <2>3, <2>6
  <2> QED BY <2>4, <2>5, <2>6
<1>16. ASSUME NEW c \in Chips
       PROVE  Has(s, "command", c) /\ Has(s, "param", c)
  <2>1. 2 * c + 1 \in DOMAIN s /\ 2 * c + 2 \in DOMAIN s
    BY <1>0, <1>8, <1>10
  <2> QED BY <1>10, <2>1 DEF Has
<1>17. HasWords(s, "thermal")
  <2>1. Uses("thermal") = {"param"}
    BY DEF Uses
  <2> QED BY <1>16, <2>1 DEF HasWords
<1> QED BY <1>0, <1>1, <1>13, <1>14, <1>15, <1>16, <1>17 DEF WorkOK, s

-----------------------------------------------------------------------------
(* Jobs begin, go on and end.                                               *)
Fresh(s, kind) ==
  /\ WorkOK(s, kind) /\ s # <<>> /\ HasWords(s, kind)
  /\ Head(s).kind \in Fields \cup {"wp", "pin", "stray", "pointer"}

Started == {"read", "write", "memx", "rmtcmd", "stray", "pointer", "thermal", "fwlog",
            "update", "show"}

LEMMA HeadKind ==
  ASSUME NEW s, NEW kind, WorkOK(s, kind), s # <<>>
  PROVE  Head(s) = s[1] /\ Head(s) \in Steps /\ Head(s).kind \in KindsOf(kind)
<1>1. s \in Seq(Steps)
  BY DEF WorkOK, Chained
<1> QED BY <1>1, TailFacts DEF WorkOK

LEMMA NoCommandWords ==
  ASSUME NEW s, NEW kind, WorkOK(s, kind), "command" \notin KindsOf(kind)
  PROVE  HasWords(s, kind)
<1>1. \A c \in Chips : ~Has(s, "command", c)
  BY DEF Has, Step, WorkOK
<1> QED BY <1>1 DEF HasWords

LEMMA StrayWork ==
  ASSUME NEW s \in StrayWords
  PROVE  s.kind \in {"stray", "pointer"} /\ Fresh(<<s>>, s.kind)
<1>1. s \in Steps /\ s.kind \in {"stray", "pointer"}
  BY DEF StrayWords, Step, Steps, StepKinds
<1> DEFINE t == <<s>>
<1>2. t \in Seq(Steps) /\ t # <<>> /\ Len(t) = 1 /\ t[1] = s /\ DOMAIN t = {1} /\ Head(t) = s
  BY <1>1
<1> HIDE DEF t
<1>3. Chained(t)
  BY <1>1, <1>2 DEF Chained, Finals
<1>4. s.kind \in KindsOf(s.kind) /\ "command" \notin KindsOf(s.kind) /\ s.kind # "thermal"
  BY <1>1 DEF KindsOf
<1>5. WorkOK(t, s.kind)
  BY <1>2, <1>3, <1>4 DEF WorkOK
<1>6. HasWords(t, s.kind)
  BY <1>4, <1>5, NoCommandWords
<1> QED BY <1>1, <1>2, <1>5, <1>6 DEF Fresh, t

LEMMA FreshPrograms ==
  /\ \A kind \in {"read", "write", "memx", "rmtcmd"}, c \in Chips : Fresh(Send(kind, c), kind)
  /\ Fresh(SetThermal, "thermal")
  /\ \A c \in Chips : Fresh(DumpLog(c), "fwlog")
  /\ \A ok \in BOOLEAN : Fresh(UpdateFlash(ok), "update")
  /\ Fresh(ShowPin, "show")
  /\ \A s \in StrayWords : s.kind \in {"stray", "pointer"} /\ Fresh(<<s>>, s.kind)
<1>1. ASSUME NEW kind \in {"read", "write", "memx", "rmtcmd"}, NEW c \in Chips
      PROVE  Fresh(Send(kind, c), kind)
  <2>1. WorkOK(Send(kind, c), kind) /\ Send(kind, c) # <<>> /\ HasWords(Send(kind, c), kind)
    BY SendWork, SendHasWords
  <2>2. KindsOf(kind) = Fields
    BY DEF KindsOf
  <2> QED BY <2>1, <2>2, HeadKind DEF Fresh
<1>2. Fresh(SetThermal, "thermal")
  BY ThermalWork DEF Fresh, Fields
<1>3. ASSUME NEW c \in Chips PROVE Fresh(DumpLog(c), "fwlog")
  <2>1. "command" \notin KindsOf("fwlog")
    BY DEF KindsOf
  <2> QED BY <2>1, DumpWork, NoCommandWords DEF Fresh
<1>4. ASSUME NEW ok \in BOOLEAN PROVE Fresh(UpdateFlash(ok), "update")
  BY UpdateWork DEF Fresh, Fields
<1>5. Fresh(ShowPin, "show")
  <2>1. "command" \notin KindsOf("show")
    BY DEF KindsOf
  <2> QED BY <2>1, ShowWork, NoCommandWords DEF Fresh
<1>6. ASSUME NEW s \in StrayWords PROVE s.kind \in {"stray", "pointer"} /\ Fresh(<<s>>, s.kind)
  BY <1>6, StrayWork
<1> QED BY <1>1, <1>2, <1>3, <1>4, <1>5, <1>6

LEMMA CmdStarts ==
  ASSUME NEW u \in Users, WriteCmd(u)
  PROVE  \E kind \in {"read", "write", "memx", "rmtcmd", "stray", "pointer"}, v \in 0 .. 1 :
           \E s : Start(u, kind, v, s) /\ Fresh(s, kind)
<1>1. CASE \E kind \in {"read", "write", "memx"}, c \in Chips : Start(u, kind, 0, Send(kind, c))
  <2>1. PICK kind \in {"read", "write", "memx"}, c \in Chips : Start(u, kind, 0, Send(kind, c))
    BY <1>1
  <2>2. Fresh(Send(kind, c), kind) /\ 0 \in 0 .. 1
    BY FreshPrograms
  <2> QED BY <2>1, <2>2
<1>2. CASE \E v \in 0 .. 1, c \in Chips : Start(u, "rmtcmd", v, Send("rmtcmd", c))
  <2>1. PICK v \in 0 .. 1, c \in Chips : Start(u, "rmtcmd", v, Send("rmtcmd", c))
    BY <1>2
  <2>2. Fresh(Send("rmtcmd", c), "rmtcmd")
    BY FreshPrograms
  <2> QED BY <2>1, <2>2
<1>3. CASE \E s \in StrayWords : Start(u, s.kind, 0, <<s>>)
  <2>1. PICK s \in StrayWords : Start(u, s.kind, 0, <<s>>)
    BY <1>3
  <2>2. s.kind \in {"stray", "pointer"} /\ Fresh(<<s>>, s.kind) /\ 0 \in 0 .. 1
    BY FreshPrograms
  <2> QED BY <2>1, <2>2
<1> QED BY <1>1, <1>2, <1>3 DEF WriteCmd

LEMMA CmdKinds ==
  ASSUME NEW u \in Users, WriteCmd(u), job \in [Users -> Job]
  PROVE  job'[u].kind \notin {"thermal", "update", "fwlog", "show"}
<1>1. PICK kind \in {"read", "write", "memx", "rmtcmd", "stray", "pointer"}, v \in 0 .. 1 :
        \E s : Start(u, kind, v, s)
  BY CmdStarts
<1>2. job' = [job EXCEPT ![u] = [kind |-> kind, id |-> jobs', value |-> v]]
  BY <1>1 DEF Start
<1> QED BY <1>2

LEMMA Starters ==
  ASSUME NEW u \in Users,
         WriteCmd(u) \/ WriteThermal(u) \/ WriteFwlog(u) \/ ReadUpdateFlash(u) \/ ReadGpio(u)
  PROVE  \E kind \in Started, v \in 0 .. 1 : \E s : Start(u, kind, v, s) /\ Fresh(s, kind)
<1>1. CASE WriteCmd(u)
  BY <1>1, CmdStarts DEF Started
<1>2. CASE WriteThermal(u) \/ WriteFwlog(u) \/ ReadUpdateFlash(u) \/ ReadGpio(u)
  BY <1>2, FreshPrograms DEF Started, WriteThermal, WriteFwlog, ReadUpdateFlash, ReadGpio
<1> QED BY <1>1, <1>2

LEMMA NoJobFacts ==
  NoJob \in Job /\ NoJob.id = 0 /\ NoJob.kind = "none" /\ <<>> \in Seq(Steps)
BY XflowAssumption DEF XflowAssumption, NoJob, Job, Kinds, Ids

LEMMA NowFacts ==
  ASSUME JobInv, NEW u \in Users, work[u] # <<>>
  PROVE  /\ Now(u) = work[u][1] /\ 1 \in DOMAIN work[u]
         /\ Now(u) \in Steps /\ Now(u).chip \in Chips /\ Now(u).kind \in StepKinds
         /\ Now(u).kind \in KindsOf(job[u].kind) /\ Now(u) = Step(Now(u).kind, Now(u).chip)
         /\ job[u] # NoJob /\ job[u] \in Job /\ job[u].id \in 1 .. jobs
<1>1. work[u] \in Seq(Steps) /\ WorkOK(work[u], job[u].kind)
  BY DEF JobInv
<1>2. /\ Now(u) = work[u][1] /\ 1 \in DOMAIN work[u] /\ Now(u) \in Steps
      /\ Now(u).kind \in KindsOf(job[u].kind)
  BY <1>1, TailFacts, HeadKind DEF Now
<1>3. job[u] # NoJob /\ job[u] \in Job /\ job[u].id \in 1 .. jobs
  BY DEF JobInv
<1> QED BY <1>2, <1>3 DEF Steps, Step

(* What comes next, and what came before.                                   *)
LEMMA LongSeq ==
  ASSUME NEW s \in Seq(Steps), s # <<>>
  PROVE  Len(s) # 1 => Tail(s) # <<>>
<1>1. PICK n \in Nat : n = Len(s)
  OBVIOUS
<1>2. n # 0
  BY <1>1
<1> SUFFICES ASSUME n # 1 PROVE Tail(s) # <<>>
  BY <1>1
<1>3. n >= 2
  BY <1>2
<1>4. Len(Tail(s)) = n - 1
  BY <1>1
<1> DEFINE t == Tail(s)
<1>5. t \in Seq(Steps)
  OBVIOUS
<1>6. Len(t) = n - 1
  BY <1>4
<1> HIDE DEF t
<1>7. t # <<>>
  BY <1>3, <1>5, <1>6
<1> QED BY <1>7 DEF t

LEMMA ProceedFacts ==
  ASSUME JobInv, NEW u \in Users, work[u] # <<>>, Proceed(u)
  PROVE  /\ work' \in [Users -> Seq(Steps)] /\ job' \in [Users -> Job]
         /\ \A v \in Users : v # u => work'[v] = work[v] /\ job'[v] = job[v]
         /\ work'[u] = Tail(work[u])
         /\ job'[u] = IF work'[u] = <<>> THEN NoJob ELSE job[u]
         /\ work'[u] # <<>> => Follow(Now(u), Head(work'[u])) /\ Head(work'[u]) \in Steps
         /\ work'[u] = <<>> => Now(u).kind \in Finals \cup {"command"}
         /\ WorkOK(work'[u], job'[u].kind)
<1>1. /\ work \in [Users -> Seq(Steps)] /\ job \in [Users -> Job]
      /\ work[u] \in Seq(Steps) /\ WorkOK(work[u], job[u].kind) /\ Chained(work[u])
  BY DEF JobInv, WorkOK
<1>2. /\ Tail(work[u]) \in Seq(Steps) /\ Head(work[u]) = work[u][1]
      /\ Tail(work[u]) # <<>> => Head(Tail(work[u])) = work[u][2] /\ 2 \in DOMAIN work[u]
      /\ 1 \in DOMAIN work[u] /\ Len(Tail(work[u])) = Len(work[u]) - 1
  BY <1>1, TailFacts
<1>3. NoJob \in Job
  BY NoJobFacts
<1>4. /\ work' = [work EXCEPT ![u] = Tail(work[u])]
      /\ job' = IF Tail(work[u]) = <<>> THEN [job EXCEPT ![u] = NoJob] ELSE job
  BY DEF Proceed
<1>5. Tail(work[u]) # <<>> => Follow(Now(u), Head(Tail(work[u]))) /\ Head(Tail(work[u])) \in Steps
  <2> SUFFICES ASSUME Tail(work[u]) # <<>>
               PROVE  Follow(Now(u), Head(Tail(work[u]))) /\ Head(Tail(work[u])) \in Steps
    OBVIOUS
  <2>1. 1 \in DOMAIN work[u] /\ 1 + 1 \in DOMAIN work[u] => Follow(work[u][1], work[u][1 + 1])
    BY <1>1 DEF Chained
  <2>2. work[u][2] \in Steps
    BY <1>1, <1>2
  <2> QED BY <1>2, <2>1, <2>2 DEF Now
<1>6. Tail(work[u]) = <<>> => Now(u).kind \in Finals \cup {"command"}
  <2> SUFFICES ASSUME Tail(work[u]) = <<>> PROVE Now(u).kind \in Finals \cup {"command"}
    OBVIOUS
  <2>1. \A s \in Seq(Steps) : s # <<>> /\ Tail(s) = <<>> => Len(s) = 1
    BY LongSeq
  <2>2. Len(work[u]) = 1
    BY <1>1, <2>1
  <2> QED BY <1>1, <1>2, <2>2 DEF Chained, Now
<1>7. Tail(work[u]) # <<>> => WorkOK(Tail(work[u]), job[u].kind)
  BY <1>1, TailWork
<1>8. NoJob.kind = "none"
  BY DEF NoJob
<1> QED BY <1>1, <1>2, <1>3, <1>4, <1>5, <1>6, <1>7, <1>8, NoWork

LEMMA CameFrom ==
  ASSUME NEW a \in Steps, NEW b \in Steps, Follow(a, b)
  PROVE  /\ b.kind = "rp" => a.kind = "wp" /\ a.chip = b.chip
         /\ b.kind = "print" => a.kind = "rp" /\ a.chip = b.chip
         /\ b.kind = "advance" => a.kind = "print" /\ a.chip = b.chip
         /\ b.kind = "clear" => a.kind = "image"
         /\ b.kind = "order" => a.kind = "clear"
         /\ b.kind = "poll" => a.kind = "order"
         /\ b.kind = "report" => a.kind = "poll"
         /\ b.kind = "ask" => a.kind = "pin"
         /\ b.kind = "fetch" => a.kind = "ask"
         /\ b.kind = "label" => a.kind = "fetch"
         /\ b.kind \notin {"wp", "pin"}
<1>1. a.kind \in StepKinds
  BY DEF Steps
<1>2. a.kind \in Fields => b.kind \in Fields \cup {"flag", "image"}
  BY DEF Follow, Fields
<1>3. a.kind \notin Fields => a.kind \in DOMAIN Follows
  BY <1>1 DEF Follow, Follows, Finals, StepKinds
<1>4. a.kind \in DOMAIN Follows =>
        /\ b.chip = a.chip
        /\ \/ (a.kind = "wp" /\ b.kind = "rp")
           \/ (a.kind = "rp" /\ b.kind = "print")
           \/ (a.kind = "print" /\ b.kind = "advance")
           \/ (a.kind = "image" /\ b.kind = "clear")
           \/ (a.kind = "clear" /\ b.kind = "order")
           \/ (a.kind = "order" /\ b.kind = "poll")
           \/ (a.kind = "poll" /\ b.kind = "report")
           \/ (a.kind = "pin" /\ b.kind = "ask")
           \/ (a.kind = "ask" /\ b.kind = "fetch")
           \/ (a.kind = "fetch" /\ b.kind = "label")
  BY DEF Follow, Follows
<1>5. \/ b.kind \in {"param", "param2", "command", "flag", "image"}
      \/ a.kind \in DOMAIN Follows
  BY <1>2, <1>3 DEF Fields
<1> QED BY <1>4, <1>5

LEMMA JobProceed ==
  ASSUME JobInv, NEW u \in Users, work[u] # <<>>, Proceed(u), UNCHANGED <<cast, jobs>>
  PROVE  JobInv'
<1>1. /\ work' \in [Users -> Seq(Steps)] /\ job' \in [Users -> Job]
      /\ \A v \in Users : v # u => work'[v] = work[v] /\ job'[v] = job[v]
      /\ job'[u] = IF work'[u] = <<>> THEN NoJob ELSE job[u]
      /\ WorkOK(work'[u], job'[u].kind)
  BY ProceedFacts
<1>2. job[u] # NoJob /\ job[u].id \in 1 .. jobs /\ NoJob.id = 0
  BY NowFacts DEF NoJob
<1>3. \A v \in Users : /\ WorkOK(work'[v], job'[v].kind)
                       /\ job'[v] = NoJob <=> work'[v] = <<>>
                       /\ job'[v] # NoJob => job'[v].id \in 1 .. jobs /\ job'[v].kind # "none"
  BY <1>1, <1>2 DEF JobInv
<1>4. \A v, w \in Users : v # w /\ job'[v] # NoJob => job'[v].id # job'[w].id
  <2> SUFFICES ASSUME NEW v \in Users, NEW w \in Users, v # w, job'[v] # NoJob
               PROVE  job'[v].id # job'[w].id
    OBVIOUS
  <2>1. job'[v] = job[v] /\ job[v] # NoJob
    BY <1>1
  <2>2. job[v].id # 0 /\ job[v].id # job[w].id
    BY <2>1 DEF JobInv
  <2>3. job'[w] = job[w] \/ job'[w] = NoJob
    BY <1>1
  <2> QED BY <1>2, <2>1, <2>2, <2>3
<1> QED BY <1>1, <1>3, <1>4 DEF JobInv

LEMMA JobStop ==
  ASSUME JobInv, NEW u \in Users, Stop(u), UNCHANGED <<cast, jobs>>
  PROVE  JobInv'
<1>1. /\ work' = [work EXCEPT ![u] = <<>>] /\ job' = [job EXCEPT ![u] = NoJob]
      /\ NoJob \in Job /\ NoJob.id = 0 /\ NoJob.kind = "none" /\ <<>> \in Seq(Steps)
  BY NoJobFacts DEF Stop
<1>2. \A v \in Users : /\ WorkOK(work'[v], job'[v].kind)
                       /\ job'[v] = NoJob <=> work'[v] = <<>>
                       /\ job'[v] # NoJob => job'[v].id \in 1 .. jobs /\ job'[v].kind # "none"
  BY <1>1, NoWork DEF JobInv
<1>3. \A v, w \in Users : v # w /\ job'[v] # NoJob => job'[v].id # job'[w].id
  BY <1>1 DEF JobInv
<1> QED BY <1>1, <1>2, <1>3 DEF JobInv

LEMMA StartFacts ==
  ASSUME JobInv, NEW u \in Users, NEW kind \in Started, NEW v \in 0 .. 1, NEW s,
         Start(u, kind, v, s)
  PROVE  /\ jobs' = jobs + 1 /\ jobs' \in 1 .. MaxJobs /\ jobs \in Nat
         /\ job[u] = NoJob /\ work[u] = <<>>
         /\ job' = [job EXCEPT ![u] = [kind |-> kind, id |-> jobs + 1, value |-> v]]
         /\ work' = [work EXCEPT ![u] = s]
         /\ job'[u] \in Job /\ job'[u].kind = kind /\ job'[u].id = jobs + 1
         /\ job'[u].value = v /\ job'[u] # NoJob
<1>1. /\ job[u] = NoJob /\ jobs < cast.jobs /\ jobs' = jobs + 1
      /\ job' = [job EXCEPT ![u] = [kind |-> kind, id |-> jobs + 1, value |-> v]]
      /\ work' = [work EXCEPT ![u] = s]
  BY DEF Start, Free
<1>2. jobs \in Nat /\ cast.jobs \in 0 .. MaxJobs /\ MaxJobs \in Nat /\ work[u] = <<>>
  BY <1>1, DebugFsAssumption, XflowAssumption
     DEF JobInv, DebugFsAssumption, XflowAssumption
<1>3. jobs' \in 1 .. MaxJobs
  BY <1>1, <1>2
<1>4. [kind |-> kind, id |-> jobs + 1, value |-> v] \in Job
  BY <1>1, <1>2, <1>3 DEF Job, Kinds, Ids, Started
<1>5. job'[u] = [kind |-> kind, id |-> jobs + 1, value |-> v]
  BY <1>1 DEF JobInv
<1>6. job'[u].id # NoJob.id
  BY <1>2, <1>5 DEF NoJob
<1> QED BY <1>1, <1>2, <1>3, <1>4, <1>5, <1>6

LEMMA JobStart ==
  ASSUME JobInv, NEW u \in Users, NEW kind \in Started, NEW v \in 0 .. 1, NEW s,
         Start(u, kind, v, s), WorkOK(s, kind), s # <<>>
  PROVE  JobInv'
<1>1. /\ jobs' = jobs + 1 /\ jobs' \in 1 .. MaxJobs /\ jobs \in Nat
      /\ job' = [job EXCEPT ![u] = [kind |-> kind, id |-> jobs + 1, value |-> v]]
      /\ work' = [work EXCEPT ![u] = s]
      /\ job'[u] \in Job /\ job'[u].kind = kind /\ job'[u].id = jobs + 1 /\ job'[u] # NoJob
  BY StartFacts
<1>2. job \in [Users -> Job] /\ work \in [Users -> Seq(Steps)] /\ s \in Seq(Steps)
  BY DEF JobInv, WorkOK, Chained
<1>3. cast' \in Casts /\ jobs' \in 0 .. MaxJobs
  BY <1>1 DEF JobInv, Start
<1>4. \A w \in Users : w # u => job'[w] = job[w] /\ work'[w] = work[w]
  BY <1>1, <1>2
<1>5. work'[u] = s
  BY <1>1, <1>2
<1>6. \A w \in Users : job[w].id \in 0 .. jobs
  <2>1. NoJob.id = 0
    BY DEF NoJob
  <2> QED BY <1>1, <2>1 DEF JobInv
<1>7. \A w \in Users : /\ WorkOK(work'[w], job'[w].kind)
                       /\ job'[w] = NoJob <=> work'[w] = <<>>
                       /\ job'[w] # NoJob => job'[w].id \in 1 .. jobs' /\ job'[w].kind # "none"
  BY <1>1, <1>4, <1>5 DEF JobInv, Started
<1>8. \A x, w \in Users : x # w /\ job'[x] # NoJob => job'[x].id # job'[w].id
  BY <1>1, <1>4, <1>6 DEF JobInv
<1> QED BY <1>1, <1>2, <1>3, <1>7, <1>8 DEF JobInv

LEMMA JobIdle ==
  ASSUME JobInv, UNCHANGED <<cast, job, work>>, jobs' \in Nat, jobs <= jobs', jobs' <= MaxJobs
  PROVE  JobInv'
BY DEF JobInv

(* Who stands where after a step of u.                                      *)
LEMMA AtNext ==
  ASSUME JobInv, NEW u \in Users, work[u] # <<>>, Proceed(u)
  PROVE  /\ \A K : \A v \in Users : v # u => (At(v, K)' <=> At(v, K))
         /\ \A v \in Users : v # u => Now(v)' = Now(v)
         /\ At(u, {"rp"})' => Now(u).kind = "wp" /\ Now(u)'.chip = Now(u).chip
         /\ At(u, {"print"})' => Now(u).kind = "rp" /\ Now(u)'.chip = Now(u).chip
         /\ At(u, {"advance"})' => Now(u).kind = "print" /\ Now(u)'.chip = Now(u).chip
         /\ At(u, {"clear"})' => Now(u).kind = "image"
         /\ At(u, {"order"})' => Now(u).kind = "clear"
         /\ At(u, {"poll"})' => Now(u).kind = "order"
         /\ At(u, {"report"})' => Now(u).kind = "poll"
         /\ At(u, {"ask"})' => Now(u).kind = "pin"
         /\ At(u, {"fetch"})' => Now(u).kind = "ask"
         /\ At(u, {"label"})' => Now(u).kind = "fetch"
         /\ \A K : At(u, K)' => job'[u] = job[u]
<1>1. /\ \A v \in Users : v # u => work'[v] = work[v]
      /\ job'[u] = IF work'[u] = <<>> THEN NoJob ELSE job[u]
      /\ work'[u] # <<>> => Follow(Now(u), Head(work'[u])) /\ Head(work'[u]) \in Steps
  BY ProceedFacts
<1>2. Now(u) \in Steps
  BY NowFacts
<1>3. \A K : \A v \in Users : v # u => (At(v, K)' <=> At(v, K))
  BY <1>1 DEF At, Now
<1>4. \A v \in Users : v # u => Now(v)' = Now(v)
  BY <1>1 DEF Now
<1> DEFINE b == Head(work'[u])
<1>5. Now(u)' = b /\ \A K : At(u, K)' <=> work'[u] # <<>> /\ b.kind \in K
  BY DEF At, Now
<1>6. work'[u] # <<>> =>
         /\ b.kind = "rp" => Now(u).kind = "wp" /\ Now(u).chip = b.chip
         /\ b.kind = "print" => Now(u).kind = "rp" /\ Now(u).chip = b.chip
         /\ b.kind = "advance" => Now(u).kind = "print" /\ Now(u).chip = b.chip
         /\ b.kind = "clear" => Now(u).kind = "image"
         /\ b.kind = "order" => Now(u).kind = "clear"
         /\ b.kind = "poll" => Now(u).kind = "order"
         /\ b.kind = "report" => Now(u).kind = "poll"
         /\ b.kind = "ask" => Now(u).kind = "pin"
         /\ b.kind = "fetch" => Now(u).kind = "ask"
         /\ b.kind = "label" => Now(u).kind = "fetch"
  BY <1>1, <1>2, CameFrom
<1> HIDE DEF b
<1> QED BY <1>1, <1>3, <1>4, <1>5, <1>6

LEMMA AtOne ==
  ASSUME NEW u, NEW K, At(u, K)
  PROVE  work[u] # <<>> /\ Now(u).kind \in K /\ At(u, {Now(u).kind})
BY DEF At

SeenOK == \A u \in Users : At(u, {"rp", "print", "advance"}) => seen[u][1] \in 0 .. LogSize - 1

LEMMA SeenProceed ==
  ASSUME JobInv, SeenOK, NEW u \in Users, work[u] # <<>>, Proceed(u),
         Now(u).kind \notin {"wp", "rp", "print"},
         \A v \in Users : v # u => seen'[v] = seen[v]
  PROVE  SeenOK'
<1> SUFFICES ASSUME NEW v \in Users, At(v, {"rp", "print", "advance"})'
             PROVE  seen'[v][1] \in 0 .. LogSize - 1
  BY DEF SeenOK
<1>1. v # u
  <2> SUFFICES ASSUME v = u PROVE FALSE
    OBVIOUS
  <2>1. At(u, {"rp"})' \/ At(u, {"print"})' \/ At(u, {"advance"})'
    BY DEF At
  <2> QED BY <2>1, AtNext
<1> QED BY <1>1, AtNext DEF SeenOK

LEMMA TypesStart ==
  ASSUME JobInv, FileTypes, NEW u \in Users, NEW kind \in Started, NEW v \in 0 .. 1, NEW s,
         Start(u, kind, v, s), Fresh(s, kind), gpio' = gpio,
         muddled' \subseteq Chips, moved' \subseteq Users, crossed' \subseteq Ids,
         failed' \subseteq Users
  PROVE  FileTypes'
<1>1. /\ UNCHANGED <<seen, slot, pending, throttle, disabled, remote, log, sram, flash>>
      /\ work' = [work EXCEPT ![u] = s]
  BY DEF Start, heatVars
<1>2. work \in [Users -> Seq(Steps)]
  BY DEF JobInv
<1>3. SeenOK'
  <2> SUFFICES ASSUME NEW w \in Users, At(w, {"rp", "print", "advance"})'
               PROVE  seen'[w][1] \in 0 .. LogSize - 1
    BY DEF SeenOK
  <2>1. w # u
    BY <1>1, <1>2 DEF At, Now, Fresh, Fields
  <2>2. At(w, {"rp", "print", "advance"})
    BY <1>1, <1>2, <2>1 DEF At, Now
  <2> QED BY <1>1, <2>2 DEF FileTypes
<1> QED BY <1>1, <1>3 DEF FileTypes, SeenOK

LEMMA TypesGpio ==
  ASSUME JobInv, FileTypes, NEW u \in Users, WriteGpio(u)
  PROVE  FileTypes'
<1>1. /\ UNCHANGED <<work, seen, slot, pending, crossed, throttle, disabled, remote, log,
                     muddled, sram, flash, failed>>
      /\ gpio' \in Pins /\ moved' = moved \cup Working("show")
  BY DEF WriteGpio, slotVars, heatVars, logVars, flashVars
<1>2. moved' \subseteq Users
  BY <1>1 DEF FileTypes, Working
<1>3. \A K : \A v \in Users : At(v, K)' <=> At(v, K)
  BY <1>1 DEF At, Now
<1> QED BY <1>1, <1>2, <1>3 DEF FileTypes

LEMMA TypesSlot ==
  ASSUME JobInv, FileTypes, NEW u \in Users, SlotWrite(u)
  PROVE  FileTypes'
<1> DEFINE c == Now(u).chip
           id == job[u].id
           others == pending[c] \ {id}
<1>1. /\ UNCHANGED <<seen, throttle, disabled, log, muddled, sram, flash, gpio, moved, failed>>
      /\ remote' \in {remote, remote \cup {c}, remote \ {c}}
      /\ At(u, Fields) /\ Proceed(u)
      /\ slot' = [slot EXCEPT ![c][Now(u).kind] = job[u]]
      /\ pending' = [pending EXCEPT ![c] = @ \cup {id}]
      /\ crossed' = IF others = {} THEN crossed ELSE crossed \cup others \cup {id}
  BY DEF SlotWrite, heatVars, logVars, flashVars, gpioVars
<1>2. work[u] # <<>> /\ Now(u).kind \in Fields
  BY <1>1 DEF At
<1>3. c \in Chips /\ job[u] \in Job /\ id \in Ids
  BY <1>2, NowFacts DEF Job
<1>4. slot' \in [Chips -> [Fields -> Job]]
  BY <1>1, <1>2, <1>3 DEF FileTypes
<1>5. pending' \in [Chips -> SUBSET Ids]
  BY <1>1, <1>3 DEF FileTypes
<1>6. crossed' \subseteq Ids
  BY <1>1, <1>3 DEF FileTypes
<1>7. SeenOK'
  <2>1. Now(u).kind \notin {"wp", "rp", "print"}
    BY <1>2 DEF Fields
  <2>2. SeenOK
    BY DEF FileTypes, SeenOK
  <2> QED BY <1>1, <1>2, <2>1, <2>2, SeenProceed
<1>8. remote' \subseteq Chips
  BY <1>1, <1>3 DEF FileTypes
<1> QED BY <1>1, <1>4, <1>5, <1>6, <1>7, <1>8 DEF FileTypes, SeenOK

LEMMA TypesStray ==
  ASSUME JobInv, FileTypes, NEW u \in Users, StrayWrite(u) \/ PointerWrite(u)
  PROVE  FileTypes'
<1> DEFINE c == Now(u).chip
<1>1. /\ UNCHANGED <<seen, pending, throttle, disabled, remote, sram, flash, gpio, moved, failed>>
      /\ work[u] # <<>> /\ Proceed(u) /\ Now(u).kind \in {"stray", "pointer"}
  BY DEF StrayWrite, PointerWrite, At, slotVars, heatVars, flashVars, gpioVars
<1>2. c \in Chips /\ job[u] \in Job
  BY <1>1, NowFacts
<1>3. SeenOK'
  <2>1. SeenOK
    BY DEF FileTypes, SeenOK
  <2> QED BY <1>1, <2>1, SeenProceed
<1>4. slot' \in [Chips -> [Fields -> Job]] /\ crossed' \subseteq Ids
  <2>1. CASE StrayWrite(u)
    <3>1. slot' = [slot EXCEPT ![c].param2 = job[u]]
          /\ crossed' = crossed \cup ({slot[c].param2.id} \cap pending[c])
      BY <2>1 DEF StrayWrite
    <3>2. pending[c] \subseteq Ids /\ crossed \subseteq Ids
      BY <1>2 DEF FileTypes
    <3> QED BY <1>2, <3>1, <3>2 DEF FileTypes, Fields
  <2>2. CASE PointerWrite(u)
    BY <2>2 DEF PointerWrite, slotVars, FileTypes
  <2> QED BY <2>1, <2>2
<1>5. log' \in [Chips -> Log] /\ muddled' \subseteq Chips
  <2>1. CASE StrayWrite(u)
    BY <2>1 DEF StrayWrite, logVars, FileTypes
  <2>2. CASE PointerWrite(u)
    <3>1. PICK p \in 0 .. LogSize - 1 : log' = [log EXCEPT ![c].wp = p]
      BY <2>2 DEF PointerWrite
    <3>2. muddled' = muddled \cup {c}
      BY <2>2 DEF PointerWrite
    <3> QED BY <1>2, <3>1, <3>2 DEF FileTypes, Log
  <2> QED BY <1>1, <2>1, <2>2
<1> QED BY <1>1, <1>3, <1>4, <1>5 DEF FileTypes, SeenOK

(* Steps that touch neither slots nor logs.                                 *)
LEMMA TypesOther ==
  ASSUME JobInv, FileTypes, NEW u \in Users,
         SetFlag(u) \/ FlashStep(u) \/ FlashPoll(u) \/ FlashReport(u) \/ GpioStep(u)
  PROVE  FileTypes'
<1>1. /\ UNCHANGED <<slot, pending, crossed, throttle, remote, log, muddled, flash, gpio, moved>>
      /\ Proceed(u) /\ \A v \in Users : v # u => seen'[v] = seen[v]
      /\ work[u] # <<>> /\ Now(u).kind \notin {"wp", "rp", "print"}
  BY DEF SetFlag, FlashStep, FlashPoll, FlashReport, GpioStep, slotVars, heatVars, logVars,
         flashVars, gpioVars, At, FileTypes
<1>2. SeenOK'
  <2>1. SeenOK
    BY DEF FileTypes, SeenOK
  <2> QED BY <1>1, <2>1, SeenProceed
<1>3. job[u] \in Job /\ job[u].id \in Ids /\ job[u].value \in 0 .. 1
  BY <1>1, NowFacts DEF Job
<1>4. disabled' \in 0 .. 1
  BY <1>3 DEF SetFlag, FlashStep, FlashPoll, FlashReport, GpioStep, heatVars, FileTypes
<1>5. sram' \in [image : Ids, outcome : 0 .. 2, order : BOOLEAN]
  <2>1. sram \in [image : Ids, outcome : 0 .. 2, order : BOOLEAN]
    BY DEF FileTypes
  <2>2. CASE FlashStep(u)
    <3>1. \/ sram' = sram
          \/ sram' = [sram EXCEPT !.image = job[u].id]
          \/ sram' = [sram EXCEPT !.outcome = 0]
          \/ sram' = [sram EXCEPT !.order = TRUE]
      BY <2>2 DEF FlashStep
    <3>2. [sram EXCEPT !.image = job[u].id] \in [image : Ids, outcome : 0 .. 2, order : BOOLEAN]
      BY <1>3, <2>1
    <3>3. [sram EXCEPT !.outcome = 0] \in [image : Ids, outcome : 0 .. 2, order : BOOLEAN]
      BY <2>1
    <3>4. [sram EXCEPT !.order = TRUE] \in [image : Ids, outcome : 0 .. 2, order : BOOLEAN]
      BY <2>1
    <3> QED BY <2>1, <3>1, <3>2, <3>3, <3>4
  <2>3. CASE SetFlag(u) \/ FlashPoll(u) \/ FlashReport(u) \/ GpioStep(u)
    BY <2>1, <2>3 DEF SetFlag, FlashPoll, FlashReport, GpioStep, flashVars
  <2> QED BY <2>2, <2>3
<1>6. seen' \in [Users -> Nat \X Nat]
  <2>1. seen \in [Users -> Nat \X Nat] /\ gpio[1] \in Nat /\ gpio[2] \in Nat
    BY XflowAssumption DEF FileTypes, Pins, XflowAssumption
  <2>2. CASE GpioStep(u)
    BY <2>1, <2>2 DEF GpioStep, AskedChip
  <2>3. CASE SetFlag(u) \/ FlashStep(u) \/ FlashPoll(u) \/ FlashReport(u)
    BY <2>1, <2>3 DEF SetFlag, FlashStep, FlashPoll, FlashReport
  <2> QED BY <2>2, <2>3
<1>7. failed' \subseteq Users
  BY DEF SetFlag, FlashStep, FlashPoll, FlashReport, GpioStep, gpioVars, FileTypes
<1> QED BY <1>1, <1>2, <1>4, <1>5, <1>6, <1>7 DEF FileTypes, SeenOK

LEMMA TypesTimeOut ==
  ASSUME JobInv, FileTypes, NEW u \in Users, FlashTimeOut(u)
  PROVE  FileTypes'
<1>1. /\ UNCHANGED <<slot, pending, crossed, throttle, disabled, remote, log, muddled, sram,
                     flash, gpio, moved, failed, seen>>
      /\ work' = [work EXCEPT ![u] = <<>>]
  BY DEF FlashTimeOut, slotVars, heatVars, logVars, gpioVars, Stop
<1>2. \A K : \A v \in Users : At(v, K)' => At(v, K)
  <2>1. work \in [Users -> Seq(Steps)]
    BY DEF JobInv
  <2> QED BY <1>1, <2>1 DEF At, Now
<1> QED BY <1>1, <1>2 DEF FileTypes

-----------------------------------------------------------------------------
(* The log's indices.                                                       *)
LEMMA ModRange == \A x \in Int : x % LogSize \in 0 .. LogSize - 1
BY DebugFsAssumption DEF DebugFsAssumption

LEMMA ModSame ==
  ASSUME NEW x \in 0 .. LogSize - 1
  PROVE  x % LogSize = x
BY DebugFsAssumption DEF DebugFsAssumption

LEMMA ModOver ==
  ASSUME NEW x \in LogSize .. 2 * LogSize - 1
  PROVE  x % LogSize = x - LogSize
BY DebugFsAssumption DEF DebugFsAssumption

LEMMA ModUnder ==
  ASSUME NEW x \in (-LogSize) .. (-1)
  PROVE  x % LogSize = x + LogSize
BY DebugFsAssumption DEF DebugFsAssumption

LEMMA UnreadType ==
  ASSUME log \in [Chips -> Log], NEW c \in Chips, NEW w \in Nat, NEW r \in Nat
  PROVE  /\ (w - r) % LogSize \in Nat
         /\ Unread(c, w, r) \in Seq(Nat) /\ Len(Unread(c, w, r)) = (w - r) % LogSize
         /\ \A i \in 1 .. (w - r) % LogSize :
              Unread(c, w, r)[i] = log[c].cells[(r + i - 1) % LogSize]
<1> DEFINE n == (w - r) % LogSize
           f == [i \in 1 .. n |-> log[c].cells[(r + i - 1) % LogSize]]
<1>1. n \in Nat
  BY ModRange
<1>2. log[c].cells \in [0 .. LogSize - 1 -> Nat]
  BY DEF Log
<1>3. \A i \in 1 .. n : (r + i - 1) % LogSize \in 0 .. LogSize - 1
  BY <1>1, ModRange
<1>4. \A i \in 1 .. n : f[i] \in Nat /\ f[i] = log[c].cells[(r + i - 1) % LogSize]
  BY <1>2, <1>3
<1>5. Unread(c, w, r) = f /\ f = [i \in 1 .. n |-> f[i]]
  BY DEF Unread
<1> HIDE DEF f, n
<1>6. [i \in 1 .. n |-> f[i]] \in Seq(Nat) /\ Len([i \in 1 .. n |-> f[i]]) = n
  BY <1>1, <1>4
<1>7. f \in Seq(Nat) /\ Len(f) = n
  BY <1>5, <1>6
<1>8. (w - r) % LogSize = n
  BY DEF n
<1> QED BY <1>1, <1>4, <1>5, <1>7, <1>8

LEMMA LogFacts ==
  ASSUME FileTypes, NEW c \in Chips
  PROVE  /\ log \in [Chips -> Log] /\ log[c] \in Log
         /\ log[c].wp \in 0 .. LogSize - 1 /\ log[c].rp \in 0 .. LogSize - 1
         /\ log[c].made \in Nat /\ log[c].cells \in [0 .. LogSize - 1 -> Nat]
         /\ log[c].printed \in Seq(Nat) /\ LogSize \in Nat /\ LogSize > 1
<1>1. log \in [Chips -> Log] /\ LogSize \in Nat /\ LogSize > 1
  BY DebugFsAssumption DEF DebugFsAssumption, FileTypes
<1>2. \A l \in Log : /\ l.wp \in 0 .. LogSize - 1 /\ l.rp \in 0 .. LogSize - 1 /\ l.made \in Nat
                    /\ l.cells \in [0 .. LogSize - 1 -> Nat] /\ l.printed \in Seq(Nat)
  BY DEF Log
<1> QED BY <1>1, <1>2

LEMMA TypesLog ==
  ASSUME JobInv, FileTypes, NEW u \in Users, LogStep(u)
  PROVE  FileTypes'
<1> DEFINE k == Now(u).kind
           c == Now(u).chip
<1>1. /\ UNCHANGED <<slot, pending, crossed, throttle, disabled, remote, muddled, sram, flash,
                     gpio, moved, failed>>
      /\ At(u, {"wp", "rp", "print", "advance"}) /\ Proceed(u)
      /\ seen' = IF k = "wp" THEN [seen EXCEPT ![u][1] = log[c].wp]
                 ELSE IF k = "rp" THEN [seen EXCEPT ![u][2] = log[c].rp] ELSE seen
      /\ log' = IF k = "print"
                THEN [log EXCEPT ![c].printed = @ \o Unread(c, seen[u][1], seen[u][2])]
                ELSE IF k = "advance" THEN [log EXCEPT ![c].rp = NewRp(u, c)] ELSE log
  BY DEF LogStep, slotVars, heatVars, flashVars, gpioVars
<1>2. work[u] # <<>> /\ k \in {"wp", "rp", "print", "advance"} /\ At(u, {k})
  BY <1>1, AtOne
<1>3. c \in Chips
  BY <1>2, NowFacts
<1>4. /\ log \in [Chips -> Log] /\ log[c] \in Log
      /\ log[c].wp \in 0 .. LogSize - 1 /\ log[c].rp \in 0 .. LogSize - 1
      /\ log[c].printed \in Seq(Nat) /\ LogSize \in Nat
  BY <1>3, LogFacts
<1>5. seen \in [Users -> Nat \X Nat] /\ seen[u][1] \in Nat /\ seen[u][2] \in Nat /\ SeenOK
  BY DEF FileTypes, SeenOK
<1>6. seen' \in [Users -> Nat \X Nat]
  BY <1>1, <1>4, <1>5
<1>7. log' \in [Chips -> Log]
  <2>1. Unread(c, seen[u][1], seen[u][2]) \in Seq(Nat)
    BY <1>3, <1>4, <1>5, UnreadType
  <2>2. log[c].printed \o Unread(c, seen[u][1], seen[u][2]) \in Seq(Nat)
    BY <1>4, <2>1
  <2>3. CASE k = "print"
    BY <1>1, <1>4, <2>2, <2>3 DEF Log
  <2>4. CASE k = "advance"
    <3>1. seen[u][1] \in 0 .. LogSize - 1
      BY <1>2, <1>5, <2>4 DEF SeenOK, At
    <3> QED BY <1>1, <1>4, <2>4, <3>1 DEF Log, NewRp
  <2>5. CASE k \notin {"print", "advance"}
    BY <1>1, <1>4, <2>5
  <2> QED BY <2>3, <2>4, <2>5
<1>8. SeenOK'
  <2> SUFFICES ASSUME NEW v \in Users, At(v, {"rp", "print", "advance"})'
               PROVE  seen'[v][1] \in 0 .. LogSize - 1
    BY DEF SeenOK
  <2>1. CASE v # u
    <3>1. seen'[v] = seen[v]
      BY <1>1, <1>5, <2>1
    <3> QED BY <1>1, <1>2, <1>5, <2>1, <3>1, AtNext DEF SeenOK
  <2>2. CASE v = u
    <3>1. k \in {"wp", "rp", "print"}
      <4>1. At(u, {"rp"})' \/ At(u, {"print"})' \/ At(u, {"advance"})'
        BY <2>2 DEF At
      <4> QED BY <1>1, <1>2, <4>1, AtNext
    <3>2. CASE k = "wp"
      BY <1>1, <1>4, <1>5, <2>2, <3>2
    <3>3. CASE k \in {"rp", "print"}
      <4>1. seen[u][1] \in 0 .. LogSize - 1
        BY <1>2, <1>5, <3>3 DEF SeenOK, At
      <4> QED BY <1>1, <1>5, <2>2, <3>3, <4>1
    <3> QED BY <3>1, <3>2, <3>3
  <2> QED BY <2>1, <2>2
<1> QED BY <1>1, <1>6, <1>7, <1>8 DEF FileTypes, SeenOK

(* The firmware and the register calls.                                     *)
LEMMA LoggedType ==
  ASSUME FileTypes, NEW c \in Chips
  PROVE  Logged(c) \in Log
<1>1. /\ log[c] \in Log /\ log[c].wp \in 0 .. LogSize - 1 /\ log[c].made \in Nat
      /\ log[c].rp \in 0 .. LogSize - 1 /\ log[c].printed \in Seq(Nat)
      /\ log[c].cells \in [0 .. LogSize - 1 -> Nat] /\ LogSize \in Nat
  BY LogFacts
<1> DEFINE l == log[c]
           next == (l.wp + 1) % LogSize
           e == [l.cells EXCEPT ![l.wp] = l.made + 1]
<1>2. next \in 0 .. LogSize - 1
  <2>1. l.wp + 1 \in Int
    BY <1>1
  <2> QED BY <2>1, ModRange
<1>3. e \in [0 .. LogSize - 1 -> Nat]
  <2>1. \A S : \A f \in [S -> Nat], x \in S, y \in Nat : [f EXCEPT ![x] = y] \in [S -> Nat]
    OBVIOUS
  <2>2. l.made + 1 \in Nat
    BY <1>1
  <2> QED BY <1>1, <2>1, <2>2
<1>4. \A r \in Log :
        /\ \A f \in [0 .. LogSize - 1 -> Nat] : [r EXCEPT !.cells = f] \in Log
        /\ \A w \in 0 .. LogSize - 1 : [r EXCEPT !.wp = w] \in Log
        /\ \A m \in Nat : [r EXCEPT !.made = m] \in Log
  BY DEF Log
<1>5. l.made + 1 \in Nat /\ l \in Log
  BY <1>1
<1> DEFINE r1 == [l EXCEPT !.cells = e]
           r2 == [r1 EXCEPT !.wp = next]
           r3 == [r2 EXCEPT !.made = l.made + 1]
<1>6. [l EXCEPT !.cells[l.wp] = l.made + 1, !.wp = next, !.made = @ + 1] = r3
  OBVIOUS
<1> HIDE DEF next, e
<1>7. r1 \in Log
  BY <1>3, <1>4, <1>5
<1>8. r2 \in Log
  BY <1>2, <1>4, <1>7
<1>9. r3 \in Log
  BY <1>4, <1>5, <1>8
<1> QED BY <1>1, <1>6, <1>9 DEF Logged, next

LEMMA TypesFirmware ==
  ASSUME JobInv, FileTypes, (\E c \in Chips : FwTake(c)) \/ FwFlash
  PROVE  FileTypes'
<1>1. ASSUME NEW c \in Chips, FwTake(c)
      PROVE  FileTypes'
  <2>1. /\ UNCHANGED <<work, seen, crossed, disabled, remote, muddled, sram, flash, gpio, moved,
                       failed>>
        /\ slot' = [slot EXCEPT ![c].command = NoJob]
        /\ throttle' = IF slot[c].command.kind \in Heats
                       THEN [throttle EXCEPT ![c] = slot[c].param.value] ELSE throttle
        /\ log' = [log EXCEPT ![c] = Logged(c)]
    BY <1>1 DEF FwTake, flashVars, gpioVars
  <2>2. pending' = [pending EXCEPT ![c] = {job[u].id : u \in
                    {w \in Users : /\ job[w].id \in pending[c]
                                   /\ \E i \in DOMAIN work[w] :
                                        work[w][i].kind \in Fields /\ work[w][i].chip = c}}]
    BY <1>1 DEF FwTake
  <2>3. slot' \in [Chips -> [Fields -> Job]]
    BY <2>1, NoJobFacts DEF FileTypes, Fields
  <2>4. throttle' \in [Chips -> 0 .. 1]
    BY <2>1 DEF FileTypes, Fields, Job
  <2>5. log' \in [Chips -> Log]
    BY <2>1, LoggedType DEF FileTypes
  <2>6. pending' \in [Chips -> SUBSET Ids]
    BY <2>2 DEF FileTypes
  <2>7. \A K : \A v \in Users : At(v, K)' <=> At(v, K)
    BY <2>1 DEF At, Now
  <2> QED BY <2>1, <2>3, <2>4, <2>5, <2>6, <2>7 DEF FileTypes
<1>2. CASE FwFlash
  <2>1. /\ UNCHANGED <<work, seen, slot, pending, crossed, throttle, disabled, remote, log,
                       muddled, gpio, moved, failed>>
    BY <1>2 DEF FwFlash, slotVars, heatVars, logVars, gpioVars
  <2>2. 0 \in Ids
    BY XflowAssumption DEF XflowAssumption, Ids
  <2>3. flash' \in Ids /\ sram' \in [image : Ids, outcome : 0 .. 2, order : BOOLEAN]
    <3> DEFINE R == [image : Ids, outcome : 0 .. 2, order : BOOLEAN]
    <3>1. PICK o \in 1 .. 2 : /\ flash' = IF o = 1 THEN sram.image ELSE 0
                              /\ sram' = [sram EXCEPT !.order = FALSE, !.outcome = o]
      BY <1>2 DEF FwFlash
    <3>2. sram \in R /\ sram.image \in Ids
      BY DEF FileTypes
    <3>3. [sram EXCEPT !.order = FALSE] \in R
      BY <3>2
    <3>4. \A r \in R : \A x \in 0 .. 2 : [r EXCEPT !.outcome = x] \in R
      OBVIOUS
    <3>5. sram' = [[sram EXCEPT !.order = FALSE] EXCEPT !.outcome = o] /\ o \in 0 .. 2
      BY <3>1
    <3>6. sram' \in R
      BY <3>3, <3>4, <3>5
    <3> QED BY <2>2, <3>1, <3>2, <3>6
  <2>4. \A K : \A v \in Users : At(v, K)' <=> At(v, K)
    BY <2>1 DEF At, Now
  <2> QED BY <2>1, <2>3, <2>4 DEF FileTypes
<1> QED BY <1>1, <1>2

LEMMA TypesRegister ==
  ASSUME JobInv, FileTypes, RegisterCalls
  PROVE  FileTypes'
<1>1. /\ UNCHANGED <<job, work, seen, slot, pending, crossed, throttle, disabled, remote, sram,
                     flash, gpio, moved, failed>>
      /\ log' = [c \in Chips |->
                  IF c \in Emptied
                  THEN [log[c] EXCEPT !.wp = 0, !.rp = 0, !.made = 0, !.printed = <<>>]
                  ELSE log[c]]
      /\ muddled' = muddled \cup {Now(w).chip : w \in {v \in Working("fwlog") :
                                                        Now(v).chip \in Emptied}}
  BY DEF RegisterCalls, slotVars, heatVars, flashVars, gpioVars
<1>2. ASSUME NEW c \in Chips
      PROVE  [log[c] EXCEPT !.wp = 0, !.rp = 0, !.made = 0, !.printed = <<>>] \in Log
  <2>1. log[c] \in Log /\ LogSize \in Nat /\ LogSize > 1
    BY LogFacts
  <2>2. 0 \in 0 .. LogSize - 1 /\ <<>> \in Seq(Nat)
    BY <2>1
  <2> QED BY <2>1, <2>2 DEF Log
<1>3. log' \in [Chips -> Log]
  BY <1>1, <1>2 DEF FileTypes
<1>4. muddled' \subseteq Chips
  BY <1>1 DEF FileTypes, Emptied
<1>5. \A K : \A v \in Users : At(v, K)' <=> At(v, K)
  BY <1>1 DEF At, Now
<1> QED BY <1>1, <1>3, <1>4, <1>5 DEF FileTypes

-----------------------------------------------------------------------------
(* All of it together.                                                      *)
TypeInv == XTypeInv /\ WinInv /\ JobInv /\ FileTypes

Starting(u) ==
  WriteCmd(u) \/ WriteThermal(u) \/ WriteFwlog(u) \/ ReadUpdateFlash(u) \/ ReadGpio(u)

LEMMA StartingTypes ==
  ASSUME JobInv, FileTypes, NEW u \in Users, Starting(u)
  PROVE  JobInv' /\ FileTypes'
<1>1. PICK kind \in Started, v \in 0 .. 1 : \E s : Start(u, kind, v, s) /\ Fresh(s, kind)
  BY Starters DEF Starting
<1>2. PICK s : Start(u, kind, v, s) /\ Fresh(s, kind)
  BY <1>1
<1>3. JobInv'
  BY <1>2, JobStart DEF Fresh
<1>4. gpio' = gpio
  BY DEF Starting, WriteCmd, WriteThermal, WriteFwlog, ReadUpdateFlash, ReadGpio, gpioVars
<1>5. jobs' \in Ids /\ \A w \in Users : job[w].id \in Ids
  BY <1>2, StartFacts DEF JobInv, Job, Ids
<1>6. crossed' \subseteq Ids
  <2>1. crossed \subseteq Ids /\ {job[w].id : w \in Working("thermal")} \subseteq Ids
    BY <1>5 DEF FileTypes, Working
  <2>2. \/ crossed' = crossed
        \/ crossed' = crossed \cup {jobs'} \cup {job[w].id : w \in Working("thermal")}
    BY DEF Starting, WriteCmd, WriteThermal, WriteFwlog, ReadUpdateFlash, ReadGpio
  <2> QED BY <1>5, <2>1, <2>2
<1>7. muddled' \subseteq Chips
  BY DEF Starting, WriteCmd, WriteThermal, WriteFwlog, ReadUpdateFlash, ReadGpio, FileTypes
<1>8. moved' \subseteq Users /\ failed' \subseteq Users
  BY DEF Starting, WriteCmd, WriteThermal, WriteFwlog, ReadUpdateFlash, ReadGpio, FileTypes,
         gpioVars
<1> QED BY <1>2, <1>3, <1>4, <1>6, <1>7, <1>8, TypesStart

LEMMA HandlerTypes ==
  ASSUME JobInv, FileTypes, NEW u \in Users, Handler(u)
  PROVE  JobInv' /\ FileTypes'
<1>1. CASE Starting(u)
  BY <1>1, StartingTypes
<1>2. CASE WriteGpio(u)
  <2>1. UNCHANGED <<cast, job, work>> /\ jobs' = jobs + 1 /\ jobs < cast.jobs
    BY <1>2 DEF WriteGpio
  <2>2. jobs \in Nat /\ cast.jobs \in 0 .. MaxJobs /\ MaxJobs \in Nat
    BY DebugFsAssumption, XflowAssumption DEF JobInv, DebugFsAssumption, XflowAssumption
  <2>3. jobs' \in Nat /\ jobs <= jobs' /\ jobs' <= MaxJobs
    BY <2>1, <2>2
  <2> QED BY <1>2, <2>1, <2>3, JobIdle, TypesGpio
<1>3. CASE SlotWrite(u) \/ LogStep(u) \/ SetFlag(u) \/ FlashStep(u) \/ FlashPoll(u)
             \/ FlashReport(u) \/ GpioStep(u) \/ StrayWrite(u) \/ PointerWrite(u)
  <2>1. work[u] # <<>> /\ Proceed(u) /\ UNCHANGED <<cast, jobs>>
    BY <1>3 DEF SlotWrite, LogStep, SetFlag, FlashStep, FlashPoll, FlashReport, GpioStep,
                StrayWrite, PointerWrite, At, xvars
  <2>2. JobInv'
    BY <2>1, JobProceed
  <2> QED BY <1>3, <2>2, TypesSlot, TypesLog, TypesOther, TypesStray
<1>4. CASE FlashTimeOut(u)
  <2>1. Stop(u) /\ UNCHANGED <<cast, jobs>>
    BY <1>4 DEF FlashTimeOut, xvars
  <2> QED BY <1>4, <2>1, JobStop, TypesTimeOut
<1> QED BY <1>1, <1>2, <1>3, <1>4 DEF Handler, Starting

LEMMA HandlerRegisters ==
  ASSUME NEW u \in Users, Handler(u)
  PROVE  UNCHANGED <<mode, gone, reg, box, call, got, spoilt, left>>
BY DEF Handler, WriteCmd, WriteThermal, WriteFwlog, ReadUpdateFlash, WriteGpio, ReadGpio,
       SlotWrite, StrayWrite, PointerWrite, SetFlag, LogStep, FlashStep, FlashPoll, FlashTimeOut,
       FlashReport, GpioStep,
       Start, xvars, windows

LEMMA DNextWindows == [DNext]_vars => XStep
<1> SUFFICES ASSUME [DNext]_vars PROVE XStep
  OBVIOUS
<1>1. CASE \E u \in Users : Handler(u)
  BY <1>1, HandlerStep DEF XStep
<1>2. CASE (\E c \in Chips : FwTake(c)) \/ FwFlash
  BY <1>2 DEF FwTake, FwFlash, xvars, winVars, windows, XStep
<1>3. CASE RegisterCalls
  BY <1>3 DEF RegisterCalls, XStep
<1>4. CASE UNCHANGED vars
  BY <1>4 DEF vars, xvars, winVars, windows, XStep
<1> QED BY <1>1, <1>2, <1>3, <1>4 DEF DNext

LEMMA RegisterTypes ==
  ASSUME TypeInv, RegisterCalls
  PROVE  XTypeInv' /\ JobInv' /\ FileTypes'
<1>1. UNCHANGED <<cast, job, work>>
  BY DEF RegisterCalls
<1>2. XTypeInv' /\ (jobs' = jobs \/ (jobs < cast.jobs /\ jobs' = jobs + 1))
  <2>1. ASSUME NEW u \in Users, Access(u)
        PROVE  XTypeInv' /\ jobs' = jobs
    <3>1. XTypeInv'
      BY <2>1, XTypeAccess DEF TypeInv
    <3>2. jobs' = jobs
      BY <2>1 DEF Access, Write, Read, Post, Completed, Fetch, Return, TimeOut, Leave
    <3> QED BY <3>1, <3>2
  <2>2. ASSUME NEW u \in Users, NEW k \in XCalls, Begin(u, k), jobs < cast.jobs
        PROVE  XTypeInv' /\ jobs < cast.jobs /\ jobs' = jobs + 1
    BY <2>2, XTypeBegin DEF TypeInv, Begin
  <2>3. CASE Execute \/ Unplug
    BY <2>3, XTypeFirmware DEF TypeInv, Execute, Unplug
  <2> QED BY <2>1, <2>2, <2>3 DEF RegisterCalls
<1>3. jobs' \in Nat /\ jobs <= jobs' /\ jobs' <= MaxJobs
  <2>1. jobs \in 0 .. MaxJobs /\ cast.jobs \in 0 .. MaxJobs /\ MaxJobs \in Nat
    BY DebugFsAssumption, XflowAssumption
       DEF TypeInv, JobInv, DebugFsAssumption, XflowAssumption
  <2> QED BY <1>2, <2>1
<1> QED BY <1>1, <1>2, <1>3, JobIdle, TypesRegister DEF TypeInv

LEMMA Unmoved ==
  ASSUME UNCHANGED vars
  PROVE  /\ UNCHANGED <<mode, gone, reg, ctl, base, box, call, todo, got, jobs, spoilt, left>>
         /\ UNCHANGED <<cast, job, work, seen, slot, pending, crossed, throttle, disabled, remote,
                        log, muddled, sram, flash, flashSpoilt, gpio, moved, failed>>
BY DEF vars, xvars, dvars, windows, slotVars, heatVars, logVars, flashVars, gpioVars

LEMMA TypeNext == TypeInv /\ [DNext]_vars => TypeInv'
<1> SUFFICES ASSUME TypeInv, [DNext]_vars PROVE TypeInv'
  OBVIOUS
<1>1. WinInv'
  BY DNextWindows, WinStep DEF TypeInv
<1>2. ASSUME NEW u \in Users, Handler(u)
      PROVE  XTypeInv' /\ JobInv' /\ FileTypes'
  <2>1. XTypeInv'
    BY <1>2, HandlerRegisters, XTypeStutter DEF TypeInv
  <2> QED BY <1>2, <2>1, HandlerTypes DEF TypeInv
<1>3. CASE (\E c \in Chips : FwTake(c)) \/ FwFlash
  <2>1. UNCHANGED xvars /\ UNCHANGED <<cast, job, work>>
    BY <1>3 DEF FwTake, FwFlash
  <2>2. UNCHANGED <<mode, gone, reg, box, call, got, spoilt, left>> /\ jobs' = jobs
    BY <2>1 DEF xvars
  <2>3. JobInv'
    BY <2>1, <2>2 DEF TypeInv, JobInv
  <2>4. XTypeInv' /\ FileTypes'
    BY <1>3, <2>2, XTypeStutter, TypesFirmware DEF TypeInv
  <2> QED BY <1>1, <2>3, <2>4 DEF TypeInv
<1>4. CASE RegisterCalls
  BY <1>1, <1>4, RegisterTypes DEF TypeInv
<1>5. CASE UNCHANGED vars
  <2>1. XTypeInv'
    BY <1>5, Unmoved, XTypeStutter DEF TypeInv
  <2>2. JobInv'
    BY <1>5, Unmoved DEF TypeInv, JobInv
  <2>3. FileTypes'
    BY <1>5, Unmoved DEF TypeInv, FileTypes, At, Now
  <2> QED BY <1>1, <2>1, <2>2, <2>3 DEF TypeInv
<1> QED BY <1>1, <1>2, <1>3, <1>4, <1>5 DEF TypeInv, DNext

LEMMA TypeInit == DInit => TypeInv
<1> SUFFICES ASSUME DInit PROVE TypeInv
  OBVIOUS
<1>1. XTypeInv /\ WinInv
  BY XTypeInit, InitWin DEF DInit
<1>2. /\ job = [u \in Users |-> NoJob] /\ work = [u \in Users |-> <<>>]
      /\ jobs = 0 /\ cast \in Casts
  BY DEF DInit, XInit
<1>3. MaxJobs \in Nat /\ LogSize \in Nat /\ LogSize > 1 /\ 0 \in Chips /\ MaxChip \in Nat
  BY ChipsFacts, XflowAssumption, DebugFsAssumption DEF XflowAssumption, DebugFsAssumption
<1>4. JobInv
  BY <1>2, <1>3, NoJobFacts, NoWork DEF JobInv
<1>5. seen = [u \in Users |-> <<0, 0>>] /\ seen \in [Users -> Nat \X Nat]
  BY DEF DInit
<1>6. \A K : \A u \in Users : ~At(u, K)
  BY <1>2 DEF At
<1>7. slot \in [Chips -> [Fields -> Job]]
  BY NoJobFacts DEF DInit
<1>8. log \in [Chips -> Log]
  <2> DEFINE p == IF "fwlog" \in cast.kinds THEN LogSize - 1 ELSE 0
             e == [wp |-> p, rp |-> p, made |-> 0, cells |-> [i \in 0 .. LogSize - 1 |-> 0],
                   printed |-> <<>>]
  <2>1. log = [c \in Chips |-> e]
    BY DEF DInit
  <2>2. p \in 0 .. LogSize - 1 /\ [i \in 0 .. LogSize - 1 |-> 0] \in [0 .. LogSize - 1 -> Nat]
        /\ <<>> \in Seq(Nat)
    BY <1>3
  <2> HIDE DEF p
  <2>3. e \in Log
    BY <2>2 DEF Log
  <2> QED BY <2>1, <2>3
<1>9. /\ throttle \in [Chips -> 0 .. 1] /\ disabled \in 0 .. 1 /\ muddled \subseteq Chips
      /\ sram \in [image : Ids, outcome : 0 .. 2, order : BOOLEAN] /\ flash \in Ids
      /\ gpio \in Pins /\ moved \subseteq Users /\ failed \subseteq Users /\ remote \subseteq Chips
      /\ pending \in [Chips -> SUBSET Ids] /\ crossed \subseteq Ids
  BY <1>3 DEF DInit, Ids, Pins
<1>10. FileTypes
  BY <1>5, <1>6, <1>7, <1>8, <1>9 DEF FileTypes
<1> QED BY <1>1, <1>4, <1>10 DEF TypeInv

LEMMA TypesHold == TypeInv => TypeOK
<1> SUFFICES ASSUME TypeInv PROVE TypeOK
  OBVIOUS
<1>1. XTypeOK
  BY DEF TypeInv, XTypeInv, WinInv, Shapes, JobInv, XTypeOK
<1>2. FileTypes /\ JobInv
  BY DEF TypeInv
<1> QED BY <1>1, <1>2 DEF FileTypes, JobInv, TypeOK

(* Types, of the registers and of the files: the steps that a job has left  *)
(* are never of a kind its file has not, ids stay below the jobs begun, and *)
(* the indices of the log stay in it (memx_fs.c, memx_fw_log.c).            *)
THEOREM TypeCorrect == DSpec => []TypeOK
BY TypeInit, TypeNext, TypesHold, PTL DEF DSpec

-----------------------------------------------------------------------------
(* Commands: what of a program is left, and what is in the slots.           *)
LEMMA UsesFields == \A kind : Uses(kind) \subseteq {"param", "param2"} /\ Uses(kind) \subseteq Fields
BY DEF Uses, Fields

LEMMA LeftJob ==
  ASSUME JobInv, NEW u \in Users, NEW f, NEW c, Left(u, f, c)
  PROVE  /\ work[u] # <<>> /\ job[u] # NoJob /\ job[u].id \in 1 .. jobs
         /\ \A v \in Users : v # u => job[v].id # job[u].id
<1>1. work[u] # <<>>
  BY DEF Left
<1> QED BY <1>1 DEF JobInv

LEMMA LeftNow ==
  ASSUME JobInv, NEW u \in Users, work[u] # <<>>
  PROVE  Left(u, Now(u).kind, Now(u).chip)
BY NowFacts DEF Left

LEMMA LeftNext ==
  ASSUME JobInv, NEW u \in Users, work[u] # <<>>, Proceed(u)
  PROVE  /\ \A f \in Fields, c \in Chips : \A v \in Users : v # u => (Left(v, f, c)' <=> Left(v, f, c))
         /\ \A f \in Fields, c \in Chips : Left(u, f, c)' => Left(u, f, c) /\ job'[u] = job[u]
         /\ \A f \in Fields, c \in Chips : Left(u, f, c) => Left(u, f, c)' \/ Now(u) = Step(f, c)
<1>1. /\ \A v \in Users : v # u => work'[v] = work[v]
      /\ work'[u] = Tail(work[u]) /\ job'[u] = IF work'[u] = <<>> THEN NoJob ELSE job[u]
  BY ProceedFacts
<1>2. work[u] \in Seq(Steps)
  BY DEF JobInv
<1>3. /\ Now(u) = work[u][1]
      /\ \A i \in DOMAIN Tail(work[u]) : i + 1 \in DOMAIN work[u] /\ Tail(work[u])[i] = work[u][i + 1]
      /\ \A i \in DOMAIN work[u] : i # 1 => i - 1 \in DOMAIN Tail(work[u])
                                            /\ Tail(work[u])[i - 1] = work[u][i]
  BY <1>2, TailFacts DEF Now
<1>4. \A f \in Fields, c \in Chips : \A v \in Users : v # u => (Left(v, f, c)' <=> Left(v, f, c))
  BY <1>1 DEF Left
<1>5. ASSUME NEW f \in Fields, NEW c \in Chips, Left(u, f, c)'
      PROVE  Left(u, f, c) /\ job'[u] = job[u]
  <2>1. PICK i \in DOMAIN work'[u] : work'[u][i] = Step(f, c)
    BY <1>5 DEF Left
  <2>2. work'[u] # <<>>
    BY <2>1
  <2> QED BY <1>1, <1>3, <2>1, <2>2 DEF Left
<1>6. ASSUME NEW f \in Fields, NEW c \in Chips, Left(u, f, c)
      PROVE  Left(u, f, c)' \/ Now(u) = Step(f, c)
  <2>1. PICK i \in DOMAIN work[u] : work[u][i] = Step(f, c)
    BY <1>6 DEF Left
  <2>2. CASE i = 1
    BY <1>3, <2>1, <2>2
  <2>3. CASE i # 1
    BY <1>1, <1>3, <2>1, <2>3 DEF Left
  <2> QED BY <2>2, <2>3
<1> QED BY <1>4, <1>5, <1>6

(* No word for a chip is left behind its command.                           *)
LEMMA NothingBehind ==
  ASSUME JobInv, NEW u \in Users, work[u] # <<>>, Now(u).kind = "command",
         NEW f \in Fields
  PROVE  /\ f # "command" => ~Left(u, f, Now(u).chip)
         /\ \A i \in DOMAIN work[u] : i # 1 => work[u][i] # Step(f, Now(u).chip)
<1>1. Chained(work[u]) /\ work[u] \in Seq(Steps) /\ Now(u) = work[u][1] /\ 1 \in DOMAIN work[u]
  BY NowFacts DEF JobInv, WorkOK
<1>2. ASSUME NEW i \in DOMAIN work[u], i # 1, work[u][i] = Step(f, Now(u).chip)
      PROVE  FALSE
  <2>1. 1 < i
    BY <1>1, <1>2
  <2>2. work[u][i].kind \in Fields /\ work[u][i].chip = Now(u).chip
    BY <1>2 DEF Step
  <2> QED BY <1>1, <2>1, <2>2 DEF Chained
<1>3. f # "command" => work[u][1] # Step(f, Now(u).chip)
  BY <1>1 DEF Step
<1> QED BY <1>2, <1>3 DEF Left

LEMMA SlotJob ==
  ASSUME FileTypes, NEW c \in Chips
  PROVE  /\ \A f \in Fields : slot[c][f] \in Job
         /\ slot[c].command \in Job /\ slot[c].command.id \in Nat
<1>1. \A f \in Fields : slot[c][f] \in Job
  BY DEF FileTypes
<1>2. slot[c].command \in Job
  BY <1>1 DEF Fields
<1>3. \A j \in Job : j.id \in Nat
  BY XflowAssumption DEF XflowAssumption, Job, Ids
<1> QED BY <1>1, <1>2, <1>3

(* A step that leaves the slots alone, begins jobs with all their words or  *)
(* takes others on by steps that are no words.                              *)
LEMMA SlotKept ==
  ASSUME JobInv, FileTypes, SlotInv, UNCHANGED <<slot, pending>>, crossed \subseteq crossed',
         crossed' \subseteq 1 .. jobs', jobs' \in Nat, jobs <= jobs',
         \A f \in Fields, c \in Chips : \A v \in Users : Left(v, f, c)' =>
            \/ Left(v, f, c) /\ job'[v] = job[v]
            \/ /\ job'[v].id = jobs + 1
               /\ f = "command" => \A g \in Uses(job'[v].kind) : Left(v, g, c)',
         \A f \in Fields, c \in Chips : \A v \in Users :
            Left(v, f, c) => Left(v, f, c)' \/ work'[v] = <<>>,
         \A v \in Users : At(v, Fields) => /\ At(v, Fields)' /\ Now(v)' = Now(v)
                                           /\ job'[v] = job[v]
  PROVE  SlotInv'
<1>1. jobs \in Nat
  BY XflowAssumption DEF JobInv, XflowAssumption
<1>2. KnownIds'
  <2>1. \A c \in Chips : pending[c] \subseteq 1 .. jobs'
    BY <1>1 DEF SlotInv, KnownIds
  <2>2. KnownIds
    BY DEF SlotInv
  <2>3. ASSUME NEW c \in Chips PROVE slot[c].command.id <= jobs'
    <3>1. slot[c].command.id <= jobs /\ slot[c].command.id \in Nat
      BY <2>2, SlotJob DEF KnownIds
    <3> QED BY <1>1, <3>1
  <2> QED BY <2>1, <2>3 DEF KnownIds
<1>3. Met' /\ CommandPends'
  BY DEF SlotInv, Met, CommandPends
<1>4. NotSentYet'
  <2> SUFFICES ASSUME NEW v \in Users, NEW c \in Chips, NEW f \in Fields, Left(v, f, c)'
               PROVE  slot[c].command.id # job'[v].id
    BY DEF NotSentYet
  <2>1. CASE Left(v, f, c) /\ job'[v] = job[v]
    BY <2>1 DEF SlotInv, NotSentYet
  <2>2. CASE job'[v].id = jobs + 1
    <3>1. slot[c].command.id <= jobs /\ slot[c].command.id \in Nat
      BY SlotJob DEF SlotInv, KnownIds
    <3> QED BY <1>1, <2>2, <3>1
  <2> QED BY <2>1, <2>2
<1>5. WordsReady'
  <2> SUFFICES ASSUME NEW v \in Users, NEW c \in Chips, Left(v, "command", c)',
                      NEW g \in Uses(job'[v].kind)
               PROVE  \/ Left(v, g, c)'
                      \/ slot[c][g] = job'[v] /\ job'[v].id \in pending[c]
                      \/ job'[v].id \in crossed'
    BY DEF WordsReady
  <2>1. "command" \in Fields /\ g \in Fields
    BY UsesFields DEF Fields
  <2>0. work'[v] # <<>>
    BY DEF Left
  <2>2. CASE Left(v, "command", c) /\ job'[v] = job[v]
    BY <2>0, <2>1, <2>2 DEF SlotInv, WordsReady
  <2>3. CASE \A h \in Uses(job'[v].kind) : Left(v, h, c)'
    BY <2>3
  <2> QED BY <2>1, <2>2, <2>3
<1>6. CommandIsWhole'
  <2> SUFFICES ASSUME NEW c \in Chips
               PROVE  /\ (slot[c].command # NoJob /\ slot[c].command.id \notin crossed') =>
                           \A f \in Uses(slot[c].command.kind) : slot[c][f] = slot[c].command
                      /\ \A id \in pending[c] \ crossed' :
                           \/ slot[c].command.id = id
                           \/ \E u \in Users : /\ job'[u].id = id /\ At(u, Fields)'
                                               /\ Now(u)'.chip = c
    BY DEF CommandIsWhole
  <2>1. CommandIsWhole
    BY DEF SlotInv
  <2>2. ASSUME NEW id \in pending[c] \ crossed', slot[c].command.id # id
        PROVE  \E u \in Users : job'[u].id = id /\ At(u, Fields)' /\ Now(u)'.chip = c
    <3>1. PICK u \in Users : job[u].id = id /\ At(u, Fields) /\ Now(u).chip = c
      BY <2>1, <2>2 DEF CommandIsWhole
    <3> QED BY <3>1
  <2> QED BY <2>1, <2>2 DEF CommandIsWhole
<1> QED BY <1>2, <1>3, <1>4, <1>5, <1>6 DEF SlotInv

LEMMA SlotStarting ==
  ASSUME JobInv, FileTypes, SlotInv, NEW u \in Users, Starting(u)
  PROVE  SlotInv'
<1>1. PICK kind \in Started, v \in 0 .. 1 : \E s : Start(u, kind, v, s) /\ Fresh(s, kind)
  BY Starters DEF Starting
<1>2. PICK s : Start(u, kind, v, s) /\ Fresh(s, kind)
  BY <1>1
<1>3. /\ jobs' = jobs + 1 /\ jobs \in Nat /\ jobs' \in Nat
      /\ job[u] = NoJob /\ work[u] = <<>> /\ job'[u].kind = kind /\ job'[u].id = jobs + 1
      /\ job' = [job EXCEPT ![u] = [kind |-> kind, id |-> jobs + 1, value |-> v]]
      /\ work' = [work EXCEPT ![u] = s]
  BY <1>2, StartFacts
<1>4. job \in [Users -> Job] /\ work \in [Users -> Seq(Steps)]
  BY DEF JobInv
<1>5. work'[u] = s /\ \A w \in Users : w # u => work'[w] = work[w] /\ job'[w] = job[w]
  BY <1>3, <1>4
<1>6. UNCHANGED <<slot, pending>>
  BY <1>2 DEF Start
<1>7. crossed \subseteq crossed' /\ crossed' \subseteq 1 .. jobs'
  <2>1. crossed \subseteq 1 .. jobs
    BY DEF SlotInv, KnownIds
  <2>2. \A w \in Working("thermal") : job[w].id \in 1 .. jobs
    <3>1. \A w \in Working("thermal") : w \in Users /\ job[w].kind = "thermal"
      BY DEF Working
    <3> QED BY <3>1, NoJobFacts DEF JobInv
  <2>3. \/ crossed' = crossed
        \/ crossed' = crossed \cup {jobs'} \cup {job[w].id : w \in Working("thermal")}
    BY DEF Starting, WriteCmd, WriteThermal, WriteFwlog, ReadUpdateFlash, ReadGpio
  <2>4. {job[w].id : w \in Working("thermal")} \subseteq 1 .. jobs
    BY <2>2
  <2>5. 1 .. jobs \subseteq 1 .. jobs' /\ jobs' \in 1 .. jobs'
    BY <1>3
  <2> QED BY <2>1, <2>3, <2>4, <2>5
<1>8. ASSUME NEW f \in Fields, NEW c \in Chips, NEW w \in Users, Left(w, f, c)'
      PROVE  \/ Left(w, f, c) /\ job'[w] = job[w]
             \/ /\ job'[w].id = jobs + 1
                /\ f = "command" => \A g \in Uses(job'[w].kind) : Left(w, g, c)'
  <2>1. CASE w # u
    BY <1>5, <1>8, <2>1 DEF Left
  <2>2. CASE w = u
    <3>1. \A g : Left(u, g, c)' <=> Has(s, g, c)
      BY <1>5 DEF Left, Has
    <3> QED BY <1>2, <1>3, <1>8, <2>2, <3>1 DEF Fresh, HasWords
  <2> QED BY <2>1, <2>2
<1>9. ASSUME NEW f \in Fields, NEW c \in Chips, NEW w \in Users, Left(w, f, c)
      PROVE  Left(w, f, c)'
  BY <1>3, <1>5, <1>9 DEF Left
<1>10. ASSUME NEW w \in Users, At(w, Fields)
       PROVE  At(w, Fields)' /\ Now(w)' = Now(w) /\ job'[w] = job[w]
  BY <1>3, <1>5, <1>10 DEF At, Now
<1> HIDE DEF SlotInv
<1>11. jobs <= jobs'
  BY <1>3
<1> QED BY <1>3, <1>6, <1>7, <1>8, <1>9, <1>10, <1>11, SlotKept

LEMMA SlotProceed ==
  ASSUME JobInv, FileTypes, SlotInv, NEW u \in Users, work[u] # <<>>, Proceed(u),
         Now(u).kind \notin Fields, UNCHANGED <<slot, pending, crossed, jobs>>
  PROVE  SlotInv'
<1>1. jobs \in Nat /\ crossed \subseteq 1 .. jobs
  BY XflowAssumption DEF JobInv, XflowAssumption, SlotInv, KnownIds
<1>2. ASSUME NEW f \in Fields, NEW c \in Chips, NEW w \in Users, Left(w, f, c)'
      PROVE  Left(w, f, c) /\ job'[w] = job[w]
  <2>1. CASE w # u
    BY <1>2, <2>1, LeftNext, ProceedFacts
  <2>2. CASE w = u
    BY <1>2, <2>2, LeftNext
  <2> QED BY <2>1, <2>2
<1>3. ASSUME NEW f \in Fields, NEW c \in Chips, NEW w \in Users, Left(w, f, c)
      PROVE  Left(w, f, c)'
  <2>1. Now(u) # Step(f, c)
    BY DEF Step
  <2> QED BY <1>3, <2>1, LeftNext
<1>4. ASSUME NEW w \in Users, At(w, Fields)
      PROVE  At(w, Fields)' /\ Now(w)' = Now(w) /\ job'[w] = job[w]
  <2>1. w # u
    BY <1>4 DEF At
  <2> QED BY <1>4, <2>1, AtNext, ProceedFacts
<1>5. jobs <= jobs' /\ jobs' \in Nat /\ crossed \subseteq crossed' /\ crossed' \subseteq 1 .. jobs'
  BY <1>1
<1> QED BY <1>2, <1>3, <1>4, <1>5, SlotKept

LEMMA SlotStop ==
  ASSUME JobInv, FileTypes, SlotInv, NEW u \in Users, FlashTimeOut(u)
  PROVE  SlotInv'
<1>1. /\ UNCHANGED <<slot, pending, crossed, jobs>> /\ At(u, {"poll"})
      /\ work' = [work EXCEPT ![u] = <<>>] /\ job' = [job EXCEPT ![u] = NoJob]
  BY DEF FlashTimeOut, Stop, slotVars, xvars
<1>2. job \in [Users -> Job] /\ work \in [Users -> Seq(Steps)]
  BY DEF JobInv
<1>3. \A w \in Users : w # u => work'[w] = work[w] /\ job'[w] = job[w]
  BY <1>1, <1>2
<1>4. work'[u] = <<>> /\ work[u] # <<>> /\ Now(u).kind = "poll"
  BY <1>1, <1>2 DEF At
<1>5. jobs \in Nat /\ crossed \subseteq 1 .. jobs
  BY XflowAssumption DEF JobInv, XflowAssumption, SlotInv, KnownIds
<1>6. ASSUME NEW f \in Fields, NEW c \in Chips, NEW w \in Users, Left(w, f, c)'
      PROVE  Left(w, f, c) /\ job'[w] = job[w]
  BY <1>3, <1>4, <1>6 DEF Left
<1>7. ASSUME NEW f \in Fields, NEW c \in Chips, NEW w \in Users, Left(w, f, c)
      PROVE  Left(w, f, c)' \/ work'[w] = <<>>
  BY <1>3, <1>4, <1>7 DEF Left
<1>8. ASSUME NEW w \in Users, At(w, Fields)
      PROVE  At(w, Fields)' /\ Now(w)' = Now(w) /\ job'[w] = job[w]
  <2>1. w # u
    BY <1>4, <1>8 DEF At, Fields
  <2> QED BY <1>3, <1>8, <2>1 DEF At, Now
<1>9. jobs <= jobs' /\ jobs' \in Nat /\ crossed \subseteq crossed' /\ crossed' \subseteq 1 .. jobs'
  BY <1>1, <1>5
<1> QED BY <1>1, <1>6, <1>7, <1>8, <1>9, SlotKept

LEMMA SlotIdle ==
  ASSUME JobInv, FileTypes, SlotInv, UNCHANGED <<job, work, slot, pending, crossed>>,
         jobs' \in Nat, jobs <= jobs'
  PROVE  SlotInv'
<1>1. jobs \in Nat /\ crossed \subseteq 1 .. jobs
  BY XflowAssumption DEF JobInv, XflowAssumption, SlotInv, KnownIds
<1>2. crossed \subseteq crossed' /\ crossed' \subseteq 1 .. jobs'
  BY <1>1
<1>3. \A f \in Fields, c \in Chips : \A w \in Users : Left(w, f, c)' <=> Left(w, f, c)
  BY DEF Left
<1>4. \A w \in Users : At(w, Fields) => /\ At(w, Fields)' /\ Now(w)' = Now(w)
                                        /\ job'[w] = job[w]
  BY DEF At, Now
<1> QED BY <1>2, <1>3, <1>4, SlotKept

(* A word is written.  Whoever has begun a command to this chip is met.     *)
LEMMA SlotWritten ==
  ASSUME JobInv, FileTypes, SlotInv, NEW u \in Users, SlotWrite(u)
  PROVE  SlotInv'
<1> DEFINE c == Now(u).chip
           f == Now(u).kind
           id == job[u].id
           others == pending[c] \ {id}
<1>1. /\ At(u, Fields) /\ Proceed(u) /\ jobs' = jobs
      /\ slot' = [slot EXCEPT ![c][f] = job[u]]
      /\ pending' = [pending EXCEPT ![c] = @ \cup {id}]
      /\ crossed' = IF others = {} THEN crossed ELSE crossed \cup others \cup {id}
  BY DEF SlotWrite, xvars
<1>2. work[u] # <<>> /\ f \in Fields
  BY <1>1 DEF At
<1>3. /\ c \in Chips /\ job[u] # NoJob /\ job[u] \in Job /\ id \in 1 .. jobs
      /\ Now(u) = Step(f, c) /\ jobs \in Nat
  BY <1>2, NowFacts, XflowAssumption DEF JobInv, XflowAssumption
<1>4. /\ slot \in [Chips -> [Fields -> Job]] /\ pending \in [Chips -> SUBSET Ids]
  BY DEF FileTypes
<1>5. /\ \A d \in Chips, g \in Fields :
           slot'[d][g] = IF d = c /\ g = f THEN job[u] ELSE slot[d][g]
      /\ \A d \in Chips : pending'[d] = IF d = c THEN pending[c] \cup {id} ELSE pending[d]
  BY <1>1, <1>2, <1>3, <1>4
<1>6. "command" \in Fields
  BY DEF Fields
<1>7. /\ \A d \in Chips, g \in Fields : slot'[d][g] = slot[d][g] \/ (d = c /\ g = f /\ slot'[d][g] = job[u])
      /\ \A d \in Chips : slot'[d].command = IF d = c /\ f = "command" THEN job[u] ELSE slot[d].command
  BY <1>5, <1>6
<1>8. /\ \A v \in Users : v # u => job'[v] = job[v]
      /\ \A g \in Fields, d \in Chips : \A v \in Users : v # u => (Left(v, g, d)' <=> Left(v, g, d))
      /\ \A g \in Fields, d \in Chips : Left(u, g, d)' => Left(u, g, d) /\ job'[u] = job[u]
      /\ \A g \in Fields, d \in Chips : Left(u, g, d) => Left(u, g, d)' \/ (g = f /\ d = c)
  <2>1. \A g, d : Now(u) = Step(g, d) => g = f /\ d = c
    BY <1>3 DEF Step
  <2> QED BY <1>1, <1>2, <2>1, LeftNext, ProceedFacts
<1>9. Left(u, f, c)
  BY <1>2, LeftNow
<1>10. /\ crossed \subseteq crossed'
       /\ \A x \in pending[c] : x # id => x \in crossed' /\ id \in crossed'
  BY <1>1
<1> HIDE DEF others, c, f, id
<1>11. KnownIds'
  <2>1. \A d \in Chips : pending'[d] \subseteq 1 .. jobs
    BY <1>3, <1>5 DEF SlotInv, KnownIds
  <2>2. \A d \in Chips : slot'[d].command.id <= jobs
    BY <1>3, <1>7 DEF SlotInv, KnownIds, id
  <2>3. pending[c] \subseteq 1 .. jobs /\ crossed \subseteq 1 .. jobs
    BY <1>3 DEF SlotInv, KnownIds
  <2>4. crossed' \subseteq 1 .. jobs
    BY <1>1, <1>3, <2>3 DEF others
  <2> QED BY <1>1, <2>1, <2>2, <2>4 DEF KnownIds
<1>12. Met'
  <2> SUFFICES ASSUME NEW d \in Chips, NEW a \in pending'[d], NEW b \in pending'[d], a # b
               PROVE  a \in crossed'
    BY DEF Met
  <2>1. CASE a \in pending[d] /\ b \in pending[d]
    BY <1>10, <2>1 DEF SlotInv, Met
  <2>2. CASE ~(a \in pending[d] /\ b \in pending[d])
    BY <1>3, <1>5, <1>10, <2>2
  <2> QED BY <2>1, <2>2
<1>13. CommandPends'
  BY <1>5, <1>7 DEF SlotInv, CommandPends, id
<1>14. NotSentYet'
  <2> SUFFICES ASSUME NEW v \in Users, NEW d \in Chips, NEW g \in Fields, Left(v, g, d)'
               PROVE  slot'[d].command.id # job'[v].id
    BY DEF NotSentYet
  <2>1. Left(v, g, d) /\ job'[v] = job[v] /\ slot[d].command.id # job[v].id
    BY <1>8 DEF SlotInv, NotSentYet
  <2>2. CASE d = c /\ f = "command"
    <3>1. v # u
      <4> SUFFICES ASSUME v = u PROVE FALSE
        OBVIOUS
      <4>1. PICK i \in DOMAIN work'[u] : work'[u][i] = Step(g, d)
        BY DEF Left
      <4>2. work'[u] = Tail(work[u]) /\ work[u] \in Seq(Steps)
        BY <1>1, <1>2, ProceedFacts DEF JobInv
      <4>3. i + 1 \in DOMAIN work[u] /\ work'[u][i] = work[u][i + 1] /\ i + 1 # 1
        BY <1>2, <4>1, <4>2, TailFacts
      <4> QED BY <1>2, <2>2, <4>1, <4>3, NothingBehind DEF c, f
    <3>2. job[u].id # job[v].id
      BY <2>1, <3>1, LeftJob
    <3> QED BY <1>7, <2>1, <2>2, <3>2
  <2>3. CASE ~(d = c /\ f = "command")
    BY <1>7, <2>1, <2>3
  <2> QED BY <2>2, <2>3
<1>15. WordsReady'
  <2> SUFFICES ASSUME NEW v \in Users, NEW d \in Chips, Left(v, "command", d)',
                      NEW g \in Uses(job'[v].kind)
               PROVE  \/ Left(v, g, d)'
                      \/ slot'[d][g] = job'[v] /\ job'[v].id \in pending'[d]
                      \/ job'[v].id \in crossed'
    BY DEF WordsReady
  <2>1. Left(v, "command", d) /\ job'[v] = job[v] /\ g \in Fields
    BY <1>6, <1>8, UsesFields
  <2>2. \/ Left(v, g, d)
        \/ slot[d][g] = job[v] /\ job[v].id \in pending[d]
        \/ job[v].id \in crossed
    BY <2>1 DEF SlotInv, WordsReady
  <2>3. CASE Left(v, g, d)
    <3>1. Left(v, g, d)' \/ (v = u /\ g = f /\ d = c)
      BY <1>8, <2>1, <2>3
    <3>2. CASE v = u /\ g = f /\ d = c
      BY <1>5, <2>1, <3>2 DEF id
    <3> QED BY <3>1, <3>2
  <2>4. CASE slot[d][g] = job[v] /\ job[v].id \in pending[d]
    <3>1. CASE d = c /\ g = f /\ v # u
      <4>1. job[v].id # id
        BY <2>1, <3>1, LeftJob DEF id
      <4> QED BY <1>10, <2>1, <2>4, <3>1, <4>1
    <3>2. CASE ~(d = c /\ g = f /\ v # u)
      <4>1. slot'[d][g] = job[v]
        BY <1>7, <2>1, <2>4, <3>2
      <4> QED BY <1>5, <2>1, <2>4, <4>1
    <3> QED BY <3>1, <3>2
  <2>5. CASE job[v].id \in crossed
    BY <1>10, <2>1, <2>5
  <2> QED BY <2>2, <2>3, <2>4, <2>5
<1>16. ASSUME NEW d \in Chips, slot'[d].command # NoJob, slot'[d].command.id \notin crossed',
              NEW g \in Uses(slot'[d].command.kind)
       PROVE  slot'[d][g] = slot'[d].command
  <2>1. g \in Fields /\ g # "command"
    BY UsesFields
  <2>2. CASE d # c
    BY <1>6, <1>7, <1>10, <1>16, <2>1, <2>2 DEF SlotInv, CommandIsWhole
  <2>3. CASE d = c /\ f = "command"
    <3>1. slot'[d].command = job[u] /\ id \notin crossed
      BY <1>7, <1>10, <1>16, <2>3 DEF id
    <3>2. ~Left(u, g, c)
      BY <1>2, <2>1, <2>3, NothingBehind DEF c, f
    <3>3. slot[c][g] = job[u]
      BY <1>3, <1>9, <2>3, <1>16, <3>1, <3>2 DEF SlotInv, WordsReady, id
    <3> QED BY <1>7, <2>1, <2>3, <3>1, <3>3
  <2>4. CASE d = c /\ f # "command"
    <3>1. slot'[d].command = slot[c].command /\ slot[c].command # NoJob
      BY <1>7, <1>16, <2>4
    <3>2. slot[c].command.id \in pending[c]
      BY <1>3, <3>1 DEF SlotInv, CommandPends
    <3>3. slot[c].command.id # id
      BY <1>2, <1>3, <1>9 DEF SlotInv, NotSentYet, id
    <3> QED BY <1>10, <1>16, <3>1, <3>2, <3>3
  <2> QED BY <2>2, <2>3, <2>4
<1>17. ASSUME NEW d \in Chips, NEW x \in pending'[d] \ crossed'
       PROVE  \/ slot'[d].command.id = x
              \/ \E v \in Users : job'[v].id = x /\ At(v, Fields)' /\ Now(v)'.chip = d
  <2>1. CASE d # c
    <3>1. x \in pending[d] \ crossed /\ slot'[d].command = slot[d].command
      BY <1>5, <1>7, <1>10, <2>1
    <3>2. CASE slot[d].command.id = x
      BY <3>1, <3>2
    <3>3. ASSUME NEW v \in Users, job[v].id = x, At(v, Fields), Now(v).chip = d
          PROVE  job'[v].id = x /\ At(v, Fields)' /\ Now(v)'.chip = d
      <4>1. v # u
        BY <2>1, <3>3 DEF c
      <4> QED BY <1>1, <1>2, <1>8, <3>3, <4>1, AtNext
    <3> QED BY <3>1, <3>2, <3>3 DEF SlotInv, CommandIsWhole
  <2>2. CASE d = c
    <3>1. x = id
      BY <1>5, <1>10, <2>2
    <3>2. CASE f = "command"
      BY <1>7, <2>2, <3>1, <3>2 DEF id
    <3>3. CASE f # "command"
      <4>1. f \in {"param", "param2"}
        BY <1>2, <3>3 DEF Fields
      <4>2. work'[u] # <<>> /\ Follow(Now(u), Head(work'[u])) /\ job'[u] = job[u]
        <5>1. f \notin Finals \cup {"command"}
          BY <4>1 DEF Finals
        <5> QED BY <1>1, <1>2, <5>1, ProceedFacts DEF f
      <4>3. Head(work'[u]).kind \in Fields /\ Head(work'[u]).chip = c
        BY <4>1, <4>2 DEF Follow, c, f
      <4> QED BY <2>2, <3>1, <4>2, <4>3 DEF At, Now, id
    <3> QED BY <3>2, <3>3
  <2> QED BY <2>1, <2>2
<1>18. CommandIsWhole'
  BY <1>16, <1>17 DEF CommandIsWhole
<1> QED BY <1>11, <1>12, <1>13, <1>14, <1>15, <1>18 DEF SlotInv

(* A chip takes its command.                                                *)
LEMMA SlotTaken ==
  ASSUME JobInv, FileTypes, SlotInv, NEW c \in Chips, FwTake(c)
  PROVE  SlotInv'
<1>1. /\ UNCHANGED <<job, work, crossed, jobs>>
      /\ slot' = [slot EXCEPT ![c].command = NoJob]
      /\ pending' = [pending EXCEPT ![c] = {job[u].id : u \in
                        {w \in Users : /\ job[w].id \in pending[c]
                                       /\ \E i \in DOMAIN work[w] :
                                            work[w][i].kind \in Fields /\ work[w][i].chip = c}}]
  BY DEF FwTake, xvars
<1>2. /\ slot \in [Chips -> [Fields -> Job]] /\ pending \in [Chips -> SUBSET Ids]
      /\ "command" \in Fields /\ NoJob.id = 0
  BY NoJobFacts DEF FileTypes, Fields
<1>3. /\ \A d \in Chips, g \in Fields : g # "command" => slot'[d][g] = slot[d][g]
      /\ \A d \in Chips : slot'[d].command = IF d = c THEN NoJob ELSE slot[d].command
  BY <1>1, <1>2
<1>4. ASSUME NEW w \in Users, NEW i \in DOMAIN work[w], work[w][i].kind \in Fields,
             work[w][i].chip = c
      PROVE  Left(w, work[w][i].kind, c)
  <2>1. work[w][i] \in Steps
    BY DEF JobInv
  <2> QED BY <1>4, <2>1 DEF Left, Step, Steps
<1>5. /\ \A d \in Chips : pending'[d] \subseteq pending[d] /\ (d # c => pending'[d] = pending[d])
      /\ \A x \in pending'[c] : \E w \in Users, f \in Fields : job[w].id = x /\ Left(w, f, c)
      /\ \A w \in Users, f \in Fields :
           Left(w, f, c) /\ job[w].id \in pending[c] => job[w].id \in pending'[c]
  <2>1. \A x \in pending'[c] : \E w \in Users, f \in Fields : job[w].id = x /\ Left(w, f, c)
    BY <1>1, <1>2, <1>4
  <2>2. ASSUME NEW w \in Users, NEW f \in Fields, Left(w, f, c), job[w].id \in pending[c]
        PROVE  job[w].id \in pending'[c]
    <3>1. PICK i \in DOMAIN work[w] : work[w][i] = Step(f, c)
      BY <2>2 DEF Left
    <3>2. work[w][i].kind \in Fields /\ work[w][i].chip = c
      BY <3>1 DEF Step
    <3> QED BY <1>1, <1>2, <2>2, <3>2
  <2>3. \A d \in Chips : pending'[d] \subseteq pending[d] /\ (d # c => pending'[d] = pending[d])
    BY <1>1, <1>2
  <2> QED BY <2>1, <2>2, <2>3
<1>6. \A v \in Users, f \in Fields, d \in Chips : Left(v, f, d)' <=> Left(v, f, d)
  BY <1>1 DEF Left
<1>7. \A v \in Users : (At(v, Fields)' <=> At(v, Fields)) /\ Now(v)' = Now(v)
  BY <1>1 DEF At, Now
<1>8. KnownIds'
  <2>1. 0 <= jobs
    BY XflowAssumption DEF JobInv, XflowAssumption
  <2>2. \A d \in Chips : slot'[d].command.id <= jobs
    BY <1>2, <1>3, <2>1 DEF SlotInv, KnownIds
  <2>3. \A d \in Chips : pending'[d] \subseteq 1 .. jobs
    BY <1>5 DEF SlotInv, KnownIds
  <2> QED BY <1>1, <2>2, <2>3 DEF SlotInv, KnownIds
<1>9. Met' /\ CommandPends'
  BY <1>1, <1>3, <1>5 DEF SlotInv, Met, CommandPends
<1>10. NotSentYet'
  <2> SUFFICES ASSUME NEW v \in Users, NEW d \in Chips, NEW f \in Fields, Left(v, f, d)
               PROVE  slot'[d].command.id # job[v].id
    BY <1>1, <1>6 DEF NotSentYet
  <2>1. job[v].id \in 1 .. jobs
    BY LeftJob
  <2> QED BY <1>2, <1>3, <2>1 DEF SlotInv, NotSentYet
<1>11. WordsReady'
  <2> SUFFICES ASSUME NEW v \in Users, NEW d \in Chips, Left(v, "command", d),
                      NEW g \in Uses(job[v].kind)
               PROVE  \/ Left(v, g, d)
                      \/ slot'[d][g] = job[v] /\ job[v].id \in pending'[d]
                      \/ job[v].id \in crossed
    BY <1>1, <1>2, <1>6, UsesFields DEF WordsReady
  <2>1. g \in Fields /\ g # "command"
    BY UsesFields
  <2>2. \/ Left(v, g, d)
        \/ slot[d][g] = job[v] /\ job[v].id \in pending[d]
        \/ job[v].id \in crossed
    BY DEF SlotInv, WordsReady
  <2> QED BY <1>2, <1>3, <1>5, <2>1, <2>2
<1>12. ASSUME NEW d \in Chips, slot'[d].command # NoJob, slot'[d].command.id \notin crossed,
              NEW g \in Uses(slot'[d].command.kind)
       PROVE  slot'[d][g] = slot'[d].command
  <2>1. g \in Fields /\ g # "command"
    BY UsesFields
  <2> QED BY <1>3, <1>12, <2>1 DEF SlotInv, CommandIsWhole
<1>13. ASSUME NEW d \in Chips, NEW x \in pending'[d] \ crossed
       PROVE  \/ slot'[d].command.id = x
              \/ \E v \in Users : job[v].id = x /\ At(v, Fields) /\ Now(v).chip = d
  <2>1. \/ slot[d].command.id = x
        \/ \E v \in Users : job[v].id = x /\ At(v, Fields) /\ Now(v).chip = d
    BY <1>5 DEF SlotInv, CommandIsWhole
  <2>2. CASE d = c
    <3>1. PICK w \in Users, f \in Fields : job[w].id = x /\ Left(w, f, c)
      BY <1>5, <2>2
    <3> QED BY <2>1, <2>2, <3>1 DEF SlotInv, NotSentYet
  <2>3. CASE d # c
    BY <1>3, <2>1, <2>3
  <2> QED BY <2>2, <2>3
<1>14. CommandIsWhole'
  BY <1>1, <1>7, <1>12, <1>13 DEF CommandIsWhole
<1> QED BY <1>8, <1>9, <1>10, <1>11, <1>14 DEF SlotInv

LEMMA JobsGrow ==
  ASSUME TypeInv, [DNext]_vars
  PROVE  jobs' \in Nat /\ jobs <= jobs'
<1>1. jobs \in Nat /\ jobs' \in Nat
  BY TypeNext, XflowAssumption DEF TypeInv, JobInv, XflowAssumption
<1>2. jobs' = jobs \/ jobs' = jobs + 1
  <2>1. ASSUME NEW u \in Users, Handler(u) PROVE jobs' = jobs \/ jobs' = jobs + 1
    BY <2>1 DEF Handler, WriteCmd, WriteThermal, WriteFwlog, ReadUpdateFlash, WriteGpio, ReadGpio,
       SlotWrite, StrayWrite, PointerWrite, SetFlag, LogStep, FlashStep, FlashPoll, FlashTimeOut,
       FlashReport, GpioStep,
       Start, xvars
  <2>2. CASE (\E c \in Chips : FwTake(c)) \/ FwFlash
    BY <2>2 DEF FwTake, FwFlash, xvars
  <2>3. CASE RegisterCalls
    <3>1. ASSUME NEW u \in Users, Access(u) PROVE jobs' = jobs
      BY <3>1 DEF Access, Write, Read, Post, Completed, Fetch, Return, TimeOut, Leave
    <3>2. ASSUME NEW u \in Users, NEW k \in XCalls, Begin(u, k) PROVE jobs' = jobs + 1
      BY <3>2 DEF Begin
    <3>3. CASE Execute \/ Unplug
      BY <3>3 DEF Execute, Unplug
    <3> QED BY <2>3, <3>1, <3>2, <3>3 DEF RegisterCalls
  <2>4. CASE UNCHANGED vars
    BY <2>4, Unmoved
  <2> QED BY <2>1, <2>2, <2>3, <2>4 DEF DNext
<1> QED BY <1>1, <1>2

(* The steps of the files, sorted by what they do to jobs and slots.        *)
Walks(u) == LogStep(u) \/ SetFlag(u) \/ FlashStep(u) \/ FlashPoll(u) \/ FlashReport(u) \/ GpioStep(u)

Strayed(u) == StrayWrite(u) \/ PointerWrite(u)

Idles ==
  \/ \E u \in Users : WriteGpio(u)
  \/ FwFlash \/ RegisterCalls \/ UNCHANGED vars

LEMMA StepSorts ==
  ASSUME [DNext]_vars
  PROVE  \/ \E u \in Users : Starting(u) \/ SlotWrite(u) \/ FlashTimeOut(u) \/ Walks(u)
                              \/ Strayed(u)
         \/ \E c \in Chips : FwTake(c)
         \/ Idles
BY DEF DNext, Handler, Starting, Walks, Strayed, Idles

LEMMA WalksFacts ==
  ASSUME JobInv, NEW u \in Users, Walks(u)
  PROVE  /\ work[u] # <<>> /\ Proceed(u) /\ Now(u).kind \notin Fields
         /\ UNCHANGED <<slot, pending, crossed, throttle, remote, jobs, gone, muddled, flash,
                        flashSpoilt, gpio, moved>>
BY DEF Walks, LogStep, SetFlag, FlashStep, FlashPoll, FlashReport, GpioStep, At, Fields, xvars,
       slotVars, heatVars, logVars, flashVars, gpioVars

LEMMA StrayedFacts ==
  ASSUME JobInv, NEW u \in Users, Strayed(u)
  PROVE  /\ work[u] # <<>> /\ Proceed(u) /\ Now(u).kind \in {"stray", "pointer"}
         /\ Now(u).chip \in Chips /\ Now(u).kind \notin Fields
         /\ u \notin Working("thermal") /\ u \notin Working("update")
         /\ u \notin Working("fwlog") /\ u \notin Working("show")
         /\ UNCHANGED <<seen, pending, throttle, disabled, remote, jobs, gone, sram, flash,
                        flashSpoilt, gpio, moved, failed>>
<1>1. /\ work[u] # <<>> /\ Proceed(u) /\ Now(u).kind \in {"stray", "pointer"}
      /\ UNCHANGED <<seen, pending, throttle, disabled, remote, jobs, gone, sram, flash,
                     flashSpoilt, gpio, moved, failed>>
  BY DEF Strayed, StrayWrite, PointerWrite, At, xvars, slotVars, heatVars, flashVars, gpioVars
<1>2. Now(u).chip \in Chips /\ Now(u).kind \in KindsOf(job[u].kind)
  BY <1>1, NowFacts
<1>3. \A kind \in {"thermal", "update", "fwlog", "show"} :
        KindsOf(kind) \cap {"stray", "pointer"} = {}
  BY DEF KindsOf, Fields
<1>4. Now(u).kind \notin Fields
  BY <1>1 DEF Fields
<1> QED BY <1>1, <1>2, <1>3, <1>4 DEF Working

LEMMA IdlesFacts ==
  ASSUME Idles
  PROVE  UNCHANGED <<cast, job, work, seen, slot, pending, crossed, throttle, disabled, remote,
                     flashSpoilt, failed>>
BY Unmoved DEF Idles, WriteGpio, FwFlash, RegisterCalls, slotVars, heatVars, flashVars, gpioVars

(* A word of no chip's falls on a second parameter.  A command that has     *)
(* written the parameter and is not taken is met.                           *)
LEMMA SlotStray ==
  ASSUME JobInv, FileTypes, SlotInv, NEW u \in Users, StrayWrite(u)
  PROVE  SlotInv'
<1> DEFINE c == Now(u).chip
<1>1. /\ slot' = [slot EXCEPT ![c].param2 = job[u]]
      /\ crossed' = crossed \cup ({slot[c].param2.id} \cap pending[c])
  BY DEF StrayWrite
<1>2. /\ work[u] # <<>> /\ Proceed(u) /\ Now(u).kind \notin Fields /\ c \in Chips
      /\ UNCHANGED <<pending, jobs>>
  BY StrayedFacts DEF Strayed
<1>3. slot \in [Chips -> [Fields -> Job]] /\ "command" \in Fields /\ "param2" \in Fields
  BY DEF FileTypes, Fields
<1>4. /\ \A d \in Chips, g \in Fields : (d # c \/ g # "param2") => slot'[d][g] = slot[d][g]
      /\ \A d \in Chips : slot'[d].command = slot[d].command
  BY <1>1, <1>2, <1>3
<1>5. /\ \A v \in Users, f \in Fields, d \in Chips : Left(v, f, d)' <=> Left(v, f, d)
      /\ \A v \in Users, f \in Fields, d \in Chips : Left(v, f, d) => job'[v] = job[v]
  <2>1. \A f \in Fields : \A d : Now(u) # Step(f, d)
    BY <1>2 DEF Step
  <2> QED BY <1>2, <2>1, LeftNext, ProceedFacts
<1>6. crossed \subseteq crossed' /\ (slot[c].param2.id \in pending[c] => slot[c].param2.id \in crossed')
  BY <1>1
<1> HIDE DEF c
<1>7. KnownIds'
  <2>1. pending[c] \subseteq 1 .. jobs /\ crossed \subseteq 1 .. jobs
    BY <1>2 DEF SlotInv, KnownIds
  <2>2. crossed' \subseteq 1 .. jobs'
    BY <1>1, <1>2, <2>1
  <2> QED BY <1>2, <1>4, <2>2 DEF SlotInv, KnownIds
<1>8. Met' /\ CommandPends'
  BY <1>2, <1>4, <1>6 DEF SlotInv, Met, CommandPends
<1>9. NotSentYet'
  BY <1>4, <1>5 DEF SlotInv, NotSentYet
<1>10. WordsReady'
  <2> SUFFICES ASSUME NEW v \in Users, NEW d \in Chips, Left(v, "command", d)',
                      NEW g \in Uses(job'[v].kind)
               PROVE  \/ Left(v, g, d)'
                      \/ slot'[d][g] = job'[v] /\ job'[v].id \in pending'[d]
                      \/ job'[v].id \in crossed'
    BY DEF WordsReady
  <2>1. Left(v, "command", d) /\ job'[v] = job[v] /\ g \in Fields
    BY <1>3, <1>5, UsesFields
  <2>2. \/ Left(v, g, d)
        \/ slot[d][g] = job[v] /\ job[v].id \in pending[d]
        \/ job[v].id \in crossed
    BY <2>1 DEF SlotInv, WordsReady
  <2>3. CASE slot[d][g] = job[v] /\ job[v].id \in pending[d] /\ d = c /\ g = "param2"
    BY <1>6, <2>1, <2>3
  <2>4. CASE slot[d][g] = job[v] /\ job[v].id \in pending[d] /\ (d # c \/ g # "param2")
    BY <1>2, <1>4, <2>1, <2>4
  <2> QED BY <1>5, <1>6, <2>1, <2>2, <2>3, <2>4
<1>11. ASSUME NEW d \in Chips, slot'[d].command # NoJob, slot'[d].command.id \notin crossed',
              NEW g \in Uses(slot'[d].command.kind)
       PROVE  slot'[d][g] = slot'[d].command
  <2>1. g \in Fields
    BY UsesFields
  <2>2. /\ slot[d].command # NoJob /\ slot[d].command.id \in pending[d]
        /\ slot[d][g] = slot[d].command
    BY <1>4, <1>6, <1>11 DEF SlotInv, CommandPends, CommandIsWhole
  <2>3. CASE d = c /\ g = "param2"
    BY <1>4, <1>6, <1>11, <2>2, <2>3
  <2>4. CASE d # c \/ g # "param2"
    BY <1>4, <2>1, <2>2, <2>4
  <2> QED BY <2>3, <2>4
<1>12. ASSUME NEW d \in Chips, NEW x \in pending'[d] \ crossed'
       PROVE  \/ slot'[d].command.id = x
              \/ \E v \in Users : job'[v].id = x /\ At(v, Fields)' /\ Now(v)'.chip = d
  <2>1. ASSUME NEW v \in Users, job[v].id = x, At(v, Fields), Now(v).chip = d
        PROVE  job'[v].id = x /\ At(v, Fields)' /\ Now(v)'.chip = d
    <3>1. v # u
      BY <1>2, <2>1 DEF At
    <3> QED BY <1>2, <2>1, <3>1, AtNext, ProceedFacts
  <2> QED BY <1>2, <1>4, <1>6, <2>1 DEF SlotInv, CommandIsWhole
<1>13. CommandIsWhole'
  BY <1>11, <1>12 DEF CommandIsWhole
<1> QED BY <1>7, <1>8, <1>9, <1>10, <1>13 DEF SlotInv

LEMMA SlotNext ==
  ASSUME TypeInv, SlotInv, [DNext]_vars
  PROVE  SlotInv'
<1>1. JobInv /\ FileTypes
  BY DEF TypeInv
<1>2. ASSUME NEW u \in Users, Starting(u) \/ SlotWrite(u) \/ FlashTimeOut(u)
      PROVE  SlotInv'
  BY <1>1, <1>2, SlotStarting, SlotWritten, SlotStop
<1>3. ASSUME NEW u \in Users, Walks(u)
      PROVE  SlotInv'
  BY <1>1, <1>3, WalksFacts, SlotProceed
<1>4. ASSUME NEW c \in Chips, FwTake(c)
      PROVE  SlotInv'
  BY <1>1, <1>4, SlotTaken
<1>5. CASE Idles
  BY <1>1, <1>5, IdlesFacts, JobsGrow, SlotIdle
<1>6. ASSUME NEW u \in Users, Strayed(u)
      PROVE  SlotInv'
  <2>1. CASE StrayWrite(u)
    BY <1>1, <2>1, SlotStray
  <2>2. CASE PointerWrite(u)
    <3>1. UNCHANGED <<slot, pending, crossed, jobs>>
      BY <2>2 DEF PointerWrite, slotVars, xvars
    <3> QED BY <1>1, <1>6, <3>1, StrayedFacts, SlotProceed
  <2> QED BY <1>6, <2>1, <2>2 DEF Strayed
<1> QED BY <1>2, <1>3, <1>4, <1>5, <1>6, StepSorts

LEMMA SlotInit == DInit => SlotInv
<1> SUFFICES ASSUME DInit PROVE SlotInv
  OBVIOUS
<1>1. /\ \A c \in Chips : slot[c] = [f \in Fields |-> NoJob] /\ pending[c] = {}
      /\ crossed = {} /\ jobs = 0 /\ \A u \in Users : work[u] = <<>>
  BY DEF DInit, XInit
<1>2. \A c \in Chips : slot[c].command = NoJob
  BY <1>1 DEF Fields
<1>3. \A u \in Users : \A f, c : ~Left(u, f, c)
  BY <1>1 DEF Left
<1>4. KnownIds
  BY <1>1, <1>2, NoJobFacts DEF KnownIds
<1>5. Met /\ CommandPends /\ CommandIsWhole
  BY <1>1, <1>2 DEF Met, CommandPends, CommandIsWhole
<1>6. NotSentYet /\ WordsReady
  BY <1>3 DEF NotSentYet, WordsReady
<1> QED BY <1>4, <1>5, <1>6 DEF SlotInv

(* A command that met no other on its way to the chip, and whose second     *)
(* parameter no command to a number without a chip overwrote, has, when its *)
(* word is in the slot, the parameters written with it, and it is in the    *)
(* slot until the chip takes it: whatever the writers of cmd,               *)
(* thermalthrottling and update_flash do between one another's stores       *)
(* (memx_fs.c:50-55 and :84-111, memx_fs_proc.c:148-165 and :450-463).      *)
THEOREM CommandCorrect == DSpec => []CommandIsWhole
<1>1. TypeInv /\ SlotInv /\ [DNext]_vars => (TypeInv /\ SlotInv)'
  BY TypeNext, SlotNext
<1>2. SlotInv => CommandIsWhole
  BY DEF SlotInv
<1> QED BY TypeInit, SlotInit, <1>1, <1>2, PTL DEF DSpec

-----------------------------------------------------------------------------
(* The thermal file.                                                        *)
LEMMA WorkingNext ==
  ASSUME JobInv, NEW u \in Users, work[u] # <<>>, Proceed(u)
  PROVE  \A kind : kind # "none" =>
           /\ Working(kind)' \subseteq Working(kind)
           /\ \A v \in Working(kind)' : job'[v] = job[v]
           /\ u \notin Working(kind) \/ work'[u] # <<>> => Working(kind)' = Working(kind)
           /\ work'[u] = <<>> => u \notin Working(kind)'
BY ProceedFacts, NoJobFacts DEF Working

LEMMA ThermalOnly ==
  ASSUME JobInv, NEW u \in Users, work[u] # <<>>
  PROVE  /\ Now(u).kind = "flag" => u \in Working("thermal")
         /\ u \in Working("thermal") => Now(u).kind \in Fields \cup {"flag"}
<1>1. Now(u).kind \in KindsOf(job[u].kind)
  BY NowFacts
<1>2. \A kind : "flag" \in KindsOf(kind) => kind = "thermal"
  BY DEF KindsOf, Fields
<1>3. KindsOf("thermal") = Fields \cup {"flag"}
  BY DEF KindsOf
<1> QED BY <1>1, <1>2, <1>3 DEF Working

(* The flag comes last.                                                     *)
LEMMA ThermalEnd ==
  ASSUME JobInv, NEW u \in Working("thermal"), work[u] # <<>>, Proceed(u)
  PROVE  /\ Now(u).kind \in Fields => work'[u] # <<>>
         /\ Now(u).kind = "flag" => work'[u] = <<>>
<1>1. /\ WorkOK(work[u], "thermal") /\ work[u] \in Seq(Steps) /\ u \in Users
  BY DEF JobInv, Working
<1>2. work[u][Len(work[u])].kind = "flag" /\ Now(u) = work[u][1]
  BY <1>1, TailFacts DEF WorkOK, Now
<1>3. /\ work'[u] = Tail(work[u])
      /\ work'[u] # <<>> => Follow(Now(u), Head(work'[u]))
  BY <1>1, ProceedFacts
<1>4. Now(u).kind = "flag" => work'[u] = <<>>
  BY <1>3 DEF Follow, Finals
<1>5. Tail(work[u]) = <<>> => Len(work[u]) = 1
  BY <1>1, LongSeq
<1> QED BY <1>2, <1>3, <1>4, <1>5 DEF Fields

LEMMA HeatKept ==
  ASSUME ThermalInv, crossed' = {} => crossed = {}, disabled' = disabled,
         Working("thermal")' = Working("thermal"),
         remote \subseteq remote', \A c \in Chips \ remote' : Effective(c)' = Effective(c),
         \A v \in Working("thermal") : /\ job'[v] = job[v]
                                       /\ \A c \in Chips : Left(v, "command", c) =>
                                                             Left(v, "command", c)'
  PROVE  ThermalInv'
<1> SUFFICES ASSUME crossed' = {}
             PROVE  /\ \A u, v \in Working("thermal") : u = v
                    /\ Working("thermal") = {} =>
                         \A c \in Chips \ remote' : disabled = 1 - Effective(c)
                    /\ \A u \in Working("thermal"), c \in Chips \ remote' :
                         Left(u, "command", c)' \/ Effective(c) = job'[u].value
  BY DEF ThermalInv
<1>1. \A c \in Chips \ remote' : c \in Chips \ remote
  OBVIOUS
<1> QED BY <1>1 DEF ThermalInv

LEMMA ThermalStarting ==
  ASSUME JobInv, ThermalInv, NEW u \in Users, Starting(u)
  PROVE  ThermalInv'
<1>1. PICK kind \in Started, v \in 0 .. 1 : \E s : Start(u, kind, v, s) /\ Fresh(s, kind)
  BY Starters DEF Starting
<1>2. PICK s : Start(u, kind, v, s) /\ Fresh(s, kind)
  BY <1>1
<1>3. /\ job[u] = NoJob /\ work[u] = <<>> /\ job'[u].kind = kind
      /\ job' = [job EXCEPT ![u] = [kind |-> kind, id |-> jobs + 1, value |-> v]]
      /\ work' = [work EXCEPT ![u] = s] /\ UNCHANGED <<slot, throttle, disabled, remote>>
  BY <1>2, StartFacts DEF Start, heatVars
<1>4. job \in [Users -> Job] /\ work \in [Users -> Seq(Steps)] /\ job[u].kind = "none"
  BY <1>3, NoJobFacts DEF JobInv
<1>5. work'[u] = s /\ \A w \in Users : w # u => work'[w] = work[w] /\ job'[w] = job[w]
  BY <1>3, <1>4
<1>6. Working("thermal")' = IF kind = "thermal" THEN Working("thermal") \cup {u}
                            ELSE Working("thermal")
  BY <1>3, <1>4, <1>5 DEF Working
<1>7. u \notin Working("thermal")
  BY <1>4 DEF Working
<1>8. \A c \in Chips : Effective(c)' = Effective(c)
  BY <1>3 DEF Effective
<1>9. \A w \in Working("thermal") : /\ job'[w] = job[w]
                                    /\ \A c \in Chips : Left(w, "command", c)' <=> Left(w, "command", c)
  BY <1>5, <1>7 DEF Left, Working
<1>10. \/ WriteThermal(u) /\ kind = "thermal"
       \/ crossed' = crossed /\ kind # "thermal"
  <2>1. CASE WriteThermal(u)
    <3>1. job'[u].kind = "thermal"
      BY <2>1, <1>4 DEF WriteThermal, Start
    <3> QED BY <2>1, <3>1, <1>3
  <2>2. CASE WriteCmd(u) \/ WriteFwlog(u) \/ ReadUpdateFlash(u) \/ ReadGpio(u)
    <3>1. job'[u].kind # "thermal"
      BY <2>2, <1>4, CmdKinds DEF WriteFwlog, ReadUpdateFlash, ReadGpio, Start
    <3>2. crossed' = crossed
      BY <2>2 DEF WriteCmd, WriteFwlog, ReadUpdateFlash, ReadGpio
    <3> QED BY <3>1, <3>2, <1>3
  <2> QED BY <2>1, <2>2 DEF Starting
<1>11. CASE crossed' = crossed /\ kind # "thermal"
  BY <1>3, <1>6, <1>8, <1>9, <1>11, HeatKept
<1>12. CASE WriteThermal(u) /\ kind = "thermal"
  <2> SUFFICES ASSUME crossed' = {}
               PROVE  /\ \A x, y \in Working("thermal")' : x = y
                      /\ Working("thermal")' = {} =>
                           \A c \in Chips \ remote' : disabled' = 1 - Effective(c)'
                      /\ \A x \in Working("thermal")', c \in Chips \ remote' :
                           Left(x, "command", c)' \/ Effective(c)' = job'[x].value
    BY DEF ThermalInv
  <2>1. Working("thermal") = {}
    BY <1>12 DEF WriteThermal
  <2>2. Working("thermal")' = {u}
    BY <1>6, <1>12, <2>1
  <2>3. \A c \in Chips : Left(u, "command", c)'
    <3>1. work'[u] = SetThermal
      BY <1>4, <1>12 DEF WriteThermal, Start
    <3> QED BY <3>1, ThermalWork DEF Left, Has
  <2> QED BY <2>2, <2>3
<1> QED BY <1>10, <1>11, <1>12

LEMMA ThermalWritten ==
  ASSUME JobInv, FileTypes, SlotInv, SlotInv', ThermalInv, NEW u \in Users, SlotWrite(u)
  PROVE  ThermalInv'
<1> DEFINE c == Now(u).chip
           f == Now(u).kind
           id == job[u].id
           others == pending[c] \ {id}
<1>1. /\ At(u, Fields) /\ Proceed(u) /\ UNCHANGED <<throttle, disabled>>
      /\ slot' = [slot EXCEPT ![c][f] = job[u]]
      /\ crossed' = IF others = {} THEN crossed ELSE crossed \cup others \cup {id}
      /\ remote' = IF f # "command" \/ job[u].kind \notin Heats THEN remote
                   ELSE IF job[u].kind = "rmtcmd" THEN remote \cup {c} ELSE remote \ {c}
  BY DEF SlotWrite
<1>2. work[u] # <<>> /\ f \in Fields
  BY <1>1 DEF At
<1>3. c \in Chips /\ job[u] # NoJob /\ Now(u) = Step(f, c)
  BY <1>2, NowFacts
<1>4. slot \in [Chips -> [Fields -> Job]] /\ "command" \in Fields /\ "param" \in Fields
  BY DEF FileTypes, Fields
<1>5. /\ \A d \in Chips, g \in Fields :
           slot'[d][g] = IF d = c /\ g = f THEN job[u] ELSE slot[d][g]
      /\ \A d \in Chips : slot'[d].command = IF d = c /\ f = "command" THEN job[u] ELSE slot[d].command
      /\ \A d \in Chips : slot'[d].param = IF d = c /\ f = "param" THEN job[u] ELSE slot[d].param
  BY <1>1, <1>2, <1>3, <1>4
<1>6. Left(u, f, c)
  BY <1>2, LeftNow
<1>7. Working("thermal")' = Working("thermal") /\ \A v \in Working("thermal") : job'[v] = job[v]
  <2>1. u \in Working("thermal") => work'[u] # <<>>
    BY <1>1, <1>2, ThermalEnd
  <2> QED BY <1>1, <1>2, <2>1, WorkingNext
<1>8. ASSUME NEW v \in Working("thermal"), NEW d \in Chips, Left(v, "command", d)
      PROVE  Left(v, "command", d)' \/ (v = u /\ f = "command" /\ d = c)
  <2>1. v \in Users
    BY DEF Working
  <2>2. Now(u) = Step("command", d) => f = "command" /\ d = c
    BY <1>3 DEF Step
  <2> QED BY <1>1, <1>2, <1>4, <1>8, <2>1, <2>2, LeftNext
<1> SUFFICES ASSUME crossed' = {} PROVE ThermalInv'
  BY DEF ThermalInv
<1>9. crossed = {} /\ others = {}
  BY <1>1
<1>10. slot[c].command = NoJob
  <2> SUFFICES ASSUME slot[c].command # NoJob PROVE FALSE
    OBVIOUS
  <2>1. slot[c].command.id \in pending[c]
    BY <1>3 DEF SlotInv, CommandPends
  <2>2. slot[c].command.id # id
    BY <1>2, <1>3, <1>6 DEF SlotInv, NotSentYet
  <2> QED BY <1>9, <2>1, <2>2
<1>11. Effective(c) = throttle[c]
  BY <1>10, NoJobFacts DEF Effective, Heats
<1> HIDE DEF c, f, id, others
<1>12. \A d \in Chips : d # c => Effective(d)' = Effective(d)
  BY <1>1, <1>5 DEF Effective
<1>13. CASE f # "command" \/ job[u].kind \notin Heats
  <2>0. remote' = remote
    BY <1>1, <1>13
  <2>1. \A d \in Chips : d = c => Effective(d)' = throttle[d]
    BY <1>1, <1>3, <1>5, <1>10, <1>13, NoJobFacts DEF Effective, Heats
  <2>2. \A d \in Chips : Effective(d)' = Effective(d)
    BY <1>11, <1>12, <2>1
  <2>3. \A v \in Working("thermal"), d \in Chips :
          Left(v, "command", d) => Left(v, "command", d)'
    BY <1>8, <1>13 DEF Working, Heats
  <2> QED BY <1>1, <1>7, <1>9, <2>0, <2>2, <2>3, HeatKept
<1>15. CASE f = "command" /\ job[u].kind = "rmtcmd"
  <2>1. u \notin Working("thermal") /\ remote' = remote \cup {c}
    BY <1>1, <1>15 DEF Working, Heats
  <2>2. \A d \in Chips \ remote' : Effective(d)' = Effective(d)
    BY <1>12, <2>1
  <2>3. \A v \in Working("thermal"), d \in Chips :
          Left(v, "command", d) => Left(v, "command", d)'
    BY <1>8, <2>1
  <2> QED BY <1>1, <1>7, <1>9, <2>1, <2>2, <2>3, HeatKept
<1>14. CASE f = "command" /\ job[u].kind = "thermal"
  <2>0. remote' = remote \ {c}
    BY <1>1, <1>14 DEF Heats
  <2>1. u \in Working("thermal")
    BY <1>14 DEF Working
  <2>2. slot'[c].command = job[u] /\ slot'[c].command.id \notin crossed'
    BY <1>3, <1>5, <1>14
  <2>3. "param" \in Uses(job[u].kind)
    BY <1>14 DEF Uses
  <2>4. slot'[c]["param"] = job[u]
    BY <1>3, <2>2, <2>3 DEF SlotInv, CommandIsWhole
  <2>5. slot'[c].param = slot'[c]["param"]
    OBVIOUS
  <2>6. \A d \in Chips : d = c => Effective(d)' = job[u].value
    BY <1>14, <2>2, <2>4, <2>5 DEF Effective, Heats
  <2>7. \A v \in Working("thermal") : v = u
    BY <1>9, <2>1 DEF ThermalInv
  <2>8. ASSUME NEW d \in Chips \ remote'
        PROVE  Left(u, "command", d)' \/ Effective(d)' = job'[u].value
    <3>1. CASE d = c
      BY <1>7, <2>1, <2>6, <3>1
    <3>2. CASE d # c
      <4>1. Left(u, "command", d) \/ Effective(d) = job[u].value
        BY <1>9, <2>0, <2>1, <3>2 DEF ThermalInv
      <4> QED BY <1>7, <1>8, <1>12, <2>1, <3>2, <4>1
    <3> QED BY <3>1, <3>2
  <2> QED BY <1>7, <2>1, <2>7, <2>8 DEF ThermalInv
<1> QED BY <1>13, <1>14, <1>15 DEF Heats

LEMMA ThermalFlagged ==
  ASSUME JobInv, ThermalInv, NEW u \in Users, SetFlag(u)
  PROVE  ThermalInv'
<1>1. /\ At(u, {"flag"}) /\ Proceed(u) /\ disabled' = 1 - job[u].value
      /\ UNCHANGED <<slot, throttle, crossed, remote>>
  BY DEF SetFlag, slotVars
<1>2. work[u] # <<>> /\ Now(u).kind = "flag"
  BY <1>1 DEF At
<1>3. u \in Working("thermal") /\ work'[u] = <<>>
  BY <1>1, <1>2, ThermalOnly, ThermalEnd
<1>4. /\ Working("thermal")' \subseteq Working("thermal") /\ u \notin Working("thermal")'
  BY <1>1, <1>2, <1>3, WorkingNext
<1>5. ASSUME NEW d \in Chips PROVE ~Left(u, "command", d)
  <2>1. ~Left(u, "command", d)'
    BY <1>3 DEF Left
  <2>2. Now(u) # Step("command", d) /\ "command" \in Fields
    BY <1>2 DEF Step, Fields
  <2> QED BY <1>1, <1>2, <2>1, <2>2, LeftNext
<1>6. \A d \in Chips : Effective(d)' = Effective(d)
  BY <1>1 DEF Effective
<1> SUFFICES ASSUME crossed' = {} PROVE ThermalInv'
  BY DEF ThermalInv
<1>7. \A v \in Working("thermal") : v = u
  BY <1>1, <1>3 DEF ThermalInv
<1>8. Working("thermal")' = {}
  BY <1>4, <1>7
<1>9. \A d \in Chips \ remote : Effective(d) = job[u].value
  BY <1>1, <1>3, <1>5 DEF ThermalInv
<1> QED BY <1>1, <1>6, <1>8, <1>9 DEF ThermalInv

LEMMA ThermalWalks ==
  ASSUME JobInv, FileTypes, ThermalInv, NEW u \in Users, Strayed(u) \/ (Walks(u) /\ ~SetFlag(u))
  PROVE  ThermalInv'
<1>1. /\ work[u] # <<>> /\ Proceed(u) /\ Now(u).kind \notin Fields
      /\ UNCHANGED <<throttle, remote>> /\ crossed \subseteq crossed'
      /\ \A d \in Chips : slot'[d].command = slot[d].command /\ slot'[d].param = slot[d].param
  <2>1. CASE Walks(u)
    BY <2>1, WalksFacts
  <2>2. CASE StrayWrite(u)
    <3>1. /\ slot' = [slot EXCEPT ![Now(u).chip].param2 = job[u]] /\ crossed \subseteq crossed'
      BY <2>2 DEF StrayWrite
    <3>2. slot \in [Chips -> [Fields -> Job]]
      BY DEF FileTypes
    <3> QED BY <2>2, <3>1, <3>2, StrayedFacts DEF Strayed, Fields
  <2>3. CASE PointerWrite(u)
    <3>1. UNCHANGED <<slot, crossed>>
      BY <2>3 DEF PointerWrite, slotVars
    <3> QED BY <2>3, <3>1, StrayedFacts DEF Strayed
  <2> QED BY <2>1, <2>2, <2>3 DEF Strayed
<1>2. disabled' = disabled /\ Now(u).kind # "flag"
  <2>1. CASE Walks(u) /\ ~SetFlag(u)
    BY <2>1 DEF Walks, LogStep, FlashStep, FlashPoll, FlashReport, GpioStep, heatVars, At
  <2> QED BY <2>1, StrayedFacts
<1>3. u \notin Working("thermal")
  BY <1>1, <1>2, ThermalOnly
<1>4. Working("thermal")' = Working("thermal") /\ \A v \in Working("thermal") : job'[v] = job[v]
  BY <1>1, <1>3, WorkingNext
<1>5. ASSUME NEW v \in Working("thermal"), NEW d \in Chips, Left(v, "command", d)
      PROVE  Left(v, "command", d)'
  <2>1. v \in Users /\ v # u /\ "command" \in Fields
    BY <1>3 DEF Working, Fields
  <2> QED BY <1>1, <1>5, <2>1, LeftNext
<1>6. \A d \in Chips : Effective(d)' = Effective(d)
  BY <1>1 DEF Effective
<1>7. crossed' = {} => crossed = {}
  BY <1>1
<1> QED BY <1>1, <1>2, <1>7, <1>4, <1>5, <1>6, HeatKept

LEMMA ThermalRest ==
  ASSUME JobInv, FileTypes, ThermalInv,
         (\E u \in Users : FlashTimeOut(u)) \/ (\E c \in Chips : FwTake(c)) \/ Idles
  PROVE  ThermalInv'
<1>1. ASSUME NEW u \in Users, FlashTimeOut(u)
      PROVE  ThermalInv'
  <2>1. /\ UNCHANGED <<slot, crossed, throttle, disabled, remote>> /\ At(u, {"poll"})
        /\ work' = [work EXCEPT ![u] = <<>>] /\ job' = [job EXCEPT ![u] = NoJob]
    BY <1>1 DEF FlashTimeOut, Stop, slotVars, heatVars
  <2>2. job \in [Users -> Job] /\ work \in [Users -> Seq(Steps)]
    BY DEF JobInv
  <2>3. /\ job'[u] = NoJob
        /\ \A v \in Users : v # u => job'[v] = job[v] /\ work'[v] = work[v]
    BY <2>1, <2>2
  <2>4. u \notin Working("thermal")
    BY <2>1, ThermalOnly DEF At, Fields
  <2>5. Working("thermal")' = Working("thermal")
    BY <2>3, <2>4, NoJobFacts DEF Working
  <2>6. \A v \in Working("thermal") : /\ job'[v] = job[v]
                                      /\ \A d \in Chips : Left(v, "command", d) => Left(v, "command", d)'
    BY <2>3, <2>4 DEF Left, Working
  <2>7. \A d \in Chips : Effective(d)' = Effective(d)
    BY <2>1 DEF Effective
  <2> QED BY <2>1, <2>5, <2>6, <2>7, HeatKept
<1>2. ASSUME NEW c \in Chips, FwTake(c)
      PROVE  ThermalInv'
  <2>1. /\ UNCHANGED <<job, work, crossed, disabled, remote>>
        /\ slot' = [slot EXCEPT ![c].command = NoJob]
        /\ throttle' = IF slot[c].command.kind \in Heats
                       THEN [throttle EXCEPT ![c] = slot[c].param.value] ELSE throttle
    BY <1>2 DEF FwTake
  <2>2. slot \in [Chips -> [Fields -> Job]] /\ throttle \in [Chips -> 0 .. 1]
        /\ "command" \in Fields /\ "param" \in Fields
    BY DEF FileTypes, Fields
  <2>3. /\ slot'[c].command = NoJob
        /\ \A d \in Chips : d # c => slot'[d] = slot[d] /\ throttle'[d] = throttle[d]
        /\ throttle'[c] = IF slot[c].command.kind \in Heats THEN slot[c].param.value ELSE throttle[c]
    BY <2>1, <2>2
  <2>4. \A d \in Chips : Effective(d)' = Effective(d)
    BY <2>3, NoJobFacts DEF Effective, Heats
  <2>5. Working("thermal")' = Working("thermal")
    BY <2>1 DEF Working
  <2>6. \A v \in Working("thermal") : /\ job'[v] = job[v]
                                      /\ \A d \in Chips : Left(v, "command", d) => Left(v, "command", d)'
    BY <2>1 DEF Left
  <2> QED BY <2>1, <2>4, <2>5, <2>6, HeatKept
<1>3. CASE Idles
  <2>1. UNCHANGED <<job, work, slot, crossed, throttle, disabled, remote>>
    BY <1>3, IdlesFacts
  <2>2. \A d \in Chips : Effective(d)' = Effective(d)
    BY <2>1 DEF Effective
  <2>3. Working("thermal")' = Working("thermal")
    BY <2>1 DEF Working
  <2>4. \A v \in Working("thermal") : /\ job'[v] = job[v]
                                      /\ \A d \in Chips : Left(v, "command", d) => Left(v, "command", d)'
    BY <2>1 DEF Left
  <2> QED BY <2>1, <2>2, <2>3, <2>4, HeatKept
<1> QED BY <1>1, <1>2, <1>3

LEMMA ThermalNext ==
  ASSUME TypeInv, SlotInv, ThermalInv, [DNext]_vars
  PROVE  ThermalInv'
<1>1. JobInv /\ FileTypes /\ SlotInv'
  BY SlotNext DEF TypeInv
<1>2. ASSUME NEW u \in Users, Starting(u) \/ SlotWrite(u) \/ Walks(u) \/ Strayed(u)
      PROVE  ThermalInv'
  BY <1>1, <1>2, ThermalStarting, ThermalWritten, ThermalFlagged, ThermalWalks
<1> QED BY <1>1, <1>2, StepSorts, ThermalRest

LEMMA ThermalInit == DInit => ThermalInv
<1> SUFFICES ASSUME DInit PROVE ThermalInv
  OBVIOUS
<1>1. /\ \A c \in Chips : slot[c] = [f \in Fields |-> NoJob] /\ throttle[c] = 1
      /\ disabled = 0 /\ \A u \in Users : job[u] = NoJob
  BY DEF DInit
<1>2. \A c \in Chips : Effective(c) = 1
  <2>1. \A c \in Chips : slot[c].command = NoJob
    BY <1>1 DEF Fields
  <2> QED BY <1>1, <2>1, NoJobFacts DEF Effective, Heats
<1>3. Working("thermal") = {}
  BY <1>1, NoJobFacts DEF Working
<1> QED BY <1>1, <1>2, <1>3 DEF ThermalInv

(* When no one writes thermalthrottling and no commands met, the flag that  *)
(* the file shows is what each chip does or has the command in its slot to  *)
(* do, however far apart the chips take their commands; but for the chips   *)
(* whose last thermal command was an rmtcmd's, which sets no flag           *)
(* (memx_fs_proc.c:450-463, memx_fs.c:109-111).                             *)
THEOREM ThermalCorrect == DSpec => []ThermalAgrees
<1> DEFINE I == TypeInv /\ SlotInv /\ ThermalInv
<1>1. I /\ [DNext]_vars => I'
  BY TypeNext, SlotNext, ThermalNext
<1>2. I => ThermalAgrees
  BY DEF ThermalInv, ThermalAgrees, Effective
<1>3. DInit => I
  BY TypeInit, SlotInit, ThermalInit
<1> HIDE DEF I
<1> QED BY <1>1, <1>2, <1>3, PTL DEF DSpec

-----------------------------------------------------------------------------
(* The flash.                                                               *)
FlashKinds == {"image", "clear", "order", "poll", "report"}

(* The invariant for one user, so that a step has to look at one only.      *)
FlashOK(u) ==
  /\ At(u, {"clear", "order", "poll"}) => sram.image = job[u].id
  /\ At(u, {"order"}) => sram.outcome = 0
  /\ At(u, {"poll"}) => IF sram.order THEN sram.outcome = 0
                        ELSE sram.outcome = 1 => flash = job[u].id
  /\ At(u, {"report"}) /\ sram.outcome = 1 => flash = job[u].id

Ordered == sram.order => \E u \in Working("update") : At(u, {"poll"})

Alone == \A u, v \in Working("update") : u = v

LEMMA FlashParts ==
  FlashInv <=> ((~gone /\ ~flashSpoilt) => Alone /\ Ordered /\ \A u \in Users : FlashOK(u))
BY DEF FlashInv, Alone, Ordered, FlashOK

LEMMA FlashOnly ==
  ASSUME JobInv
  PROVE  \A K : \A u \in Users : K \subseteq FlashKinds /\ At(u, K) => u \in Working("update")
<1> SUFFICES ASSUME NEW K, NEW u \in Users, K \subseteq FlashKinds, At(u, K)
             PROVE  u \in Working("update")
  OBVIOUS
<1>1. Now(u).kind \in FlashKinds /\ Now(u).kind \in KindsOf(job[u].kind)
  BY NowFacts DEF At
<1>2. \A kind : KindsOf(kind) \cap FlashKinds # {} => kind = "update"
  BY DEF KindsOf, Fields, FlashKinds
<1> QED BY <1>1, <1>2 DEF Working

LEMMA GoneStays ==
  ASSUME [DNext]_vars
  PROVE  gone => gone'
<1>1. ASSUME NEW u \in Users, Handler(u) PROVE gone' = gone
  BY <1>1, HandlerRegisters
<1>2. CASE (\E c \in Chips : FwTake(c)) \/ FwFlash
  BY <1>2 DEF FwTake, FwFlash, xvars
<1>3. CASE RegisterCalls
  <2>1. ASSUME NEW u \in Users, Access(u) PROVE gone' = gone
    BY <2>1 DEF Access, Write, Read, Post, Completed, Fetch, Return, TimeOut, Leave
  <2>2. ASSUME NEW u \in Users, NEW k \in XCalls, Begin(u, k) PROVE gone' = gone
    BY <2>2 DEF Begin
  <2>3. CASE Execute \/ Unplug
    BY <2>3 DEF Execute, Unplug
  <2> QED BY <1>3, <2>1, <2>2, <2>3 DEF RegisterCalls
<1>4. CASE UNCHANGED vars
  BY <1>4, Unmoved
<1> QED BY <1>1, <1>2, <1>3, <1>4 DEF DNext

LEMMA FlashStarting ==
  ASSUME JobInv, FlashInv, NEW u \in Users, Starting(u), gone => gone'
  PROVE  FlashInv'
<1> SUFFICES ASSUME ~gone', ~flashSpoilt' PROVE (Alone /\ Ordered /\ \A w \in Users : FlashOK(w))'
  BY DEF FlashInv, Alone, Ordered, FlashOK
<1>1. PICK kind \in Started, v \in 0 .. 1 : \E s : Start(u, kind, v, s) /\ Fresh(s, kind)
  BY Starters DEF Starting
<1>2. PICK s : Start(u, kind, v, s) /\ Fresh(s, kind)
  BY <1>1
<1>3. /\ job[u] = NoJob /\ work[u] = <<>> /\ job'[u].kind = kind
      /\ job' = [job EXCEPT ![u] = [kind |-> kind, id |-> jobs + 1, value |-> v]]
      /\ work' = [work EXCEPT ![u] = s] /\ UNCHANGED <<sram, flash>>
  BY <1>2, StartFacts DEF Start
<1>4. job \in [Users -> Job] /\ work \in [Users -> Seq(Steps)] /\ job[u].kind = "none"
  BY <1>3, NoJobFacts DEF JobInv
<1>5. work'[u] = s /\ \A w \in Users : w # u => work'[w] = work[w] /\ job'[w] = job[w]
  BY <1>3, <1>4
<1>6. flashSpoilt' = flashSpoilt \/ flashSpoilt' = (flashSpoilt \/ Working("update") # {})
  BY DEF Starting, WriteCmd, WriteThermal, WriteFwlog, ReadUpdateFlash, ReadGpio
<1>7. Alone /\ Ordered /\ \A w \in Users : FlashOK(w)
  BY <1>6, FlashParts
<1>8. \A w \in Users : w # u => \A K : At(w, K)' <=> At(w, K)
  BY <1>5 DEF At, Now
<1>9. \A K : K \subseteq FlashKinds => ~At(u, K)' /\ ~At(u, K)
  BY <1>2, <1>3, <1>5 DEF At, Now, Fresh, FlashKinds, Fields
<1>10. \A w \in Users : FlashOK(w)'
  <2>1. FlashOK(u)'
    BY <1>9 DEF FlashOK, FlashKinds
  <2>2. ASSUME NEW w \in Users, w # u PROVE FlashOK(w)'
    BY <1>3, <1>5, <1>7, <1>8, <2>2 DEF FlashOK
  <2> QED BY <2>1, <2>2
<1>11. Ordered'
  <2> SUFFICES ASSUME sram.order PROVE \E w \in Working("update")' : At(w, {"poll"})'
    BY <1>3 DEF Ordered
  <2>1. PICK w \in Working("update") : At(w, {"poll"})
    BY <1>7 DEF Ordered
  <2>2. w \in Users /\ w # u /\ job[w].kind = "update"
    BY <1>4, <2>1 DEF Working
  <2> QED BY <1>5, <1>8, <2>1, <2>2 DEF Working
<1>12. Alone'
  <2>1. CASE kind = "update"
    <3>1. ReadUpdateFlash(u)
      <4>1. job'[u].kind = "update"
        BY <1>3, <2>1
      <4> QED BY <1>4, <4>1, CmdKinds DEF Starting, WriteThermal, WriteFwlog, ReadGpio, Start
    <3>2. Working("update") = {}
      BY <3>1 DEF ReadUpdateFlash
    <3> QED BY <1>5, <3>2 DEF Alone, Working
  <2>2. CASE kind # "update"
    BY <1>3, <1>5, <1>7, <2>2 DEF Alone, Working
  <2> QED BY <2>1, <2>2
<1> QED BY <1>10, <1>11, <1>12

(* A step of u; what it does to the flash's words is left open.             *)
LEMMA FlashOthers ==
  ASSUME JobInv, FlashInv, ~gone, ~flashSpoilt, NEW u \in Users, work[u] # <<>>, Proceed(u)
  PROVE  /\ Alone /\ Alone' /\ Ordered /\ \A w \in Users : FlashOK(w)
         /\ u \in Working("update") => \A w \in Users : w # u => FlashOK(w)'
         /\ UNCHANGED <<sram, flash>> => \A w \in Users : w # u => FlashOK(w)'
         /\ Now(u).kind \notin FlashKinds /\ UNCHANGED <<sram, flash>> => Ordered' /\ FlashOK(u)'
<1>1. Alone /\ Ordered /\ \A w \in Users : FlashOK(w)
  BY FlashParts
<1>2. /\ \A K : \A v \in Users : v # u => (At(v, K)' <=> At(v, K))
      /\ \A v \in Users : v # u => job'[v] = job[v]
  BY AtNext, ProceedFacts
<1>3. Working("update")' \subseteq Working("update")
  BY WorkingNext
<1>4. Alone'
  BY <1>1, <1>3 DEF Alone
<1>5. ASSUME u \in Working("update"), NEW w \in Users, w # u
      PROVE  FlashOK(w)'
  <2>1. w \notin Working("update")
    BY <1>1, <1>5 DEF Alone
  <2>2. \A K : K \subseteq FlashKinds => ~At(w, K)'
    BY <1>2, <1>5, <2>1, FlashOnly
  <2> QED BY <2>2 DEF FlashOK, FlashKinds
<1>6. ASSUME UNCHANGED <<sram, flash>>, NEW w \in Users, w # u
      PROVE  FlashOK(w)'
  BY <1>1, <1>2, <1>6 DEF FlashOK
<1>7. ASSUME Now(u).kind \notin FlashKinds, UNCHANGED <<sram, flash>>
      PROVE  Ordered' /\ FlashOK(u)'
  <2>1. /\ ~At(u, {"clear"})' /\ ~At(u, {"order"})' /\ ~At(u, {"poll"})' /\ ~At(u, {"report"})'
    BY <1>7, AtNext DEF FlashKinds
  <2>2. FlashOK(u)'
    BY <2>1 DEF FlashOK, At
  <2>3. Ordered'
    <3> SUFFICES ASSUME sram.order PROVE \E w \in Working("update")' : At(w, {"poll"})'
      BY <1>7 DEF Ordered
    <3>1. PICK w \in Working("update") : At(w, {"poll"})
      BY <1>1 DEF Ordered
    <3>2. w # u /\ w \in Users /\ job[w].kind = "update"
      BY <1>7, <3>1 DEF At, FlashKinds, Working
    <3> QED BY <1>2, <3>1, <3>2 DEF Working
  <2> QED BY <2>2, <2>3
<1> QED BY <1>1, <1>4, <1>5, <1>6, <1>7

LEMMA FlashWalks ==
  ASSUME JobInv, FileTypes, FlashInv, NEW u \in Users, Walks(u) \/ SlotWrite(u) \/ Strayed(u),
         gone' = gone
  PROVE  FlashInv'
<1>1. /\ work[u] # <<>> /\ Proceed(u) /\ UNCHANGED <<flash, flashSpoilt>>
      /\ SlotWrite(u) => sram' = sram /\ Now(u).kind \in Fields
      /\ Strayed(u) => sram' = sram /\ Now(u).kind \in {"stray", "pointer"}
  BY WalksFacts, StrayedFacts DEF SlotWrite, flashVars, At
<1> SUFFICES ASSUME ~gone, ~flashSpoilt PROVE (Alone /\ Ordered /\ \A w \in Users : FlashOK(w))'
  BY <1>1 DEF FlashInv, Alone, Ordered, FlashOK
<1> DEFINE k == Now(u).kind
<1>2. /\ Alone /\ Alone' /\ Ordered /\ \A w \in Users : FlashOK(w)
      /\ u \in Working("update") => \A w \in Users : w # u => FlashOK(w)'
      /\ UNCHANGED <<sram, flash>> => \A w \in Users : w # u => FlashOK(w)'
      /\ k \notin FlashKinds /\ UNCHANGED <<sram, flash>> => Ordered' /\ FlashOK(u)'
  BY <1>1, FlashOthers
<1>3. CASE SlotWrite(u) \/ LogStep(u) \/ SetFlag(u) \/ GpioStep(u) \/ Strayed(u)
  <2>1. k \notin FlashKinds /\ UNCHANGED <<sram, flash>>
    BY <1>1, <1>3 DEF LogStep, SetFlag, GpioStep, At, FlashKinds, Fields, flashVars
  <2> QED BY <1>2, <2>1
<1>4. CASE FlashStep(u) \/ FlashPoll(u) \/ FlashReport(u)
  <2>1. k \in FlashKinds /\ At(u, {k})
    BY <1>4 DEF FlashStep, FlashPoll, FlashReport, At, FlashKinds
  <2>2. u \in Working("update")
    <3>1. {k} \subseteq FlashKinds
      BY <2>1
    <3> QED BY <2>1, <3>1, FlashOnly
  <2>3. \A w \in Working("update") : w = u
    BY <1>2, <2>2 DEF Alone
  <2>4. /\ At(u, {"clear"})' => k = "image"
        /\ At(u, {"order"})' => k = "clear"
        /\ At(u, {"poll"})' => k = "order"
        /\ At(u, {"report"})' => k = "poll"
        /\ \A K : At(u, K)' => job'[u] = job[u]
    BY <1>1, AtNext
  <2>5. sram \in [image : Ids, outcome : 0 .. 2, order : BOOLEAN]
    BY DEF FileTypes
  <2>6. sram.order => k = "poll"
    <3> SUFFICES ASSUME sram.order PROVE k = "poll"
      OBVIOUS
    <3>1. At(u, {"poll"})
      BY <1>2, <2>3 DEF Ordered
    <3> QED BY <3>1 DEF At
  <2> SUFFICES Ordered' /\ FlashOK(u)'
    BY <1>2, <2>2
  <2>7. CASE k = "image"
    <3>1. sram' = [sram EXCEPT !.image = job[u].id]
      BY <1>4, <2>7 DEF FlashStep, FlashPoll, FlashReport, At
    <3>2. sram'.image = job[u].id /\ sram'.order = FALSE
      BY <2>5, <2>6, <2>7, <3>1
    <3>3. ~At(u, {"order"})' /\ ~At(u, {"poll"})' /\ ~At(u, {"report"})'
      BY <2>4, <2>7
    <3> QED BY <2>4, <3>2, <3>3 DEF Ordered, FlashOK, At
  <2>8. CASE k = "clear"
    <3>1. sram' = [sram EXCEPT !.outcome = 0]
      BY <1>4, <2>8 DEF FlashStep, FlashPoll, FlashReport, At
    <3>2. sram'.image = job[u].id /\ sram'.order = FALSE /\ sram'.outcome = 0
      BY <1>2, <2>1, <2>5, <2>6, <2>8, <3>1 DEF FlashOK, At
    <3>3. ~At(u, {"clear"})' /\ ~At(u, {"poll"})' /\ ~At(u, {"report"})'
      BY <2>4, <2>8
    <3> QED BY <2>4, <3>2, <3>3 DEF Ordered, FlashOK, At
  <2>9. CASE k = "order"
    <3>1. sram' = [sram EXCEPT !.order = TRUE]
      BY <1>4, <2>9 DEF FlashStep, FlashPoll, FlashReport, At
    <3>2. sram'.image = job[u].id /\ sram'.order = TRUE /\ sram'.outcome = 0
      BY <1>2, <2>1, <2>5, <2>6, <2>9, <3>1 DEF FlashOK, At
    <3>3. ~At(u, {"clear"})' /\ ~At(u, {"order"})' /\ ~At(u, {"report"})'
      BY <2>4, <2>9
    <3>4. At(u, {"poll"})' /\ u \in Working("update")'
      <4>1. work'[u] # <<>> /\ Follow(Now(u), Head(work'[u]))
        BY <1>1, <2>9, ProceedFacts DEF Finals
      <4>2. Head(work'[u]).kind = "poll"
        BY <2>9, <4>1 DEF Follow, Follows
      <4>3. At(u, {"poll"})'
        BY <4>1, <4>2 DEF At, Now
      <4> QED BY <1>1, <2>2, <4>1, <4>3, WorkingNext
    <3> QED BY <2>4, <3>2, <3>3, <3>4 DEF Ordered, FlashOK, At
  <2>10. CASE k = "poll"
    <3>1. sram' = sram /\ sram.outcome # 0
      BY <1>4, <2>10 DEF FlashStep, FlashPoll, FlashReport, At, flashVars
    <3>2. sram.order = FALSE /\ (sram.outcome = 1 => flash = job[u].id)
      BY <1>2, <2>1, <2>5, <2>10, <3>1 DEF FlashOK
    <3>3. ~At(u, {"clear"})' /\ ~At(u, {"order"})' /\ ~At(u, {"poll"})'
      BY <2>4, <2>10
    <3> QED BY <1>1, <2>4, <3>1, <3>2, <3>3 DEF Ordered, FlashOK, At
  <2>11. CASE k = "report"
    <3>1. sram' = sram /\ ~sram.order
      BY <1>4, <2>6, <2>11 DEF FlashStep, FlashPoll, FlashReport, At, flashVars
    <3>2. ~At(u, {"clear"})' /\ ~At(u, {"order"})' /\ ~At(u, {"poll"})' /\ ~At(u, {"report"})'
      BY <2>4, <2>11
    <3> QED BY <3>1, <3>2 DEF Ordered, FlashOK, At
  <2> QED BY <2>1, <2>7, <2>8, <2>9, <2>10, <2>11 DEF FlashKinds
<1> QED BY <1>3, <1>4 DEF Walks

LEMMA FlashRest ==
  ASSUME JobInv, FileTypes, FlashInv, gone => gone',
         (\E u \in Users : FlashTimeOut(u)) \/ (\E c \in Chips : FwTake(c)) \/ Idles
  PROVE  FlashInv'
<1>1. CASE \E u \in Users : FlashTimeOut(u)
  BY <1>1 DEF FlashTimeOut, FlashInv
<1>2. ASSUME (\E c \in Chips : FwTake(c)) \/ Idles, ~FwFlash
      PROVE  FlashInv'
  <2>1. UNCHANGED <<job, work, sram, flash, flashSpoilt>>
    BY <1>2, Unmoved, IdlesFacts DEF FwTake, Idles, WriteGpio, RegisterCalls, flashVars
  <2> QED BY <2>1 DEF FlashInv, Working, At, Now
<1>3. CASE FwFlash
  <2>1. PICK outcome \in 1 .. 2 :
          /\ sram.order /\ ~gone /\ flash' = (IF outcome = 1 THEN sram.image ELSE 0)
          /\ sram' = [sram EXCEPT !.order = FALSE, !.outcome = outcome]
    BY <1>3 DEF FwFlash
  <2>2. UNCHANGED <<job, work, flashSpoilt>>
    BY <1>3 DEF FwFlash
  <2> SUFFICES ASSUME ~flashSpoilt PROVE (Alone /\ Ordered /\ \A w \in Users : FlashOK(w))'
    BY <2>2 DEF FlashInv, Alone, Ordered, FlashOK
  <2>3. Alone /\ Ordered /\ \A w \in Users : FlashOK(w)
    BY <2>1, FlashParts
  <2>4. sram \in [image : Ids, outcome : 0 .. 2, order : BOOLEAN]
    BY DEF FileTypes
  <2>5. sram'.image = sram.image /\ sram'.order = FALSE /\ sram'.outcome = outcome
    BY <2>1, <2>4
  <2>6. PICK u \in Working("update") : At(u, {"poll"})
    BY <2>1, <2>3 DEF Ordered
  <2>7. Working("update")' = Working("update") /\ \A K : \A w \in Users : At(w, K)' <=> At(w, K)
    BY <2>2 DEF Working, At, Now
  <2>8. ASSUME NEW w \in Users PROVE FlashOK(w)'
    <3>1. CASE w # u
      <4>1. w \notin Working("update")
        BY <2>3, <2>6, <3>1 DEF Alone
      <4>2. \A K : K \subseteq FlashKinds => ~At(w, K)'
        BY <2>7, <4>1, FlashOnly
      <4> QED BY <4>2 DEF FlashOK, FlashKinds
    <3>2. CASE w = u
      <4>1. sram.image = job[u].id
        BY <2>3, <2>6 DEF FlashOK, At, Working
      <4>2. ~At(u, {"order"})' /\ ~At(u, {"report"})'
        <5>1. u \in Users /\ ~At(u, {"order"}) /\ ~At(u, {"report"})
          BY <2>6 DEF At, Working
        <5> QED BY <2>7, <5>1
      <4>3. flash' = job[u].id \/ outcome # 1
        BY <2>1, <4>1
      <4> QED BY <2>2, <2>5, <3>2, <4>1, <4>2, <4>3 DEF FlashOK
    <3> QED BY <3>1, <3>2
  <2> QED BY <2>3, <2>5, <2>7, <2>8 DEF Alone, Ordered
<1> QED BY <1>1, <1>2, <1>3

LEMMA FlashNext ==
  ASSUME TypeInv, FlashInv, [DNext]_vars
  PROVE  FlashInv'
<1>1. JobInv /\ FileTypes /\ (gone => gone')
  BY GoneStays DEF TypeInv
<1>2. ASSUME NEW u \in Users, Starting(u) \/ SlotWrite(u) \/ Walks(u) \/ Strayed(u)
      PROVE  FlashInv'
  <2>1. SlotWrite(u) => gone' = gone
    BY DEF SlotWrite, xvars
  <2> QED BY <1>1, <1>2, <2>1, FlashStarting, FlashWalks, WalksFacts, StrayedFacts
<1> QED BY <1>1, <1>2, StepSorts, FlashRest

LEMMA FlashInit == DInit => FlashInv
<1> SUFFICES ASSUME DInit PROVE FlashInv
  OBVIOUS
<1>1. \A u \in Users : job[u] = NoJob /\ work[u] = <<>> /\ sram.order = FALSE
  BY DEF DInit
<1>2. Working("update") = {} /\ \A K : \A u \in Users : ~At(u, K)
  BY <1>1, NoJobFacts DEF Working, At
<1> QED BY <1>1, <1>2 DEF FlashInv, DInit

(* An update that prints PASS has its own image in the flash, whatever the  *)
(* firmware answers and when, unless two updates ran at once or one timed   *)
(* out: the outcome of the update before is never taken for its own         *)
(* (memx_fs_proc.c:148-165).                                                *)
THEOREM PassCorrect == DSpec => []PassIsWritten
<1>1. TypeInv /\ FlashInv /\ [DNext]_vars => (TypeInv /\ FlashInv)'
  BY TypeNext, FlashNext
<1>2. FlashInv => PassIsWritten
  BY DEF FlashInv, PassIsWritten, Passes
<1> QED BY TypeInit, FlashInit, <1>1, <1>2, PTL DEF DSpec

-----------------------------------------------------------------------------
(* The pins.                                                                *)
PinOK(u) ==
  /\ At(u, {"ask"}) => seen[u][2] = gpio[2]
  /\ At(u, {"fetch", "label"}) => seen[u] = gpio

LEMMA ShowOnly ==
  ASSUME JobInv, NEW u \in Users, At(u, {"pin", "ask", "fetch", "label"})
  PROVE  u \in Working("show")
<1>1. Now(u).kind \in KindsOf(job[u].kind)
  BY NowFacts DEF At
<1>2. \A kind : KindsOf(kind) \cap {"pin", "ask", "fetch", "label"} # {} => kind = "show"
  BY DEF KindsOf, Fields
<1> QED BY <1>1, <1>2 DEF Working, At

LEMMA PinNext ==
  ASSUME TypeInv, PinInv, [DNext]_vars
  PROVE  PinInv'
<1>1. JobInv /\ FileTypes
  BY DEF TypeInv
<1> SUFFICES ASSUME NEW w \in Users, w \notin moved', w \notin failed' PROVE PinOK(w)'
  BY DEF PinInv, PinOK
<1>2. w \notin moved /\ w \notin failed => PinOK(w)
  BY DEF PinInv, PinOK
<1>3. ASSUME NEW u \in Users, Starting(u) PROVE PinOK(w)'
  <2>1. PICK kind \in Started, v \in 0 .. 1 : \E s : Start(u, kind, v, s) /\ Fresh(s, kind)
    BY <1>3, Starters DEF Starting
  <2>2. PICK s : Start(u, kind, v, s) /\ Fresh(s, kind)
    BY <2>1
  <2>3. work' = [work EXCEPT ![u] = s] /\ UNCHANGED <<seen, gpio>>
    BY <1>3, <2>2 DEF Start, Starting, WriteCmd, WriteThermal, WriteFwlog, ReadUpdateFlash, ReadGpio,
                      gpioVars
  <2>4. moved' \in {moved, moved \ {u}} /\ failed' \in {failed, failed \ {u}}
    BY <1>3 DEF Starting, WriteCmd, WriteThermal, WriteFwlog, ReadUpdateFlash, ReadGpio, gpioVars
  <2>5. work \in [Users -> Seq(Steps)]
    BY <1>1 DEF JobInv
  <2>6. CASE w = u
    BY <2>2, <2>3, <2>5, <2>6 DEF Fresh, Fields, PinOK, At, Now
  <2>7. CASE w # u
    BY <1>2, <2>3, <2>4, <2>5, <2>7 DEF PinOK, At, Now
  <2> QED BY <2>6, <2>7
<1>4. ASSUME NEW u \in Users, SlotWrite(u) \/ Walks(u) \/ Strayed(u) PROVE PinOK(w)'
  <2>1. /\ work[u] # <<>> /\ Proceed(u) /\ UNCHANGED <<gpio, moved>>
        /\ \A v \in Users : v # u => seen'[v] = seen[v]
        /\ w \notin failed
    BY <1>1, <1>4, WalksFacts, StrayedFacts
       DEF SlotWrite, At, gpioVars, Walks, LogStep, SetFlag, FlashStep, FlashPoll, FlashReport,
           GpioStep, FileTypes
  <2>2. CASE w # u
    BY <1>1, <1>2, <2>1, <2>2, AtNext DEF PinOK
  <2>3. CASE w = u
    <3>1. /\ At(u, {"ask"})' => Now(u).kind = "pin"
          /\ At(u, {"fetch"})' => Now(u).kind = "ask"
          /\ At(u, {"label"})' => Now(u).kind = "fetch"
      BY <1>1, <2>1, AtNext
    <3>2. CASE GpioStep(u)
      <4>1. /\ seen[u] \in Nat \X Nat /\ seen \in [Users -> Nat \X Nat] /\ gpio \in Nat \X Nat
        BY <1>1, XflowAssumption DEF FileTypes, Pins, XflowAssumption
      <4>2. PinOK(u) /\ At(u, {Now(u).kind})
        BY <1>2, <2>1, <2>3, <3>2, AtOne DEF GpioStep
      <4>3. CASE Now(u).kind = "pin"
        <5>1. seen'[u][2] = gpio[2]
          BY <3>2, <4>1, <4>3 DEF GpioStep
        <5> QED BY <2>1, <2>3, <3>1, <4>3, <5>1 DEF PinOK, At
      <4>4. CASE Now(u).kind = "ask"
        <5>1. seen'[u] = <<gpio[1], seen[u][2]>>
          BY <3>2, <4>1, <4>4 DEF GpioStep, AskedChip
        <5>2. seen[u][2] = gpio[2] /\ gpio = <<gpio[1], gpio[2]>>
          BY <4>1, <4>2, <4>4 DEF PinOK
        <5> QED BY <2>1, <2>3, <3>1, <4>4, <5>1, <5>2 DEF PinOK, At
      <4>5. CASE Now(u).kind = "fetch"
        <5>1. seen[u] = gpio
          BY <4>2, <4>5 DEF PinOK, At
        <5>2. seen'[u] = seen[u]
          <6>1. u \notin failed' /\ seen[u][1] = AskedChip
            BY <2>3, <5>1 DEF AskedChip
          <6> QED BY <3>2, <4>5, <6>1 DEF GpioStep
        <5> QED BY <2>1, <2>3, <3>1, <4>5, <5>1, <5>2 DEF PinOK, At
      <4>6. CASE Now(u).kind \notin {"pin", "ask", "fetch"}
        BY <2>3, <3>1, <4>6 DEF PinOK, At
      <4> QED BY <4>3, <4>4, <4>5, <4>6
    <3>3. CASE ~GpioStep(u)
      <4>1. Now(u).kind \notin {"pin", "ask", "fetch"}
        BY <1>1, <1>4, <3>3, StrayedFacts
           DEF SlotWrite, Walks, LogStep, SetFlag, FlashStep, FlashPoll, FlashReport, At, Fields
      <4> QED BY <2>3, <3>1, <4>1 DEF PinOK, At
    <3> QED BY <3>2, <3>3
  <2> QED BY <2>2, <2>3
<1>5. ASSUME NEW u \in Users, WriteGpio(u) PROVE PinOK(w)'
  <2>1. UNCHANGED work /\ moved' = moved \cup Working("show")
    BY <1>5 DEF WriteGpio
  <2>2. ~At(w, {"pin", "ask", "fetch", "label"})
    BY <1>1, <2>1, ShowOnly
  <2> QED BY <2>1, <2>2 DEF PinOK, At, Now
<1>6. ASSUME NEW u \in Users, FlashTimeOut(u) PROVE PinOK(w)'
  <2>1. work' = [work EXCEPT ![u] = <<>>] /\ UNCHANGED <<seen, gpio, moved, failed>>
    BY <1>6 DEF FlashTimeOut, Stop, gpioVars
  <2>2. work \in [Users -> Seq(Steps)]
    BY <1>1 DEF JobInv
  <2> QED BY <1>2, <2>1, <2>2 DEF PinOK, At, Now
<1>7. CASE (\E c \in Chips : FwTake(c)) \/ FwFlash \/ RegisterCalls \/ UNCHANGED vars
  <2>1. UNCHANGED <<work, seen, gpio, moved, failed>>
    BY <1>7, Unmoved DEF FwTake, FwFlash, RegisterCalls, gpioVars
  <2> QED BY <1>2, <2>1 DEF PinOK, At, Now
<1> QED BY <1>3, <1>4, <1>5, <1>6, <1>7, StepSorts DEF Idles

LEMMA PinInit == DInit => PinInv
BY DEF DInit, PinInv, At

(* The level that gpioctrl prints is that of the pin it prints, unless a    *)
(* pin was chosen during the read or its admin command failed, though the   *)
(* pin and its chip are read at different times, some of them under no lock *)
(* (memx_fs_proc.c:90-97).                                                  *)
THEOREM PinCorrect == DSpec => []PinIsLabelled
<1>1. TypeInv /\ PinInv /\ [DNext]_vars => (TypeInv /\ PinInv)'
  BY TypeNext, PinNext
<1>2. PinInv => PinIsLabelled
  BY DEF PinInv, PinIsLabelled, At
<1> QED BY TypeInit, PinInit, <1>1, <1>2, PTL DEF DSpec

-----------------------------------------------------------------------------
(* The log: distances on the ring.                                          *)
LEMMA DistIf ==
  ASSUME NEW a \in 0 .. LogSize - 1, NEW b \in 0 .. LogSize - 1
  PROVE  /\ Dist(a, b) = IF a <= b THEN b - a ELSE b - a + LogSize
         /\ Dist(a, b) \in 0 .. LogSize - 1
<1>0. LogSize \in Nat /\ LogSize > 1
  BY DebugFsAssumption DEF DebugFsAssumption
<1>1. CASE a <= b
  <2>1. b - a \in 0 .. LogSize - 1
    BY <1>0, <1>1
  <2> QED BY <1>1, <2>1, ModSame DEF Dist
<1>2. CASE ~(a <= b)
  <2>1. b - a \in (-LogSize) .. (-1) /\ b - a + LogSize \in 0 .. LogSize - 1
    BY <1>0, <1>2
  <2> QED BY <1>2, <2>1, ModUnder DEF Dist
<1> QED BY <1>1, <1>2

LEMMA PlaceIf ==
  ASSUME NEW a \in 0 .. LogSize - 1, NEW i \in 0 .. LogSize
  PROVE  (a + i) % LogSize = IF a + i < LogSize THEN a + i ELSE a + i - LogSize
<1>0. LogSize \in Nat /\ LogSize > 1
  BY DebugFsAssumption DEF DebugFsAssumption
<1>1. CASE a + i < LogSize
  <2>1. a + i \in 0 .. LogSize - 1
    BY <1>0, <1>1
  <2> QED BY <1>1, <2>1, ModSame
<1>2. CASE ~(a + i < LogSize)
  <2>1. a + i \in LogSize .. 2 * LogSize - 1
    BY <1>0, <1>2
  <2> QED BY <1>0, <1>2, <2>1, ModOver
<1> QED BY <1>1, <1>2

(* Up to s is read: what is left begins there.                              *)
LEMMA DistRest ==
  ASSUME NEW r \in 0 .. LogSize - 1, NEW s \in 0 .. LogSize - 1, NEW w \in 0 .. LogSize - 1,
         Dist(r, s) <= Dist(r, w)
  PROVE  /\ Dist(s, w) = Dist(r, w) - Dist(r, s)
         /\ \A i \in 1 .. Dist(s, w) : (s + i - 1) % LogSize = (r + (Dist(r, s) + i) - 1) % LogSize
<1>0. LogSize \in Nat /\ LogSize > 1
  BY DebugFsAssumption DEF DebugFsAssumption
<1>1. /\ Dist(r, s) = (IF r <= s THEN s - r ELSE s - r + LogSize)
      /\ Dist(r, w) = (IF r <= w THEN w - r ELSE w - r + LogSize)
      /\ Dist(s, w) = (IF s <= w THEN w - s ELSE w - s + LogSize)
      /\ Dist(r, s) \in 0 .. LogSize - 1 /\ Dist(r, w) \in 0 .. LogSize - 1
      /\ Dist(s, w) \in 0 .. LogSize - 1
  BY DistIf
<1>2. Dist(s, w) = Dist(r, w) - Dist(r, s)
  BY <1>0, <1>1
<1>3. ASSUME NEW i \in 1 .. Dist(s, w)
      PROVE  (s + i - 1) % LogSize = (r + (Dist(r, s) + i) - 1) % LogSize
  <2>1. i - 1 \in 0 .. LogSize /\ Dist(r, s) + i - 1 \in 0 .. LogSize
    BY <1>0, <1>1, <1>2
  <2>2. /\ (s + (i - 1)) % LogSize = (IF s + (i - 1) < LogSize THEN s + (i - 1) ELSE s + (i - 1) - LogSize)
        /\ (r + (Dist(r, s) + i - 1)) % LogSize =
             (IF r + (Dist(r, s) + i - 1) < LogSize THEN r + (Dist(r, s) + i - 1)
              ELSE r + (Dist(r, s) + i - 1) - LogSize)
    BY <2>1, PlaceIf
  <2>3. s + (i - 1) = s + i - 1 /\ r + (Dist(r, s) + i - 1) = r + (Dist(r, s) + i) - 1
    BY <1>1
  <2>4. \/ r + (Dist(r, s) + i - 1) = s + (i - 1)
        \/ r + (Dist(r, s) + i - 1) = s + (i - 1) + LogSize
    BY <1>0, <1>1
  <2>5. s + (i - 1) < 2 * LogSize /\ s + (i - 1) >= 0
    BY <1>0, <2>1
  <2>6. r + (Dist(r, s) + i - 1) = s + (i - 1) + LogSize => s + (i - 1) < LogSize
    BY <1>0, <1>1, <1>2
  <2> QED BY <1>0, <2>1, <2>2, <2>3, <2>4, <2>5, <2>6
<1> QED BY <1>2, <1>3

(* One more entry, when there is room.                                      *)
LEMMA DistMore ==
  ASSUME NEW r \in 0 .. LogSize - 1, NEW w \in 0 .. LogSize - 1, (w + 1) % LogSize # r
  PROVE  /\ (w + 1) % LogSize \in 0 .. LogSize - 1
         /\ Dist(r, (w + 1) % LogSize) = Dist(r, w) + 1
         /\ (r + Dist(r, w)) % LogSize = w
         /\ \A i \in 1 .. Dist(r, w) : (r + i - 1) % LogSize # w
<1>0. LogSize \in Nat /\ LogSize > 1
  BY DebugFsAssumption DEF DebugFsAssumption
<1>1. (w + 1) % LogSize = IF w + 1 < LogSize THEN w + 1 ELSE w + 1 - LogSize
  <2>1. 1 \in 0 .. LogSize
    BY <1>0
  <2> QED BY <2>1, PlaceIf
<1> DEFINE v == (w + 1) % LogSize
<1>2. v \in 0 .. LogSize - 1 /\ v = (IF w + 1 < LogSize THEN w + 1 ELSE 0)
  BY <1>0, <1>1
<1> HIDE DEF v
<1>3. /\ Dist(r, w) = (IF r <= w THEN w - r ELSE w - r + LogSize)
      /\ Dist(r, v) = (IF r <= v THEN v - r ELSE v - r + LogSize)
      /\ Dist(r, w) \in 0 .. LogSize - 1
  BY <1>2, DistIf
<1>4. v # r
  BY DEF v
<1>5. Dist(r, v) = Dist(r, w) + 1
  BY <1>0, <1>2, <1>3, <1>4
<1>6. (r + Dist(r, w)) % LogSize = w
  <2>1. Dist(r, w) \in 0 .. LogSize
    BY <1>0, <1>3
  <2>2. (r + Dist(r, w)) % LogSize = IF r + Dist(r, w) < LogSize THEN r + Dist(r, w)
                                     ELSE r + Dist(r, w) - LogSize
    BY <2>1, PlaceIf
  <2> QED BY <1>0, <1>3, <2>2
<1>7. ASSUME NEW i \in 1 .. Dist(r, w)
      PROVE  (r + i - 1) % LogSize # w
  <2>1. i - 1 \in 0 .. LogSize
    BY <1>0, <1>3
  <2>2. (r + (i - 1)) % LogSize = IF r + (i - 1) < LogSize THEN r + (i - 1)
                                  ELSE r + (i - 1) - LogSize
    BY <2>1, PlaceIf
  <2>3. r + (i - 1) = r + i - 1
    OBVIOUS
  <2> QED BY <1>0, <1>3, <2>2, <2>3
<1> QED BY <1>2, <1>5, <1>6, <1>7 DEF v

Count(n) == [i \in 1 .. n |-> i]

LEMMA CountMore ==
  ASSUME NEW a \in Nat, NEW b \in Nat
  PROVE  Count(a) \o [i \in 1 .. b |-> a + i] = Count(a + b)
BY DEF Count

(* What is unread, in numbers.                                              *)
LEMMA UnreadCount ==
  ASSUME FileTypes, NEW c \in Chips, LogOK(c), NEW s \in 0 .. LogSize - 1,
         Dist(log[c].rp, s) <= Dist(log[c].rp, log[c].wp)
  PROVE  /\ log[c].made - Dist(log[c].rp, log[c].wp) \in Nat
         /\ Dist(log[c].rp, s) \in Nat
         /\ Count(log[c].made - Dist(log[c].rp, log[c].wp)) \o Unread(c, s, log[c].rp)
              = Count(log[c].made - Dist(log[c].rp, log[c].wp) + Dist(log[c].rp, s))
<1> DEFINE l == log[c]
           n == Dist(l.rp, l.wp)
           m == Dist(l.rp, s)
           a == l.made - n
<1>1. l.rp \in 0 .. LogSize - 1 /\ l.wp \in 0 .. LogSize - 1 /\ l.made \in Nat
      /\ LogSize \in Nat
  BY LogFacts
<1>2. n \in 0 .. LogSize - 1 /\ m \in 0 .. LogSize - 1 /\ m <= n
  BY <1>1, DistIf
<1>3. n <= l.made /\ \A i \in 1 .. n : l.cells[(l.rp + i - 1) % LogSize] = l.made - n + i
  BY DEF LogOK
<1>4. (s - l.rp) % LogSize = m
  BY DEF Dist
<1>5. Unread(c, s, l.rp) = [i \in 1 .. m |-> l.cells[(l.rp + i - 1) % LogSize]]
  BY <1>4 DEF Unread
<1> HIDE DEF n, m
<1>6. \A i \in 1 .. m : l.cells[(l.rp + i - 1) % LogSize] = a + i
  BY <1>1, <1>2, <1>3
<1>7. Unread(c, s, l.rp) = [i \in 1 .. m |-> a + i]
  BY <1>5, <1>6
<1>8. a \in Nat /\ m \in Nat
  BY <1>1, <1>2, <1>3
<1>9. Count(a) \o [i \in 1 .. m |-> a + i] = Count(a + m)
  <2> HIDE DEF a
  <2> QED BY <1>8, CountMore
<1> QED BY <1>7, <1>8, <1>9 DEF n, m

(* A step that leaves a log and its dump alone.                             *)
LEMMA LogFrame ==
  ASSUME NEW c \in Chips, LogOK(c), log'[c] = log[c],
         \A u, v \in Dumping(c)' : u = v,
         \A u \in Dumping(c)' : At(u, {"rp", "print", "advance"})' =>
            u \in Dumping(c) /\ seen'[u] = seen[u] /\ \A K : At(u, K)' <=> At(u, K),
         \A u \in Dumping(c) : At(u, {"advance"}) => u \in Dumping(c)' /\ At(u, {"advance"})'
  PROVE  LogOK(c)'
<1> DEFINE l == log[c]
           n == Dist(l.rp, l.wp)
<1>1. /\ n <= l.made
      /\ \A i \in 1 .. n : l.cells[(l.rp + i - 1) % LogSize] = l.made - n + i
      /\ \A u \in Dumping(c) :
           /\ At(u, {"rp", "print", "advance"}) => Dist(l.rp, seen[u][1]) <= n
           /\ At(u, {"print", "advance"}) => seen[u][2] = l.rp
           /\ At(u, {"advance"}) =>
                l.printed = [i \in 1 .. (l.made - n + Dist(l.rp, seen[u][1])) |-> i]
      /\ (\A u \in Dumping(c) : ~At(u, {"advance"})) => l.printed = [i \in 1 .. (l.made - n) |-> i]
  BY DEF LogOK
<1>2. ASSUME NEW u \in Dumping(c)'
      PROVE  /\ At(u, {"rp", "print", "advance"})' => Dist(l.rp, seen'[u][1]) <= n
             /\ At(u, {"print", "advance"})' => seen'[u][2] = l.rp
             /\ At(u, {"advance"})' =>
                  l.printed = [i \in 1 .. (l.made - n + Dist(l.rp, seen'[u][1])) |-> i]
  <2>1. CASE At(u, {"rp", "print", "advance"})'
    BY <1>1, <2>1
  <2>2. CASE ~At(u, {"rp", "print", "advance"})'
    BY <2>2 DEF At
  <2> QED BY <2>1, <2>2
<1>3. (\A u \in Dumping(c)' : ~At(u, {"advance"})') => l.printed = [i \in 1 .. (l.made - n) |-> i]
  BY <1>1
<1>4. log'[c] = l /\ Dist(log'[c].rp, log'[c].wp) = n
  OBVIOUS
<1> HIDE DEF l, n
<1> QED BY <1>1, <1>2, <1>3, <1>4 DEF LogOK, Dist

(* The steps, for one log.                                                  *)
DumpKinds == {"wp", "rp", "print", "advance"}

LEMMA DumpOnly ==
  ASSUME JobInv, NEW u \in Users, work[u] # <<>>
  PROVE  u \in Working("fwlog") <=> Now(u).kind \in DumpKinds
<1>1. Now(u).kind \in KindsOf(job[u].kind)
  BY NowFacts
<1>2. \A kind : /\ kind # "fwlog" => KindsOf(kind) \cap DumpKinds = {}
                /\ kind = "fwlog" => KindsOf(kind) = DumpKinds
  BY DEF KindsOf, Fields, DumpKinds
<1> QED BY <1>1, <1>2 DEF Working

(* Who dumps c, after a step of u.                                          *)
LEMMA DumpNext ==
  ASSUME JobInv, NEW u \in Users, work[u] # <<>>, Proceed(u), NEW c \in Chips
  PROVE  /\ Dumping(c)' \subseteq Dumping(c)
         /\ Dumping(c) \ {u} \subseteq Dumping(c)'
         /\ Now(u).kind \notin DumpKinds => u \notin Dumping(c)
         /\ Now(u).kind = "advance" => u \notin Dumping(c)'
         /\ Now(u).kind \in {"wp", "rp", "print"} /\ u \in Dumping(c) => u \in Dumping(c)'
<1>1. /\ \A v \in Users : v # u => work'[v] = work[v] /\ job'[v] = job[v]
      /\ job'[u] = IF work'[u] = <<>> THEN NoJob ELSE job[u]
      /\ work'[u] # <<>> => Follow(Now(u), Head(work'[u]))
      /\ work'[u] = <<>> => Now(u).kind \in Finals \cup {"command"}
  BY ProceedFacts
<1>2. \A v \in Users : v # u => (v \in Dumping(c)' <=> v \in Dumping(c))
  BY <1>1 DEF Dumping, Working, Now
<1>3. u \in Working("fwlog") <=> Now(u).kind \in DumpKinds
  BY DumpOnly
<1>4. u \in Working("fwlog")' <=> u \in Working("fwlog") /\ work'[u] # <<>>
  BY <1>1, NoJobFacts DEF Working
<1>5. Dumping(c)' \subseteq Users /\ Dumping(c) \subseteq Users
  BY DEF Dumping, Working
<1>6. u \in Working("fwlog") /\ work'[u] # <<>> =>
        Now(u).kind \in {"wp", "rp", "print"} /\ Now(u)'.chip = Now(u).chip
  BY <1>1, <1>3 DEF DumpKinds, Follow, Follows, Finals, Now
<1>7. Now(u).kind \in {"wp", "rp", "print"} => work'[u] # <<>>
  BY <1>1 DEF Finals
<1>8. u \in Dumping(c)' => u \in Dumping(c)
  BY <1>4, <1>6 DEF Dumping
<1>9. Now(u).kind = "advance" => u \notin Dumping(c)'
  BY <1>4, <1>6 DEF Dumping
<1>10. Now(u).kind \in {"wp", "rp", "print"} /\ u \in Dumping(c) => u \in Dumping(c)'
  BY <1>4, <1>6, <1>7 DEF Dumping
<1>11. Now(u).kind \notin DumpKinds => u \notin Dumping(c)
  BY <1>3 DEF Dumping
<1> QED BY <1>2, <1>5, <1>8, <1>9, <1>10, <1>11

LEMMA LogStarting ==
  ASSUME JobInv, NEW c \in Chips, LogOK(c), c \notin muddled', NEW u \in Users, Starting(u)
  PROVE  LogOK(c)'
<1>1. PICK kind \in Started, v \in 0 .. 1 : \E s : Start(u, kind, v, s) /\ Fresh(s, kind)
  BY Starters DEF Starting
<1>2. PICK s : Start(u, kind, v, s) /\ Fresh(s, kind)
  BY <1>1
<1>3. /\ job[u] = NoJob /\ work[u] = <<>> /\ job'[u].kind = kind
      /\ job' = [job EXCEPT ![u] = [kind |-> kind, id |-> jobs + 1, value |-> v]]
      /\ work' = [work EXCEPT ![u] = s] /\ UNCHANGED <<seen, log>>
  BY <1>2, StartFacts DEF Start
<1>4. job \in [Users -> Job] /\ work \in [Users -> Seq(Steps)] /\ job[u].kind = "none"
  BY <1>3, NoJobFacts DEF JobInv
<1>5. work'[u] = s /\ \A w \in Users : w # u => work'[w] = work[w] /\ job'[w] = job[w]
  BY <1>3, <1>4
<1>6. \A w \in Users : w # u => /\ \A K : At(w, K)' <=> At(w, K)
                                /\ w \in Dumping(c)' <=> w \in Dumping(c)
  BY <1>5 DEF At, Now, Dumping, Working
<1>7. ~At(u, {"rp", "print", "advance"})'
  BY <1>2, <1>5 DEF At, Now, Fresh, Fields
<1>8. u \notin Dumping(c)
  BY <1>4 DEF Dumping, Working
<1>9. Dumping(c) \subseteq Users /\ Dumping(c)' \subseteq Users
  BY DEF Dumping, Working
<1>10. \A w, x \in Dumping(c) : w = x
  BY DEF LogOK
<1>11. u \in Dumping(c)' => Dumping(c) = {}
  <2> SUFFICES ASSUME u \in Dumping(c)' PROVE Dumping(c) = {}
    OBVIOUS
  <2>1. job'[u].kind = "fwlog" /\ Head(s).chip = c
    BY <1>5 DEF Dumping, Working, Now
  <2>2. WriteFwlog(u)
    BY <1>4, <2>1, CmdKinds DEF Starting, WriteThermal, ReadUpdateFlash, ReadGpio, Start
  <2>3. PICK d \in Chips : /\ work'[u] = DumpLog(d)
                           /\ muddled' = IF \E w \in Working("fwlog") : Now(w).chip = d
                                         THEN muddled \cup {d} ELSE muddled
    BY <1>4, <2>2 DEF WriteFwlog, Start
  <2>4. Step("wp", d) \in Steps /\ DumpLog(d)[1] = Step("wp", d) /\ Step("wp", d).chip = d
    BY StepType DEF DumpLog, StepKinds
  <2>5. d = c
    <3>1. Head(DumpLog(d)) = DumpLog(d)[1]
      BY <1>2, <1>5, <2>3, HeadKind DEF Fresh
    <3> QED BY <1>5, <2>1, <2>3, <2>4, <3>1
  <2> QED BY <2>3, <2>5 DEF Dumping
<1>12. \A w, x \in Dumping(c)' : w = x
  BY <1>6, <1>9, <1>10, <1>11
<1> QED BY <1>3, <1>6, <1>7, <1>8, <1>9, <1>12, LogFrame

LEMMA LogWalksBy ==
  ASSUME JobInv, FileTypes, NEW c \in Chips, LogOK(c), NEW u \in Users, work[u] # <<>>, Proceed(u),
         log'[c] = log[c], \A v \in Users : v # u => seen'[v] = seen[v],
         u \notin Dumping(c)
  PROVE  LogOK(c)'
<1>1. /\ Dumping(c)' \subseteq Dumping(c) /\ Dumping(c) \ {u} \subseteq Dumping(c)'
  BY DumpNext
<1>2. Dumping(c)' = Dumping(c) /\ u \notin Dumping(c)'
  BY <1>1
<1>3. \A v \in Dumping(c) : v \in Users /\ v # u
  BY DEF Dumping, Working
<1>4. \A v \in Dumping(c) : seen'[v] = seen[v] /\ \A K : At(v, K)' <=> At(v, K)
  BY <1>3, AtNext
<1>5. \A v, w \in Dumping(c) : v = w
  BY DEF LogOK
<1>6. \A v, w \in Dumping(c)' : v = w
  BY <1>2, <1>5
<1>7. \A v \in Dumping(c)' : At(v, {"rp", "print", "advance"})' =>
            v \in Dumping(c) /\ seen'[v] = seen[v] /\ \A K : At(v, K)' <=> At(v, K)
  BY <1>2, <1>4
<1>8. \A v \in Dumping(c) : At(v, {"advance"}) => v \in Dumping(c)' /\ At(v, {"advance"})'
  BY <1>2, <1>4
<1> QED BY <1>6, <1>7, <1>8, LogFrame

(* One of the four steps of a dump of c.                                    *)
LEMMA LogDumped ==
  ASSUME JobInv, FileTypes, NEW c \in Chips, LogOK(c), NEW u \in Users, LogStep(u),
         u \in Dumping(c)
  PROVE  LogOK(c)'
<1> DEFINE k == Now(u).kind
           l == log[c]
           n == Dist(l.rp, l.wp)
           a == l.made - n
<1>1. /\ At(u, {"wp", "rp", "print", "advance"}) /\ Proceed(u) /\ Now(u).chip = c
      /\ seen' = IF k = "wp" THEN [seen EXCEPT ![u][1] = log[c].wp]
                 ELSE IF k = "rp" THEN [seen EXCEPT ![u][2] = log[c].rp] ELSE seen
      /\ log' = IF k = "print"
                THEN [log EXCEPT ![c].printed = @ \o Unread(c, seen[u][1], seen[u][2])]
                ELSE IF k = "advance" THEN [log EXCEPT ![c].rp = NewRp(u, c)] ELSE log
  BY DEF LogStep, Dumping
<1>2. work[u] # <<>> /\ k \in DumpKinds /\ At(u, {k})
  BY <1>1, AtOne DEF DumpKinds
<1>3. /\ log \in [Chips -> Log] /\ l \in Log /\ l.wp \in 0 .. LogSize - 1
      /\ l.rp \in 0 .. LogSize - 1 /\ l.made \in Nat /\ LogSize \in Nat /\ LogSize > 1
  BY LogFacts
<1>4. seen \in [Users -> Nat \X Nat] /\ seen[u] \in Nat \X Nat
  BY DEF FileTypes
<1>5. /\ n <= l.made
      /\ \A i \in 1 .. n : l.cells[(l.rp + i - 1) % LogSize] = l.made - n + i
      /\ At(u, {"rp", "print", "advance"}) => Dist(l.rp, seen[u][1]) <= n
      /\ At(u, {"print", "advance"}) => seen[u][2] = l.rp
      /\ At(u, {"advance"}) => l.printed = Count(a + Dist(l.rp, seen[u][1]))
      /\ ~At(u, {"advance"}) => l.printed = Count(a)
  BY DEF LogOK, Count
<1>6. \A v \in Dumping(c) : v = u
  BY DEF LogOK
<1>7. /\ Dumping(c)' \subseteq {u}
      /\ k = "advance" => Dumping(c)' = {}
      /\ k # "advance" => Dumping(c)' = {u}
  BY <1>1, <1>2, <1>6, DumpNext DEF DumpKinds
<1>8. /\ At(u, {"rp"})' => k = "wp"
      /\ At(u, {"print"})' => k = "rp"
      /\ At(u, {"advance"})' => k = "print"
  BY <1>1, <1>2, AtNext
<1>9. n \in 0 .. LogSize - 1 /\ a \in Nat
  <2>1. n \in 0 .. LogSize - 1
    BY <1>3, DistIf
  <2> HIDE DEF n
  <2> QED BY <1>3, <1>5, <2>1
<1>10. At(u, {"rp", "print", "advance"}) => seen[u][1] \in 0 .. LogSize - 1
  BY DEF FileTypes
<1> HIDE DEF n, a
<1>11. CASE k = "wp"
  <2>1. log' = log /\ seen'[u][1] = l.wp
    BY <1>1, <1>4, <1>11
  <2>2. ~At(u, {"print"})' /\ ~At(u, {"advance"})' /\ ~At(u, {"advance"})
    BY <1>2, <1>8, <1>11 DEF At
  <2>3. l.printed = Count(a)
    BY <1>5, <2>2
  <2>4. ~At(u, {"print", "advance"})' /\ n <= n
    BY <1>9, <2>2 DEF At
  <2> QED BY <1>5, <1>7, <1>11, <2>1, <2>2, <2>3, <2>4 DEF LogOK, Count, n, a
<1>12. CASE k = "rp"
  <2>1. log' = log /\ seen'[u] = <<seen[u][1], l.rp>>
    BY <1>1, <1>4, <1>12
  <2>2. ~At(u, {"advance"})' /\ ~At(u, {"advance"}) /\ At(u, {"rp", "print", "advance"})
    BY <1>2, <1>8, <1>12 DEF At
  <2>3. l.printed = Count(a) /\ Dist(l.rp, seen[u][1]) <= n
    BY <1>5, <2>2
  <2>4. seen'[u][1] = seen[u][1] /\ seen'[u][2] = l.rp
    BY <2>1
  <2> QED BY <1>5, <1>7, <1>12, <2>1, <2>2, <2>3, <2>4 DEF LogOK, Count, n, a
<1>13. CASE k = "print"
  <2> DEFINE m == Dist(l.rp, seen[u][1])
             p == l.printed \o Unread(c, seen[u][1], seen[u][2])
  <2>1. log' = [log EXCEPT ![c].printed = p] /\ seen' = seen
    BY <1>1, <1>13
  <2>2. /\ ~At(u, {"advance"}) /\ At(u, {"rp", "print", "advance"}) /\ At(u, {"print", "advance"})
    BY <1>2, <1>13 DEF At
  <2>3. m <= n /\ seen[u][2] = l.rp /\ l.printed = Count(a) /\ seen[u][1] \in 0 .. LogSize - 1
    BY <1>5, <1>10, <2>2
  <2>4. p = Count(a + m)
    BY <2>3, UnreadCount DEF n, a
  <2> HIDE DEF m, p
  <2>5. /\ log'[c].printed = p /\ log'[c].rp = l.rp /\ log'[c].wp = l.wp /\ log'[c].made = l.made
        /\ log'[c].cells = l.cells
    BY <1>3, <2>1 DEF Log
  <2>6. At(u, {"advance"})'
    <3>1. work'[u] # <<>> /\ Follow(Now(u), Head(work'[u]))
      BY <1>1, <1>2, <1>13, ProceedFacts DEF Finals
    <3>2. Head(work'[u]).kind = "advance"
      BY <1>13, <3>1 DEF Follow, Follows
    <3> QED BY <3>1, <3>2 DEF At, Now
  <2>7. seen'[u][1] = seen[u][1] /\ seen'[u][2] = l.rp
    BY <2>1, <2>3
  <2>8. Dist(log'[c].rp, log'[c].wp) = n /\ Dist(log'[c].rp, seen'[u][1]) = m
    BY <2>5, <2>7 DEF n, m
  <2>9. log'[c].printed = [i \in 1 .. (log'[c].made - n + m) |-> i]
    BY <2>4, <2>5 DEF Count, a
  <2>10. \A v \in Dumping(c)' : v = u
    BY <1>7
  <2>11. n <= log'[c].made
         /\ \A i \in 1 .. n : log'[c].cells[(log'[c].rp + i - 1) % LogSize] = log'[c].made - n + i
    BY <1>5, <2>5
  <2>12. u \in Dumping(c)'
    BY <1>7, <1>13
  <2> QED BY <2>3, <2>5, <2>6, <2>7, <2>8, <2>9, <2>10, <2>11, <2>12 DEF LogOK, Dist
<1>14. CASE k = "advance"
  <2> DEFINE s == seen[u][1]
             m == Dist(l.rp, s)
             q == Dist(s, l.wp)
  <2>1. log' = [log EXCEPT ![c].rp = s]
    BY <1>1, <1>14 DEF NewRp
  <2>2. At(u, {"advance"}) /\ At(u, {"rp", "print", "advance"})
    BY <1>2, <1>14 DEF At
  <2>3. m <= n /\ l.printed = Count(a + m) /\ s \in 0 .. LogSize - 1
    BY <1>5, <1>10, <2>2
  <2>4. /\ log'[c].rp = s /\ log'[c].printed = l.printed /\ log'[c].wp = l.wp
        /\ log'[c].made = l.made /\ log'[c].cells = l.cells
    BY <1>3, <2>1 DEF Log
  <2>5. /\ q = n - m /\ q \in 0 .. LogSize - 1 /\ m \in 0 .. LogSize - 1
        /\ \A i \in 1 .. q : (s + i - 1) % LogSize = (l.rp + (m + i) - 1) % LogSize
    <3>1. m \in 0 .. LogSize - 1 /\ q \in 0 .. LogSize - 1
      BY <1>3, <2>3, DistIf
    <3>2. m <= Dist(l.rp, l.wp)
      BY <2>3 DEF n
    <3>3. /\ q = Dist(l.rp, l.wp) - m
          /\ \A i \in 1 .. q : (s + i - 1) % LogSize = (l.rp + (m + i) - 1) % LogSize
      <4> HIDE DEF s
      <4> QED BY <1>3, <2>3, <3>2, DistRest
    <3> QED BY <3>1, <3>3 DEF n
  <2> HIDE DEF s, m, q
  <2>6. Dist(log'[c].rp, log'[c].wp) = q
    BY <2>4 DEF q
  <2>7. q <= l.made /\ l.made - q = a + m
    BY <1>3, <1>5, <1>9, <2>3, <2>5 DEF a
  <2>8. ASSUME NEW i \in 1 .. q
        PROVE  l.cells[(s + i - 1) % LogSize] = l.made - q + i
    <3>1. m + i \in 1 .. n
      BY <1>9, <2>5
    <3>2. l.cells[(l.rp + (m + i) - 1) % LogSize] = l.made - n + (m + i)
      BY <1>5, <3>1
    <3>3. l.made - n + (m + i) = l.made - q + i
      BY <1>3, <1>9, <2>5
    <3> QED BY <2>5, <3>2, <3>3
  <2>9. log'[c].printed = [i \in 1 .. (log'[c].made - q) |-> i]
    BY <2>3, <2>4, <2>7 DEF Count
  <2>10. Dumping(c)' = {}
    BY <1>7, <1>14
  <2> QED BY <2>4, <2>6, <2>7, <2>8, <2>9, <2>10 DEF LogOK, Dist
<1> QED BY <1>2, <1>11, <1>12, <1>13, <1>14 DEF DumpKinds

(* The firmware logs what it did.                                           *)
LEMMA LogTaken ==
  ASSUME JobInv, FileTypes, NEW c \in Chips, LogOK(c), NEW d \in Chips, FwTake(d)
  PROVE  LogOK(c)'
<1> DEFINE l == log[c]
           n == Dist(l.rp, l.wp)
           w == (l.wp + 1) % LogSize
<1>1. UNCHANGED <<job, work, seen>> /\ log' = [log EXCEPT ![d] = Logged(d)]
  BY DEF FwTake
<1>2. /\ log \in [Chips -> Log] /\ l \in Log /\ l.wp \in 0 .. LogSize - 1
      /\ l.rp \in 0 .. LogSize - 1 /\ l.made \in Nat /\ LogSize \in Nat
      /\ l.cells \in [0 .. LogSize - 1 -> Nat]
  BY LogFacts
<1>3. Dumping(c)' = Dumping(c) /\ \A K : \A u \in Users : At(u, K)' <=> At(u, K)
  BY <1>1 DEF Dumping, Working, Now, At
<1>4. \A u, v \in Dumping(c) : u = v
  BY DEF LogOK
<1>5. Dumping(c) \subseteq Users
  BY DEF Dumping, Working
<1>6. CASE log'[c] = log[c]
  BY <1>1, <1>3, <1>4, <1>5, <1>6, LogFrame
<1>7. CASE log'[c] # log[c]
  <2>1. w # l.rp /\ log'[c] = [l EXCEPT !.cells[l.wp] = l.made + 1, !.wp = w, !.made = @ + 1]
    BY <1>1, <1>2, <1>7 DEF Logged
  <2>2. /\ log'[c].cells = [l.cells EXCEPT ![l.wp] = l.made + 1] /\ log'[c].wp = w
        /\ log'[c].made = l.made + 1 /\ log'[c].rp = l.rp /\ log'[c].printed = l.printed
    BY <1>2, <2>1 DEF Log
  <2>3. /\ Dist(l.rp, w) = n + 1 /\ (l.rp + n) % LogSize = l.wp
        /\ \A i \in 1 .. n : (l.rp + i - 1) % LogSize # l.wp
    BY <1>2, <2>1, DistMore
  <2>4. n \in 0 .. LogSize - 1
    BY <1>2, DistIf
  <2>5. /\ n <= l.made
        /\ \A i \in 1 .. n : l.cells[(l.rp + i - 1) % LogSize] = l.made - n + i
        /\ \A u \in Dumping(c) :
             /\ At(u, {"rp", "print", "advance"}) => Dist(l.rp, seen[u][1]) <= n
             /\ At(u, {"print", "advance"}) => seen[u][2] = l.rp
             /\ At(u, {"advance"}) =>
                  l.printed = [i \in 1 .. (l.made - n + Dist(l.rp, seen[u][1])) |-> i]
        /\ (\A u \in Dumping(c) : ~At(u, {"advance"})) => l.printed = [i \in 1 .. (l.made - n) |-> i]
    BY DEF LogOK
  <2> HIDE DEF n, w
  <2>6. Dist(log'[c].rp, log'[c].wp) = n + 1
    BY <2>2, <2>3
  <2>7. n + 1 <= l.made + 1 /\ (l.made + 1) - (n + 1) = l.made - n
    BY <1>2, <2>4, <2>5
  <2>8. ASSUME NEW i \in 1 .. n + 1
        PROVE  log'[c].cells[(l.rp + i - 1) % LogSize] = (l.made + 1) - (n + 1) + i
    <3>1. CASE i = n + 1
      <4>0. \A x, y, z \in Int : x + (z + 1) - 1 = x + z /\ (y + 1) - (z + 1) + (z + 1) = y + 1
        OBVIOUS
      <4>1. l.rp + i - 1 = l.rp + n /\ (l.made + 1) - (n + 1) + i = l.made + 1
        <5>1. l.rp \in Int /\ l.made \in Int /\ n \in Int
          BY <1>2, <2>4
        <5> QED BY <3>1, <4>0, <5>1
      <4> QED BY <1>2, <2>2, <2>3, <4>1
    <3>2. CASE i # n + 1
      <4>1. i \in 1 .. n
        BY <2>4, <3>2
      <4>2. (l.rp + i - 1) % LogSize \in 0 .. LogSize - 1
        <5>1. l.rp + i - 1 \in Int
          BY <1>2, <4>1
        <5> QED BY <5>1, ModRange
      <4>3. log'[c].cells[(l.rp + i - 1) % LogSize] = l.cells[(l.rp + i - 1) % LogSize]
        BY <1>2, <2>2, <2>3, <4>1, <4>2
      <4> QED BY <2>5, <2>7, <4>1, <4>3
    <3> QED BY <3>1, <3>2
  <2>9. ASSUME NEW u \in Dumping(c)
        PROVE  /\ At(u, {"rp", "print", "advance"}) => Dist(l.rp, seen[u][1]) <= n + 1
               /\ At(u, {"print", "advance"}) => seen[u][2] = l.rp
               /\ At(u, {"advance"}) =>
                    l.printed = [i \in 1 .. ((l.made + 1) - (n + 1) + Dist(l.rp, seen[u][1])) |-> i]
    <3>1. At(u, {"rp", "print", "advance"}) => Dist(l.rp, seen[u][1]) <= n + 1
      <4> SUFFICES ASSUME At(u, {"rp", "print", "advance"}) PROVE Dist(l.rp, seen[u][1]) <= n + 1
        OBVIOUS
      <4>1. seen[u][1] \in 0 .. LogSize - 1
        BY <1>5 DEF FileTypes
      <4>2. Dist(l.rp, seen[u][1]) \in 0 .. LogSize - 1
        BY <1>2, <4>1, DistIf
      <4>3. Dist(l.rp, seen[u][1]) <= n
        BY <2>5
      <4> QED BY <2>4, <4>2, <4>3
    <3> QED BY <2>5, <2>7, <3>1
  <2>10. (\A u \in Dumping(c) : ~At(u, {"advance"})) =>
           l.printed = [i \in 1 .. ((l.made + 1) - (n + 1)) |-> i]
    BY <2>5, <2>7
  <2>11. \A u \in Dumping(c)' : u \in Dumping(c) /\ u \in Users
    BY <1>3, <1>5
  <2>12. \A u \in Dumping(c)' :
           /\ At(u, {"rp", "print", "advance"})' => Dist(l.rp, seen'[u][1]) <= n + 1
           /\ At(u, {"print", "advance"})' => seen'[u][2] = l.rp
           /\ At(u, {"advance"})' =>
                l.printed = [i \in 1 .. ((l.made + 1) - (n + 1) + Dist(l.rp, seen'[u][1])) |-> i]
    BY <1>1, <1>3, <2>9, <2>11
  <2>13. (\A u \in Dumping(c)' : ~At(u, {"advance"})') =>
           l.printed = [i \in 1 .. ((l.made + 1) - (n + 1)) |-> i]
    BY <1>3, <1>5, <2>10
  <2>14. \A u, v \in Dumping(c)' : u = v
    BY <1>3, <1>4
  <2> QED BY <2>2, <2>6, <2>7, <2>8, <2>12, <2>13, <2>14 DEF LogOK, Dist
<1> QED BY <1>6, <1>7

LEMMA LogRegister ==
  ASSUME JobInv, FileTypes, NEW c \in Chips, LogOK(c), RegisterCalls, c \notin muddled'
  PROVE  LogOK(c)'
<1>1. /\ UNCHANGED <<job, work, seen>>
      /\ log' = [d \in Chips |->
                  IF d \in Emptied
                  THEN [log[d] EXCEPT !.wp = 0, !.rp = 0, !.made = 0, !.printed = <<>>]
                  ELSE log[d]]
      /\ muddled' = muddled \cup {Now(w).chip : w \in {v \in Working("fwlog") :
                                                        Now(v).chip \in Emptied}}
  BY DEF RegisterCalls
<1>2. Dumping(c)' = Dumping(c) /\ \A K : \A u \in Users : At(u, K)' <=> At(u, K)
  BY <1>1 DEF Dumping, Working, Now, At
<1>3. Dumping(c) \subseteq Users /\ \A u, v \in Dumping(c) : u = v
  BY DEF Dumping, Working, LogOK
<1>4. CASE c \notin Emptied
  <2>1. log'[c] = log[c] /\ seen' = seen
    BY <1>1, <1>4
  <2> QED BY <1>2, <1>3, <2>1, LogFrame
<1>5. CASE c \in Emptied
  <2>1. Dumping(c) = {}
    BY <1>1, <1>5 DEF Dumping
  <2>2. log[c] \in Log /\ LogSize \in Nat /\ LogSize > 1
    BY LogFacts
  <2>3. log'[c].wp = 0 /\ log'[c].rp = 0 /\ log'[c].made = 0 /\ log'[c].printed = <<>>
    BY <1>1, <1>5, <2>2 DEF Log
  <2>4. 0 \in 0 .. LogSize - 1
    BY <2>2
  <2>5. Dist(0, 0) = 0
    BY <2>4, DistIf
  <2>6. [i \in 1 .. 0 |-> i] = <<>>
    OBVIOUS
  <2>7. Dist(log'[c].rp, log'[c].wp) = 0
    BY <2>3, <2>5
  <2>8. 0 <= log'[c].made /\ log'[c].printed = [i \in 1 .. (log'[c].made - 0) |-> i]
    BY <2>3, <2>6
  <2> QED BY <1>2, <2>1, <2>7, <2>8 DEF LogOK, Dist
<1> QED BY <1>4, <1>5

LEMMA MuddledStays ==
  ASSUME [DNext]_vars
  PROVE  muddled \subseteq muddled'
<1>1. ASSUME NEW u \in Users, Handler(u) PROVE muddled \subseteq muddled'
  BY <1>1 DEF Handler, WriteCmd, WriteThermal, WriteFwlog, ReadUpdateFlash, WriteGpio, ReadGpio,
     SlotWrite, StrayWrite, PointerWrite, SetFlag, LogStep, FlashStep, FlashPoll, FlashTimeOut,
       FlashReport, GpioStep, logVars
<1>2. CASE (\E c \in Chips : FwTake(c)) \/ FwFlash
  BY <1>2 DEF FwTake, FwFlash, logVars
<1>3. CASE RegisterCalls
  BY <1>3 DEF RegisterCalls
<1>4. CASE UNCHANGED vars
  BY <1>4, Unmoved
<1> QED BY <1>1, <1>2, <1>3, <1>4 DEF DNext

LEMMA LogNext ==
  ASSUME TypeInv, LogInv, [DNext]_vars
  PROVE  LogInv'
<1>1. JobInv /\ FileTypes
  BY DEF TypeInv
<1> SUFFICES ASSUME NEW c \in Chips, c \notin muddled' PROVE LogOK(c)'
  BY DEF LogInv
<1>2. LogOK(c)
  BY MuddledStays DEF LogInv
<1>3. ASSUME NEW u \in Users, Starting(u) PROVE LogOK(c)'
  BY <1>1, <1>2, <1>3, LogStarting
<1>4. ASSUME NEW u \in Users, SlotWrite(u) \/ Walks(u) \/ Strayed(u) PROVE LogOK(c)'
  <2>1. /\ work[u] # <<>> /\ Proceed(u) /\ \A v \in Users : v # u => seen'[v] = seen[v]
    BY <1>1, <1>4, WalksFacts, StrayedFacts
       DEF SlotWrite, At, Walks, LogStep, SetFlag, FlashStep, FlashPoll, FlashReport,
           GpioStep, FileTypes
  <2>2. CASE LogStep(u)
    <3>1. CASE u \in Dumping(c)
      BY <1>1, <1>2, <2>2, <3>1, LogDumped
    <3>2. CASE u \notin Dumping(c)
      <4>1. Now(u).kind \in DumpKinds
        BY <2>2 DEF LogStep, At, DumpKinds
      <4>2. Now(u).chip # c
        BY <1>1, <2>1, <3>2, <4>1, DumpOnly DEF Dumping
      <4>3. log \in [Chips -> Log]
        BY <1>1, LogFacts
      <4>4. log'[c] = log[c]
        BY <2>2, <4>2, <4>3 DEF LogStep
      <4> QED BY <1>1, <1>2, <2>1, <3>2, <4>4, LogWalksBy
    <3> QED BY <3>1, <3>2
  <2>4. CASE Strayed(u)
    <3>1. u \notin Dumping(c)
      BY <1>1, <2>4, StrayedFacts DEF Dumping
    <3>2. log'[c] = log[c]
      <4>1. CASE StrayWrite(u)
        BY <4>1 DEF StrayWrite, logVars
      <4>2. CASE PointerWrite(u)
        <5>1. PICK p \in 0 .. LogSize - 1 :
                /\ log' = [log EXCEPT ![Now(u).chip].wp = p]
                /\ muddled' = muddled \cup {Now(u).chip}
          BY <4>2 DEF PointerWrite
        <5>2. Now(u).chip # c /\ log \in [Chips -> Log]
          BY <1>1, <5>1, LogFacts
        <5> QED BY <5>1, <5>2
      <4> QED BY <2>4, <4>1, <4>2 DEF Strayed
    <3> QED BY <1>1, <1>2, <2>1, <3>1, <3>2, LogWalksBy
  <2>3. CASE ~LogStep(u) /\ ~Strayed(u)
    <3>1. log' = log
      BY <1>4, <2>3 DEF SlotWrite, Walks, SetFlag, FlashStep, FlashPoll, FlashReport, GpioStep,
                        logVars
    <3>2. Now(u).kind \notin DumpKinds
      BY <1>4, <2>3 DEF SlotWrite, Walks, SetFlag, FlashStep, FlashPoll, FlashReport, GpioStep,
                        At, Fields, DumpKinds
    <3>3. u \notin Dumping(c)
      BY <1>1, <2>1, <3>2, DumpOnly DEF Dumping
    <3> QED BY <1>1, <1>2, <2>1, <3>1, <3>3, LogWalksBy
  <2> QED BY <2>2, <2>3, <2>4
<1>5. ASSUME NEW u \in Users, FlashTimeOut(u) PROVE LogOK(c)'
  <2>1. /\ At(u, {"poll"}) /\ UNCHANGED <<seen, log>>
        /\ work' = [work EXCEPT ![u] = <<>>] /\ job' = [job EXCEPT ![u] = NoJob]
    BY <1>5 DEF FlashTimeOut, Stop, logVars
  <2>2. work \in [Users -> Seq(Steps)] /\ job \in [Users -> Job]
    BY <1>1 DEF JobInv
  <2>3. u \notin Dumping(c)
    BY <1>1, <2>1, DumpOnly DEF Dumping, DumpKinds, At
  <2>4. \A v \in Users : v # u => /\ v \in Dumping(c)' <=> v \in Dumping(c)
                                  /\ \A K : At(v, K)' <=> At(v, K)
    BY <2>1, <2>2 DEF Dumping, Working, At, Now
  <2>5. u \notin Dumping(c)'
    BY <2>1, <2>2, NoJobFacts DEF Dumping, Working
  <2>6. Dumping(c)' = Dumping(c) /\ \A v \in Dumping(c) : v \in Users /\ v # u
    BY <2>3, <2>4, <2>5 DEF Dumping, Working
  <2>7. \A v, w \in Dumping(c) : v = w
    BY <1>2 DEF LogOK
  <2> QED BY <1>2, <2>1, <2>4, <2>6, <2>7, LogFrame
<1>6. ASSUME NEW d \in Chips, FwTake(d) PROVE LogOK(c)'
  BY <1>1, <1>2, <1>6, LogTaken
<1>7. CASE RegisterCalls
  BY <1>1, <1>2, <1>7, LogRegister
<1>8. CASE (\E u \in Users : WriteGpio(u)) \/ FwFlash \/ UNCHANGED vars
  <2>1. UNCHANGED <<job, work, seen, log>>
    BY <1>8, Unmoved DEF WriteGpio, FwFlash, logVars
  <2>2. Dumping(c)' = Dumping(c) /\ \A K : \A u \in Users : At(u, K)' <=> At(u, K)
    BY <2>1 DEF Dumping, Working, Now, At
  <2>3. Dumping(c) \subseteq Users /\ \A u, v \in Dumping(c) : u = v
    BY <1>2 DEF Dumping, Working, LogOK
  <2> QED BY <1>2, <2>1, <2>2, <2>3, LogFrame
<1> QED BY <1>3, <1>4, <1>5, <1>6, <1>7, <1>8, StepSorts DEF Idles

LEMMA LogInit == DInit => LogInv
<1> SUFFICES ASSUME DInit, NEW c \in Chips PROVE LogOK(c)
  BY DEF LogInv
<1> DEFINE p == IF "fwlog" \in cast.kinds THEN LogSize - 1 ELSE 0
<1>1. /\ log[c].wp = p /\ log[c].rp = p /\ log[c].made = 0 /\ log[c].printed = <<>>
      /\ \A u \in Users : job[u] = NoJob
  BY DEF DInit
<1>2. p \in 0 .. LogSize - 1
  BY DebugFsAssumption DEF DebugFsAssumption
<1> HIDE DEF p
<1>3. Dist(log[c].rp, log[c].wp) = 0
  <2>1. p \in Nat
    BY <1>2
  <2>2. p <= p /\ p - p = 0
    BY <2>1
  <2>3. Dist(p, p) = 0
    BY <1>2, <2>2, DistIf
  <2> QED BY <1>1, <2>3
<1>4. Dumping(c) = {}
  BY <1>1, NoJobFacts DEF Dumping, Working
<1>5. [i \in 1 .. 0 |-> i] = <<>>
  OBVIOUS
<1>6. 0 <= log[c].made /\ log[c].printed = [i \in 1 .. (log[c].made - 0) |-> i]
  BY <1>1, <1>5
<1> QED BY <1>3, <1>4, <1>6 DEF LogOK

LEMMA LogPrints == TypeInv /\ LogInv => LogPrintedOnce
<1> SUFFICES ASSUME TypeInv, LogInv, NEW c \in Chips \ muddled,
                    \A u \in Working("fwlog") : Now(u).chip # c
             PROVE  log[c].printed \o Unread(c, log[c].wp, log[c].rp) = Count(log[c].made)
  BY DEF LogPrintedOnce, Count
<1> DEFINE n == Dist(log[c].rp, log[c].wp)
<1>1. FileTypes /\ LogOK(c) /\ Dumping(c) = {}
  BY DEF TypeInv, LogInv, Dumping
<1>2. log[c].printed = Count(log[c].made - n)
  BY <1>1 DEF LogOK, Count
<1>3. log[c].wp \in 0 .. LogSize - 1 /\ log[c].rp \in 0 .. LogSize - 1 /\ log[c].made \in Nat
  BY <1>1, LogFacts
<1>4. n \in 0 .. LogSize - 1
  BY <1>3, DistIf
<1>5. n <= n
  BY <1>4
<1>6. log[c].printed \o Unread(c, log[c].wp, log[c].rp) = Count(log[c].made - n + n)
  BY <1>1, <1>2, <1>3, <1>5, UnreadCount
<1>7. log[c].made - n + n = log[c].made
  BY <1>3, <1>4
<1> QED BY <1>6, <1>7

(* Whatever a chip logs while its log is dumped, each entry is printed      *)
(* once and in order, and at any size of the log, with the one cell that    *)
(* stays empty: unless two dumps of a log ran at once, it was emptied       *)
(* during one, or a command to a number that no chip has moved its write    *)
(* pointer (memx_fw_log.c:41-72).                                           *)
THEOREM LogCorrect == DSpec => []LogPrintedOnce
<1>1. TypeInv /\ LogInv /\ [DNext]_vars => (TypeInv /\ LogInv)'
  BY TypeNext, LogNext
<1> QED BY TypeInit, LogInit, <1>1, LogPrints, PTL DEF DSpec
=============================================================================
