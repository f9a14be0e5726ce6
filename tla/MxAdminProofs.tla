--------------------------- MODULE MxAdminProofs ----------------------------
(* Theorems about the admin mailbox, for any number of callers and chips,   *)
(* any calls and any number of them.                                        *)
EXTENDS MxAdmin, TLAPS

USE DEF Goto

-----------------------------------------------------------------------------
(* Type correctness.                                                        *)

(* A call is given by a kind and a sequence of slots.                       *)
LEMMA CallType ==
  ASSUME NEW c \in Calls
  PROVE  c.chips \in Seq(Slots)
<1>1. NoCall.chips \in Seq(Slots)
  BY DEF NoCall
<1>2. \A d \in [kind : {"one", "fs"}, chips : {<<s>> : s \in Slots}] : d.chips \in Seq(Slots)
  <2>1. \A s \in Slots : <<s>> \in Seq(Slots)
    OBVIOUS
  <2> QED BY <2>1
<1>3. c = NoCall \/ c \in Given
  BY DEF Calls
<1>4. \A d \in [kind : {"dfp"}, chips : Seq(Slots)] : d.chips \in Seq(Slots)
  OBVIOUS
<1>5. c = NoCall \/ c \in [kind : {"one", "fs"}, chips : {<<s>> : s \in Slots}]
      \/ c \in [kind : {"dfp"}, chips : Seq(Slots)]
  BY <1>3, AdminAssumption, Zenon DEF AdminAssumption
<1> QED BY <1>1, <1>2, <1>4, <1>5

(* Where the position of a caller is in its list, its chip is a slot.       *)
LEMMA ChipType ==
  ASSUME TypeOK, NEW t \in Threads, call[t].chips # <<>>
  PROVE  /\ k[t] \in DOMAIN call[t].chips
         /\ k[t] \in 1 .. Len(call[t].chips)
         /\ Chip(t) \in Slots
<1>1. call[t].chips \in Seq(Slots)
  BY CallType DEF TypeOK
<1>2. Len(call[t].chips) \in Nat \ {0} /\ DOMAIN call[t].chips = 1 .. Len(call[t].chips)
  BY <1>1
<1>3. k[t] \in DOMAIN call[t].chips
  <2>1. k[t] \in DOMAIN call[t].chips \cup {1}
    BY Zenon DEF TypeOK
  <2>2. 1 \in DOMAIN call[t].chips
    BY <1>2
  <2> QED BY <2>1, <2>2
<1>4. \A s \in Seq(Slots) : \A i \in 1 .. Len(s) : s[i] \in Slots
  OBVIOUS
<1> QED BY <1>1, <1>2, <1>3, <1>4 DEF Chip

(* What the driver and the firmware may put in a slot.                      *)
LEMMA SlotType ==
  ASSUME TypeOK, NEW c, NEW s, NEW m \in SUBSET Commands, NEW a \in SUBSET Commands,
         NEW e \in BOOLEAN, s \in {"IDLE", "RECEIVE", "PROCESS", "COMPLETE"}
  PROVE  /\ [slot EXCEPT ![c].status = s] \in [Slots -> Mail]
         /\ [slot EXCEPT ![c].cmd = m, ![c].answer = a, ![c].error = e] \in [Slots -> Mail]
         /\ [slot EXCEPT ![c].status = s, ![c].answer = a, ![c].error = e] \in [Slots -> Mail]
<1>1. slot \in [Slots -> Mail]
  BY DEF TypeOK
<1>2. [slot EXCEPT ![c].status = s] \in [Slots -> Mail]
  BY <1>1 DEF Mail
<1>3. \A f \in [Slots -> Mail] : /\ [f EXCEPT ![c].cmd = m] \in [Slots -> Mail]
                               /\ [f EXCEPT ![c].answer = a] \in [Slots -> Mail]
                               /\ [f EXCEPT ![c].error = e] \in [Slots -> Mail]
  BY ZenonT(30) DEF Mail
<1> QED BY <1>1, <1>2, <1>3

LEMMA TypeInit == Init => TypeOK
<1> SUFFICES ASSUME Init PROVE TypeOK
  OBVIOUS
<1>1. pc \in [Threads -> PC] /\ call \in [Threads -> Calls] /\ number \in [Threads -> Nat]
  BY DEF Init, PC, Calls
<1>2. calls \in Nat /\ k \in [Threads -> Nat] /\ \A t \in Threads : k[t] = 1
  BY DEF Init
<1>3. replies \in [Threads -> SUBSET Replies] /\ adminlock \in Threads \cup {NoThread}
  BY DEF Init
<1>4. slot \in [Slots -> Mail]
  BY DEF Init, Mail
<1>5. working \in [Chips -> SUBSET Commands] /\ ran \in SUBSET Commands
  BY DEF Init
<1>6. twice \in BOOLEAN /\ spoilt \in BOOLEAN
  BY DEF Init
<1> QED BY <1>1, <1>2, <1>3, <1>4, <1>5, <1>6 DEF TypeOK

(* A caller at a chip has a list, and one that has none is at its start.    *)
Places ==
  \A t \in Threads :
    /\ pc[t] \in {"copy", "arm", "poll"} => call[t].chips # <<>>
    /\ pc[t] \in {"idle", "lock"} => k[t] = 1

(* Going on to the next chip stays within the list.                         *)
LEMMA AdvanceType ==
  ASSUME TypeOK, Places, NEW t \in Threads, pc[t] = "poll", Advance(t), UNCHANGED call
  PROVE  /\ pc' \in [Threads -> PC] /\ k' \in [Threads -> Nat]
         /\ \A u \in Threads : k'[u] \in DOMAIN call'[u].chips \cup {1}
         /\ Places'
<1>1. call[t].chips # <<>>
  BY DEF Places
<1>2. k[t] \in 1 .. Len(call[t].chips) /\ call[t].chips \in Seq(Slots)
  BY <1>1, ChipType, CallType DEF TypeOK
<1>3. CASE k[t] < Len(call[t].chips)
  <2>1. k[t] + 1 \in DOMAIN call[t].chips /\ k[t] + 1 \in Nat
    BY <1>2, <1>3
  <2>2. k' = [k EXCEPT ![t] = k[t] + 1] /\ pc' = pc
    BY <1>3 DEF Advance
  <2>3. \A u \in Threads : k'[u] \in DOMAIN call'[u].chips \cup {1}
    BY <2>1, <2>2 DEF TypeOK
  <2> QED BY <2>1, <2>2, <2>3 DEF TypeOK, Places
<1>4. CASE ~(k[t] < Len(call[t].chips))
  BY <1>4 DEF TypeOK, Places, Advance, PC, InLock
<1> QED BY <1>3, <1>4

LEMMA TypeStep == TypeOK /\ Places /\ [Next]_vars => TypeOK' /\ Places'
<1> SUFFICES ASSUME TypeOK, Places, [Next]_vars PROVE TypeOK' /\ Places'
  OBVIOUS
<1> USE DEF callerVars, firmwareVars
<1>0. {"idle", "lock", "copy", "arm", "poll", "unlock"} \subseteq PC
  BY DEF PC, InLock
<1>1. ASSUME NEW t \in Threads, Begin(t) PROVE TypeOK' /\ Places'
  <2>1. call' \in [Threads -> Calls] /\ Places'
    BY <1>1 DEF Begin, TypeOK, Calls, Places
  <2>2. \A u \in Threads : k'[u] \in DOMAIN call'[u].chips \cup {1}
    BY <1>1 DEF Begin, TypeOK, Places
  <2> QED BY <1>0, <1>1, <2>1, <2>2 DEF Begin, TypeOK
<1>2. ASSUME NEW t \in Threads, Lock(t) PROVE TypeOK' /\ Places'
  <2>1. spoilt' \in BOOLEAN
    BY <1>2, Zenon DEF Lock, TypeOK, NamesTwice
  <2> QED BY <1>0, <1>2, <2>1 DEF Lock, TypeOK, Places
<1>3. ASSUME NEW t \in Threads, Copy(t) PROVE TypeOK' /\ Places'
  <2>1. {Command(t)} \in SUBSET Commands
    BY DEF Command, Commands, TypeOK
  <2>2. slot' \in [Slots -> Mail]
    BY <1>3, <2>1, SlotType DEF Copy
  <2> QED BY <1>0, <1>3, <2>2 DEF Copy, TypeOK, Places
<1>4. ASSUME NEW t \in Threads, Arm(t) PROVE TypeOK' /\ Places'
  <2>1. slot' \in [Slots -> Mail]
    BY <1>4, SlotType DEF Arm
  <2>0. call[t].chips # <<>>
    BY <1>4 DEF Arm, Places
  <2>2. call[t].chips \in Seq(Slots) /\ k[t] \in 1 .. Len(call[t].chips)
    BY <2>0, ChipType, CallType DEF TypeOK
  <2>3. CASE k[t] < Len(call[t].chips)
    <3>1. k[t] + 1 \in DOMAIN call[t].chips /\ k[t] + 1 \in Nat
      BY <2>2, <2>3
    <3>2. k' = [k EXCEPT ![t] = k[t] + 1] /\ pc' = [pc EXCEPT ![t] = "copy"] /\ call' = call
      BY <1>4, <2>3 DEF Arm
    <3>3. \A u \in Threads : k'[u] \in DOMAIN call'[u].chips \cup {1}
      BY <3>1, <3>2 DEF TypeOK
    <3>4. Places'
      BY <2>0, <3>2 DEF Places, TypeOK
    <3> QED BY <1>0, <1>4, <2>1, <3>1, <3>2, <3>3, <3>4 DEF Arm, TypeOK
  <2>4. CASE ~(k[t] < Len(call[t].chips))
    <3>1. k' = [k EXCEPT ![t] = 1] /\ pc' = [pc EXCEPT ![t] = "poll"] /\ call' = call
      BY <1>4, <2>4 DEF Arm
    <3>2. Places'
      BY <2>0, <3>1 DEF Places, TypeOK
    <3> QED BY <1>0, <1>4, <2>1, <3>1, <3>2 DEF Arm, TypeOK
  <2> QED BY <2>3, <2>4
<1>5. ASSUME NEW t \in Threads, SkipAbsent(t) PROVE TypeOK' /\ Places'
  BY <1>5, AdvanceType DEF SkipAbsent, TypeOK
<1>6. ASSUME NEW t \in Threads, Fetch(t) PROVE TypeOK' /\ Places'
  <2>1. slot' \in [Slots -> Mail]
    BY <1>6, SlotType DEF Fetch
  <2>2. CASE slot[Chip(t)].error
    <3>1. spoilt' \in BOOLEAN
      BY <1>6, <2>2, Zenon DEF Fetch, TypeOK, Abandons
    <3> QED BY <1>0, <1>6, <2>1, <2>2, <3>1 DEF Fetch, TypeOK, Places
  <2>3. CASE ~slot[Chip(t)].error
    <3>0. call[t].chips # <<>>
      BY <1>6 DEF Fetch, Places
    <3>1. Chip(t) \in Slots
      BY <3>0, ChipType
    <3>2. [at |-> k[t], from |-> slot[Chip(t)].answer] \in Replies
      BY <3>1 DEF TypeOK, Replies, Mail
    <3>3. replies' \in [Threads -> SUBSET Replies]
      BY <1>6, <2>3, <3>2 DEF Fetch, TypeOK
    <3> QED BY <1>6, <2>1, <2>3, <3>3, AdvanceType DEF Fetch, TypeOK
  <2> QED BY <2>2, <2>3
<1>7. ASSUME NEW t \in Threads, GiveUp(t) PROVE TypeOK' /\ Places'
  <2>1. slot' \in [Slots -> Mail]
    BY <1>7, SlotType DEF GiveUp
  <2>2. spoilt' \in BOOLEAN
    BY <1>7, Zenon DEF GiveUp, TypeOK
  <2> QED BY <1>0, <1>7, <2>1, <2>2 DEF GiveUp, TypeOK, Places
<1>8. ASSUME NEW t \in Threads, Unlock(t) PROVE TypeOK' /\ Places'
  BY <1>0, <1>8 DEF Unlock, TypeOK, Places, Calls, NoCall
<1>9. ASSUME NEW c \in Chips, FwTake(c) PROVE TypeOK' /\ Places'
  <2>1. slot' \in [Slots -> Mail]
    BY <1>9, SlotType DEF FwTake
  <2>2. slot[c].cmd \in SUBSET Commands
    BY AdminAssumption DEF TypeOK, Mail, AdminAssumption
  <2>3. twice' \in BOOLEAN
    BY <1>9, Zenon DEF FwTake, TypeOK
  <2> QED BY <1>9, <2>1, <2>2, <2>3 DEF FwTake, TypeOK, Places
<1>10. ASSUME NEW c \in Chips, FwDone(c) PROVE TypeOK' /\ Places'
  <2>1. slot' \in [Slots -> Mail]
    <3>1. PICK e \in BOOLEAN :
            slot' = [slot EXCEPT ![c].status = "COMPLETE", ![c].answer = working[c], ![c].error = e]
      BY <1>10 DEF FwDone
    <3>2. working[c] \in SUBSET Commands
      BY DEF TypeOK
    <3>3. {} \in SUBSET Commands
      OBVIOUS
    <3> QED BY <3>1, <3>2, <3>3, SlotType
  <2> QED BY <1>10, <2>1 DEF FwDone, TypeOK, Places
<1>11. CASE UNCHANGED vars
  BY <1>11 DEF vars, TypeOK, Places
<1> QED
  BY <1>1, <1>2, <1>3, <1>4, <1>5, <1>6, <1>7, <1>8, <1>9, <1>10, <1>11 DEF Next, Run, Rest

(* Every variable keeps its type.                                           *)
THEOREM TypeCorrect == Spec => []TypeOK
<1>1. Init => TypeOK /\ Places
  BY TypeInit DEF Init, Places
<1> QED BY <1>1, TypeStep, PTL DEF Spec

-----------------------------------------------------------------------------
(* The lock, and the numbers of the calls.                                  *)

LockInv ==
  /\ \A t \in Threads : pc[t] \in InLock <=> adminlock = t
  /\ \A t \in Threads : pc[t] # "idle" => number[t] <= calls
  /\ \A t, u \in Threads :
       t # u /\ pc[t] # "idle" /\ pc[u] # "idle" => number[t] # number[u]

LEMMA LockStep == TypeOK /\ Places /\ LockInv /\ [Next]_vars => LockInv'
<1> SUFFICES ASSUME TypeOK, Places, LockInv, [Next]_vars PROVE LockInv'
  OBVIOUS
<1> USE DEF callerVars, firmwareVars, InLock
<1>1. ASSUME NEW t \in Threads, Begin(t) PROVE LockInv'
  BY <1>1 DEF Begin, TypeOK, LockInv
<1>2. ASSUME NEW t \in Threads, Lock(t) PROVE LockInv'
  BY <1>2, AdminAssumption DEF Lock, TypeOK, LockInv, AdminAssumption
<1>3. ASSUME NEW t \in Threads, Copy(t) PROVE LockInv'
  BY <1>3 DEF Copy, TypeOK, LockInv
<1>4. ASSUME NEW t \in Threads, Arm(t) PROVE LockInv'
  BY <1>4, ZenonT(30) DEF Arm, TypeOK, LockInv
<1>5. ASSUME NEW t \in Threads, SkipAbsent(t) PROVE LockInv'
  BY <1>5 DEF SkipAbsent, Advance, TypeOK, LockInv
<1>6. ASSUME NEW t \in Threads, Fetch(t) PROVE LockInv'
  <2>1. pc[t] = "poll" /\ UNCHANGED <<adminlock, number, calls>>
    BY <1>6 DEF Fetch
  <2>2. pc' = pc \/ pc' = [pc EXCEPT ![t] = "unlock"]
    BY <1>6 DEF Fetch, Advance
  <2> QED BY <2>1, <2>2 DEF TypeOK, LockInv
<1>7. ASSUME NEW t \in Threads, GiveUp(t) PROVE LockInv'
  BY <1>7 DEF GiveUp, TypeOK, LockInv
<1>8. ASSUME NEW t \in Threads, Unlock(t) PROVE LockInv'
  BY <1>8, AdminAssumption DEF Unlock, TypeOK, LockInv, AdminAssumption
<1>9. ASSUME NEW c \in Chips, FwTake(c) \/ FwDone(c) PROVE LockInv'
  BY <1>9 DEF FwTake, FwDone, TypeOK, LockInv
<1>10. CASE UNCHANGED vars
  BY <1>10 DEF vars, TypeOK, LockInv
<1> QED
  BY <1>1, <1>2, <1>3, <1>4, <1>5, <1>6, <1>7, <1>8, <1>9, <1>10 DEF Next, Run, Rest

\* Two callers are never both in the mailbox.
LEMMA OneInLock ==
  ASSUME LockInv, NEW t \in Threads, NEW u \in Threads, pc[t] \in InLock, pc[u] \in InLock
  PROVE  t = u
BY DEF LockInv

-----------------------------------------------------------------------------
(* Whose answers are in the slots: a completed slot has the answer of a     *)
(* command that was run, but for the moment between copy and arm.           *)

SourceInv ==
  /\ \A x \in ran : x[1] <= calls
  /\ \A c \in Slots : \A x \in slot[c].cmd : x[1] <= calls
  /\ \A c \in Chips : working[c] \subseteq ran
  /\ \A c \in Slots : slot[c].answer \subseteq ran
  /\ \A c \in Slots : slot[c].status = "COMPLETE" =>
       /\ c \in Chips
       /\ slot[c].answer # {} \/ \E t \in Threads : pc[t] = "arm" /\ Chip(t) = c
  /\ AnswerIsSomeones

LEMMA SourceStep ==
  TypeOK /\ Places /\ LockInv /\ SourceInv /\ [Next]_vars => SourceInv'
<1> SUFFICES ASSUME TypeOK, Places, LockInv, SourceInv, [Next]_vars PROVE SourceInv'
  OBVIOUS
<1> USE DEF callerVars, firmwareVars, AnswerIsSomeones
<1>0. \A c \in Slots : slot[c] \in Mail
  BY DEF TypeOK
<1>1. ASSUME NEW t \in Threads, Begin(t) PROVE SourceInv'
  <2>1. \A u \in Threads : pc'[u] = "arm" <=> pc[u] = "arm"
    BY <1>1 DEF Begin, TypeOK
  <2>2. \A u \in Threads : pc[u] = "arm" => Chip(u)' = Chip(u)
    BY <1>1 DEF Begin, TypeOK, Chip
  <2>3. \A n \in Nat : n <= calls => n <= calls'
    BY <1>1 DEF Begin, TypeOK
  <2>4. (\A x \in ran : x[1] \in Nat) /\ \A c \in Slots : \A x \in slot[c].cmd : x[1] \in Nat
    BY <1>0 DEF TypeOK, Mail, Commands
  <2>5. \A c \in Slots : slot'[c].status = "COMPLETE" =>
          slot'[c].answer # {} \/ \E u \in Threads : pc'[u] = "arm" /\ Chip(u)' = c
    BY <1>1, <2>1, <2>2 DEF Begin, SourceInv
  <2> QED BY <1>1, <2>3, <2>4, <2>5 DEF Begin, TypeOK, SourceInv
<1>2. ASSUME NEW t \in Threads, Lock(t) PROVE SourceInv'
  BY <1>2 DEF Lock, TypeOK, SourceInv, Chip
<1>3. ASSUME NEW t \in Threads, Copy(t) PROVE SourceInv'
  <2>1. Chip(t) \in Slots
    BY <1>3, ChipType DEF Copy, Places
  <2>2. Chip(t)' = Chip(t) /\ pc'[t] = "arm"
    BY <1>3 DEF Copy, TypeOK, Chip
  <2>3. number[t] <= calls
    BY <1>3 DEF Copy, LockInv
  <2>4. \A c \in Slots : /\ slot'[c].status = slot[c].status
                         /\ c # Chip(t) => slot'[c] = slot[c]
                         /\ c = Chip(t) => slot'[c].cmd = {Command(t)} /\ slot'[c].answer = {}
    BY <1>0, <1>3 DEF Copy, TypeOK, Mail
  <2>5. \A c \in Slots : \A x \in slot'[c].cmd : x[1] <= calls
    BY <2>3, <2>4 DEF SourceInv, Command
  <2>6. \A c \in Slots : slot'[c].answer \subseteq ran
    BY <2>4 DEF SourceInv
  <2>7. \A u \in Threads : pc[u] = "arm" => pc'[u] = "arm" /\ Chip(u)' = Chip(u)
    BY <1>3 DEF Copy, TypeOK, Chip
  <2>8. \A c \in Slots : slot'[c].status = "COMPLETE" =>
          /\ c \in Chips
          /\ slot'[c].answer # {} \/ \E u \in Threads : pc'[u] = "arm" /\ Chip(u)' = c
    BY <2>2, <2>4, <2>7 DEF SourceInv
  <2> QED BY <1>3, <2>5, <2>6, <2>8 DEF Copy, SourceInv
<1>4. ASSUME NEW t \in Threads, Arm(t) PROVE SourceInv'
  <2>1. \A c \in Slots : /\ slot'[c].cmd = slot[c].cmd /\ slot'[c].answer = slot[c].answer
                         /\ c # Chip(t) => slot'[c] = slot[c]
                         /\ c = Chip(t) => slot'[c].status = "RECEIVE"
    BY <1>0, <1>4 DEF Arm, TypeOK, Mail
  <2>2. \A u \in Threads : u # t /\ pc[u] = "arm" => pc'[u] = "arm" /\ Chip(u)' = Chip(u)
    BY <1>4 DEF Arm, TypeOK, Chip
  <2>3. \A c \in Slots : slot'[c].status = "COMPLETE" =>
          /\ c \in Chips
          /\ slot'[c].answer # {} \/ \E u \in Threads : pc'[u] = "arm" /\ Chip(u)' = c
    BY <2>1, <2>2 DEF SourceInv
  <2> QED BY <1>4, <2>1, <2>3 DEF Arm, SourceInv
<1>5. ASSUME NEW t \in Threads, SkipAbsent(t) PROVE SourceInv'
  <2>1. \A u \in Threads : pc[u] = "arm" => pc'[u] = "arm" /\ Chip(u)' = Chip(u)
    BY <1>5 DEF SkipAbsent, Advance, TypeOK, Chip
  <2> QED BY <1>5, <2>1 DEF SkipAbsent, SourceInv
<1>6. ASSUME NEW t \in Threads, Fetch(t) PROVE SourceInv'
  <2>1. Chip(t) \in Slots
    BY <1>6, ChipType DEF Fetch, Places
  <2>2. \A u \in Threads : pc[u] = "arm" => FALSE
    BY <1>6, OneInLock DEF Fetch, InLock
  <2>3. slot[Chip(t)].answer # {} /\ slot[Chip(t)].answer \subseteq ran
    BY <1>6, <2>1, <2>2 DEF Fetch, SourceInv
  <2>4. \A c \in Slots : /\ slot'[c].cmd = slot[c].cmd /\ slot'[c].answer = slot[c].answer
                         /\ c # Chip(t) => slot'[c] = slot[c]
                         /\ c = Chip(t) => slot'[c].status = "IDLE"
    BY <1>0, <1>6 DEF Fetch, TypeOK, Mail
  <2>5. \A u \in Threads : \A r \in replies'[u] :
          r \in replies[u] \/ r = [at |-> k[t], from |-> slot[Chip(t)].answer]
    BY <1>6 DEF Fetch, TypeOK
  <2>6. AnswerIsSomeones'
    BY <1>6, <2>3, <2>5 DEF SourceInv, Fetch
  <2>7. \A c \in Slots : slot'[c].status = "COMPLETE" => c \in Chips /\ slot'[c].answer # {}
    BY <2>2, <2>4 DEF SourceInv
  <2> QED BY <1>6, <2>4, <2>6, <2>7 DEF Fetch, SourceInv
<1>7. ASSUME NEW t \in Threads, GiveUp(t) PROVE SourceInv'
  <2>1. \A c \in Slots : /\ slot'[c].cmd = slot[c].cmd /\ slot'[c].answer = slot[c].answer
                         /\ c # Chip(t) => slot'[c] = slot[c]
                         /\ c = Chip(t) => slot'[c].status = "IDLE"
    BY <1>0, <1>7 DEF GiveUp, TypeOK, Mail
  <2>2. \A u \in Threads : pc[u] = "arm" => pc'[u] = "arm" /\ Chip(u)' = Chip(u)
    BY <1>7 DEF GiveUp, TypeOK, Chip
  <2>3. \A c \in Slots : slot'[c].status = "COMPLETE" =>
          /\ c \in Chips
          /\ slot'[c].answer # {} \/ \E u \in Threads : pc'[u] = "arm" /\ Chip(u)' = c
    BY <2>1, <2>2 DEF SourceInv
  <2> QED BY <1>7, <2>1, <2>3 DEF GiveUp, SourceInv
<1>8. ASSUME NEW t \in Threads, Unlock(t) PROVE SourceInv'
  <2>1. \A u \in Threads : pc[u] = "arm" => pc'[u] = "arm" /\ Chip(u)' = Chip(u)
    BY <1>8 DEF Unlock, TypeOK, Chip
  <2>2. \A u \in Threads : replies'[u] = replies[u] \/ replies'[u] = {}
    BY <1>8 DEF Unlock, TypeOK
  <2> QED BY <1>8, <2>1, <2>2 DEF Unlock, SourceInv
<1>9. ASSUME NEW c \in Chips, FwTake(c) PROVE SourceInv'
  <2>1. c \in Slots /\ slot[c].cmd \subseteq ran'
    BY <1>9, AdminAssumption DEF FwTake, AdminAssumption
  <2>2. \A s \in Slots : /\ slot'[s].cmd = slot[s].cmd /\ slot'[s].answer = slot[s].answer
                         /\ s # c => slot'[s] = slot[s]
                         /\ s = c => slot'[s].status = "PROCESS"
    BY <1>0, <1>9 DEF FwTake, TypeOK, Mail
  <2>3. \A d \in Chips : working'[d] \subseteq ran'
    BY <1>9, <2>1 DEF FwTake, TypeOK, SourceInv
  <2>4. \A x \in ran' : x[1] <= calls
    BY <1>9, <2>1 DEF FwTake, SourceInv
  <2>5. \A u \in Threads : Chip(u)' = Chip(u)
    BY <1>9 DEF FwTake, Chip
  <2>6. ran \subseteq ran'
    BY <1>9 DEF FwTake
  <2> QED BY <1>9, <2>2, <2>3, <2>4, <2>5, <2>6 DEF FwTake, SourceInv
<1>10. ASSUME NEW c \in Chips, FwDone(c) PROVE SourceInv'
  <2>1. \A s \in Slots : /\ slot'[s].cmd = slot[s].cmd
                         /\ s # c => slot'[s] = slot[s]
                         /\ s = c => slot'[s].answer = working[c]
    BY <1>0, <1>10 DEF FwDone, TypeOK, Mail
  <2>2. working[c] # {} /\ working[c] \subseteq ran /\ \A d \in Chips : working'[d] \subseteq ran
    BY <1>10 DEF FwDone, TypeOK, SourceInv
  <2>3. \A u \in Threads : Chip(u)' = Chip(u)
    BY <1>10 DEF FwDone, Chip
  <2> QED BY <1>10, <2>1, <2>2, <2>3, ZenonT(30) DEF FwDone, SourceInv
<1>11. CASE UNCHANGED vars
  BY <1>11 DEF vars, SourceInv, Chip
<1> QED
  BY <1>1, <1>2, <1>3, <1>4, <1>5, <1>6, <1>7, <1>8, <1>9, <1>10, <1>11 DEF Next, Run, Rest

LEMMA BaseInit == Init => TypeOK /\ Places /\ LockInv /\ SourceInv
<1> SUFFICES ASSUME Init PROVE Places /\ LockInv /\ SourceInv
  BY TypeInit
<1>1. Places
  BY DEF Init, Places
<1>2. LockInv
  BY AdminAssumption DEF Init, LockInv, InLock, AdminAssumption
<1>3. SourceInv
  BY DEF Init, SourceInv, AnswerIsSomeones
<1> QED BY <1>1, <1>2, <1>3

(* A success carries the answer to some command that was run.               *)
THEOREM SomeonesCorrect == Spec => []AnswerIsSomeones
<1>1. SourceInv => AnswerIsSomeones
  BY DEF SourceInv
<1> QED BY <1>1, BaseInit, TypeStep, LockStep, SourceStep, PTL DEF Spec

-----------------------------------------------------------------------------
(* What is under way.  Until something is given up, a present chip is quiet *)
(* or has exactly the command of a place in the lock holder's list that has *)
(* been triggered and not yet fetched.                                      *)

Out(t, i) ==
  /\ i \in DOMAIN call[t].chips
  /\ \/ pc[t] \in {"copy", "arm"} /\ i < k[t]
     \/ pc[t] = "poll" /\ i >= k[t]

Quiet(c) == working[c] = {} /\ slot[c].status \in {"IDLE", "COMPLETE"}

InFlight(c, x) ==
  /\ slot[c].cmd = {x}
  /\ \/ slot[c].status = "RECEIVE" /\ working[c] = {} /\ x \notin ran
     \/ slot[c].status = "PROCESS" /\ working[c] = {x} /\ x \in ran
     \/ /\ slot[c].status = "COMPLETE" /\ working[c] = {} /\ x \in ran
        /\ slot[c].answer = {x}

\* Every place that is out has its command in its slot.
Sent == \A t \in Threads : \A i \in Nat :
          Out(t, i) /\ call[t].chips[i] \in Chips =>
            InFlight(call[t].chips[i], <<number[t], i>>)

\* A chip that is not quiet is at a place that is out.
Owned == \A c \in Chips :
           Quiet(c) \/ \E t \in Threads, i \in Nat : Out(t, i) /\ call[t].chips[i] = c

\* A command that has yet to be triggered has not been run.
Fresh == \A t \in Threads : \A i \in Nat :
           \/ pc[t] = "lock"
           \/ pc[t] \in {"copy", "arm"} /\ i >= k[t]
           => <<number[t], i>> \notin ran

Copied == \A t \in Threads : pc[t] = "arm" => slot[Chip(t)].cmd = {Command(t)}

Distinct == \A t \in Threads : pc[t] \in InLock => ~NamesTwice(call[t].chips)

OwnAnswers == \A t \in Threads : \A r \in replies[t] : r.from = {<<number[t], r.at>>}

NoReplyYet == \A t \in Threads : pc[t] \in {"idle", "lock"} => replies[t] = {}

MailInv ==
  /\ NoReplyYet
  /\ ~spoilt => ~twice /\ Sent /\ Owned /\ Fresh /\ Copied /\ Distinct /\ OwnAnswers

(* A list's places.                                                         *)
LEMMA PlaceType ==
  ASSUME TypeOK, NEW t \in Threads
  PROVE  /\ call[t].chips \in Seq(Slots)
         /\ DOMAIN call[t].chips = 1 .. Len(call[t].chips)
         /\ Len(call[t].chips) \in Nat
         /\ \A i \in DOMAIN call[t].chips : i \in Nat /\ call[t].chips[i] \in Slots
<1>1. call[t].chips \in Seq(Slots)
  BY CallType DEF TypeOK
<1> QED BY <1>1

\* Only the holder of the lock has something out.
LEMMA OutHolds ==
  ASSUME NEW t \in Threads, NEW i, Out(t, i)
  PROVE  pc[t] \in InLock
BY DEF Out, InLock

MailBase == TypeOK /\ Places /\ LockInv /\ SourceInv

(* When nobody is in the mailbox every chip is quiet.                       *)
LEMMA NobodyQuiet ==
  ASSUME MailBase, MailInv, ~spoilt, \A t \in Threads : pc[t] \notin InLock
  PROVE  \A c \in Chips : Quiet(c)
BY OutHolds DEF MailInv, Owned

LEMMA MailBegin ==
  ASSUME MailBase, MailInv, NEW t \in Threads, Begin(t)
  PROVE  MailInv'
<1> USE DEF callerVars, firmwareVars, MailBase
<1>1. \A u \in Threads : u # t => /\ pc'[u] = pc[u] /\ call'[u] = call[u] /\ k'[u] = k[u]
                                  /\ number'[u] = number[u] /\ replies'[u] = replies[u]
  BY DEF Begin, TypeOK
<1>2. /\ pc[t] = "idle" /\ pc'[t] = "lock" /\ number'[t] = calls + 1 /\ calls \in Nat
      /\ replies'[t] = {} /\ UNCHANGED <<slot, working, ran, twice, spoilt>>
  BY DEF Begin, TypeOK, MailInv, NoReplyYet
<1>3. NoReplyYet'
  BY <1>1, <1>2 DEF MailInv, NoReplyYet
<1>4. SUFFICES ASSUME ~spoilt
      PROVE  (~twice /\ Sent /\ Owned /\ Fresh /\ Copied /\ Distinct /\ OwnAnswers)'
  BY <1>2, <1>3 DEF MailInv
<1>5. /\ ~twice /\ Sent /\ Owned /\ Fresh /\ Copied /\ Distinct /\ OwnAnswers
  BY <1>4 DEF MailInv
<1>6. \A u \in Threads : \A i \in Nat : Out(u, i)' <=> Out(u, i)
  BY <1>1, <1>2 DEF Out
<1>7. \A u \in Threads : \A i \in Nat : Out(u, i) => u # t
  BY <1>2 DEF Out
<1>8. Sent'
  <2> SUFFICES ASSUME NEW u \in Threads, NEW i \in Nat, Out(u, i)', call'[u].chips[i] \in Chips
               PROVE  InFlight(call[u].chips[i], <<number[u], i>>)'
    BY DEF Sent
  <2>1. u # t /\ InFlight(call[u].chips[i], <<number[u], i>>)
    BY <1>1, <1>5, <1>6, <1>7 DEF Sent
  <2> QED BY <1>1, <1>2, <2>1 DEF InFlight
<1>9. Owned'
  BY <1>1, <1>2, <1>5, <1>6, <1>7 DEF Owned, Quiet
<1>10. Fresh'
  <2>1. \A i \in Nat : <<number'[t], i>> \notin ran
    BY <1>2 DEF SourceInv
  <2> QED BY <1>1, <1>2, <1>5, <2>1 DEF Fresh
<1>11. Copied'
  BY <1>1, <1>2, <1>5 DEF Copied, Chip, Command
<1>12. Distinct'
  BY <1>1, <1>2, <1>5 DEF Distinct, InLock, NamesTwice
<1>13. OwnAnswers'
  BY <1>1, <1>2, <1>5 DEF OwnAnswers
<1> QED BY <1>2, <1>5, <1>8, <1>9, <1>10, <1>11, <1>12, <1>13

LEMMA MailLock ==
  ASSUME MailBase, MailInv, NEW t \in Threads, Lock(t)
  PROVE  MailInv'
<1> USE DEF callerVars, firmwareVars, MailBase
<1>1. \A u \in Threads : pc[u] \notin InLock
  BY AdminAssumption DEF Lock, LockInv, AdminAssumption
<1>2. /\ pc[t] = "lock" /\ pc' = [pc EXCEPT ![t] = pc'[t]] /\ pc'[t] \in {"copy", "unlock"}
      /\ k[t] = 1
      /\ UNCHANGED <<call, number, k, replies, slot, working, ran, twice>>
  BY DEF Lock, Places, TypeOK
<1>3. \A u \in Threads : u # t => pc'[u] = pc[u] /\ pc'[u] \notin InLock
  BY <1>1, <1>2 DEF TypeOK
<1>4. NoReplyYet'
  BY <1>2, <1>3 DEF MailInv, NoReplyYet
<1>5. SUFFICES ASSUME ~spoilt'
      PROVE  (~twice /\ Sent /\ Owned /\ Fresh /\ Copied /\ Distinct /\ OwnAnswers)'
  BY <1>4 DEF MailInv
<1>6. ~spoilt /\ ~NamesTwice(call[t].chips)
  BY <1>5 DEF Lock
<1>7. /\ ~twice /\ Sent /\ Owned /\ Fresh /\ Copied /\ Distinct /\ OwnAnswers
  BY <1>6 DEF MailInv
<1>8. \A u \in Threads : \A i \in Nat : ~Out(u, i)'
  <2> SUFFICES ASSUME NEW u \in Threads, NEW i \in Nat, Out(u, i)'
               PROVE  FALSE
    OBVIOUS
  <2>1. i \in DOMAIN call[u].chips
    BY <1>2 DEF Out
  <2>2. i >= 1
    BY <2>1, PlaceType
  <2>3. u = t
    BY <1>3 DEF Out, InLock
  <2> QED BY <1>2, <2>2, <2>3 DEF Out
<1>9. Sent'
  BY <1>8 DEF Sent
<1>10. Owned'
  BY <1>1, <1>2, <1>6, NobodyQuiet DEF Owned, Quiet
<1>11. Fresh'
  BY <1>2, <1>3, <1>7 DEF Fresh, InLock
<1>12. Copied'
  BY <1>2, <1>3 DEF Copied, InLock
<1>13. Distinct'
  BY <1>2, <1>3, <1>6 DEF Distinct
<1>14. OwnAnswers'
  BY <1>2, <1>7 DEF OwnAnswers
<1> QED BY <1>2, <1>7, <1>9, <1>10, <1>11, <1>12, <1>13, <1>14

(* The chips of a holder's list differ, so what is done to the chip at its  *)
(* position is done to no other place.                                      *)
LEMMA Apart ==
  ASSUME MailBase, Distinct, NEW t \in Threads, pc[t] \in InLock,
         NEW i \in DOMAIN call[t].chips, NEW j \in DOMAIN call[t].chips, i # j
  PROVE  call[t].chips[i] # call[t].chips[j]
BY DEF Distinct, NamesTwice

(* The chip a holder is about to trigger is quiet.                          *)
LEMMA NextIsQuiet ==
  ASSUME MailBase, Distinct, Owned, NEW t \in Threads, pc[t] \in {"copy", "arm"},
         Chip(t) \in Chips
  PROVE  Quiet(Chip(t))
<1> SUFFICES ASSUME NEW u \in Threads, NEW i \in Nat, Out(u, i), call[u].chips[i] = Chip(t)
             PROVE  FALSE
  BY DEF Owned
<1>1. u = t
  BY OutHolds, OneInLock DEF InLock, MailBase
<1>2. i < k[t] /\ i \in DOMAIN call[t].chips
  BY <1>1 DEF Out
<1>3. k[t] \in DOMAIN call[t].chips /\ k[t] \in Nat
  BY ChipType DEF MailBase, Places, TypeOK
<1>4. call[t].chips[i] # call[t].chips[k[t]]
  BY <1>2, <1>3, Apart DEF InLock
<1> QED BY <1>1, <1>4 DEF Chip

LEMMA MailCopy ==
  ASSUME MailBase, MailInv, NEW t \in Threads, Copy(t)
  PROVE  MailInv'
<1> USE DEF callerVars, firmwareVars, MailBase
<1>1. /\ pc[t] = "copy" /\ pc' = [pc EXCEPT ![t] = "arm"]
      /\ UNCHANGED <<call, number, k, replies, working, ran, twice, spoilt>>
  BY DEF Copy
<1>2. NoReplyYet'
  BY <1>1 DEF MailInv, NoReplyYet, TypeOK
<1>3. SUFFICES ASSUME ~spoilt
      PROVE  (~twice /\ Sent /\ Owned /\ Fresh /\ Copied /\ Distinct /\ OwnAnswers)'
  BY <1>1, <1>2 DEF MailInv
<1>4. /\ ~twice /\ Sent /\ Owned /\ Fresh /\ Copied /\ Distinct /\ OwnAnswers
  BY <1>3 DEF MailInv
<1>5. k[t] \in DOMAIN call[t].chips /\ k[t] \in Nat /\ Chip(t) \in Slots
  BY <1>1, ChipType DEF Places, TypeOK
<1>6. /\ \A c \in Slots : slot'[c].status = slot[c].status
      /\ \A c \in Slots : c # Chip(t) => slot'[c] = slot[c]
      /\ slot'[Chip(t)].cmd = {Command(t)}
  BY <1>5 DEF Copy, TypeOK, Mail
<1>7. \A u \in Threads : \A i \in Nat : Out(u, i)' <=> Out(u, i)
  BY <1>1 DEF Out, TypeOK
<1>8. Sent'
  <2> SUFFICES ASSUME NEW u \in Threads, NEW i \in Nat, Out(u, i), call[u].chips[i] \in Chips
               PROVE  InFlight(call[u].chips[i], <<number[u], i>>)'
    BY <1>1, <1>7 DEF Sent
  <2>1. u = t
    BY <1>1, OutHolds, OneInLock DEF InLock
  <2>2. i < k[t] /\ i \in DOMAIN call[t].chips
    BY <1>1, <2>1 DEF Out
  <2>3. call[u].chips[i] # Chip(t)
    BY <1>1, <1>4, <1>5, <2>1, <2>2, Apart DEF InLock, Chip
  <2>4. slot'[call[u].chips[i]] = slot[call[u].chips[i]]
    BY <1>6, <2>3, AdminAssumption DEF AdminAssumption
  <2>5. InFlight(call[u].chips[i], <<number[u], i>>)
    BY <1>4 DEF Sent
  <2> QED BY <1>1, <2>4, <2>5 DEF InFlight
<1>9. Owned'
  BY <1>1, <1>4, <1>6, <1>7, AdminAssumption DEF Owned, Quiet, AdminAssumption
<1>10. Fresh'
  BY <1>1, <1>4 DEF Fresh, TypeOK
<1>11. Copied'
  <2>1. \A u \in Threads : pc'[u] = "arm" => u = t
    BY <1>1, OneInLock DEF TypeOK, InLock
  <2>2. Chip(t)' = Chip(t) /\ Command(t)' = Command(t)
    BY <1>1 DEF Chip, Command
  <2> QED BY <1>6, <2>1, <2>2 DEF Copied
<1>12. Distinct'
  BY <1>1, <1>4 DEF Distinct, TypeOK, InLock
<1>13. OwnAnswers'
  BY <1>1, <1>4 DEF OwnAnswers
<1> QED BY <1>1, <1>4, <1>8, <1>9, <1>10, <1>11, <1>12, <1>13

LEMMA MailArm ==
  ASSUME MailBase, MailInv, NEW t \in Threads, Arm(t)
  PROVE  MailInv'
<1> USE DEF callerVars, firmwareVars, MailBase
<1>1. /\ pc[t] = "arm" /\ pc'[t] \in {"copy", "poll"}
      /\ \A u \in Threads : u # t => pc'[u] = pc[u] /\ k'[u] = k[u]
      /\ UNCHANGED <<call, number, replies, working, ran, twice, spoilt>>
  BY DEF Arm, TypeOK
<1>2. NoReplyYet'
  BY <1>1 DEF MailInv, NoReplyYet
<1>3. SUFFICES ASSUME ~spoilt
      PROVE  (~twice /\ Sent /\ Owned /\ Fresh /\ Copied /\ Distinct /\ OwnAnswers)'
  BY <1>1, <1>2 DEF MailInv
<1>4. /\ ~twice /\ Sent /\ Owned /\ Fresh /\ Copied /\ Distinct /\ OwnAnswers
  BY <1>3 DEF MailInv
<1>5. /\ k[t] \in 1 .. Len(call[t].chips) /\ Len(call[t].chips) \in Nat
      /\ DOMAIN call[t].chips = 1 .. Len(call[t].chips) /\ Chip(t) \in Slots
  BY <1>1, ChipType, PlaceType DEF Places
<1>6. \/ k[t] < Len(call[t].chips) /\ pc'[t] = "copy" /\ k'[t] = k[t] + 1
      \/ k[t] = Len(call[t].chips) /\ pc'[t] = "poll" /\ k'[t] = 1
  <2>1. CASE k[t] < Len(call[t].chips)
    BY <2>1 DEF Arm, TypeOK
  <2>2. CASE ~(k[t] < Len(call[t].chips))
    BY <1>5, <2>2 DEF Arm, TypeOK
  <2> QED BY <2>1, <2>2
<1>7. /\ \A c \in Slots : c # Chip(t) => slot'[c] = slot[c]
      /\ slot'[Chip(t)].status = "RECEIVE" /\ slot'[Chip(t)].cmd = slot[Chip(t)].cmd
  BY <1>5 DEF Arm, TypeOK, Mail
<1>8. \A u \in Threads : pc[u] \in InLock => u = t
  BY <1>1, OneInLock DEF InLock
<1>9. \A i \in Nat : Out(t, i)' <=> Out(t, i) \/ i = k[t]
  <2>1. CASE k[t] < Len(call[t].chips)
    BY <1>1, <1>5, <1>6, <2>1 DEF Out
  <2>2. CASE k[t] = Len(call[t].chips)
    BY <1>1, <1>5, <1>6, <2>2 DEF Out
  <2> QED BY <1>5, <2>1, <2>2
<1>10. \A u \in Threads : \A i \in Nat : Out(u, i)' => u = t
  BY <1>1, <1>8 DEF Out, InLock
<1>11. Sent'
  <2> SUFFICES ASSUME NEW i \in Nat, Out(t, i)', call[t].chips[i] \in Chips
               PROVE  InFlight(call[t].chips[i], <<number[t], i>>)'
    BY <1>1, <1>10 DEF Sent
  <2>1. CASE i = k[t]
    <3>1. Quiet(Chip(t)) /\ slot[Chip(t)].cmd = {<<number[t], k[t]>>}
      BY <1>1, <1>4, <2>1, NextIsQuiet DEF Chip, Copied, Command
    <3>2. <<number[t], k[t]>> \notin ran
      BY <1>1, <1>4, <1>5 DEF Fresh
    <3> QED BY <1>1, <1>7, <2>1, <3>1, <3>2 DEF InFlight, Quiet, Chip
  <2>2. CASE i # k[t]
    <3>1. Out(t, i) /\ i \in DOMAIN call[t].chips
      BY <1>9, <2>2 DEF Out
    <3>2. call[t].chips[i] # Chip(t)
      BY <1>1, <1>4, <1>5, <2>2, <3>1, Apart DEF InLock, Chip
    <3>3. slot'[call[t].chips[i]] = slot[call[t].chips[i]]
      BY <1>7, <3>2, AdminAssumption DEF AdminAssumption
    <3>4. InFlight(call[t].chips[i], <<number[t], i>>)
      BY <1>4, <3>1 DEF Sent
    <3> QED BY <1>1, <3>3, <3>4 DEF InFlight
  <2> QED BY <2>1, <2>2
<1>12. Owned'
  <2> SUFFICES ASSUME NEW c \in Chips, ~Quiet(c)'
               PROVE  \E i \in Nat : Out(t, i)' /\ call[t].chips[i] = c
    BY <1>1 DEF Owned
  <2>1. CASE c = Chip(t)
    BY <1>5, <1>9, <2>1 DEF Chip
  <2>2. CASE c # Chip(t)
    <3>1. slot'[c] = slot[c] /\ ~Quiet(c)
      BY <1>1, <1>7, <2>2, AdminAssumption DEF Quiet, AdminAssumption
    <3>2. PICK u \in Threads, i \in Nat : Out(u, i) /\ call[u].chips[i] = c
      BY <1>4, <3>1 DEF Owned
    <3> QED BY <1>8, <1>9, <3>2, OutHolds
  <2> QED BY <2>1, <2>2
<1>13. Fresh'
  <2> SUFFICES ASSUME NEW u \in Threads, NEW i \in Nat,
                      pc'[u] = "lock" \/ (pc'[u] \in {"copy", "arm"} /\ i >= k'[u])
               PROVE  <<number[u], i>> \notin ran
    BY <1>1 DEF Fresh
  <2>1. CASE u = t
    BY <1>1, <1>4, <1>5, <1>6, <2>1 DEF Fresh
  <2>2. CASE u # t
    BY <1>1, <1>4, <2>2 DEF Fresh
  <2> QED BY <2>1, <2>2
<1>14. Copied'
  BY <1>1, <1>8 DEF Copied, InLock
<1>15. Distinct'
  BY <1>1, <1>4 DEF Distinct, InLock
<1>16. OwnAnswers'
  BY <1>1, <1>4 DEF OwnAnswers
<1> QED BY <1>1, <1>4, <1>11, <1>12, <1>13, <1>14, <1>15, <1>16

(* What a move to the next chip makes of the places that are out.           *)
LEMMA AdvanceOut ==
  ASSUME MailBase, NEW t \in Threads, pc[t] = "poll", Advance(t), UNCHANGED call
  PROVE  /\ \A i \in Nat : Out(t, i)' <=> Out(t, i) /\ i # k[t]
         /\ pc'[t] \in {"poll", "unlock"}
         /\ \A u \in Threads : u # t => pc'[u] = pc[u] /\ k'[u] = k[u]
<1> USE DEF MailBase
<1>1. /\ k[t] \in 1 .. Len(call[t].chips) /\ Len(call[t].chips) \in Nat
      /\ DOMAIN call[t].chips = 1 .. Len(call[t].chips)
  BY ChipType, PlaceType DEF Places
<1>2. CASE k[t] < Len(call[t].chips)
  <2>1. k' = [k EXCEPT ![t] = k[t] + 1] /\ pc' = pc
    BY <1>2 DEF Advance
  <2> QED BY <1>1, <1>2, <2>1 DEF Out, TypeOK
<1>3. CASE ~(k[t] < Len(call[t].chips))
  <2>1. pc' = [pc EXCEPT ![t] = "unlock"] /\ k' = k
    BY <1>3 DEF Advance
  <2> QED BY <1>1, <1>3, <2>1 DEF Out, TypeOK
<1> QED BY <1>2, <1>3

LEMMA MailSkip ==
  ASSUME MailBase, MailInv, NEW t \in Threads, SkipAbsent(t)
  PROVE  MailInv'
<1> USE DEF callerVars, firmwareVars, MailBase
<1>1. /\ pc[t] = "poll" /\ Advance(t)
      /\ UNCHANGED <<call, number, replies, slot, working, ran, twice, spoilt>>
  BY DEF SkipAbsent
<1>2. /\ \A i \in Nat : Out(t, i)' <=> Out(t, i) /\ i # k[t]
      /\ pc'[t] \in {"poll", "unlock"}
      /\ \A u \in Threads : u # t => pc'[u] = pc[u] /\ k'[u] = k[u]
  BY <1>1, AdvanceOut
<1>3. NoReplyYet'
  BY <1>1, <1>2 DEF MailInv, NoReplyYet
<1>4. SUFFICES ASSUME ~spoilt
      PROVE  (~twice /\ Sent /\ Owned /\ Fresh /\ Copied /\ Distinct /\ OwnAnswers)'
  BY <1>1, <1>3 DEF MailInv
<1>5. /\ ~twice /\ Sent /\ Owned /\ Fresh /\ Copied /\ Distinct /\ OwnAnswers
  BY <1>4 DEF MailInv
<1>6. \A u \in Threads : pc[u] \in InLock => u = t
  BY <1>1, OneInLock DEF InLock
<1>7. \A u \in Threads : \A i \in Nat : Out(u, i)' => Out(u, i) /\ u = t
  BY <1>1, <1>2, <1>6 DEF Out, InLock
<1>8. Sent'
  <2> SUFFICES ASSUME NEW u \in Threads, NEW i \in Nat, Out(u, i)', call[u].chips[i] \in Chips
               PROVE  InFlight(call[u].chips[i], <<number[u], i>>)'
    BY <1>1 DEF Sent
  <2> QED BY <1>1, <1>5, <1>7 DEF Sent, InFlight
<1>9. Owned'
  <2> SUFFICES ASSUME NEW c \in Chips, ~Quiet(c)
               PROVE  \E i \in Nat : Out(t, i)' /\ call[t].chips[i] = c
    BY <1>1 DEF Owned, Quiet
  <2>1. PICK u \in Threads, i \in Nat : Out(u, i) /\ call[u].chips[i] = c
    BY <1>5 DEF Owned
  <2>2. u = t
    BY <1>6, <2>1, OutHolds
  <2>3. i # k[t]
    BY <2>1, <2>2 DEF SkipAbsent, Awaited
  <2> QED BY <1>2, <2>1, <2>2, <2>3
<1>10. Fresh'
  BY <1>1, <1>2, <1>5 DEF Fresh
<1>11. Copied'
  BY <1>1, <1>2, <1>6 DEF Copied, InLock
<1>12. Distinct'
  BY <1>1, <1>2, <1>5 DEF Distinct, InLock
<1>13. OwnAnswers'
  BY <1>1, <1>5 DEF OwnAnswers
<1> QED BY <1>1, <1>5, <1>8, <1>9, <1>10, <1>11, <1>12, <1>13

(* A chip somebody else's position does not concern, and the slot of the    *)
(* holder's chip after it has been polled for the last time.                *)
LEMMA IdleSlot ==
  ASSUME MailBase, NEW t \in Threads, Chip(t) \in Slots,
         slot' = [slot EXCEPT ![Chip(t)].status = "IDLE"]
  PROVE  \A c \in Slots : /\ c # Chip(t) => slot'[c] = slot[c]
                          /\ c = Chip(t) => slot'[c].status = "IDLE"
BY DEF MailBase, TypeOK, Mail

(* The holder has left the mailbox: nothing is out.                         *)
LEMMA NothingOut ==
  ASSUME MailBase, NEW t \in Threads, pc[t] \in InLock, pc' = [pc EXCEPT ![t] = "unlock"]
  PROVE  \A u \in Threads : \A i : ~Out(u, i)'
<1>1. \A u \in Threads : u # t => pc'[u] \notin InLock
  BY OneInLock DEF MailBase, TypeOK
<1>2. pc'[t] = "unlock"
  BY DEF MailBase, TypeOK
<1> QED BY <1>1, <1>2 DEF Out, InLock

LEMMA MailFetch ==
  ASSUME MailBase, MailInv, NEW t \in Threads, Fetch(t)
  PROVE  MailInv'
<1> USE DEF callerVars, firmwareVars, MailBase
<1>1. /\ pc[t] = "poll" /\ Awaited(call[t], k[t]) /\ slot[Chip(t)].status = "COMPLETE"
      /\ slot' = [slot EXCEPT ![Chip(t)].status = "IDLE"]
      /\ UNCHANGED <<call, number, working, ran, twice>>
  BY DEF Fetch
<1>2. /\ k[t] \in 1 .. Len(call[t].chips) /\ k[t] \in Nat /\ Chip(t) \in Slots
      /\ k[t] \in DOMAIN call[t].chips
  BY <1>1, ChipType DEF Places
<1>3. \A c \in Slots : /\ c # Chip(t) => slot'[c] = slot[c]
                       /\ c = Chip(t) => slot'[c].status = "IDLE"
  BY <1>1, <1>2, IdleSlot
<1>4. \A u \in Threads : pc[u] \in InLock => u = t
  BY <1>1, OneInLock DEF InLock
<1>5. Chip(t) \in Chips /\ Out(t, k[t])
  BY <1>1, <1>2 DEF SourceInv, Out
<1>6. ASSUME ~spoilt
      PROVE  /\ ~twice /\ Sent /\ Owned /\ Fresh /\ Copied /\ Distinct /\ OwnAnswers
             /\ InFlight(Chip(t), <<number[t], k[t]>>)
  BY <1>2, <1>5, <1>6 DEF MailInv, Sent, Chip
<1>7. CASE slot[Chip(t)].error
  <2>1. /\ pc' = [pc EXCEPT ![t] = "unlock"] /\ spoilt' = (spoilt \/ Abandons(t))
        /\ UNCHANGED <<k, replies>>
    BY <1>7 DEF Fetch
  <2>2. NoReplyYet'
    BY <2>1 DEF MailInv, NoReplyYet, TypeOK
  <2>3. SUFFICES ASSUME ~spoilt, ~Abandons(t)
        PROVE  (~twice /\ Sent /\ Owned /\ Fresh /\ Copied /\ Distinct /\ OwnAnswers)'
    BY <2>1, <2>2 DEF MailInv
  <2>4. \A u \in Threads : \A i : ~Out(u, i)'
    BY <1>1, <2>1, NothingOut DEF InLock
  <2>5. \A u \in Threads : u # t => pc'[u] = pc[u] /\ pc'[u] \notin InLock
    BY <1>4, <2>1 DEF TypeOK
  <2>6. Owned'
    <3> SUFFICES ASSUME NEW c \in Chips PROVE Quiet(c)'
      BY DEF Owned
    <3>0. c \in Slots
      BY AdminAssumption DEF AdminAssumption
    <3>1. CASE c = Chip(t)
      BY <1>1, <1>3, <1>6, <2>3, <3>0, <3>1 DEF InFlight, Quiet
    <3>2. CASE c # Chip(t) /\ Quiet(c)
      BY <1>1, <1>3, <3>0, <3>2 DEF Quiet
    <3>3. CASE c # Chip(t) /\ ~Quiet(c)
      <4>1. PICK u \in Threads, i \in Nat : Out(u, i) /\ call[u].chips[i] = c
        BY <1>6, <2>3, <3>3 DEF Owned
      <4>2. u = t
        BY <1>4, <4>1, OutHolds
      <4>3. i > k[t] /\ i \in DOMAIN call[t].chips
        BY <1>1, <1>2, <3>3, <4>1, <4>2 DEF Out, Chip
      <4>4. slot[c].status = "COMPLETE"
        BY <2>3, <4>1, <4>2, <4>3 DEF Abandons
      <4>5. InFlight(c, <<number[t], i>>)
        BY <1>6, <2>3, <4>1, <4>2 DEF Sent
      <4> QED BY <3>3, <4>4, <4>5 DEF InFlight, Quiet
    <3> QED BY <3>1, <3>2, <3>3
  <2> QED BY <1>1, <1>6, <2>1, <2>3, <2>4, <2>5, <2>6
          DEF Sent, Fresh, Copied, Distinct, OwnAnswers, InLock, TypeOK
<1>8. CASE ~slot[Chip(t)].error
  <2>1. /\ Advance(t) /\ UNCHANGED spoilt
        /\ replies' = [replies EXCEPT ![t] =
                         @ \cup {[at |-> k[t], from |-> slot[Chip(t)].answer]}]
    BY <1>8 DEF Fetch
  <2>2. /\ \A i \in Nat : Out(t, i)' <=> Out(t, i) /\ i # k[t]
        /\ pc'[t] \in {"poll", "unlock"}
        /\ \A u \in Threads : u # t => pc'[u] = pc[u] /\ k'[u] = k[u]
    BY <1>1, <2>1, AdvanceOut
  <2>3. NoReplyYet'
    BY <2>1, <2>2 DEF MailInv, NoReplyYet, TypeOK
  <2>4. SUFFICES ASSUME ~spoilt
        PROVE  (~twice /\ Sent /\ Owned /\ Fresh /\ Copied /\ Distinct /\ OwnAnswers)'
    BY <2>1, <2>3 DEF MailInv
  <2>5. \A u \in Threads : \A i \in Nat : Out(u, i)' => Out(u, i) /\ u = t /\ i # k[t]
    BY <1>1, <1>4, <2>2 DEF Out, InLock
  <2>6. Sent'
    <3> SUFFICES ASSUME NEW u \in Threads, NEW i \in Nat, Out(u, i)', call[u].chips[i] \in Chips
                 PROVE  InFlight(call[u].chips[i], <<number[u], i>>)'
      BY <1>1 DEF Sent
    <3>1. u = t /\ Out(t, i) /\ i # k[t] /\ i \in DOMAIN call[t].chips
      BY <2>5 DEF Out
    <3>2. call[t].chips[i] # Chip(t)
      BY <1>1, <1>2, <1>6, <2>4, <3>1, Apart DEF InLock, Chip
    <3>3. slot'[call[t].chips[i]] = slot[call[t].chips[i]]
      BY <1>3, <3>1, <3>2, AdminAssumption DEF AdminAssumption
    <3>4. InFlight(call[t].chips[i], <<number[t], i>>)
      BY <1>6, <2>4, <3>1 DEF Sent
    <3> QED BY <1>1, <2>4, <3>1, <3>3, <3>4 DEF InFlight
  <2>7. Owned'
    <3> SUFFICES ASSUME NEW c \in Chips, ~Quiet(c)'
                 PROVE  \E i \in Nat : Out(t, i)' /\ call[t].chips[i] = c
      BY <1>1 DEF Owned
    <3>1. c # Chip(t)
      BY <1>1, <1>3, <1>5, <1>6, <2>4, AdminAssumption DEF InFlight, Quiet, AdminAssumption
    <3>2. ~Quiet(c)
      BY <1>1, <1>3, <3>1, AdminAssumption DEF Quiet, AdminAssumption
    <3>3. PICK u \in Threads, i \in Nat : Out(u, i) /\ call[u].chips[i] = c
      BY <1>6, <2>4, <3>2 DEF Owned
    <3>4. u = t /\ i # k[t]
      BY <1>4, <3>1, <3>3, OutHolds DEF Chip
    <3> QED BY <2>2, <3>3, <3>4
  <2>8. OwnAnswers'
    <3>1. slot[Chip(t)].answer = {<<number[t], k[t]>>}
      BY <1>1, <1>6, <2>4 DEF InFlight
    <3>2. \A u \in Threads : \A r \in replies'[u] :
            r \in replies[u] \/ (u = t /\ r = [at |-> k[t], from |-> slot[Chip(t)].answer])
      BY <2>1 DEF TypeOK
    <3> QED BY <1>1, <1>6, <2>4, <3>1, <3>2 DEF OwnAnswers
  <2> QED BY <1>1, <1>4, <1>6, <2>2, <2>4, <2>6, <2>7, <2>8
          DEF Fresh, Copied, Distinct, InLock
<1> QED BY <1>7, <1>8

LEMMA MailGiveUp ==
  ASSUME MailBase, MailInv, NEW t \in Threads, GiveUp(t)
  PROVE  MailInv'
<1> USE DEF callerVars, firmwareVars, MailBase
<1>1. /\ pc[t] = "poll" /\ pc' = [pc EXCEPT ![t] = "unlock"] /\ Awaited(call[t], k[t])
      /\ slot' = [slot EXCEPT ![Chip(t)].status = "IDLE"]
      /\ spoilt' = (spoilt \/ Chip(t) \in Chips)
      /\ UNCHANGED <<call, number, k, replies, working, ran, twice>>
  BY DEF GiveUp
<1>2. k[t] \in 1 .. Len(call[t].chips) /\ Chip(t) \in Slots
  BY <1>1, ChipType DEF Places
<1>3. NoReplyYet'
  BY <1>1 DEF MailInv, NoReplyYet, TypeOK
<1>4. SUFFICES ASSUME ~spoilt, Chip(t) \notin Chips
      PROVE  (~twice /\ Sent /\ Owned /\ Fresh /\ Copied /\ Distinct /\ OwnAnswers)'
  BY <1>1, <1>3 DEF MailInv
<1>5. /\ ~twice /\ Sent /\ Owned /\ Fresh /\ Copied /\ Distinct /\ OwnAnswers
  BY <1>4 DEF MailInv
<1>6. \A u \in Threads : pc[u] \in InLock => u = t
  BY <1>1, OneInLock DEF InLock
<1>7. \A u \in Threads : \A i : ~Out(u, i)'
  BY <1>1, NothingOut DEF InLock
<1>8. \A u \in Threads : u # t => pc'[u] = pc[u] /\ pc'[u] \notin InLock
  BY <1>1, <1>6 DEF TypeOK
<1>9. Len(call[t].chips) = 1
  <2>1. call[t].kind # "dfp"
    BY <1>1, <1>4 DEF Awaited, Chip
  <2>2. call[t] = NoCall \/ call[t] \in [kind : {"one", "fs"}, chips : {<<c>> : c \in Slots}]
        \/ call[t] \in [kind : {"dfp"}, chips : Seq(Slots)]
    BY AdminAssumption, Zenon DEF TypeOK, Calls, AdminAssumption
  <2>3. call[t].chips # <<>>
    BY <1>1 DEF Places
  <2>4. call[t].chips \in {<<c>> : c \in Slots}
    BY <2>1, <2>2, <2>3 DEF NoCall
  <2> QED BY <2>4
<1>10. Owned'
  <2> SUFFICES ASSUME NEW c \in Chips PROVE Quiet(c)'
    BY DEF Owned
  <2>1. Quiet(c)
    <3> SUFFICES ASSUME NEW u \in Threads, NEW i \in Nat, Out(u, i), call[u].chips[i] = c
                 PROVE  FALSE
      BY <1>5 DEF Owned
    <3>1. u = t /\ i = 1 /\ k[t] = 1
      BY <1>2, <1>6, <1>9, OutHolds, PlaceType DEF Out
    <3> QED BY <1>4, <3>1 DEF Chip
  <2> QED BY <1>1, <1>2, <1>4, <2>1, IdleSlot, AdminAssumption DEF Quiet, AdminAssumption
<1> QED BY <1>1, <1>5, <1>7, <1>8, <1>10
        DEF Sent, Fresh, Copied, Distinct, OwnAnswers, InLock, TypeOK

LEMMA MailUnlock ==
  ASSUME MailBase, MailInv, NEW t \in Threads, Unlock(t)
  PROVE  MailInv'
<1> USE DEF callerVars, firmwareVars, MailBase
<1>1. /\ pc[t] = "unlock" /\ pc'[t] = "idle" /\ replies'[t] = {}
      /\ \A u \in Threads : u # t => /\ pc'[u] = pc[u] /\ call'[u] = call[u] /\ k'[u] = k[u]
                                     /\ number'[u] = number[u] /\ replies'[u] = replies[u]
                                     /\ pc'[u] \notin InLock
      /\ UNCHANGED <<slot, working, ran, twice, spoilt>>
  <2>1. \A u \in Threads : u # t => pc[u] \notin InLock
    BY OneInLock DEF Unlock, InLock
  <2> QED BY <2>1 DEF Unlock, TypeOK
<1>2. NoReplyYet'
  BY <1>1 DEF MailInv, NoReplyYet
<1>3. SUFFICES ASSUME ~spoilt
      PROVE  (~twice /\ Sent /\ Owned /\ Fresh /\ Copied /\ Distinct /\ OwnAnswers)'
  BY <1>1, <1>2 DEF MailInv
<1>4. /\ ~twice /\ Sent /\ Owned /\ Fresh /\ Copied /\ Distinct /\ OwnAnswers
  BY <1>3 DEF MailInv
<1>5. \A u \in Threads : \A i : ~Out(u, i)'
  BY <1>1 DEF Out, InLock
<1>6. \A u \in Threads : \A i : ~Out(u, i)
  BY <1>1, OneInLock DEF Out, InLock
<1>7. Owned'
  BY <1>1, <1>4, <1>6 DEF Owned, Quiet
<1>8. Fresh'
  BY <1>1, <1>4 DEF Fresh
<1> QED BY <1>1, <1>4, <1>5, <1>7, <1>8 DEF Sent, Copied, Distinct, OwnAnswers, InLock

(* A chip that is not quiet is at one place of the lock holder's list.      *)
LEMMA BusyPlace ==
  ASSUME MailBase, Sent, Owned, NEW c \in Chips, ~Quiet(c)
  PROVE  \E t \in Threads, i \in Nat :
           /\ Out(t, i) /\ call[t].chips[i] = c
           /\ InFlight(c, <<number[t], i>>)
           /\ \A u \in Threads : \A j \in Nat : Out(u, j) => u = t
<1>1. PICK t \in Threads, i \in Nat : Out(t, i) /\ call[t].chips[i] = c
  BY DEF Owned
<1>2. InFlight(c, <<number[t], i>>)
  BY <1>1 DEF Sent
<1>3. \A u \in Threads : \A j \in Nat : Out(u, j) => u = t
  BY <1>1, OutHolds, OneInLock DEF MailBase
<1> QED BY <1>1, <1>2, <1>3

LEMMA MailFwTake ==
  ASSUME MailBase, MailInv, NEW c \in Chips, FwTake(c)
  PROVE  MailInv'
<1> USE DEF callerVars, firmwareVars, MailBase
<1>1. /\ slot[c].status = "RECEIVE" /\ c \in Slots
      /\ UNCHANGED <<pc, call, number, k, replies, spoilt>>
      /\ ran' = ran \cup slot[c].cmd /\ twice' = (twice \/ slot[c].cmd \cap ran # {})
  BY AdminAssumption DEF FwTake, AdminAssumption
<1>2. /\ \A s \in Slots : slot'[s].cmd = slot[s].cmd /\ (s # c => slot'[s] = slot[s])
      /\ \A d \in Chips : d # c => working'[d] = working[d]
      /\ slot'[c].status = "PROCESS" /\ working'[c] = slot[c].cmd
  BY <1>1 DEF FwTake, TypeOK, Mail
<1>3. NoReplyYet'
  BY <1>1 DEF MailInv, NoReplyYet
<1>4. SUFFICES ASSUME ~spoilt
      PROVE  (~twice /\ Sent /\ Owned /\ Fresh /\ Copied /\ Distinct /\ OwnAnswers)'
  BY <1>1, <1>3 DEF MailInv
<1>5. /\ ~twice /\ Sent /\ Owned /\ Fresh /\ Copied /\ Distinct /\ OwnAnswers
  BY <1>4 DEF MailInv
<1>6. PICK t \in Threads, i \in Nat :
        /\ Out(t, i) /\ call[t].chips[i] = c
        /\ InFlight(c, <<number[t], i>>)
        /\ \A u \in Threads : \A j \in Nat : Out(u, j) => u = t
  BY <1>1, <1>5, BusyPlace DEF Quiet
<1>7. slot[c].cmd = {<<number[t], i>>} /\ <<number[t], i>> \notin ran
  BY <1>1, <1>6 DEF InFlight
<1>8. \A u \in Threads : \A j \in Nat : Out(u, j)' <=> Out(u, j)
  BY <1>1 DEF Out
<1>9. pc[t] \in InLock /\ i \in DOMAIN call[t].chips
  BY <1>6, OutHolds DEF Out
<1>10. Sent'
  <2> SUFFICES ASSUME NEW j \in Nat, Out(t, j), call[t].chips[j] \in Chips
               PROVE  InFlight(call[t].chips[j], <<number[t], j>>)'
    BY <1>1, <1>6, <1>8 DEF Sent
  <2>1. CASE j = i
    BY <1>1, <1>2, <1>6, <1>7, <2>1 DEF InFlight
  <2>2. CASE j # i
    <3>1. call[t].chips[j] # c
      BY <1>5, <1>6, <1>9, <2>2, Apart DEF Out
    <3>2. call[t].chips[j] \in Slots
      BY AdminAssumption DEF AdminAssumption
    <3>3. InFlight(call[t].chips[j], <<number[t], j>>)
      BY <1>5 DEF Sent
    <3> QED BY <1>1, <1>2, <1>7, <2>2, <3>1, <3>2, <3>3 DEF InFlight
  <2> QED BY <2>1, <2>2
<1>11. Owned'
  <2> SUFFICES ASSUME NEW d \in Chips, ~Quiet(d)'
               PROVE  \E u \in Threads, j \in Nat : Out(u, j) /\ call[u].chips[j] = d
    BY <1>1, <1>8 DEF Owned
  <2>1. CASE d = c
    BY <1>6, <2>1
  <2>2. CASE d # c
    BY <1>2, <1>5, <2>2, AdminAssumption DEF Owned, Quiet, AdminAssumption
  <2> QED BY <2>1, <2>2
<1>12. Fresh'
  <2> SUFFICES ASSUME NEW u \in Threads, NEW j \in Nat,
                      pc[u] = "lock" \/ (pc[u] \in {"copy", "arm"} /\ j >= k[u])
               PROVE  <<number[u], j>> \notin ran'
    BY <1>1 DEF Fresh
  <2>1. <<number[u], j>> \notin ran
    BY <1>5 DEF Fresh
  <2>2. CASE u = t
    <3>1. pc[t] \in {"copy", "arm"} /\ j >= k[t] /\ i < k[t]
      BY <1>6, <1>9, <2>2 DEF Out, InLock
    <3>2. k[t] \in Nat
      BY DEF TypeOK
    <3> QED BY <1>1, <1>7, <2>1, <3>1, <3>2
  <2>3. CASE u # t
    BY <1>1, <1>7, <1>9, <2>1, <2>3 DEF LockInv, InLock
  <2> QED BY <2>2, <2>3
<1>13. Copied'
  <2> SUFFICES ASSUME NEW u \in Threads, pc[u] = "arm"
               PROVE  slot'[Chip(u)].cmd = {Command(u)}
    BY <1>1 DEF Copied, Chip, Command
  <2>1. Chip(u) \in Slots
    BY ChipType DEF Places
  <2> QED BY <1>2, <1>5, <2>1 DEF Copied
<1>14. Distinct' /\ OwnAnswers' /\ ~twice'
  BY <1>1, <1>5, <1>7 DEF Distinct, OwnAnswers
<1> QED BY <1>10, <1>11, <1>12, <1>13, <1>14

LEMMA MailFwDone ==
  ASSUME MailBase, MailInv, NEW c \in Chips, FwDone(c)
  PROVE  MailInv'
<1> USE DEF callerVars, firmwareVars, MailBase
<1>1. working[c] # {} /\ c \in Slots /\ UNCHANGED <<pc, call, number, k, replies, ran, twice, spoilt>>
  BY AdminAssumption DEF FwDone, AdminAssumption
<1>2. /\ \A s \in Slots : slot'[s].cmd = slot[s].cmd /\ (s # c => slot'[s] = slot[s])
      /\ \A d \in Chips : d # c => working'[d] = working[d]
      /\ slot'[c].status = "COMPLETE" /\ slot'[c].answer = working[c] /\ working'[c] = {}
  BY <1>1 DEF FwDone, TypeOK, Mail
<1>3. NoReplyYet'
  BY <1>1 DEF MailInv, NoReplyYet
<1>4. SUFFICES ASSUME ~spoilt
      PROVE  (~twice /\ Sent /\ Owned /\ Fresh /\ Copied /\ Distinct /\ OwnAnswers)'
  BY <1>1, <1>3 DEF MailInv
<1>5. /\ ~twice /\ Sent /\ Owned /\ Fresh /\ Copied /\ Distinct /\ OwnAnswers
  BY <1>4 DEF MailInv
<1>6. PICK t \in Threads, i \in Nat :
        /\ Out(t, i) /\ call[t].chips[i] = c
        /\ InFlight(c, <<number[t], i>>)
        /\ \A u \in Threads : \A j \in Nat : Out(u, j) => u = t
  BY <1>1, <1>5, BusyPlace DEF Quiet
<1>7. working[c] = {<<number[t], i>>} /\ <<number[t], i>> \in ran
  BY <1>1, <1>6 DEF InFlight
<1>8. \A u \in Threads : \A j \in Nat : Out(u, j)' <=> Out(u, j)
  BY <1>1 DEF Out
<1>9. pc[t] \in InLock /\ i \in DOMAIN call[t].chips
  BY <1>6, OutHolds DEF Out
<1>10. Sent'
  <2> SUFFICES ASSUME NEW j \in Nat, Out(t, j), call[t].chips[j] \in Chips
               PROVE  InFlight(call[t].chips[j], <<number[t], j>>)'
    BY <1>1, <1>6, <1>8 DEF Sent
  <2>1. CASE j = i
    BY <1>1, <1>2, <1>6, <1>7, <2>1 DEF InFlight
  <2>2. CASE j # i
    <3>1. call[t].chips[j] # c
      BY <1>5, <1>6, <1>9, <2>2, Apart DEF Out
    <3>2. call[t].chips[j] \in Slots
      BY AdminAssumption DEF AdminAssumption
    <3>3. InFlight(call[t].chips[j], <<number[t], j>>)
      BY <1>5 DEF Sent
    <3> QED BY <1>1, <1>2, <3>1, <3>2, <3>3 DEF InFlight
  <2> QED BY <2>1, <2>2
<1>11. Owned'
  <2> SUFFICES ASSUME NEW d \in Chips, ~Quiet(d)'
               PROVE  \E u \in Threads, j \in Nat : Out(u, j) /\ call[u].chips[j] = d
    BY <1>1, <1>8 DEF Owned
  <2>1. CASE d = c
    BY <1>6, <2>1
  <2>2. CASE d # c
    BY <1>2, <1>5, <2>2, AdminAssumption DEF Owned, Quiet, AdminAssumption
  <2> QED BY <2>1, <2>2
<1>12. Copied'
  <2> SUFFICES ASSUME NEW u \in Threads, pc[u] = "arm"
               PROVE  slot'[Chip(u)].cmd = {Command(u)}
    BY <1>1 DEF Copied, Chip, Command
  <2>1. Chip(u) \in Slots
    BY ChipType DEF Places
  <2> QED BY <1>2, <1>5, <2>1 DEF Copied
<1>13. Fresh' /\ Distinct' /\ OwnAnswers' /\ ~twice'
  BY <1>1, <1>5 DEF Fresh, Distinct, OwnAnswers
<1> QED BY <1>10, <1>11, <1>12, <1>13

LEMMA MailInit == Init => MailInv
<1> SUFFICES ASSUME Init PROVE MailInv
  OBVIOUS
<1>1. NoReplyYet /\ OwnAnswers /\ Fresh /\ Copied /\ Distinct /\ ~twice
  BY DEF Init, NoReplyYet, OwnAnswers, Fresh, Copied, Distinct, InLock
<1>2. \A t \in Threads : \A i : ~Out(t, i)
  BY DEF Init, Out
<1>3. Sent
  BY <1>2 DEF Sent
<1>4. Owned
  BY AdminAssumption DEF Init, Owned, Quiet, AdminAssumption
<1> QED BY <1>1, <1>3, <1>4 DEF MailInv

LEMMA MailStep == MailBase /\ MailInv /\ [Next]_vars => MailInv'
<1> SUFFICES ASSUME MailBase, MailInv, [Next]_vars PROVE MailInv'
  OBVIOUS
<1>1. ASSUME NEW t \in Threads, Begin(t) PROVE MailInv'
  BY <1>1, MailBegin
<1>2. ASSUME NEW t \in Threads, Lock(t) PROVE MailInv'
  BY <1>2, MailLock
<1>3. ASSUME NEW t \in Threads, Run(t) PROVE MailInv'
  BY <1>3, MailCopy, MailArm, MailSkip, MailFetch, MailGiveUp, MailUnlock DEF Run
<1>4. ASSUME NEW c \in Chips, FwTake(c) PROVE MailInv'
  BY <1>4, MailFwTake
<1>5. ASSUME NEW c \in Chips, FwDone(c) PROVE MailInv'
  BY <1>5, MailFwDone
<1>6. CASE UNCHANGED vars
  <2> USE <1>6 DEF vars
  <2>1. (\A t \in Threads : \A i \in Nat : Out(t, i)' <=> Out(t, i))
        /\ (\A c \in Chips : Quiet(c)' <=> Quiet(c))
    BY DEF Out, Quiet
  <2>2. Sent => Sent'
    BY <2>1 DEF Sent, InFlight
  <2>3. Owned => Owned'
    BY <2>1 DEF Owned
  <2>4. (Fresh => Fresh') /\ (Copied => Copied') /\ (Distinct => Distinct')
    BY DEF Fresh, Copied, Distinct, Chip, Command
  <2>5. (OwnAnswers => OwnAnswers') /\ (NoReplyYet => NoReplyYet')
    BY DEF OwnAnswers, NoReplyYet
  <2> QED BY <2>2, <2>3, <2>4, <2>5 DEF MailInv
<1> QED BY <1>1, <1>2, <1>3, <1>4, <1>5, <1>6 DEF Next, Rest

(* Both invariants hold together.                                           *)
LEMMA MailCorrect == Spec => [](MailBase /\ MailInv)
<1>1. Init => MailBase /\ MailInv
  BY BaseInit, MailInit DEF MailBase
<1>2. MailBase /\ MailInv /\ [Next]_vars => (MailBase /\ MailInv)'
  BY TypeStep, LockStep, SourceStep, MailStep DEF MailBase
<1> QED BY <1>1, <1>2, PTL DEF Spec

(* Until a command is given up, each success memx_admin_fetch_result        *)
(* reports carries the answer to the very command it was asked for.         *)
THEOREM OwnAnswerCorrect == Spec => []AnswerIsOwnUnlessSpoilt
<1>1. MailInv => AnswerIsOwnUnlessSpoilt
  BY DEF MailInv, OwnAnswers, AnswerIsOwnUnlessSpoilt
<1> QED BY <1>1, MailCorrect, PTL

(* Until one is given up, a chip runs each command it is sent once.         *)
THEOREM RunsOnceCorrect == Spec => []RunsOnceUnlessSpoilt
<1>1. MailInv => RunsOnceUnlessSpoilt
  BY DEF MailInv, RunsOnceUnlessSpoilt
<1> QED BY <1>1, MailCorrect, PTL

(* Until one is given up, the mailbox is handed on with every chip at rest. *)
THEOREM QuietCorrect == Spec => []QuietWhenFree
<1>1. MailBase /\ MailInv => QuietWhenFree
  <2> SUFFICES ASSUME MailBase, MailInv, adminlock = NoThread, ~spoilt
               PROVE  \A c \in Chips : Quiet(c)
    BY DEF QuietWhenFree, Quiet
  <2>1. \A t \in Threads : pc[t] \notin InLock
    BY AdminAssumption DEF MailBase, LockInv, AdminAssumption
  <2> QED BY <2>1, NobodyQuiet
<1> QED BY <1>1, MailCorrect, PTL
=============================================================================
