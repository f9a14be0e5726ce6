--------------------------- MODULE MxUsbCtlProofs ---------------------------
(* Theorems about the USB control path, for any number of threads and calls *)
(* and for any calls whatever: sequences of sections of transfers of any    *)
(* kind, length and clean-up.                                               *)
EXTENDS MxUsbCtl, TLAPS

USE DEF Goto, callVars, threadVars, urbVars

-----------------------------------------------------------------------------
(* Type correctness.                                                        *)

(* A thread at a transfer has it in front of it.                            *)
HasTransfer == \A t \in Threads : pc[t] \in {"wait", "late", "done"} => todo[t] # <<>>

(* Only txurb asks for what is in the slot.                                 *)
SlotAsker == asker["ftx"] # Slot

LEMMA TransferType ==
  ASSUME NEW x \in Transfers
  PROVE  /\ x.urb \in Urbs /\ x.comp \in Comps /\ x.skip \in Nat
         /\ x.late \in {"leave", "kill", "reinit"}
         /\ x.asks = "slot" => x.urb = "tx"
BY DEF Transfers

(* The transfer a thread is at.                                             *)
LEMMA AtTransfer ==
  ASSUME TypeOK, NEW t \in Threads, todo[t] # <<>>
  PROVE  Transfer(t) \in Transfers
<1>1. todo[t] \in Seq(Transfers)
  BY DEF TypeOK
<1> QED BY <1>1 DEF Transfer

(* What is left of a section and of a call are sections and calls again.    *)
LEMMA SkipType ==
  ASSUME TypeOK, NEW t \in Threads, todo[t] # <<>>, Skip(t)
  PROVE  todo' \in [Threads -> Seq(Transfers)] /\ more' \in [Threads -> Seq(Seq(Transfers))]
<1>1. todo[t] \in Seq(Transfers) /\ Head(todo[t]).skip \in Nat
  BY AtTransfer, TransferType DEF TypeOK, Transfer
<1>2. SubSeq(todo[t], 2 + Head(todo[t]).skip, Len(todo[t])) \in Seq(Transfers)
  BY <1>1
<1>3. todo' \in [Threads -> Seq(Transfers)]
  BY <1>2 DEF TypeOK, Skip
<1>4. more[t] \in Seq(Seq(Transfers)) /\ <<>> \in Seq(Seq(Transfers))
  BY DEF TypeOK
<1>5. more' \in [Threads -> Seq(Seq(Transfers))]
  BY <1>4 DEF TypeOK, Skip
<1> QED BY <1>3, <1>5

LEMMA TypeInit == Init => TypeOK /\ HasTransfer /\ SlotAsker
<1> SUFFICES ASSUME Init PROVE TypeOK /\ HasTransfer /\ SlotAsker
  OBVIOUS
<1>1. /\ todo \in [Threads -> Seq(Transfers)] /\ more \in [Threads -> Seq(Seq(Transfers))]
      /\ owed \in Seq(Nat)
  BY DEF Init
<1>2. TypeOK
  BY <1>1 DEF Init, TypeOK, PC, Urbs, Comps
<1>3. HasTransfer /\ SlotAsker
  BY DEF Init, HasTransfer, SlotAsker, Slot, Urbs
<1> QED BY <1>2, <1>3

(* The locations are known.                                                 *)
LEMMA Locations ==
  /\ {"idle", "lock", "next", "wait", "late", "done"} = PC
  /\ InLock = {"next", "wait", "late", "done"}
BY DEF PC, InLock

LEMMA BeginType ==
  ASSUME TypeOK, NEW t \in Threads, Begin(t)
  PROVE  TypeOK'
<1>1. PICK c \in Casts[cast] : /\ todo' = [todo EXCEPT ![t] = Head(c)]
                               /\ more' = [more EXCEPT ![t] = Tail(c)]
  BY DEF Begin
<1>2. c \in Seq(Seq(Transfers)) /\ c # <<>>
  <2>1. Casts[cast] \in SUBSET (Seq(Seq(Transfers)) \ {<<>>})
    BY CtlAssumption DEF CtlAssumption, TypeOK
  <2> QED BY <2>1
<1>3. Head(c) \in Seq(Transfers) /\ Tail(c) \in Seq(Seq(Transfers))
  BY <1>2
<1>4. todo' \in [Threads -> Seq(Transfers)] /\ more' \in [Threads -> Seq(Seq(Transfers))]
  BY <1>1, <1>3 DEF TypeOK
<1>5. calls' \in Nat /\ number' \in [Threads -> Nat] /\ pc' \in [Threads -> PC]
  BY Locations DEF TypeOK, Begin
<1> QED BY <1>4, <1>5 DEF TypeOK, Begin, deviceVars

LEMMA SubmitType ==
  ASSUME TypeOK, NEW t \in Threads, Submit(t)
  PROVE  TypeOK'
<1> DEFINE x == Transfer(t)
<1>1. x \in Transfers /\ todo[t] # <<>>
  BY AtTransfer DEF Submit
<1>2. x.urb \in Urbs /\ x.comp \in Comps
  BY <1>1, TransferType
<1>3. /\ transfers' \in Nat /\ mine' \in [Threads -> Nat] /\ callback' \in [Urbs -> Comps]
      /\ buffer' \in [Urbs -> Nat]
  <2>1. transfers + 1 \in Nat
    BY DEF TypeOK
  <2> QED BY <1>2, <2>1 DEF TypeOK, Submit
<1>4. UNCHANGED <<threadVars, done, through, slot, since, left>>
  BY DEF Submit
<1>5. CASE /\ Skip(t) /\ spoilt' = TRUE /\ UNCHANGED <<pc, flying, asker, got, owed>>
  <2>1. todo' \in [Threads -> Seq(Transfers)] /\ more' \in [Threads -> Seq(Seq(Transfers))]
    BY <1>1, <1>5, SkipType
  <2> QED BY <1>3, <1>4, <1>5, <2>1 DEF TypeOK
<1>6. CASE /\ pc' = [pc EXCEPT ![t] = "wait"]
           /\ flying' = [flying EXCEPT ![x.urb] = transfers + 1]
           /\ asker' = [asker EXCEPT ![x.urb] = IF x.asks = "slot" THEN Slot
                                  ELSE IF x.asks = "answer" /\ x.urb # "frx" THEN number[t]
                                  ELSE 0]
           /\ got' = (got /\ x.urb # "frx")
           /\ owed' = IF x.asks = "answer" /\ x.urb = "frx"
                      THEN Append(owed, number[t]) ELSE owed
           /\ UNCHANGED <<todo, more, spoilt>>
  <2>1. pc' \in [Threads -> PC]
    BY <1>6, Locations DEF TypeOK
  <2>2. flying' \in [Urbs -> Nat]
    BY <1>2, <1>6 DEF TypeOK
  <2>3. asker' \in [Urbs -> Nat \cup {Slot}]
    BY <1>2, <1>6 DEF TypeOK
  <2>4. got' \in BOOLEAN
    BY <1>6, Zenon
  <2>5. owed' \in Seq(Nat)
    BY <1>6 DEF TypeOK
  <2> QED BY <1>3, <1>4, <1>6, <2>1, <2>2, <2>3, <2>4, <2>5 DEF TypeOK
<1> QED BY <1>5, <1>6 DEF Submit

LEMMA GiveUpType ==
  ASSUME TypeOK, HasTransfer, NEW t \in Threads, GiveUp(t)
  PROVE  TypeOK'
<1> DEFINE x == Transfer(t)
           killed == IF flying[x.urb] = 0 THEN done ELSE [done EXCEPT ![callback[x.urb]] = @ + 1]
<1>1. x \in Transfers /\ todo[t] # <<>>
  BY AtTransfer DEF GiveUp, HasTransfer
<1>2. x.urb \in Urbs /\ x.comp \in Comps
  BY <1>1, TransferType
<1>3. killed \in [Comps -> Nat]
  BY <1>2, SMTT(20) DEF TypeOK
<1>4. flying' \in [Urbs -> Nat]
  <2>1. UNCHANGED flying \/ flying' = [flying EXCEPT ![x.urb] = 0]
    BY DEF GiveUp
  <2>2. flying \in [Urbs -> Nat]
    BY DEF TypeOK
  <2> QED BY <2>1, <2>2
<1>5. done' \in [Comps -> Nat]
  <2>1. done' = done \/ done' = killed \/ done' = [killed EXCEPT ![x.comp] = 0]
    BY DEF GiveUp
  <2>2. done \in [Comps -> Nat]
    BY DEF TypeOK
  <2> HIDE DEF killed, x
  <2> QED BY <1>3, <2>1, <2>2
<1>6. left' \in BOOLEAN /\ spoilt' \in BOOLEAN
  <2>1. left' = (left \/ x.late # "reinit") /\ spoilt' = TRUE
    BY DEF GiveUp
  <2> QED BY <2>1, Zenon
<1>7. todo' \in [Threads -> Seq(Transfers)] /\ more' \in [Threads -> Seq(Seq(Transfers))]
  BY <1>1, SkipType DEF GiveUp
<1>8. pc' \in [Threads -> PC]
  BY Locations DEF TypeOK, GiveUp
<1>9. UNCHANGED <<mine, threadVars, transfers, asker, callback, got, buffer, deviceVars>>
  BY DEF GiveUp
<1> QED BY <1>4, <1>5, <1>6, <1>7, <1>8, <1>9 DEF TypeOK, deviceVars

LEMMA AcceptType ==
  ASSUME TypeOK, HasTransfer, NEW t \in Threads, Accept(t)
  PROVE  TypeOK'
<1>1. Transfer(t) \in Transfers /\ todo[t] # <<>>
  BY AtTransfer DEF Accept, HasTransfer
<1>2. todo' \in [Threads -> Seq(Transfers)] /\ more' \in [Threads -> Seq(Seq(Transfers))]
  <2>1. CASE Skip(t)
    BY <1>1, <2>1, SkipType
  <2>2. CASE todo' = [todo EXCEPT ![t] = Tail(@)] /\ UNCHANGED more
    <3>1. Tail(todo[t]) \in Seq(Transfers)
      BY <1>1 DEF TypeOK
    <3> QED BY <2>2, <3>1 DEF TypeOK
  <2> QED BY <2>1, <2>2 DEF Accept
<1>3. answers' \in [Threads -> SUBSET Nat]
  <2>1. buffer["frx"] \in Nat
    BY DEF TypeOK, Urbs
  <2>2. \/ UNCHANGED answers
        \/ answers' = [answers EXCEPT ![t] = @ \cup {buffer["frx"]}]
    BY DEF Accept
  <2>3. answers[t] \cup {buffer["frx"]} \in SUBSET Nat
    BY <2>1 DEF TypeOK
  <2> QED BY <2>2, <2>3 DEF TypeOK
<1>4. pc' \in [Threads -> PC]
  BY Locations DEF TypeOK, Accept
<1> QED BY <1>2, <1>3, <1>4 DEF TypeOK, Accept, deviceVars

LEMMA UnlockType ==
  ASSUME TypeOK, NEW t \in Threads, Unlock(t)
  PROVE  TypeOK'
<1>1. /\ mine' \in [Threads -> Nat] /\ cfglock' \in Threads \cup {NoThread}
      /\ pc' \in [Threads -> PC]
  BY Locations DEF TypeOK, Unlock
<1>2. todo' \in [Threads -> Seq(Transfers)] /\ more' \in [Threads -> Seq(Seq(Transfers))]
  <2>1. CASE more[t] = <<>>
    BY <2>1 DEF TypeOK, Unlock
  <2>2. CASE more[t] # <<>>
    <3>1. more[t] \in Seq(Seq(Transfers))
      BY DEF TypeOK
    <3>2. Head(more[t]) \in Seq(Transfers) /\ Tail(more[t]) \in Seq(Seq(Transfers))
      BY <2>2, <3>1
    <3> QED BY <2>2, <3>2, ZenonT(30) DEF TypeOK, Unlock
  <2> QED BY <2>1, <2>2
<1>3. number' \in [Threads -> Nat]
  BY DEF TypeOK, Unlock
<1>4. answers' \in [Threads -> SUBSET Nat] /\ since' \in [Threads -> SUBSET Nat]
  BY DEF TypeOK, Unlock
<1> QED BY <1>1, <1>2, <1>3, <1>4 DEF TypeOK, Unlock

LEMMA OutDoneType ==
  ASSUME TypeOK, SlotAsker, NEW u \in {"tx", "ftx"}, OutDone(u)
  PROVE  TypeOK'
<1>1. u \in Urbs
  BY DEF Urbs
<1>2. flying' \in [Urbs -> Nat] /\ through' \in [Urbs -> Nat]
  BY <1>1 DEF TypeOK, OutDone
<1>3. done' \in [Comps -> Nat]
  BY <1>1 DEF TypeOK, OutDone
<1>4. owed' \in Seq(Nat)
  <2>1. \/ owed' = owed
        \/ asker[u] # Slot /\ owed' = Append(owed, asker[u])
        \/ owed' = Append(owed, slot)
    BY DEF OutDone
  <2>2. asker[u] # Slot => asker[u] \in Nat
    BY <1>1 DEF TypeOK
  <2>3. owed \in Seq(Nat) /\ slot \in Nat
    BY DEF TypeOK
  <2>4. \A n \in Nat : Append(owed, n) \in Seq(Nat)
    BY <2>3
  <2> QED BY <2>1, <2>2, <2>3, <2>4
<1>5. slot' \in Nat /\ since' \in [Threads -> SUBSET Nat]
  <2>1. CASE u = "ftx" /\ asker[u] # 0
    <3>1. asker[u] \in Nat
      BY <1>1, <2>1 DEF TypeOK, SlotAsker
    <3>2. slot' = asker[u] /\ since' = [t \in Threads |-> IF number[t] \in {0, asker[u]} THEN {}
                                                          ELSE since[t] \cup {asker[u]}]
      BY <2>1 DEF OutDone, TakeCommand
    <3> QED BY <3>1, <3>2 DEF TypeOK
  <2>2. CASE ~(u = "ftx" /\ asker[u] # 0)
    BY <2>2 DEF OutDone, TypeOK
  <2> QED BY <2>1, <2>2
<1> QED BY <1>2, <1>3, <1>4, <1>5 DEF TypeOK, OutDone

LEMMA InDoneType ==
  ASSUME TypeOK, InDone
  PROVE  TypeOK'
<1>1. Head(owed) \in Nat /\ Tail(owed) \in Seq(Nat)
  BY DEF TypeOK, InDone
<1>2. "frx" \in Urbs
  BY DEF Urbs
<1>3. done' \in [Comps -> Nat]
  BY <1>2, SMTT(20) DEF TypeOK, InDone
<1>4. /\ flying' \in [Urbs -> Nat] /\ through' \in [Urbs -> Nat] /\ buffer' \in [Urbs -> Nat]
      /\ got' \in BOOLEAN
  BY <1>1, <1>2 DEF TypeOK, InDone
<1> QED BY <1>1, <1>3, <1>4 DEF TypeOK, InDone

LEMMA UrbErrorType ==
  ASSUME TypeOK, NEW u \in Urbs, UrbError(u)
  PROVE  TypeOK'
<1>1. flying' \in [Urbs -> Nat] /\ through' \in [Urbs -> Nat]
  BY DEF TypeOK, UrbError
<1>2. done' \in [Comps -> Nat]
  BY SMTT(20) DEF TypeOK, UrbError
<1>3. owed' \in Seq(Nat) /\ got' \in BOOLEAN
  <2>1. CASE UNCHANGED <<got, owed>>
    BY <2>1 DEF TypeOK
  <2>2. CASE owed # <<>> /\ got' = TRUE /\ owed' = Tail(owed)
    BY <2>2 DEF TypeOK
  <2> QED BY <2>1, <2>2 DEF UrbError
<1> QED BY <1>1, <1>2, <1>3 DEF TypeOK, UrbError

LEMMA WaitType ==
  ASSUME TypeOK, HasTransfer, NEW t \in Threads, WaitDone(t) \/ WaitLate(t)
  PROVE  TypeOK'
<1>1. Transfer(t).comp \in Comps
  BY AtTransfer, TransferType DEF HasTransfer, WaitDone, WaitLate
<1>2. done' \in [Comps -> Nat]
  <2> DEFINE c == Transfer(t).comp
  <2>1. UNCHANGED done \/ (done[c] > 0 /\ done' = [done EXCEPT ![c] = @ - 1])
    BY DEF WaitDone, WaitLate
  <2>2. done \in [Comps -> Nat]
    BY DEF TypeOK
  <2>3. done[c] > 0 => done[c] - 1 \in Nat
    BY <1>1, <2>2
  <2> HIDE DEF c
  <2> QED BY <2>1, <2>2, <2>3
<1>3. pc' \in [Threads -> PC]
  BY Locations DEF TypeOK, WaitDone, WaitLate
<1> QED BY <1>2, <1>3 DEF TypeOK, WaitDone, WaitLate, deviceVars

LEMMA LockType ==
  ASSUME TypeOK, NEW t \in Threads, Lock(t)
  PROVE  TypeOK'
BY Locations DEF TypeOK, Lock, deviceVars

(* Threads get to a transfer through Submit, and leave it before they go on.*)
LEMMA HasTransferStep ==
  ASSUME TypeOK, HasTransfer, [Next]_vars
  PROVE  HasTransfer'
<1>1. ASSUME NEW t \in Threads, Begin(t) \/ Lock(t) \/ Accept(t) \/ GiveUp(t)
      PROVE  HasTransfer'
  <2>1. \A s \in Threads \ {t} : pc'[s] = pc[s] /\ todo'[s] = todo[s]
    BY <1>1 DEF TypeOK, Begin, Lock, Accept, GiveUp, Skip
  <2>2. pc'[t] \in {"lock", "next"}
    BY <1>1 DEF TypeOK, Begin, Lock, Accept, GiveUp
  <2> QED BY <2>1, <2>2 DEF HasTransfer
<1>2. ASSUME NEW t \in Threads, Unlock(t)
      PROVE  HasTransfer'
  <2>1. \A s \in Threads \ {t} : pc'[s] = pc[s] /\ todo'[s] = todo[s]
    BY <1>2 DEF TypeOK, Unlock
  <2>2. pc'[t] \in {"lock", "idle"}
    BY <1>2 DEF TypeOK, Unlock
  <2> QED BY <2>1, <2>2 DEF HasTransfer
<1>3. ASSUME NEW t \in Threads, WaitDone(t) \/ WaitLate(t)
      PROVE  HasTransfer'
  <2>1. /\ UNCHANGED todo /\ pc[t] = "wait"
        /\ \A s \in Threads \ {t} : pc'[s] = pc[s]
    BY <1>3 DEF TypeOK, WaitDone, WaitLate
  <2> QED BY <2>1 DEF HasTransfer
<1>4. ASSUME NEW t \in Threads, Submit(t)
      PROVE  HasTransfer'
  <2>1. \/ UNCHANGED pc /\ pc[t] = "next" /\ \A s \in Threads \ {t} : todo'[s] = todo[s]
        \/ UNCHANGED todo /\ pc' = [pc EXCEPT ![t] = "wait"] /\ todo[t] # <<>>
    BY <1>4 DEF TypeOK, Submit, Skip
  <2> QED BY <2>1 DEF TypeOK, HasTransfer
<1>5. CASE \/ (\E u \in {"tx", "ftx"} : OutDone(u)) \/ InDone \/ (\E u \in Urbs : UrbError(u))
          \/ Quiesce \/ UNCHANGED vars
  BY <1>5 DEF HasTransfer, OutDone, InDone, UrbError, Quiesce, vars
<1> QED BY <1>1, <1>2, <1>3, <1>4, <1>5 DEF Next, Run

LEMMA SlotAskerStep ==
  ASSUME TypeOK, HasTransfer, SlotAsker, [Next]_vars
  PROVE  SlotAsker'
<1>1. ASSUME NEW t \in Threads, Submit(t)
      PROVE  SlotAsker'
  <2> DEFINE x == Transfer(t)
  <2>1. x \in Transfers
    BY <1>1, AtTransfer DEF Submit
  <2>2. x.urb \in Urbs /\ (x.asks = "slot" => x.urb = "tx") /\ number[t] # Slot
    BY <2>1, TransferType DEF TypeOK, Slot
  <2>3. "ftx" \in Urbs /\ "frx" # "ftx" /\ "tx" # "ftx"
    BY DEF Urbs
  <2>4. \/ UNCHANGED asker
        \/ asker' = [asker EXCEPT ![x.urb] = IF x.asks = "slot" THEN Slot
                                  ELSE IF x.asks = "answer" /\ x.urb # "frx" THEN number[t]
                                  ELSE 0]
    BY <1>1 DEF Submit
  <2> HIDE DEF x
  <2>5. 0 # Slot
    BY DEF Slot
  <2>6. CASE UNCHANGED asker
    BY <2>6 DEF SlotAsker
  <2>7. CASE asker' = [asker EXCEPT ![x.urb] = IF x.asks = "slot" THEN Slot
                                    ELSE IF x.asks = "answer" /\ x.urb # "frx" THEN number[t]
                                    ELSE 0]
    <3>1. CASE x.urb = "ftx"
      <4>1. x.asks # "slot"
        BY <2>2, <2>3, <3>1
      <4>2. asker'["ftx"] = 0 \/ asker'["ftx"] = number[t]
        BY <2>3, <2>7, <3>1, <4>1 DEF TypeOK
      <4> QED BY <2>2, <2>5, <4>2 DEF SlotAsker
    <3>2. CASE x.urb # "ftx"
      BY <2>3, <2>7, <3>2 DEF SlotAsker, TypeOK
    <3> QED BY <3>1, <3>2
  <2> QED BY <2>4, <2>6, <2>7
<1>2. ASSUME NEW t \in Threads, Begin(t) \/ Lock(t) \/ WaitDone(t) \/ WaitLate(t)
      PROVE  SlotAsker'
  BY <1>2 DEF SlotAsker, Begin, Lock, WaitDone, WaitLate
<1>3. ASSUME NEW t \in Threads, GiveUp(t) \/ Accept(t) \/ Unlock(t)
      PROVE  SlotAsker'
  BY <1>3 DEF SlotAsker, GiveUp, Accept, Unlock
<1>4. CASE \/ (\E u \in {"tx", "ftx"} : OutDone(u)) \/ InDone \/ (\E u \in Urbs : UrbError(u))
          \/ Quiesce \/ UNCHANGED vars
  BY <1>4 DEF SlotAsker, OutDone, InDone, UrbError, Quiesce, vars
<1> QED BY <1>1, <1>2, <1>3, <1>4 DEF Next, Run

TypeInv == TypeOK /\ HasTransfer /\ SlotAsker

LEMMA TypeStep == TypeInv /\ [Next]_vars => TypeInv'
<1> SUFFICES ASSUME TypeInv, [Next]_vars PROVE TypeInv'
  OBVIOUS
<1> USE DEF TypeInv
<1>1. ASSUME NEW t \in Threads, Begin(t) \/ Lock(t) \/ Run(t)
      PROVE  TypeOK'
  BY <1>1, BeginType, LockType, SubmitType, WaitType, GiveUpType, AcceptType, UnlockType DEF Run
<1>2. ASSUME NEW u \in {"tx", "ftx"}, OutDone(u)
      PROVE  TypeOK'
  BY <1>2, OutDoneType
<1>3. ASSUME Quiesce \/ UNCHANGED vars
      PROVE  TypeOK'
  <2>1. UNCHANGED vars
    BY <1>3 DEF Quiesce
  <2> QED BY <2>1 DEF vars, TypeOK
<1>4. TypeOK'
  BY <1>1, <1>2, <1>3, InDoneType, UrbErrorType DEF Next
<1> QED BY <1>4, HasTransferStep, SlotAskerStep

LEMMA TypeInvariant == Spec => []TypeInv
<1>1. Init => TypeInv
  BY TypeInit DEF TypeInv
<1> QED BY <1>1, TypeStep, PTL DEF Spec

(* Every variable of the control path keeps its type, whatever the calls    *)
(* are: no completion is taken that was not counted, no answer sent that is *)
(* nobody's, and what is left of a call after failures is part of a call.   *)
THEOREM TypeCorrect == Spec => []TypeOK
BY TypeInvariant, PTL DEF TypeInv

-----------------------------------------------------------------------------
(* The state of the URBs, as long as no late transfer was left behind.      *)

(* The thread between lock and unlock is the one that has cfglock.          *)
LockInv == \A t \in Threads : pc[t] \in InLock <=> cfglock = t

Rest == (\A u \in Urbs : flying[u] = 0) /\ (\A c \in Comps : done[c] = 0)

(* The transfer of t is under way, and nothing else is or was counted.      *)
UnderWay(t) ==
  LET x == Transfer(t) IN
  /\ \A u \in Urbs : flying[u] = IF u = x.urb THEN mine[t] ELSE 0
  /\ \A c \in Comps : done[c] = 0
  /\ callback[x.urb] = x.comp
  /\ x.urb # "frx" => buffer[x.urb] = mine[t]

(* It is over, and its completion is the only one counted.                  *)
Over(t) ==
  LET x == Transfer(t) IN
  /\ \A u \in Urbs : flying[u] = 0
  /\ \A c \in Comps : done[c] = IF c = x.comp THEN 1 ELSE 0
  /\ through[x.urb] = mine[t]

Held(t) ==
  \/ pc[t] = "next" /\ Rest
  \/ pc[t] \in {"wait", "late"} /\ (UnderWay(t) \/ Over(t))
  \/ pc[t] = "done" /\ Rest /\ through[Transfer(t).urb] = mine[t]

CleanInv == left \/ IF cfglock = NoThread THEN Rest ELSE Held(cfglock)

CtlInv == TypeInv /\ LockInv /\ CleanInv

LEMMA HolderType ==
  ASSUME TypeInv, NEW t \in Threads, pc[t] \in {"wait", "late", "done"}
  PROVE  /\ Transfer(t) \in Transfers
         /\ Transfer(t).urb \in Urbs /\ Transfer(t).comp \in Comps
BY AtTransfer, TransferType DEF TypeInv, HasTransfer

LEMMA LockStep ==
  ASSUME TypeOK, LockInv, [Next]_vars
  PROVE  LockInv'
<1>1. ASSUME NEW t \in Threads, Begin(t)
      PROVE  LockInv'
  BY <1>1, Locations DEF TypeOK, LockInv, Begin
<1>2. ASSUME NEW t \in Threads, Lock(t)
      PROVE  LockInv'
  BY <1>2, Locations, CtlAssumption DEF CtlAssumption, TypeOK, LockInv, Lock
<1>3. ASSUME NEW t \in Threads, Unlock(t)
      PROVE  LockInv'
  BY <1>3, Locations, CtlAssumption DEF CtlAssumption, TypeOK, LockInv, Unlock
<1>4. ASSUME NEW t \in Threads,
             Submit(t) \/ WaitDone(t) \/ WaitLate(t) \/ GiveUp(t) \/ Accept(t)
      PROVE  LockInv'
  <2>1. /\ UNCHANGED cfglock /\ pc[t] \in InLock
        /\ UNCHANGED pc \/ \E to \in InLock : pc' = [pc EXCEPT ![t] = to]
    BY <1>4, Locations DEF Submit, WaitDone, WaitLate, GiveUp, Accept
  <2> QED BY <2>1 DEF TypeOK, LockInv
<1>5. CASE \/ (\E u \in {"tx", "ftx"} : OutDone(u)) \/ InDone \/ (\E u \in Urbs : UrbError(u))
          \/ Quiesce \/ UNCHANGED vars
  BY <1>5 DEF LockInv, OutDone, InDone, UrbError, Quiesce, vars
<1> QED BY <1>1, <1>2, <1>3, <1>4, <1>5 DEF Next, Run

(* The thread that moves within the lock is the holder.                     *)
LEMMA Holder ==
  ASSUME CtlInv, NEW t \in Threads, pc[t] \in InLock
  PROVE  cfglock = t /\ t # NoThread /\ (left \/ Held(t))
<1>1. cfglock = t /\ t # NoThread
  BY CtlAssumption DEF CtlAssumption, CtlInv, LockInv
<1> QED BY <1>1 DEF CtlInv, CleanInv

LEMMA SubmitClean ==
  ASSUME CtlInv, NEW t \in Threads, Submit(t)
  PROVE  CleanInv'
<1> DEFINE x == Transfer(t)
           n == transfers + 1
<1>1. x.urb \in Urbs /\ x.comp \in Comps
  BY AtTransfer, TransferType DEF CtlInv, TypeInv, Submit
<1>2. cfglock' = t /\ t # NoThread /\ left' = left /\ (left \/ Rest) /\ UNCHANGED done
  BY Holder, Locations DEF Submit, Held
<1>3. CASE UNCHANGED <<pc, flying>>
  <2>1. pc'[t] = "next" /\ (Rest => Rest')
    BY <1>2, <1>3 DEF Submit, Rest
  <2> QED BY <1>2, <2>1 DEF CleanInv, Held
<1>4. CASE /\ pc' = [pc EXCEPT ![t] = "wait"] /\ flying' = [flying EXCEPT ![x.urb] = n]
           /\ UNCHANGED todo
  <2>1. pc'[t] = "wait" /\ Transfer(t)' = x /\ mine'[t] = n
    BY <1>4 DEF CtlInv, TypeInv, TypeOK, Submit, Transfer
  <2>2. \A u \in Urbs : Rest => flying'[u] = IF u = x.urb THEN n ELSE 0
    BY <1>1, <1>4 DEF CtlInv, TypeInv, TypeOK, Rest
  <2>3. callback'[x.urb] = x.comp /\ (x.urb # "frx" => buffer'[x.urb] = n)
    BY <1>1 DEF CtlInv, TypeInv, TypeOK, Submit
  <2>4. Rest => UnderWay(t)'
    <3> HIDE DEF x, n
    <3> QED BY <1>2, <2>1, <2>2, <2>3 DEF UnderWay, Rest
  <2> QED BY <1>2, <2>1, <2>4 DEF CleanInv, Held
<1> QED BY <1>3, <1>4 DEF Submit

LEMMA WaitClean ==
  ASSUME CtlInv, NEW t \in Threads, WaitDone(t) \/ WaitLate(t)
  PROVE  CleanInv'
<1> DEFINE x == Transfer(t)
<1>1. x.urb \in Urbs /\ x.comp \in Comps
  BY HolderType DEF CtlInv, WaitDone, WaitLate
<1>2. /\ cfglock' = t /\ t # NoThread /\ left' = left /\ pc[t] = "wait"
      /\ left \/ UnderWay(t) \/ Over(t)
      /\ UNCHANGED <<todo, mine, flying, callback, buffer, through>>
  BY Holder, Locations DEF WaitDone, WaitLate, Held, deviceVars
<1>3. Transfer(t)' = x
  BY <1>2 DEF Transfer
<1>4. CASE WaitLate(t)
  <2>1. pc'[t] = "late" /\ UNCHANGED done
    BY <1>4 DEF CtlInv, TypeInv, TypeOK, WaitLate
  <2>2. (UnderWay(t) => UnderWay(t)') /\ (Over(t) => Over(t)')
    BY <1>2, <1>3, <2>1 DEF UnderWay, Over
  <2> QED BY <1>2, <2>1, <2>2 DEF CleanInv, Held
<1>5. CASE WaitDone(t)
  <2>1. pc'[t] = "done" /\ done[x.comp] > 0 /\ done' = [done EXCEPT ![x.comp] = @ - 1]
    BY <1>5 DEF CtlInv, TypeInv, TypeOK, WaitDone
  <2>2. left \/ Over(t)
    BY <1>1, <1>2, <2>1 DEF UnderWay
  <2>3. Over(t) => Rest' /\ through'[x.urb] = mine'[t]
    <3> HIDE DEF x
    <3>1. done \in [Comps -> Nat]
      BY DEF CtlInv, TypeInv, TypeOK
    <3>2. ASSUME Over(t)
          PROVE  \A c \in Comps : done'[c] = 0
      BY <2>1, <3>1, <3>2 DEF Over, x
    <3> QED BY <1>2, <3>2 DEF Over, Rest, x
  <2> QED BY <1>2, <1>3, <2>1, <2>2, <2>3 DEF CleanInv, Held
<1> QED BY <1>4, <1>5

LEMMA GiveUpClean ==
  ASSUME CtlInv, NEW t \in Threads, GiveUp(t)
  PROVE  CleanInv'
<1> DEFINE x == Transfer(t)
<1>1. x.urb \in Urbs /\ x.comp \in Comps
  BY HolderType DEF CtlInv, GiveUp
<1>2. /\ cfglock' = t /\ t # NoThread /\ pc[t] = "late" /\ pc'[t] = "next"
      /\ left \/ UnderWay(t) \/ Over(t)
      /\ left' = (left \/ x.late # "reinit")
  BY Holder, Locations DEF CtlInv, TypeInv, TypeOK, GiveUp, Held
<1>3. CASE left \/ x.late # "reinit"
  BY <1>2, <1>3 DEF CleanInv
<1>4. CASE ~left /\ x.late = "reinit"
  <2> DEFINE killed == IF flying[x.urb] = 0 THEN done
                       ELSE [done EXCEPT ![callback[x.urb]] = @ + 1]
  <2>1. flying' = [flying EXCEPT ![x.urb] = 0] /\ done' = [killed EXCEPT ![x.comp] = 0]
    BY <1>4 DEF GiveUp
  <2>2. flying \in [Urbs -> Nat] /\ killed \in [Comps -> Nat]
    <3>1. /\ flying \in [Urbs -> Nat] /\ done \in [Comps -> Nat]
          /\ callback[x.urb] \in Comps
      BY <1>1 DEF CtlInv, TypeInv, TypeOK
    <3> QED BY <3>1
  <2>3. \A c \in Comps : c # x.comp => killed[c] = 0
    BY <1>1, <1>2, <1>4 DEF CtlInv, TypeInv, TypeOK, UnderWay, Over
  <2>4. \A u \in Urbs : u # x.urb => flying[u] = 0
    BY <1>2, <1>4 DEF UnderWay, Over
  <2> HIDE DEF x, killed
  <2>5. Rest'
    BY <2>1, <2>2, <2>3, <2>4 DEF Rest
  <2> QED BY <1>2, <2>5 DEF CleanInv, Held
<1> QED BY <1>3, <1>4

LEMMA AcceptClean ==
  ASSUME CtlInv, NEW t \in Threads, Accept(t)
  PROVE  CleanInv'
<1>1. /\ cfglock' = t /\ t # NoThread /\ pc'[t] = "next" /\ left' = left /\ (left \/ Rest)
  BY Holder, Locations DEF CtlInv, TypeInv, TypeOK, Accept, Held
<1>2. Rest => Rest'
  BY DEF Accept, Rest
<1> QED BY <1>1, <1>2 DEF CleanInv, Held

LEMMA LockClean ==
  ASSUME CtlInv, NEW t \in Threads, Lock(t) \/ Unlock(t)
  PROVE  CleanInv'
<1>1. left' = left /\ (Rest => Rest')
  BY DEF Lock, Unlock, Rest
<1>2. CASE Lock(t)
  <2>1. cfglock = NoThread /\ cfglock' = t /\ t # NoThread /\ pc'[t] = "next"
    BY <1>2, CtlAssumption DEF CtlAssumption, CtlInv, TypeInv, TypeOK, Lock
  <2> QED BY <1>1, <2>1 DEF CtlInv, CleanInv, Held
<1>3. CASE Unlock(t)
  <2>1. pc[t] = "next" /\ cfglock' = NoThread
    BY <1>3 DEF Unlock
  <2>2. left \/ Rest
    BY <2>1, Holder, Locations DEF Held
  <2> QED BY <1>1, <2>1, <2>2 DEF CleanInv
<1> QED BY <1>2, <1>3

LEMMA BeginClean ==
  ASSUME CtlInv, NEW t \in Threads, Begin(t)
  PROVE  CleanInv'
<1>1. UNCHANGED <<cfglock, mine, flying, done, callback, buffer, through, left>>
  BY DEF Begin, deviceVars
<1>2. CASE left \/ cfglock = NoThread
  BY <1>1, <1>2 DEF CtlInv, CleanInv, Rest
<1>3. CASE ~left /\ cfglock # NoThread
  <2>0. PICK s \in Threads : cfglock = s
    BY <1>3 DEF CtlInv, TypeInv, TypeOK
  <2>1. pc[s] \in InLock /\ Held(s)
    BY <1>3, <2>0 DEF CtlInv, LockInv, CleanInv
  <2>2. s # t
    BY <2>1, Locations DEF Begin
  <2>3. pc'[s] = pc[s] /\ todo'[s] = todo[s]
    BY <2>1, <2>2 DEF CtlInv, TypeInv, TypeOK, Begin
  <2>4. Transfer(s)' = Transfer(s)
    BY <1>1, <2>3 DEF Transfer
  <2>5. (UnderWay(s) => UnderWay(s)') /\ (Over(s) => Over(s)') /\ (Rest => Rest')
    BY <1>1, <2>4 DEF UnderWay, Over, Rest
  <2>6. Held(s)'
    BY <1>1, <2>1, <2>3, <2>4, <2>5 DEF Held
  <2> QED BY <1>1, <1>3, <2>0, <2>6 DEF CleanInv
<1> QED BY <1>2, <1>3

(* The device ends the transfer of the thread that waits for it.            *)
LEMMA DeviceClean ==
  ASSUME CtlInv, NEW u \in Urbs, flying[u] # 0,
         flying' = [flying EXCEPT ![u] = 0],
         through' = [through EXCEPT ![u] = flying[u]],
         done' = [done EXCEPT ![callback[u]] = @ + 1],
         UNCHANGED <<pc, todo, mine, cfglock, left>>
  PROVE  CleanInv'
<1>1. CASE left
  BY <1>1 DEF CleanInv
<1>2. CASE ~left
  <2>1. PICK t \in Threads : cfglock = t /\ t # NoThread
    <3>1. cfglock # NoThread
      BY <1>2 DEF CtlInv, CleanInv, Rest
    <3> QED BY <3>1 DEF CtlInv, TypeInv, TypeOK
  <2> DEFINE x == Transfer(t)
  <2>2. Held(t)
    BY <1>2, <2>1 DEF CtlInv, CleanInv
  <2>3. pc[t] \in {"wait", "late"} /\ UnderWay(t)
    BY <2>2 DEF Held, Rest, Over
  <2>4. x.urb = u /\ flying[u] = mine[t] /\ callback[u] = x.comp /\ x.comp \in Comps
    BY <2>2, <2>3, HolderType DEF CtlInv, UnderWay
  <2>5. Transfer(t)' = x /\ mine'[t] = mine[t] /\ pc'[t] = pc[t]
    BY DEF Transfer
  <2>6. Over(t)'
    <3>1. flying \in [Urbs -> Nat] /\ through \in [Urbs -> Nat] /\ done \in [Comps -> Nat]
      BY DEF CtlInv, TypeInv, TypeOK
    <3>2. \A v \in Urbs : v # u => flying[v] = 0
      BY <2>3, <2>4 DEF UnderWay
    <3>3. \A c \in Comps : done[c] = 0
      BY <2>3 DEF UnderWay
    <3> HIDE DEF x
    <3>4. /\ \A v \in Urbs : flying'[v] = 0
          /\ \A c \in Comps : done'[c] = IF c = x.comp THEN 1 ELSE 0
          /\ through'[u] = mine'[t]
      BY <2>4, <2>5, <3>1, <3>2, <3>3
    <3> QED BY <2>4, <2>5, <3>4 DEF Over
  <2> HIDE DEF x
  <2>7. Held(t)'
    BY <2>3, <2>5, <2>6 DEF Held
  <2> QED BY <2>1, <2>7 DEF CleanInv
<1> QED BY <1>1, <1>2

LEMMA CleanStep ==
  ASSUME CtlInv, [Next]_vars
  PROVE  CleanInv'
<1>1. ASSUME NEW t \in Threads, Begin(t) \/ Lock(t) \/ Run(t)
      PROVE  CleanInv'
  BY <1>1, BeginClean, LockClean, SubmitClean, WaitClean, GiveUpClean, AcceptClean DEF Run
<1>2. ASSUME NEW u \in {"tx", "ftx"}, OutDone(u)
      PROVE  CleanInv'
  <2>1. u \in Urbs
    BY DEF Urbs
  <2>2. /\ flying[u] # 0 /\ flying' = [flying EXCEPT ![u] = 0]
        /\ through' = [through EXCEPT ![u] = flying[u]]
        /\ done' = [done EXCEPT ![callback[u]] = @ + 1]
        /\ UNCHANGED <<pc, todo, mine, cfglock, left>>
    BY <1>2 DEF OutDone
  <2> QED BY <2>1, <2>2, DeviceClean
<1>3. ASSUME InDone
      PROVE  CleanInv'
  BY <1>3, DeviceClean DEF InDone, Urbs
<1>4. ASSUME NEW u \in Urbs, UrbError(u)
      PROVE  CleanInv'
  BY <1>4, DeviceClean DEF UrbError
<1>5. ASSUME Quiesce \/ UNCHANGED vars
      PROVE  CleanInv'
  <2>1. UNCHANGED vars
    BY <1>5 DEF Quiesce
  <2> QED BY <2>1 DEF vars, CtlInv, CleanInv, Held, UnderWay, Over, Rest, Transfer
<1> QED BY <1>1, <1>2, <1>3, <1>4, <1>5 DEF Next

LEMMA CtlInvariant == Spec => []CtlInv
<1>1. Init => CtlInv
  <2> SUFFICES ASSUME Init PROVE CtlInv
    OBVIOUS
  <2>1. TypeInv
    BY TypeInit DEF TypeInv
  <2>2. LockInv
    BY CtlAssumption DEF CtlAssumption, Init, LockInv, InLock
  <2>3. CleanInv
    BY DEF Init, CleanInv, Rest
  <2> QED BY <2>1, <2>2, <2>3 DEF CtlInv
<1>2. CtlInv /\ [Next]_vars => CtlInv'
  BY TypeStep, LockStep, CleanStep DEF CtlInv, TypeInv
<1> QED BY <1>1, <1>2, PTL DEF Spec

(* Until a late transfer is left behind, a wait that reports a transfer     *)
(* done was ended by that very transfer.                                    *)
THEOREM DoneCorrect == Spec => []DoneIsDone
<1>1. CtlInv => DoneIsDone
  <2> SUFFICES ASSUME CtlInv, ~left, NEW t \in Threads, pc[t] = "done"
               PROVE  through[Transfer(t).urb] = mine[t] /\ flying[Transfer(t).urb] = 0
    BY DEF DoneIsDone
  <2>1. Held(t) /\ Transfer(t).urb \in Urbs
    BY Holder, HolderType, Locations DEF CtlInv
  <2> QED BY <2>1 DEF Held, Rest
<1> QED BY <1>1, CtlInvariant, PTL

(* Until then the driver writes no buffer that is under way.                *)
THEOREM SentCorrect == Spec => []SentIntact
<1>1. CtlInv => SentIntact
  <2> SUFFICES ASSUME CtlInv, ~left, NEW u \in {"tx", "ftx"}, flying[u] # 0
               PROVE  buffer[u] = flying[u]
    BY DEF SentIntact
  <2>1. u \in Urbs /\ u # "frx"
    BY DEF Urbs
  <2>2. cfglock # NoThread /\ Held(cfglock)
    BY <2>1 DEF CtlInv, CleanInv, Rest
  <2>3. UnderWay(cfglock)
    BY <2>1, <2>2 DEF Held, Rest, Over
  <2> QED BY <2>1, <2>3 DEF UnderWay
<1> QED BY <1>1, CtlInvariant, PTL

(* Until then cfglock is handed on with every URB idle and no completion    *)
(* counted.                                                                 *)
THEOREM ResidueCorrect == Spec => []NoResidue
<1>1. CtlInv => NoResidue
  BY DEF CtlInv, CleanInv, NoResidue, Rest
<1> QED BY <1>1, CtlInvariant, PTL

-----------------------------------------------------------------------------
(* Whose answer a caller reads.  This needs calls that read what they asked *)
(* for, which those of the driver do (CallsOfTheDriver, below).             *)

IsRead(x)    == x.urb = "frx"
IsAsking(x)  == x.asks # "nothing"
IsCommand(x) == x.urb = "ftx" /\ IsAsking(x)
IsLook(x)    == x.asks = "slot"

(* From its i-th transfer on, a section reads an answer before it asks for  *)
(* one.                                                                     *)
DueAt(s, i) ==
  \E k \in DOMAIN s :
    /\ k >= i /\ IsRead(s[k]) /\ ~IsAsking(s[k])
    /\ \A j \in DOMAIN s : i <= j /\ j < k => ~IsAsking(s[j]) /\ ~IsRead(s[j])

Due(s) == DueAt(s, 1)

(* A section reads once for each time that it asks, after it has asked; and *)
(* it looks at the length only of what it reads.                            *)
Paired(s) ==
  \A i \in DOMAIN s :
    /\ IsAsking(s[i]) /\ ~IsRead(s[i]) => DueAt(s, i + 1)
    /\ IsRead(s[i]) => ~DueAt(s, i + 1)
    /\ s[i].checked => IsRead(s[i])

Commands(s) == \E i \in DOMAIN s : IsCommand(s[i])
Looks(s)    == \E i \in DOMAIN s : IsLook(s[i])

(* A call that looks into chip 0's slot has sent an admin command, and all  *)
(* it sends, in earlier sections.                                           *)
Orderly(c) ==
  \A i \in DOMAIN c :
    /\ Paired(c[i]) /\ ~Due(c[i])
    /\ Looks(c[i]) => /\ \E j \in DOMAIN c : j < i /\ Commands(c[j])
                      /\ \A j \in DOMAIN c : i <= j => ~Commands(c[j])

CallsAreOrderly == \A i \in DOMAIN Casts : \A c \in Casts[i] : Orderly(c)

LEMMA TailAt ==
  ASSUME NEW S, NEW s \in Seq(S), s # <<>>
  PROVE  /\ Tail(s) \in Seq(S) /\ Head(s) = s[1] /\ 1 \in DOMAIN s /\ Head(s) \in S
         /\ \A i \in DOMAIN Tail(s) : i \in Nat \ {0} /\ i + 1 \in DOMAIN s /\ Tail(s)[i] = s[i + 1]
         /\ \A i \in DOMAIN s : /\ i \in Nat \ {0}
                                /\ i # 1 => i - 1 \in DOMAIN Tail(s) /\ Tail(s)[i - 1] = s[i]
OBVIOUS

LEMMA DueTail ==
  ASSUME NEW s \in Seq(Transfers), s # <<>>, NEW i \in Nat \ {0}
  PROVE  DueAt(Tail(s), i) <=> DueAt(s, i + 1)
<1> DEFINE r == Tail(s)
<1>1. /\ \A k \in DOMAIN r : k \in Nat \ {0} /\ k + 1 \in DOMAIN s /\ r[k] = s[k + 1]
      /\ \A k \in DOMAIN s : k \in Nat \ {0} /\ (k # 1 => k - 1 \in DOMAIN r /\ r[k - 1] = s[k])
  BY TailAt
<1> HIDE DEF r
<1>2. ASSUME DueAt(r, i)
      PROVE  DueAt(s, i + 1)
  <2>1. PICK k \in DOMAIN r :
          /\ k >= i /\ IsRead(r[k]) /\ ~IsAsking(r[k])
          /\ \A j \in DOMAIN r : i <= j /\ j < k => ~IsAsking(r[j]) /\ ~IsRead(r[j])
    BY <1>2 DEF DueAt
  <2>2. k + 1 \in DOMAIN s /\ k + 1 >= i + 1 /\ s[k + 1] = r[k]
    BY <1>1, <2>1
  <2>3. ASSUME NEW j \in DOMAIN s, i + 1 <= j, j < k + 1
        PROVE  ~IsAsking(s[j]) /\ ~IsRead(s[j])
    <3>1. j - 1 \in DOMAIN r /\ r[j - 1] = s[j] /\ i <= j - 1 /\ j - 1 < k
      BY <1>1, <2>3
    <3> QED BY <2>1, <3>1
  <2> QED BY <2>1, <2>2, <2>3 DEF DueAt
<1>3. ASSUME DueAt(s, i + 1)
      PROVE  DueAt(r, i)
  <2>1. PICK k \in DOMAIN s :
          /\ k >= i + 1 /\ IsRead(s[k]) /\ ~IsAsking(s[k])
          /\ \A j \in DOMAIN s : i + 1 <= j /\ j < k => ~IsAsking(s[j]) /\ ~IsRead(s[j])
    BY <1>3 DEF DueAt
  <2>2. k - 1 \in DOMAIN r /\ k - 1 >= i /\ r[k - 1] = s[k]
    BY <1>1, <2>1
  <2>3. ASSUME NEW j \in DOMAIN r, i <= j, j < k - 1
        PROVE  ~IsAsking(r[j]) /\ ~IsRead(r[j])
    <3>1. j + 1 \in DOMAIN s /\ r[j] = s[j + 1] /\ i + 1 <= j + 1 /\ j + 1 < k
      BY <1>1, <2>1, <2>3
    <3> QED BY <2>1, <3>1
  <2> QED BY <2>1, <2>2, <2>3 DEF DueAt
<1> QED BY <1>2, <1>3 DEF r

(* What the first transfer says of what is due.                             *)
LEMMA DueHead ==
  ASSUME NEW s \in Seq(Transfers), s # <<>>, Paired(s)
  PROVE  LET x == Head(s) IN
         /\ IsAsking(x) => ~Due(s)
         /\ IsRead(x) /\ ~IsAsking(x) => Due(s)
         /\ ~IsRead(x) /\ ~IsAsking(x) => (Due(s) <=> DueAt(s, 2))
         /\ IsAsking(x) /\ ~IsRead(x) => DueAt(s, 2)
         /\ IsRead(x) => ~DueAt(s, 2)
         /\ x.checked => IsRead(x)
         /\ Due(Tail(s)) <=> DueAt(s, 2)
<1> DEFINE x == Head(s)
<1>1. x = s[1] /\ 1 \in DOMAIN s /\ (\A k \in DOMAIN s : k \in Nat \ {0})
  BY TailAt
<1>2. 1 + 1 = 2
  OBVIOUS
<1> HIDE DEF x
<1>3. IsAsking(x) => ~Due(s)
  BY <1>1 DEF Due, DueAt
<1>4. IsRead(x) /\ ~IsAsking(x) => Due(s)
  BY <1>1 DEF Due, DueAt
<1>5. ASSUME ~IsRead(x), ~IsAsking(x)
      PROVE  Due(s) <=> DueAt(s, 2)
  <2>1. Due(s) => DueAt(s, 2)
    <3> SUFFICES ASSUME Due(s) PROVE DueAt(s, 2)
      OBVIOUS
    <3>1. PICK k \in DOMAIN s :
            /\ k >= 1 /\ IsRead(s[k]) /\ ~IsAsking(s[k])
            /\ \A j \in DOMAIN s : 1 <= j /\ j < k => ~IsAsking(s[j]) /\ ~IsRead(s[j])
      BY DEF Due, DueAt
    <3>2. k >= 2
      BY <1>1, <1>5, <3>1
    <3> QED BY <1>1, <3>1, <3>2 DEF DueAt
  <2>2. DueAt(s, 2) => Due(s)
    <3> SUFFICES ASSUME DueAt(s, 2) PROVE Due(s)
      OBVIOUS
    <3>1. PICK k \in DOMAIN s :
            /\ k >= 2 /\ IsRead(s[k]) /\ ~IsAsking(s[k])
            /\ \A j \in DOMAIN s : 2 <= j /\ j < k => ~IsAsking(s[j]) /\ ~IsRead(s[j])
      BY DEF DueAt
    <3>2. \A j \in DOMAIN s : 1 <= j /\ j < k => ~IsAsking(s[j]) /\ ~IsRead(s[j])
      BY <1>1, <1>5, <3>1
    <3> QED BY <1>1, <3>1, <3>2 DEF Due, DueAt
  <2> QED BY <2>1, <2>2
<1>6. /\ IsAsking(x) /\ ~IsRead(x) => DueAt(s, 2)
      /\ IsRead(x) => ~DueAt(s, 2)
      /\ x.checked => IsRead(x)
  BY <1>1, <1>2 DEF Paired
<1>7. Due(Tail(s)) <=> DueAt(s, 2)
  BY <1>2, DueTail DEF Due
<1> QED BY <1>3, <1>4, <1>5, <1>6, <1>7 DEF x

LEMMA PairedTail ==
  ASSUME NEW s \in Seq(Transfers), s # <<>>, Paired(s)
  PROVE  Paired(Tail(s))
<1> SUFFICES ASSUME NEW i \in DOMAIN Tail(s)
             PROVE  /\ IsAsking(Tail(s)[i]) /\ ~IsRead(Tail(s)[i]) => DueAt(Tail(s), i + 1)
                    /\ IsRead(Tail(s)[i]) => ~DueAt(Tail(s), i + 1)
                    /\ Tail(s)[i].checked => IsRead(Tail(s)[i])
  BY DEF Paired
<1>1. i \in Nat \ {0} /\ i + 1 \in DOMAIN s /\ Tail(s)[i] = s[i + 1]
  BY TailAt
<1>2. DueAt(Tail(s), i + 1) <=> DueAt(s, (i + 1) + 1)
  <2>1. i + 1 \in Nat \ {0}
    BY <1>1
  <2> QED BY <2>1, DueTail
<1>3. /\ IsAsking(s[i + 1]) /\ ~IsRead(s[i + 1]) => DueAt(s, (i + 1) + 1)
      /\ IsRead(s[i + 1]) => ~DueAt(s, (i + 1) + 1)
      /\ s[i + 1].checked => IsRead(s[i + 1])
  BY <1>1 DEF Paired
<1> QED BY <1>1, <1>2, <1>3

LEMMA AnyTail ==
  ASSUME NEW s \in Seq(Transfers), s # <<>>
  PROVE  /\ Commands(s) <=> IsCommand(Head(s)) \/ Commands(Tail(s))
         /\ Looks(s) <=> IsLook(Head(s)) \/ Looks(Tail(s))
<1>1. /\ Head(s) = s[1] /\ 1 \in DOMAIN s
      /\ \A i \in DOMAIN Tail(s) : i + 1 \in DOMAIN s /\ Tail(s)[i] = s[i + 1]
      /\ \A i \in DOMAIN s : i # 1 => i - 1 \in DOMAIN Tail(s) /\ Tail(s)[i - 1] = s[i]
  BY TailAt
<1>2. Commands(s) <=> IsCommand(Head(s)) \/ Commands(Tail(s))
  BY <1>1, Zenon DEF Commands
<1>3. Looks(s) <=> IsLook(Head(s)) \/ Looks(Tail(s))
  BY <1>1, Zenon DEF Looks
<1> QED BY <1>2, <1>3

LEMMA EmptySection == Paired(<<>>) /\ ~Due(<<>>) /\ ~Commands(<<>>) /\ ~Looks(<<>>)
BY DEF Paired, Due, DueAt, Commands, Looks

(* What t has still to do, the transfer it is at included.                  *)
Ahead(t)      == Commands(todo[t]) \/ \E i \in DOMAIN more[t] : Commands(more[t][i])
LooksAhead(t) == Looks(todo[t]) \/ \E i \in DOMAIN more[t] : Looks(more[t][i])

(* The calls whose answers t may read: its own, and once its admin commands *)
(* are out, also those that may have come into the slot since.              *)
Own(t)  == {number[t]} \cup since[t]
Good(t) == IF Ahead(t) THEN {number[t]} ELSE Own(t)

(* What is left of t's call is what is left of an orderly one.              *)
OrderlyRest(t) ==
  /\ Paired(todo[t]) /\ (pc[t] = "lock" => ~Due(todo[t]))
  /\ \A i \in DOMAIN more[t] : Paired(more[t][i]) /\ ~Due(more[t][i])
  /\ Looks(todo[t]) => ~Ahead(t)
  /\ \A i \in DOMAIN more[t] :
       Looks(more[t][i]) => \A j \in DOMAIN more[t] : i <= j => ~Commands(more[t][j])

ThreadOK(t) ==
  pc[t] # "idle" =>
    /\ number[t] \in Nat \ {0} /\ number[t] <= calls
    /\ OrderlyRest(t)
    /\ LooksAhead(t) => Ahead(t) \/ slot \in Own(t)
    /\ answers[t] \subseteq Good(t)

(* The device has an answer ready when one is due, and no other.            *)
Ready(t, due) == IF due THEN \E a \in Good(t) : owed = <<a>> ELSE owed = <<>>

Asker(t, x) == IF IsLook(x) THEN Slot ELSE IF IsAsking(x) THEN number[t] ELSE 0

BeforeSubmit(t) == pc[t] = "next" /\ Ready(t, Due(todo[t]))

OnTheWire(t) ==
  /\ pc[t] \in {"wait", "late"} /\ flying[Transfer(t).urb] # 0
  /\ Ready(t, Due(todo[t]) \/ IsRead(Transfer(t)))
  /\ ~IsRead(Transfer(t)) => asker[Transfer(t).urb] = Asker(t, Transfer(t))

Finished(t) ==
  /\ pc[t] \in {"wait", "late", "done"} /\ flying[Transfer(t).urb] = 0
  /\ Ready(t, DueAt(todo[t], 2))
  /\ IsRead(Transfer(t)) => got /\ buffer["frx"] \in Good(t)
  /\ IsCommand(Transfer(t)) => slot = number[t]

HolderOK(t) == BeforeSubmit(t) \/ OnTheWire(t) \/ Finished(t)

OwnNumbers ==
  \A t, s \in Threads :
    pc[t] # "idle" /\ pc[s] # "idle" /\ number[t] = number[s] => t = s

OwedInv == IF cfglock = NoThread THEN owed = <<>> ELSE HolderOK(cfglock)

(* As long as no transfer has failed.                                       *)
AnswerInv ==
  /\ left => spoilt
  /\ \A t \in Threads : pc[t] = "idle" => answers[t] = {}
  /\ spoilt \/ ((\A t \in Threads : ThreadOK(t)) /\ OwnNumbers /\ OwedInv)

FullInv == CtlInv /\ AnswerInv

LEMMA FullType ==
  ASSUME FullInv
  PROVE  /\ TypeOK /\ HasTransfer /\ CtlInv /\ (spoilt \/ ~left)
         /\ \A t \in Threads : todo[t] \in Seq(Transfers) /\ more[t] \in Seq(Seq(Transfers))
BY DEF FullInv, CtlInv, TypeInv, AnswerInv, TypeOK

(* Nobody but t moves: the rest of the invariant is carried over.           *)
LEMMA OthersOK ==
  ASSUME FullInv, ~spoilt, NEW t \in Threads,
         \A s \in Threads \ {t} :
            /\ pc'[s] = pc[s] /\ todo'[s] = todo[s] /\ more'[s] = more[s]
            /\ number'[s] = number[s] /\ answers'[s] = answers[s],
         calls' \in Nat, calls <= calls',
         UNCHANGED slot, \A s \in Threads \ {t} : since'[s] = since[s]
  PROVE  \A s \in Threads \ {t} : ThreadOK(s)'
<1> SUFFICES ASSUME NEW s \in Threads \ {t} PROVE ThreadOK(s)'
  OBVIOUS
<1>1. ThreadOK(s) /\ (number[s] <= calls /\ number[s] \in Nat => number[s] <= calls')
  BY DEF FullInv, AnswerInv, CtlInv, TypeInv, TypeOK
<1>2. /\ (Ahead(s)' <=> Ahead(s)) /\ (LooksAhead(s)' <=> LooksAhead(s)) /\ Own(s)' = Own(s)
      /\ (OrderlyRest(s)' <=> OrderlyRest(s))
  BY DEF Ahead, LooksAhead, Own, OrderlyRest
<1>3. Good(s)' = Good(s)
  BY <1>2 DEF Good
<1> QED BY <1>1, <1>2, <1>3 DEF ThreadOK

(* The calls of t are those of the thread that takes a step in cfglock.     *)
LEMMA NumbersKept ==
  ASSUME FullInv, ~spoilt, UNCHANGED number,
         \A s \in Threads : pc'[s] # "idle" => pc[s] # "idle"
  PROVE  OwnNumbers'
BY DEF FullInv, AnswerInv, OwnNumbers

LEMMA HolderAnswers ==
  ASSUME FullInv, ~spoilt, NEW t \in Threads, pc[t] \in InLock
  PROVE  /\ cfglock = t /\ t # NoThread /\ Held(t) /\ HolderOK(t) /\ ThreadOK(t)
         /\ OrderlyRest(t) /\ pc[t] # "idle"
<1>1. cfglock = t /\ t # NoThread /\ Held(t)
  BY Holder, FullType
<1>2. HolderOK(t)
  BY <1>1 DEF FullInv, AnswerInv, OwedInv
<1>3. ThreadOK(t) /\ pc[t] # "idle"
  BY Locations DEF FullInv, AnswerInv, InLock
<1> QED BY <1>1, <1>2, <1>3 DEF ThreadOK

(* A call begins as an orderly one.                                         *)
LEMMA OrderlyStart ==
  ASSUME NEW c \in Seq(Seq(Transfers)), c # <<>>, Orderly(c)
  PROVE  /\ Paired(Head(c)) /\ ~Due(Head(c))
         /\ \A i \in DOMAIN Tail(c) : Paired(Tail(c)[i]) /\ ~Due(Tail(c)[i])
         /\ ~Looks(Head(c))
         /\ \A i \in DOMAIN Tail(c) : Looks(Tail(c)[i]) =>
              /\ Commands(Head(c)) \/ \E j \in DOMAIN Tail(c) : Commands(Tail(c)[j])
              /\ \A j \in DOMAIN Tail(c) : i <= j => ~Commands(Tail(c)[j])
<1>1. /\ Head(c) = c[1] /\ 1 \in DOMAIN c
      /\ \A i \in DOMAIN Tail(c) : i \in Nat \ {0} /\ i + 1 \in DOMAIN c /\ Tail(c)[i] = c[i + 1]
      /\ \A i \in DOMAIN c : /\ i \in Nat \ {0}
                             /\ i # 1 => i - 1 \in DOMAIN Tail(c) /\ Tail(c)[i - 1] = c[i]
  BY TailAt
<1>2. Paired(Head(c)) /\ ~Due(Head(c)) /\ ~Looks(Head(c))
  BY <1>1 DEF Orderly
<1>3. ASSUME NEW i \in DOMAIN Tail(c)
      PROVE  Paired(Tail(c)[i]) /\ ~Due(Tail(c)[i])
  BY <1>1 DEF Orderly
<1>4. ASSUME NEW i \in DOMAIN Tail(c), Looks(Tail(c)[i])
      PROVE  /\ Commands(Head(c)) \/ \E j \in DOMAIN Tail(c) : Commands(Tail(c)[j])
             /\ \A j \in DOMAIN Tail(c) : i <= j => ~Commands(Tail(c)[j])
  <2>1. /\ \E j \in DOMAIN c : j < i + 1 /\ Commands(c[j])
        /\ \A j \in DOMAIN c : i + 1 <= j => ~Commands(c[j])
    BY <1>1, <1>4 DEF Orderly
  <2>2. Commands(Head(c)) \/ \E j \in DOMAIN Tail(c) : Commands(Tail(c)[j])
    BY <1>1, <2>1
  <2>3. ASSUME NEW j \in DOMAIN Tail(c), i <= j
        PROVE  ~Commands(Tail(c)[j])
    <3>1. j + 1 \in DOMAIN c /\ Tail(c)[j] = c[j + 1] /\ i + 1 <= j + 1
      BY <1>1, <2>3
    <3> QED BY <2>1, <3>1
  <2> QED BY <2>2, <2>3
<1> QED BY <1>2, <1>3, <1>4

LEMMA BeginAnswers ==
  ASSUME FullInv, CallsAreOrderly, NEW t \in Threads, Begin(t)
  PROVE  AnswerInv'
<1>1. PICK c \in Casts[cast] : /\ todo' = [todo EXCEPT ![t] = Head(c)]
                               /\ more' = [more EXCEPT ![t] = Tail(c)]
  BY DEF Begin
<1>2. c \in Seq(Seq(Transfers)) /\ c # <<>> /\ Orderly(c)
  <2>1. cast \in DOMAIN Casts
    BY FullType DEF TypeOK
  <2>2. Casts[cast] \in SUBSET (Seq(Seq(Transfers)) \ {<<>>})
    BY <2>1, CtlAssumption DEF CtlAssumption
  <2> QED BY <2>1, <2>2 DEF CallsAreOrderly
<1>3. /\ pc[t] = "idle" /\ pc'[t] = "lock" /\ todo'[t] = Head(c) /\ more'[t] = Tail(c)
      /\ calls \in Nat /\ calls' = calls + 1 /\ number'[t] = calls + 1
      /\ answers' = answers /\ since' = since /\ slot' = slot /\ spoilt' = spoilt /\ left' = left
      /\ owed' = owed /\ cfglock' = cfglock
      /\ \A s \in Threads \ {t} :
            /\ pc'[s] = pc[s] /\ todo'[s] = todo[s] /\ more'[s] = more[s]
            /\ number'[s] = number[s] /\ answers'[s] = answers[s]
  BY <1>1, FullType DEF TypeOK, Begin, deviceVars
<1>4. answers[t] = {}
  BY <1>3 DEF FullInv, AnswerInv
<1>5. (left' => spoilt') /\ \A s \in Threads : pc'[s] = "idle" => answers'[s] = {}
  BY <1>3 DEF FullInv, AnswerInv
<1>6. CASE spoilt
  BY <1>3, <1>5, <1>6 DEF AnswerInv
<1>7. CASE ~spoilt
  <2>1. \A s \in Threads \ {t} : ThreadOK(s)'
    <3>1. calls' \in Nat /\ calls <= calls'
      BY <1>3
    <3> QED BY <1>3, <1>7, <3>1, OthersOK
  <2>2. ThreadOK(t)'
    <3>1. OrderlyRest(t)' /\ (LooksAhead(t)' => Ahead(t)')
      BY <1>2, <1>3, OrderlyStart DEF OrderlyRest, LooksAhead, Ahead
    <3>2. number'[t] \in Nat \ {0} /\ number'[t] <= calls'
      BY <1>3
    <3> QED BY <1>3, <1>4, <3>1, <3>2 DEF ThreadOK
  <2>3. OwnNumbers'
    <3>1. \A s \in Threads \ {t} : pc[s] # "idle" => number[s] # calls + 1
      BY <1>3, <1>7 DEF FullInv, AnswerInv, ThreadOK
    <3> QED BY <1>3, <1>7, <3>1 DEF FullInv, AnswerInv, OwnNumbers
  <2>4. OwedInv'
    <3>1. CASE cfglock = NoThread
      BY <1>3, <1>7, <3>1 DEF FullInv, AnswerInv, OwedInv
    <3>2. CASE cfglock # NoThread
      <4>1. PICK h \in Threads : cfglock = h
        BY <3>2, FullType DEF TypeOK
      <4>2. pc[h] \in InLock /\ HolderOK(h)
        BY <1>7, <3>2, <4>1 DEF FullInv, CtlInv, LockInv, AnswerInv, OwedInv
      <4>3. h # t
        BY <1>3, <4>2, Locations
      <4>4. /\ Good(h)' = Good(h) /\ Transfer(h)' = Transfer(h)
            /\ pc'[h] = pc[h] /\ todo'[h] = todo[h] /\ number'[h] = number[h]
        BY <1>3, <4>3 DEF Good, Own, Ahead, Transfer
      <4>5. UNCHANGED <<flying, asker, got, buffer>>
        BY DEF Begin
      <4>6. HolderOK(h)'
        BY <1>3, <4>2, <4>4, <4>5
           DEF HolderOK, BeforeSubmit, OnTheWire, Finished, Ready, Asker
      <4> QED BY <1>3, <3>2, <4>1, <4>6 DEF OwedInv
    <3> QED BY <3>1, <3>2
  <2> QED BY <1>5, <2>1, <2>2, <2>3, <2>4 DEF AnswerInv
<1> QED BY <1>6, <1>7

LEMMA LockAnswers ==
  ASSUME FullInv, NEW t \in Threads, Lock(t)
  PROVE  AnswerInv'
<1>1. /\ pc[t] = "lock" /\ pc'[t] = "next" /\ cfglock = NoThread /\ cfglock' = t /\ t # NoThread
      /\ UNCHANGED <<todo, more, number, answers, calls, owed, slot, since, left, spoilt>>
      /\ \A s \in Threads \ {t} : pc'[s] = pc[s]
  BY FullType, CtlAssumption DEF CtlAssumption, TypeOK, Lock, deviceVars
<1>2. (left' => spoilt') /\ \A s \in Threads : pc'[s] = "idle" => answers'[s] = {}
  BY <1>1 DEF FullInv, AnswerInv
<1>3. CASE spoilt
  BY <1>1, <1>2, <1>3 DEF AnswerInv
<1>4. CASE ~spoilt
  <2>1. \A s \in Threads \ {t} : ThreadOK(s)'
    <3>1. calls' \in Nat /\ calls <= calls'
      BY <1>1, FullType DEF TypeOK
    <3> QED BY <1>1, <1>4, <3>1, OthersOK
  <2>2. ThreadOK(t) /\ ~Due(todo[t]) /\ owed = <<>>
    BY <1>1, <1>4 DEF FullInv, AnswerInv, ThreadOK, OrderlyRest, OwedInv
  <2>3. ThreadOK(t)'
    <3>1. /\ Ahead(t)' = Ahead(t) /\ LooksAhead(t)' = LooksAhead(t) /\ Own(t)' = Own(t)
          /\ Good(t)' = Good(t)
      BY <1>1 DEF Ahead, LooksAhead, Own, Good
    <3> QED BY <1>1, <2>2, <3>1 DEF ThreadOK, OrderlyRest
  <2>4. OwnNumbers'
    BY <1>1, <1>4, NumbersKept
  <2>5. OwedInv'
    BY <1>1, <2>2 DEF OwedInv, HolderOK, BeforeSubmit, Ready
  <2> QED BY <1>2, <2>1, <2>3, <2>4, <2>5 DEF AnswerInv
<1> QED BY <1>3, <1>4

(* A step of the holder that keeps what is said of the holder.              *)
LEMMA HolderStep ==
  ASSUME FullInv, ~spoilt, NEW t \in Threads, pc[t] \in InLock, pc'[t] \in InLock,
         \A s \in Threads \ {t} :
            /\ pc'[s] = pc[s] /\ todo'[s] = todo[s] /\ more'[s] = more[s]
            /\ answers'[s] = answers[s],
         UNCHANGED <<number, calls, cfglock, slot, since, left, spoilt>>,
         ThreadOK(t)', HolderOK(t)'
  PROVE  AnswerInv'
<1>1. cfglock' = t /\ t # NoThread /\ pc[t] # "idle" /\ pc'[t] # "idle"
  BY HolderAnswers, Locations
<1>2. (left' => spoilt') /\ \A s \in Threads : pc'[s] = "idle" => answers'[s] = {}
  BY <1>1 DEF FullInv, AnswerInv
<1>3. \A s \in Threads \ {t} : ThreadOK(s)'
  <2>1. calls' \in Nat /\ calls <= calls'
    BY FullType DEF TypeOK
  <2> QED BY <2>1, OthersOK
<1>4. OwnNumbers'
  BY <1>1, NumbersKept
<1>5. OwedInv'
  BY <1>1 DEF OwedInv
<1> QED BY <1>2, <1>3, <1>4, <1>5 DEF AnswerInv

(* What is said of t's call stays true while nothing of it is done.         *)
LEMMA SameCall ==
  ASSUME NEW t \in Threads, ThreadOK(t), pc[t] # "idle", pc'[t] # "lock",
         todo'[t] = todo[t], more'[t] = more[t], answers'[t] = answers[t],
         UNCHANGED <<number, calls, slot, since>>
  PROVE  ThreadOK(t)' /\ Good(t)' = Good(t)
<1>1. /\ Ahead(t)' = Ahead(t) /\ LooksAhead(t)' = LooksAhead(t) /\ Own(t)' = Own(t)
      /\ Good(t)' = Good(t)
  BY DEF Ahead, LooksAhead, Own, Good
<1> QED BY <1>1 DEF ThreadOK, OrderlyRest

LEMMA SubmitAnswers ==
  ASSUME FullInv, NEW t \in Threads, Submit(t)
  PROVE  AnswerInv'
<1>0. PICK x \in Transfers : x = Transfer(t)
  BY AtTransfer, FullType DEF Submit
<1>5. PICK n \in Nat : n = transfers + 1
  BY FullType DEF TypeOK
<1>1. /\ x \in Transfers /\ x.urb \in Urbs /\ todo[t] # <<>> /\ x = Head(todo[t])
      /\ x.asks \in {"nothing", "answer", "slot"} /\ (x.asks = "slot" => x.urb = "tx")
  BY <1>0 DEF Submit, Transfer, Transfers
<1>2. pc[t] = "next" /\ pc[t] \in InLock /\ UNCHANGED <<threadVars, slot, since, left>>
  BY Locations DEF Submit
<1>3. CASE spoilt'
  <2>1. pc'[t] # "idle" /\ \A s \in Threads \ {t} : pc'[s] = pc[s]
    BY <1>2, FullType DEF TypeOK, Submit
  <2>2. \A s \in Threads : pc'[s] = "idle" => answers'[s] = {}
    BY <1>2, <2>1 DEF FullInv, AnswerInv
  <2> QED BY <1>3, <2>2 DEF AnswerInv
<1>4. CASE ~spoilt'
  <2>1. /\ ~spoilt /\ UNCHANGED spoilt /\ UNCHANGED <<todo, more>>
        /\ pc' = [pc EXCEPT ![t] = "wait"]
        /\ flying' = [flying EXCEPT ![x.urb] = n]
        /\ asker' = [asker EXCEPT ![x.urb] = IF x.asks = "slot" THEN Slot
                                  ELSE IF x.asks = "answer" /\ x.urb # "frx" THEN number[t]
                                  ELSE 0]
        /\ owed' = IF x.asks = "answer" /\ x.urb = "frx" THEN Append(owed, number[t]) ELSE owed
    BY <1>0, <1>5, <1>4 DEF Submit
  <2>2. /\ ThreadOK(t) /\ pc[t] # "idle" /\ Ready(t, Due(todo[t])) /\ Paired(todo[t])
    BY <1>2, <2>1, HolderAnswers, Locations
       DEF HolderOK, BeforeSubmit, OnTheWire, Finished, OrderlyRest
  <2>3. /\ pc'[t] = "wait" /\ pc'[t] \in InLock /\ Transfer(t)' = x /\ flying'[x.urb] # 0
        /\ \A s \in Threads \ {t} : pc'[s] = pc[s]
    <3>1. n \in Nat /\ n # 0
      BY <1>5, FullType DEF TypeOK
    <3>2. flying \in [Urbs -> Nat] /\ pc \in [Threads -> PC]
      BY FullType DEF TypeOK
    <3> QED BY <1>0, <1>1, <2>1, <3>1, <3>2, Locations DEF Transfer
  <2>4. ThreadOK(t)' /\ Good(t)' = Good(t)
    <3>1. /\ todo'[t] = todo[t] /\ more'[t] = more[t] /\ answers'[t] = answers[t]
          /\ pc'[t] # "lock" /\ UNCHANGED <<number, calls, slot, since>>
      BY <1>2, <2>1, <2>3
    <3> QED BY <2>2, <3>1, SameCall
  <2>5. Ready(t, Due(todo[t]) \/ IsRead(x))'
    <3>1. CASE ~IsRead(x)
      <4>1. owed' = owed
        BY <2>1, <3>1 DEF IsRead
      <4> QED BY <2>1, <2>2, <2>4, <3>1, <4>1 DEF Ready
    <3>2. CASE IsRead(x) /\ ~IsAsking(x)
      <4>1. owed' = owed /\ Due(todo[t])
        BY <1>1, <2>1, <2>2, <3>2, DueHead, FullType DEF IsRead, IsAsking
      <4> QED BY <2>1, <2>2, <2>4, <4>1 DEF Ready
    <3>3. CASE IsRead(x) /\ IsAsking(x)
      <4>1. ~Due(todo[t]) /\ x.asks = "answer"
        BY <1>1, <2>2, <3>3, DueHead, FullType DEF IsRead, IsAsking
      <4>2. owed = <<>> /\ owed' = Append(owed, number[t])
        BY <2>1, <2>2, <3>3, <4>1 DEF Ready, IsRead
      <4>3. owed' = <<number[t]>> /\ number[t] \in Good(t)
        BY <4>2 DEF Good, Own
      <4> QED BY <2>4, <3>3, <4>3 DEF Ready
    <3> QED BY <3>1, <3>2, <3>3
  <2>6. ~IsRead(x) => asker'[x.urb] = Asker(t, x)
    <3>1. asker \in [Urbs -> Nat \cup {Slot}]
      BY FullType DEF TypeOK
    <3> QED BY <1>1, <2>1, <3>1 DEF IsRead, IsAsking, IsLook, Asker
  <2>7. HolderOK(t)'
    <3>1. Asker(t, x)' = Asker(t, x)
      BY <1>2 DEF Asker
    <3> QED BY <2>3, <2>5, <2>6, <3>1 DEF HolderOK, OnTheWire, Asker
  <2>8. \A s \in Threads \ {t} :
            /\ pc'[s] = pc[s] /\ todo'[s] = todo[s] /\ more'[s] = more[s]
            /\ answers'[s] = answers[s]
    BY <1>2, <2>1, <2>3
  <2>9. UNCHANGED <<number, calls, cfglock, slot, since, left, spoilt>>
    BY <1>2, <2>1
  <2> QED BY <1>2, <2>1, <2>3, <2>4, <2>7, <2>8, <2>9, HolderStep
<1> QED BY <1>3, <1>4

LEMMA WaitAnswers ==
  ASSUME FullInv, NEW t \in Threads, WaitDone(t) \/ WaitLate(t)
  PROVE  AnswerInv'
<1>0. PICK x \in Transfers : x = Transfer(t)
  BY FullType, HolderType DEF CtlInv, WaitDone, WaitLate
<1>1. /\ pc[t] = "wait" /\ pc'[t] \in {"late", "done"} /\ pc[t] \in InLock /\ pc'[t] \in InLock
      /\ \A s \in Threads \ {t} : pc'[s] = pc[s]
      /\ UNCHANGED <<callVars, threadVars, urbVars, deviceVars, left, spoilt>>
      /\ x.comp \in Comps /\ x.urb \in Urbs
  BY <1>0, FullType, TransferType, Locations DEF TypeOK, WaitDone, WaitLate
<1>2. \A s \in Threads : pc'[s] = "idle" => answers'[s] = {}
  BY <1>1 DEF FullInv, AnswerInv
<1>3. CASE spoilt
  BY <1>1, <1>2, <1>3 DEF AnswerInv
<1>4. CASE ~spoilt
  <2>1. ThreadOK(t) /\ pc[t] # "idle" /\ HolderOK(t) /\ Held(t)
    BY <1>1, <1>4, HolderAnswers
  <2>2. ThreadOK(t)' /\ Good(t)' = Good(t)
    <3>1. /\ todo'[t] = todo[t] /\ more'[t] = more[t] /\ answers'[t] = answers[t]
          /\ pc'[t] # "lock" /\ UNCHANGED <<number, calls, slot, since>>
      BY <1>1 DEF deviceVars
    <3> QED BY <2>1, <3>1, SameCall
  <2>3. WaitDone(t) => flying[x.urb] = 0
    <3>1. ASSUME UnderWay(t)
          PROVE  ~WaitDone(t)
      BY <1>0, <1>1, <3>1 DEF UnderWay, WaitDone
    <3>2. ASSUME Over(t)
          PROVE  flying[x.urb] = 0
      BY <1>0, <1>1, <3>2 DEF Over
    <3> QED BY <1>1, <2>1, <3>1, <3>2 DEF Held
  <2>4. pc'[t] = "done" => flying[x.urb] = 0
    BY <1>1, <2>3, FullType DEF TypeOK, WaitLate
  <2>5. Transfer(t)' = x
    BY <1>0, <1>1 DEF Transfer
  <2>6. HolderOK(t)'
    <3>2. Asker(t, x)' = Asker(t, x)
      BY <1>1 DEF Asker
    <3>3. CASE OnTheWire(t)
      <4>1. pc'[t] = "late" /\ flying'[x.urb] # 0
        BY <1>0, <1>1, <2>4, <3>3 DEF OnTheWire
      <4> QED BY <1>0, <1>1, <2>2, <2>5, <3>2, <3>3, <4>1
              DEF HolderOK, OnTheWire, Ready, deviceVars, Asker
    <3>4. CASE Finished(t)
      BY <1>0, <1>1, <2>2, <2>5, <3>4 DEF HolderOK, Finished, Ready, deviceVars
    <3> QED BY <1>1, <2>1, <3>3, <3>4 DEF HolderOK, BeforeSubmit
  <2>7. \A s \in Threads \ {t} :
            /\ pc'[s] = pc[s] /\ todo'[s] = todo[s] /\ more'[s] = more[s]
            /\ answers'[s] = answers[s]
    BY <1>1
  <2>8. UNCHANGED <<number, calls, cfglock, slot, since, left, spoilt>>
    BY <1>1 DEF deviceVars
  <2> QED BY <1>1, <1>4, <2>2, <2>6, <2>7, <2>8, HolderStep
<1> QED BY <1>3, <1>4

LEMMA GiveUpAnswers ==
  ASSUME FullInv, NEW t \in Threads, GiveUp(t)
  PROVE  AnswerInv'
<1>1. /\ spoilt' = TRUE /\ pc'[t] # "idle" /\ UNCHANGED answers
      /\ \A s \in Threads \ {t} : pc'[s] = pc[s]
  BY FullType DEF TypeOK, GiveUp
<1>2. \A s \in Threads : pc'[s] = "idle" => answers'[s] = {}
  BY <1>1 DEF FullInv, AnswerInv
<1> QED BY <1>1, <1>2 DEF AnswerInv

(* What is left of t's call when its transfer is done.                      *)
LEMMA OneDone ==
  ASSUME NEW t \in Threads, ThreadOK(t), pc[t] # "idle", pc'[t] = "next",
         todo[t] \in Seq(Transfers), todo[t] # <<>>,
         todo'[t] = Tail(todo[t]), more'[t] = more[t],
         UNCHANGED <<number, calls, slot, since>>,
         IsCommand(Head(todo[t])) => slot = number[t],
         answers'[t] \subseteq Good(t)
  PROVE  ThreadOK(t)' /\ Good(t) \subseteq Good(t)'
<1>1. /\ Commands(todo[t]) <=> IsCommand(Head(todo[t])) \/ Commands(Tail(todo[t]))
      /\ Looks(todo[t]) <=> IsLook(Head(todo[t])) \/ Looks(Tail(todo[t]))
      /\ Paired(todo[t]) => Paired(Tail(todo[t]))
  BY AnyTail, PairedTail
<1>2. /\ Ahead(t)' => Ahead(t)
      /\ LooksAhead(t)' => LooksAhead(t)
      /\ Ahead(t) => Ahead(t)' \/ IsCommand(Head(todo[t]))
      /\ Own(t)' = Own(t)
  BY <1>1 DEF Ahead, LooksAhead, Own
<1>3. OrderlyRest(t)'
  BY <1>1, <1>2 DEF ThreadOK, OrderlyRest
<1>4. Good(t) \subseteq Good(t)'
  BY <1>2 DEF Good, Own
<1>5. LooksAhead(t)' => Ahead(t)' \/ slot' \in Own(t)'
  <2>1. number[t] \in Own(t)
    BY DEF Own
  <2> QED BY <1>2, <2>1 DEF ThreadOK
<1> QED BY <1>3, <1>4, <1>5 DEF ThreadOK

LEMMA AcceptAnswers ==
  ASSUME FullInv, NEW t \in Threads, Accept(t)
  PROVE  AnswerInv'
<1>0. PICK x \in Transfers : x = Transfer(t)
  BY FullType, HolderType DEF CtlInv, Accept
<1>1. /\ pc[t] = "done" /\ pc'[t] = "next" /\ pc[t] \in InLock /\ pc'[t] \in InLock
      /\ todo[t] # <<>> /\ x = Head(todo[t])
      /\ \A s \in Threads \ {t} : pc'[s] = pc[s] /\ answers'[s] = answers[s]
      /\ UNCHANGED <<number, calls, cfglock, owed, slot, since, left, spoilt>>
  BY <1>0, FullType, Locations DEF TypeOK, HasTransfer, Accept, Transfer, deviceVars
<1>2. \A s \in Threads : pc'[s] = "idle" => answers'[s] = {}
  BY <1>1 DEF FullInv, AnswerInv
<1>3. CASE spoilt
  BY <1>1, <1>2, <1>3 DEF AnswerInv
<1>4. CASE ~spoilt
  <2>1. ThreadOK(t) /\ pc[t] # "idle" /\ Finished(t) /\ Paired(todo[t])
    BY <1>1, <1>4, HolderAnswers DEF HolderOK, BeforeSubmit, OnTheWire, OrderlyRest
  <2>2. x.checked => got
    BY <1>0, <1>1, <2>1, DueHead, FullType DEF Finished
  <2>3. /\ todo' = [todo EXCEPT ![t] = Tail(@)] /\ UNCHANGED more
        /\ answers' = IF x.urb = "frx" THEN [answers EXCEPT ![t] = @ \cup {buffer["frx"]}]
                      ELSE answers
    BY <1>0, <2>2 DEF Accept
  <2>4. answers'[t] \subseteq Good(t)
    <3>1. answers[t] \subseteq Good(t) /\ (x.urb = "frx" => buffer["frx"] \in Good(t))
      BY <1>0, <2>1 DEF ThreadOK, Finished, IsRead
    <3>2. answers \in [Threads -> SUBSET Nat]
      BY FullType DEF TypeOK
    <3> QED BY <2>3, <3>1, <3>2
  <2>5. /\ todo'[t] = Tail(todo[t]) /\ more'[t] = more[t]
        /\ \A s \in Threads \ {t} : todo'[s] = todo[s]
    BY <2>3, FullType DEF TypeOK
  <2>6. IsCommand(Head(todo[t])) => slot = number[t]
    BY <1>0, <1>1, <2>1 DEF Finished
  <2>7. ThreadOK(t)' /\ Good(t) \subseteq Good(t)'
    BY <1>1, <2>1, <2>4, <2>5, <2>6, FullType, OneDone
  <2>8. Ready(t, DueAt(todo[t], 2)) /\ (Due(todo'[t]) <=> DueAt(todo[t], 2))
    BY <1>1, <2>1, <2>5, DueHead, FullType DEF Finished
  <2>9. HolderOK(t)'
    BY <1>1, <2>7, <2>8 DEF HolderOK, BeforeSubmit, Ready
  <2>10. \A s \in Threads \ {t} :
            /\ pc'[s] = pc[s] /\ todo'[s] = todo[s] /\ more'[s] = more[s]
            /\ answers'[s] = answers[s]
    BY <1>1, <2>3, <2>5
  <2> QED BY <1>1, <1>4, <2>7, <2>9, <2>10, HolderStep
<1> QED BY <1>3, <1>4

LEMMA UnlockAnswers ==
  ASSUME FullInv, NEW t \in Threads, Unlock(t)
  PROVE  AnswerInv'
<1>1. /\ pc[t] = "next" /\ pc[t] \in InLock /\ todo[t] = <<>> /\ cfglock' = NoThread
      /\ UNCHANGED <<cast, calls, owed, slot, left, spoilt>>
      /\ \A s \in Threads \ {t} : /\ pc'[s] = pc[s] /\ todo'[s] = todo[s] /\ more'[s] = more[s]
                                  /\ number'[s] = number[s] /\ answers'[s] = answers[s]
                                  /\ since'[s] = since[s]
  <2>1. /\ pc[t] = "next" /\ todo[t] = <<>> /\ cfglock' = NoThread
        /\ UNCHANGED <<cast, calls, owed, slot, left, spoilt>>
    BY DEF Unlock, Goto
  <2>2. pc[t] \in InLock
    BY <2>1 DEF InLock
  <2>3. \A s \in Threads \ {t} :
           /\ pc'[s] = pc[s] /\ todo'[s] = todo[s] /\ more'[s] = more[s]
           /\ number'[s] = number[s] /\ answers'[s] = answers[s] /\ since'[s] = since[s]
    BY FullType DEF TypeOK, Unlock, Goto
  <2> QED BY <2>1, <2>2, <2>3
<1>2. /\ pc'[t] = "idle" => answers'[t] = {}
      /\ pc'[t] # "idle" => /\ pc'[t] = "lock" /\ more[t] # <<>>
                            /\ todo'[t] = Head(more[t]) /\ more'[t] = Tail(more[t])
                            /\ UNCHANGED <<number, answers, since>>
  <2>1. CASE more[t] = <<>>
    BY <2>1, FullType DEF TypeOK, Unlock
  <2>2. CASE more[t] # <<>>
    <3>1. /\ pc' = [pc EXCEPT ![t] = "lock"] /\ UNCHANGED <<number, answers, since>>
          /\ todo' = [todo EXCEPT ![t] = Head(more[t])]
          /\ more' = [more EXCEPT ![t] = Tail(more[t])]
      BY <2>2, Zenon DEF Unlock
    <3> QED BY <2>2, <3>1, FullType DEF TypeOK
  <2> QED BY <2>1, <2>2
<1>3. (left' => spoilt') /\ \A s \in Threads : pc'[s] = "idle" => answers'[s] = {}
  BY <1>1, <1>2 DEF FullInv, AnswerInv
<1>4. CASE spoilt
  BY <1>1, <1>3, <1>4 DEF AnswerInv
<1>5. CASE ~spoilt
  <2>1. ThreadOK(t) /\ pc[t] # "idle" /\ Ready(t, Due(todo[t]))
    BY <1>1, <1>5, HolderAnswers DEF HolderOK, BeforeSubmit, OnTheWire, Finished
  <2>2. owed' = <<>>
    BY <1>1, <2>1, EmptySection DEF Ready
  <2>3. \A s \in Threads \ {t} : ThreadOK(s)'
    <3>1. calls' \in Nat /\ calls <= calls'
      BY <1>1, FullType DEF TypeOK
    <3> QED BY <1>1, <1>5, <3>1, OthersOK
  <2>4. ASSUME pc'[t] # "idle"
        PROVE  ThreadOK(t)'
    <3> DEFINE m == more[t]
    <3>1. /\ m \in Seq(Seq(Transfers)) /\ m # <<>>
          /\ pc'[t] = "lock" /\ todo'[t] = Head(m) /\ more'[t] = Tail(m)
          /\ UNCHANGED <<number, answers, since>>
      BY <1>2, <2>4, FullType
    <3>2. /\ Head(m) = m[1] /\ 1 \in DOMAIN m
          /\ \A i \in DOMAIN Tail(m) : /\ i \in Nat \ {0} /\ i + 1 \in DOMAIN m
                                       /\ Tail(m)[i] = m[i + 1]
          /\ \A i \in DOMAIN m : /\ i \in Nat \ {0}
                                 /\ i # 1 => i - 1 \in DOMAIN Tail(m) /\ Tail(m)[i - 1] = m[i]
      BY <3>1, TailAt
    <3>3. /\ (Ahead(t)' <=> Ahead(t)) /\ (LooksAhead(t)' <=> LooksAhead(t)) /\ Own(t)' = Own(t)
          /\ Ahead(t) <=> \E i \in DOMAIN m : Commands(m[i])
      <4>1. (\E i \in DOMAIN m : Commands(m[i]))
              <=> Commands(Head(m)) \/ \E i \in DOMAIN Tail(m) : Commands(Tail(m)[i])
        BY <3>2
      <4>2. (\E i \in DOMAIN m : Looks(m[i]))
              <=> Looks(Head(m)) \/ \E i \in DOMAIN Tail(m) : Looks(Tail(m)[i])
        BY <3>2
      <4> QED BY <1>1, <3>1, <4>1, <4>2, EmptySection DEF Ahead, LooksAhead, Own
    <3>4. OrderlyRest(t)
      BY <2>1 DEF ThreadOK
    <3>5. /\ Paired(Head(m)) /\ ~Due(Head(m))
          /\ \A i \in DOMAIN Tail(m) : Paired(Tail(m)[i]) /\ ~Due(Tail(m)[i])
      BY <3>2, <3>4 DEF OrderlyRest
    <3>6. Looks(Head(m)) => ~Ahead(t)
      BY <3>2, <3>3, <3>4 DEF OrderlyRest
    <3>7. ASSUME NEW i \in DOMAIN Tail(m), Looks(Tail(m)[i]), NEW j \in DOMAIN Tail(m), i <= j
          PROVE  ~Commands(Tail(m)[j])
      <4>1. /\ i + 1 \in DOMAIN m /\ Looks(m[i + 1]) /\ j + 1 \in DOMAIN m /\ i + 1 <= j + 1
            /\ Tail(m)[j] = m[j + 1]
        BY <3>2, <3>7
      <4> QED BY <3>4, <4>1 DEF OrderlyRest
    <3>8. OrderlyRest(t)'
      <4> HIDE DEF m
      <4> QED BY <3>1, <3>3, <3>5, <3>6, <3>7 DEF OrderlyRest
    <3>9. Good(t)' = Good(t)
      BY <3>1, <3>3 DEF Good
    <3> QED BY <1>1, <2>1, <3>1, <3>3, <3>8, <3>9 DEF ThreadOK
  <2>5. ThreadOK(t)'
    BY <2>4 DEF ThreadOK
  <2>6. OwnNumbers'
    <3>1. \A s \in Threads : pc'[s] # "idle" => pc[s] # "idle" /\ number'[s] = number[s]
      BY <1>1, <1>2, <2>1
    <3> QED BY <1>5, <3>1 DEF FullInv, AnswerInv, OwnNumbers
  <2> QED BY <1>1, <1>3, <2>2, <2>3, <2>5, <2>6 DEF AnswerInv, OwedInv
<1> QED BY <1>4, <1>5

(* The transfer that the device ends is the holder's.                       *)
LEMMA DeviceEnds ==
  ASSUME FullInv, ~spoilt, NEW u \in Urbs, flying[u] # 0
  PROVE  \E t \in Threads :
           /\ pc[t] \in {"wait", "late"} /\ pc[t] \in InLock /\ Transfer(t) \in Transfers
           /\ Transfer(t).urb = u /\ todo[t] # <<>> /\ OnTheWire(t)
           /\ ThreadOK(t) /\ OrderlyRest(t)
<1>1. ~left
  BY FullType
<1>2. PICK t \in Threads : cfglock = t /\ t # NoThread
  <2>1. cfglock # NoThread
    BY <1>1, FullType DEF CtlInv, CleanInv, Rest
  <2> QED BY <2>1, FullType DEF TypeOK
<1>3. pc[t] \in InLock /\ Held(t)
  BY <1>1, <1>2, FullType DEF CtlInv, LockInv, CleanInv
<1>4. pc[t] \in {"wait", "late"} /\ UnderWay(t)
  BY <1>3 DEF Held, Rest, Over
<1>5. Transfer(t) \in Transfers /\ Transfer(t).urb = u /\ todo[t] # <<>>
  BY <1>4, FullType, HolderType DEF CtlInv, UnderWay, HasTransfer
<1>6. HolderOK(t) /\ ThreadOK(t) /\ OrderlyRest(t)
  BY <1>3, HolderAnswers
<1>7. OnTheWire(t)
  BY <1>4, <1>5, <1>6 DEF HolderOK, BeforeSubmit, Finished
<1> QED BY <1>3, <1>4, <1>5, <1>6, <1>7

(* A command that t's call has sent is its own in the slot, and one that    *)
(* came in between for everybody else.                                      *)
LEMMA CommandTaken ==
  ASSUME FullInv, ~spoilt, NEW t \in Threads, pc[t] # "idle", Ahead(t),
         TakeCommand(number[t]), UNCHANGED <<pc, todo, more, number, answers, calls>>
  PROVE  /\ \A s \in Threads : ThreadOK(s)'
         /\ slot' = number[t]
<1>1. /\ slot' = number[t]
      /\ \A s \in Threads : since'[s] = IF number[s] \in {0, number[t]} THEN {}
                                        ELSE since[s] \cup {number[t]}
  BY DEF TakeCommand
<1>2. ASSUME NEW s \in Threads, pc[s] # "idle"
      PROVE  ThreadOK(s)'
  <2>1. ThreadOK(s) /\ number[s] # 0
    BY <1>2 DEF FullInv, AnswerInv, ThreadOK
  <2>2. number[s] = number[t] => s = t
    BY <1>2 DEF FullInv, AnswerInv, OwnNumbers
  <2>3. slot' \in Own(s)'
    BY <1>1, <2>1 DEF Own
  <2>4. /\ (Ahead(s)' <=> Ahead(s)) /\ (LooksAhead(s)' <=> LooksAhead(s))
        /\ (OrderlyRest(s)' <=> OrderlyRest(s))
    BY DEF Ahead, LooksAhead, OrderlyRest
  <2>5. answers[s] \subseteq Good(s)'
    <3>1. CASE s = t
      BY <1>2, <2>1, <2>4, <3>1 DEF ThreadOK, Good, Own
    <3>2. CASE s # t
      <4>1. since'[s] = since[s] \cup {number[t]}
        BY <1>1, <2>1, <2>2, <3>2
      <4> QED BY <1>2, <2>1, <2>4, <4>1 DEF ThreadOK, Good, Own
    <3> QED BY <3>1, <3>2
  <2> QED BY <1>2, <2>1, <2>3, <2>4, <2>5 DEF ThreadOK
<1>3. ASSUME NEW s \in Threads, pc[s] = "idle"
      PROVE  ThreadOK(s)'
  BY <1>3 DEF ThreadOK
<1> QED BY <1>1, <1>2, <1>3

LEMMA OutAnswers ==
  ASSUME FullInv, NEW u \in {"tx", "ftx"}, OutDone(u)
  PROVE  AnswerInv'
<1>0. /\ u \in Urbs /\ u # "frx" /\ flying[u] # 0 /\ flying' = [flying EXCEPT ![u] = 0]
      /\ UNCHANGED <<pc, callVars, threadVars, asker, got, buffer, left, spoilt>>
      /\ owed' = IF asker[u] = 0 THEN owed
                 ELSE Append(owed, IF asker[u] = Slot THEN slot ELSE asker[u])
      /\ IF u = "ftx" /\ asker[u] # 0 THEN TakeCommand(asker[u]) ELSE UNCHANGED <<slot, since>>
  BY DEF OutDone, Urbs
<1>1. (left' => spoilt') /\ \A s \in Threads : pc'[s] = "idle" => answers'[s] = {}
  BY <1>0 DEF FullInv, AnswerInv
<1>2. CASE spoilt
  BY <1>0, <1>1, <1>2 DEF AnswerInv
<1>3. CASE ~spoilt
  <2>1. PICK t \in Threads :
           /\ pc[t] \in {"wait", "late"} /\ pc[t] \in InLock /\ Transfer(t) \in Transfers
           /\ Transfer(t).urb = u /\ todo[t] # <<>> /\ OnTheWire(t)
           /\ ThreadOK(t) /\ OrderlyRest(t)
    BY <1>0, <1>3, DeviceEnds
  <2>2. PICK x \in Transfers : x = Transfer(t) /\ x = Head(todo[t])
    BY <2>1 DEF Transfer
  <2>3. /\ x.urb = u /\ ~IsRead(x) /\ asker[u] = Asker(t, x)
        /\ x.asks \in {"nothing", "answer", "slot"} /\ (x.asks = "slot" => u = "tx")
        /\ Ready(t, Due(todo[t]))
    <3>1. x.asks \in {"nothing", "answer", "slot"} /\ (x.asks = "slot" => x.urb = "tx")
      BY DEF Transfers
    <3>2. x.urb = u /\ ~IsRead(x)
      BY <1>0, <2>1, <2>2 DEF IsRead
    <3>3. asker[u] = Asker(t, x) /\ Ready(t, Due(todo[t]) \/ IsRead(x))
      BY <2>1, <2>2, <3>2 DEF OnTheWire
    <3>4. Ready(t, Due(todo[t]))
      BY <3>2, <3>3 DEF Ready
    <3> QED BY <3>1, <3>2, <3>3, <3>4
  <2>4. /\ pc[t] # "idle" /\ number[t] \in Nat \ {0} /\ number[t] # Slot /\ Slot # 0
        /\ Paired(todo[t]) /\ todo[t] \in Seq(Transfers)
    BY <2>1, FullType DEF ThreadOK, OrderlyRest, Slot
  <2>5. Transfer(t)' = x /\ flying'[u] = 0
    BY <1>0, <2>2, FullType DEF Transfer, TypeOK
  <2>6. (Ahead(t)' <=> Ahead(t))
    BY <1>0 DEF Ahead
  <2>7. /\ cfglock' = t /\ t # NoThread
    BY <1>0, <1>3, <2>1, HolderAnswers
  <2>8. ASSUME \A s \in Threads : ThreadOK(s)',
               Ready(t, DueAt(todo[t], 2))',
               IsCommand(x) => slot' = number[t]
        PROVE  AnswerInv'
    <3>1. HolderOK(t)'
      BY <1>0, <2>1, <2>3, <2>5, <2>8 DEF HolderOK, Finished, IsRead
    <3>2. OwnNumbers'
      BY <1>0, <1>3, NumbersKept
    <3>3. OwedInv'
      BY <2>7, <3>1 DEF OwedInv
    <3> QED BY <1>1, <2>8, <3>2, <3>3 DEF AnswerInv
  <2>9. ASSUME UNCHANGED <<slot, since>>
        PROVE  (\A s \in Threads : ThreadOK(s)') /\ Good(t)' = Good(t)
    <3>1. \A s \in Threads \ {t} : ThreadOK(s)'
      <4>1. calls' \in Nat /\ calls <= calls'
        BY <1>0, FullType DEF TypeOK
      <4> QED BY <1>0, <1>3, <2>9, <4>1, OthersOK
    <3>2. ThreadOK(t)' /\ Good(t)' = Good(t)
      <4>1. pc'[t] # "lock"
        BY <1>0, <2>1
      <4> QED BY <1>0, <2>1, <2>4, <2>9, <4>1, SameCall
    <3> QED BY <3>1, <3>2
  <2>10. CASE x.asks = "nothing"
    <3>1. asker[u] = 0 /\ ~IsCommand(x) /\ ~IsAsking(x)
      BY <2>3, <2>10 DEF Asker, IsLook, IsAsking, IsCommand
    <3>2. owed' = owed /\ UNCHANGED <<slot, since>>
      BY <1>0, <3>1
    <3>3. Due(todo[t]) <=> DueAt(todo[t], 2)
      BY <2>1, <2>2, <2>3, <2>4, <3>1, DueHead
    <3>4. Ready(t, DueAt(todo[t], 2))'
      BY <1>0, <2>3, <2>9, <3>2, <3>3 DEF Ready
    <3> QED BY <2>8, <2>9, <3>1, <3>2, <3>4
  <2>11. CASE x.asks # "nothing"
    <3>1. IsAsking(x) /\ ~Due(todo[t]) /\ DueAt(todo[t], 2) /\ owed = <<>>
      <4>1. IsAsking(x)
        BY <2>11 DEF IsAsking
      <4>2. ~Due(todo[t]) /\ DueAt(todo[t], 2)
        BY <2>1, <2>2, <2>3, <2>4, <4>1, DueHead
      <4> QED BY <2>3, <4>1, <4>2 DEF Ready
    <3>2. CASE x.asks = "slot"
      <4>1. asker[u] = Slot /\ u = "tx" /\ ~IsCommand(x) /\ IsLook(x)
        BY <2>3, <3>2 DEF Asker, IsLook, IsCommand
      <4>2. owed' = <<slot>> /\ UNCHANGED <<slot, since>>
        BY <1>0, <2>4, <3>1, <4>1
      <4>3. Looks(todo[t]) /\ LooksAhead(t)
        BY <2>1, <2>2, <2>4, <4>1, AnyTail DEF LooksAhead
      <4>4. slot \in Good(t)
        BY <2>1, <2>4, <4>3 DEF OrderlyRest, ThreadOK, Good
      <4>5. Ready(t, DueAt(todo[t], 2))'
        BY <1>0, <2>9, <3>1, <4>2, <4>4 DEF Ready
      <4> QED BY <2>8, <2>9, <4>1, <4>2, <4>5
    <3>3. CASE x.asks = "answer"
      <4>1. asker[u] = number[t] /\ asker[u] # 0 /\ asker[u] # Slot
        BY <2>3, <2>4, <3>1, <3>3 DEF Asker, IsLook
      <4>2. owed' = <<number[t]>>
        BY <1>0, <3>1, <4>1
      <4>3. number[t] \in Good(t)'
        BY <1>0 DEF Good, Own
      <4>4. Ready(t, DueAt(todo[t], 2))'
        BY <1>0, <3>1, <4>2, <4>3 DEF Ready
      <4>5. CASE u = "tx"
        <5>1. ~IsCommand(x) /\ UNCHANGED <<slot, since>>
          BY <1>0, <2>3, <4>5 DEF IsCommand
        <5> QED BY <2>8, <2>9, <4>4, <5>1
      <4>6. CASE u = "ftx"
        <5>1. TakeCommand(number[t]) /\ IsCommand(x)
          BY <1>0, <2>3, <3>1, <4>1, <4>6 DEF IsCommand
        <5>2. Ahead(t)
          BY <2>1, <2>2, <2>4, <5>1, AnyTail DEF Ahead
        <5>3. (\A s \in Threads : ThreadOK(s)') /\ slot' = number[t]
          BY <1>0, <1>3, <2>4, <5>1, <5>2, CommandTaken
        <5> QED BY <2>8, <4>4, <5>3
      <4> QED BY <4>5, <4>6
    <3> QED BY <2>3, <2>11, <3>2, <3>3
  <2> QED BY <2>10, <2>11
<1> QED BY <1>2, <1>3

LEMMA InAnswers ==
  ASSUME FullInv, InDone
  PROVE  AnswerInv'
<1>0. /\ "frx" \in Urbs /\ flying["frx"] # 0 /\ flying' = [flying EXCEPT !["frx"] = 0]
      /\ buffer' = [buffer EXCEPT !["frx"] = Head(owed)] /\ got' = TRUE /\ owed' = Tail(owed)
      /\ UNCHANGED <<pc, callVars, threadVars, asker, slot, since, left, spoilt>>
  BY DEF InDone, Urbs
<1>1. \A s \in Threads : pc'[s] = "idle" => answers'[s] = {}
  BY <1>0 DEF FullInv, AnswerInv
<1>2. CASE spoilt
  BY <1>0, <1>1, <1>2 DEF AnswerInv
<1>3. CASE ~spoilt
  <2>1. PICK t \in Threads :
           /\ pc[t] \in {"wait", "late"} /\ pc[t] \in InLock /\ Transfer(t) \in Transfers
           /\ Transfer(t).urb = "frx" /\ todo[t] # <<>> /\ OnTheWire(t)
           /\ ThreadOK(t) /\ OrderlyRest(t)
    BY <1>0, <1>3, DeviceEnds
  <2>2. PICK x \in Transfers : x = Transfer(t) /\ x = Head(todo[t])
    BY <2>1 DEF Transfer
  <2>3. /\ x.urb = "frx" /\ IsRead(x) /\ ~IsCommand(x) /\ Transfer(t)' = x
        /\ flying'["frx"] = 0 /\ pc[t] # "idle" /\ pc'[t] # "lock"
    BY <1>0, <2>1, <2>2, FullType DEF IsRead, IsCommand, Transfer, TypeOK
  <2>4. PICK a \in Good(t) : owed = <<a>>
    BY <2>1, <2>2, <2>3 DEF OnTheWire, Ready
  <2>5. ~DueAt(todo[t], 2)
    BY <2>1, <2>2, <2>3, DueHead, FullType DEF OrderlyRest
  <2>6. owed' = <<>> /\ buffer'["frx"] = a
    BY <1>0, <2>4, FullType DEF TypeOK
  <2>7. ThreadOK(t)' /\ Good(t)' = Good(t)
    BY <1>0, <2>1, <2>3, SameCall
  <2>8. HolderOK(t)'
    BY <1>0, <2>1, <2>3, <2>4, <2>5, <2>6, <2>7 DEF HolderOK, Finished, Ready
  <2>9. pc'[t] \in InLock
    BY <1>0, <2>1
  <2> QED BY <1>0, <1>3, <2>1, <2>7, <2>8, <2>9, HolderStep
<1> QED BY <1>2, <1>3

LEMMA ErrorAnswers ==
  ASSUME FullInv, NEW u \in Urbs, UrbError(u)
  PROVE  AnswerInv'
BY DEF FullInv, AnswerInv, UrbError

LEMMA AnswerStep ==
  ASSUME FullInv, CallsAreOrderly, [Next]_vars
  PROVE  AnswerInv'
<1>1. ASSUME NEW t \in Threads, Begin(t) \/ Lock(t) \/ Run(t)
      PROVE  AnswerInv'
  BY <1>1, BeginAnswers, LockAnswers, SubmitAnswers, WaitAnswers, GiveUpAnswers, AcceptAnswers,
     UnlockAnswers DEF Run
<1>2. ASSUME Quiesce \/ UNCHANGED vars
      PROVE  AnswerInv'
  <2>1. UNCHANGED vars
    BY <1>2 DEF Quiesce
  <2>2. /\ \A t \in Threads : ThreadOK(t)' <=> ThreadOK(t)
        /\ \A t \in Threads : HolderOK(t)' <=> HolderOK(t)
        /\ OwnNumbers' <=> OwnNumbers
    BY <2>1 DEF vars, ThreadOK, HolderOK, OwnNumbers, OrderlyRest, Good, Own, Ahead, LooksAhead,
                BeforeSubmit, OnTheWire, Finished, Ready, Asker, Transfer
  <2>3. cfglock \in Threads \cup {NoThread}
    BY FullType DEF TypeOK
  <2> QED BY <2>1, <2>2, <2>3 DEF vars, FullInv, AnswerInv, OwedInv
<1> QED BY <1>1, <1>2, OutAnswers, InAnswers, ErrorAnswers DEF Next

(* Until a transfer of somebody fails, what a caller reads is the answer to *)
(* its own call, or, in an I2C call, an admin command that came into chip   *)
(* 0's slot after its own: for any set of calls like the driver's.          *)
THEOREM AnswerCorrect ==
  ASSUME CallsAreOrderly
  PROVE  Spec => []AnswerIsOwnUnlessSpoilt
<1>1. Init => AnswerInv
  BY DEF Init, AnswerInv, ThreadOK, OwnNumbers, OwedInv
<1>2. CtlInv /\ AnswerInv /\ [Next]_vars => AnswerInv'
  BY AnswerStep DEF FullInv
<1>3. AnswerInv => AnswerIsOwnUnlessSpoilt
  <2> SUFFICES ASSUME AnswerInv, ~spoilt, NEW t \in Threads
               PROVE  answers[t] \subseteq {number[t]} \cup since[t]
    BY DEF AnswerIsOwnUnlessSpoilt
  <2>1. CASE pc[t] = "idle"
    BY <2>1 DEF AnswerInv
  <2>2. CASE pc[t] # "idle"
    BY <2>2 DEF AnswerInv, ThreadOK, Good, Own
  <2> QED BY <2>1, <2>2
<1> QED BY <1>1, <1>2, <1>3, CtlInvariant, PTL DEF Spec

-----------------------------------------------------------------------------
(* The calls of the driver are orderly.                                     *)

IsPlain(x) == ~IsAsking(x) /\ ~IsRead(x) /\ ~x.checked

Plain(s) == \A k \in DOMAIN s : IsPlain(s[k])

(* A section that only sends.                                               *)
LEMMA PlainSection ==
  ASSUME NEW s, Plain(s)
  PROVE  Paired(s) /\ ~Due(s) /\ ~Commands(s) /\ ~Looks(s)
BY DEF Plain, IsPlain, Paired, Due, DueAt, Commands, Looks, IsCommand, IsLook, IsAsking

(* A section that asks with its i-th transfer and reads with its j-th.      *)
LEMMA ExchangeSection ==
  ASSUME NEW s, NEW i \in DOMAIN s, NEW j \in DOMAIN s, DOMAIN s \subseteq Nat \ {0}, i < j,
         IsAsking(s[i]) /\ ~IsRead(s[i]) /\ ~s[i].checked,
         IsRead(s[j]) /\ ~IsAsking(s[j]),
         \A k \in DOMAIN s : k # i /\ k # j => IsPlain(s[k])
  PROVE  /\ Paired(s) /\ ~Due(s)
         /\ Looks(s) <=> IsLook(s[i])
         /\ Commands(s) <=> IsCommand(s[i])
<1>1. DueAt(s, i + 1)
  <2>1. ASSUME NEW k \in DOMAIN s, i + 1 <= k, k < j
        PROVE  ~IsAsking(s[k]) /\ ~IsRead(s[k])
    BY <2>1 DEF IsPlain
  <2> QED BY <2>1 DEF DueAt
<1>2. ~DueAt(s, j + 1)
  BY DEF DueAt, IsPlain
<1>3. ~Due(s)
  <2> SUFFICES ASSUME NEW k \in DOMAIN s, IsRead(s[k]), ~IsAsking(s[k]),
                      \A l \in DOMAIN s : 1 <= l /\ l < k => ~IsAsking(s[l]) /\ ~IsRead(s[l])
               PROVE  ~(k >= 1)
    BY DEF Due, DueAt
  <2>1. k = j
    BY DEF IsPlain
  <2> QED BY <2>1
<1> QED BY <1>1, <1>2, <1>3 DEF Paired, Looks, Commands, IsLook, IsCommand, IsPlain, IsAsking

(* A section without a look into the slot that pairs what it asks.          *)
Tidy(s) == s \in Seq(Transfers) /\ Paired(s) /\ ~Due(s) /\ ~Looks(s)

LEMMA TidyCall ==
  ASSUME NEW c \in Seq(Seq(Transfers)), c # <<>>, \A i \in DOMAIN c : Tidy(c[i])
  PROVE  c \in Seq(Seq(Transfers)) \ {<<>>} /\ Orderly(c)
BY DEF Orderly, Tidy

LEMMA PlainTidy ==
  ASSUME NEW s \in Seq(Transfers), Plain(s)
  PROVE  Tidy(s)
BY PlainSection DEF Tidy

LEMMA PlainConcat ==
  ASSUME NEW a \in Seq(Transfers), NEW b \in Seq(Transfers), Plain(a), Plain(b)
  PROVE  a \o b \in Seq(Transfers) /\ Plain(a \o b)
BY DEF Plain

(* The transfers of the driver.                                             *)
LEMMA TransfersOfTheDriver ==
  ASSUME NEW k \in Nat, NEW late \in {"leave", "kill", "reinit"}, NEW comp \in Comps
  PROVE  /\ Out(comp, k) \in Transfers /\ IsPlain(Out(comp, k))
         /\ Asks(Out(comp, k)) \in Transfers
         /\ AdminOut(k) \in Transfers /\ IsPlain(AdminOut(k))
         /\ Asks(AdminOut(k)) \in Transfers
         /\ [Out(comp, k) EXCEPT !.asks = "slot"] \in Transfers
         /\ In(late) \in Transfers /\ Checked(In(late)) \in Transfers
         /\ Asks(Checked(In(late))) \in Transfers
BY DEF Out, In, Asks, Checked, AdminOut, Transfers, Urbs, Comps, IsPlain, IsAsking, IsRead

LEMMA AskersOfTheDriver ==
  ASSUME NEW k, NEW late, NEW comp
  PROVE  /\ LET x == Asks(Out(comp, k)) IN
              IsAsking(x) /\ ~IsRead(x) /\ ~x.checked /\ ~IsLook(x) /\ ~IsCommand(x)
         /\ LET x == Asks(AdminOut(k)) IN
              IsAsking(x) /\ ~IsRead(x) /\ ~x.checked /\ ~IsLook(x) /\ IsCommand(x)
         /\ LET x == [Out(comp, k) EXCEPT !.asks = "slot"] IN
              IsAsking(x) /\ ~IsRead(x) /\ ~x.checked /\ IsLook(x) /\ ~IsCommand(x)
         /\ IsRead(In(late)) /\ ~IsAsking(In(late))
         /\ IsRead(Checked(In(late))) /\ ~IsAsking(Checked(In(late)))
         /\ IsRead(Asks(Checked(In(late)))) /\ IsAsking(Asks(Checked(In(late))))
         /\ ~IsLook(Asks(Checked(In(late))))
BY DEF Out, In, Asks, Checked, AdminOut, IsAsking, IsRead, IsLook, IsCommand

LEMMA ClearIsPlain == Clear \in Seq(Transfers) /\ Len(Clear) = 2 /\ Plain(Clear)
<1> DEFINE a == Out("fw", 1)  b == Out("fw", 0)
<1>1. a \in Transfers /\ b \in Transfers /\ IsPlain(a) /\ IsPlain(b)
  BY TransfersOfTheDriver DEF Comps
<1> HIDE DEF a, b
<1>2. <<a, b>> \in Seq(Transfers) /\ Len(<<a, b>>) = 2 /\ Plain(<<a, b>>)
  BY <1>1 DEF Plain
<1> QED BY <1>2 DEF Clear, a, b

LEMMA PlainPair ==
  ASSUME NEW a \in Transfers, NEW b \in Transfers, IsPlain(a), IsPlain(b)
  PROVE  /\ <<a>> \in Seq(Transfers) /\ Plain(<<a>>)
         /\ <<a, b>> \in Seq(Transfers) /\ Plain(<<a, b>>) /\ Len(<<a, b>>) = 2
BY DEF Plain

LEMMA PlainPieces ==
  ASSUME NEW n \in Nat, NEW k \in Nat, NEW comp \in Comps
  PROVE  LET s == [i \in 1 .. n |-> Out(comp, n + k - i)] IN
         s \in Seq(Transfers) /\ Len(s) = n /\ Plain(s)
<1> DEFINE s == [i \in 1 .. n |-> Out(comp, n + k - i)]
<1>1. ASSUME NEW i \in 1 .. n
      PROVE  Out(comp, n + k - i) \in Transfers /\ IsPlain(Out(comp, n + k - i))
  <2>1. n + k - i \in Nat
    OBVIOUS
  <2> QED BY <2>1, TransfersOfTheDriver
<1>2. s \in [1 .. n -> Transfers] /\ \A i \in 1 .. n : IsPlain(s[i])
  BY <1>1
<1> HIDE DEF s
<1>3. s \in Seq(Transfers) /\ Len(s) = n /\ Plain(s)
  BY <1>2 DEF Plain
<1> QED BY <1>3 DEF s

(* The elements of a concatenation.                                         *)
IsConcat(s, a, b) == s = a \o b

LEMMA ConcatAt ==
  ASSUME NEW a \in Seq(Transfers), NEW b \in Seq(Transfers), NEW s, IsConcat(s, a, b)
  PROVE  /\ s \in Seq(Transfers) /\ Len(s) = Len(a) + Len(b)
         /\ \A k \in 1 .. Len(a) : s[k] = a[k]
         /\ \A k \in 1 .. Len(b) : s[Len(a) + k] = b[k]
BY DEF IsConcat

(* The sections that only send.                                             *)
LEMMA SendingSections ==
  ASSUME NEW n \in Nat
  PROVE  /\ Tidy(SetValue) /\ Tidy(ConfigMpuGroup) /\ Tidy(ResetDevice)
         /\ Tidy(SeparateConfig(n)) /\ Tidy(SeparateWtmem(n)) /\ Tidy(WriteReg(n))
<1>1. "fw" \in Comps /\ "tx" \in Comps
  BY DEF Comps
<1>2. \A k \in Nat : <<Out("fw", k)>> \in Seq(Transfers) /\ Plain(<<Out("fw", k)>>)
  BY <1>1, TransfersOfTheDriver, PlainPair
<1>3. SetValue \in Seq(Transfers) /\ Plain(SetValue)
  <2>1. <<Out("fw", 3), Out("fw", 2)>> \in Seq(Transfers) /\ Plain(<<Out("fw", 3), Out("fw", 2)>>)
    BY <1>1, TransfersOfTheDriver, PlainPair
  <2> QED BY <2>1, ClearIsPlain, PlainConcat DEF SetValue
<1>4. ConfigMpuGroup \in Seq(Transfers) /\ Plain(ConfigMpuGroup)
  <2>1. <<Out("fw", 3), Out("tx", 2)>> \in Seq(Transfers) /\ Plain(<<Out("fw", 3), Out("tx", 2)>>)
    BY <1>1, TransfersOfTheDriver, PlainPair
  <2> QED BY <2>1, ClearIsPlain, PlainConcat DEF ConfigMpuGroup
<1>5. ResetDevice \in Seq(Transfers) /\ Plain(ResetDevice)
  BY <1>2, ClearIsPlain, PlainConcat DEF ResetDevice
<1> DEFINE f == [i \in 1 .. n |-> Out("fw", n + 2 - i)]
           g == [i \in 1 .. n |-> Out("tx", n - i)]
           h == <<Out("fw", n + 2)>>
           z == <<Out("fw", 0)>>
<1>6. /\ f \in Seq(Transfers) /\ Plain(f)
      /\ h \in Seq(Transfers) /\ Plain(h) /\ z \in Seq(Transfers) /\ Plain(z)
  <2>1. LET r == [i \in 1 .. n |-> Out("fw", n + 2 - i)] IN r \in Seq(Transfers) /\ Plain(r)
    BY <1>1, PlainPieces
  <2>2. n + 2 \in Nat /\ 0 \in Nat
    OBVIOUS
  <2> QED BY <1>2, <2>1, <2>2
<1>7. g \in Seq(Transfers) /\ Plain(g)
  <2>1. LET r == [i \in 1 .. n |-> Out("tx", n + 0 - i)] IN r \in Seq(Transfers) /\ Plain(r)
    BY <1>1, PlainPieces
  <2>2. \A i \in 1 .. n : n + 0 - i = n - i
    OBVIOUS
  <2>3. g = [i \in 1 .. n |-> Out("tx", n + 0 - i)]
    BY <2>2
  <2> QED BY <2>1, <2>3
<1> HIDE DEF f, g, h, z
<1>8. SeparateConfig(n) \in Seq(Transfers) /\ Plain(SeparateConfig(n))
  <2>1. SeparateConfig(n) = SetValue \o h \o f \o Clear
    BY DEF SeparateConfig, f, h
  <2>2. SetValue \o h \in Seq(Transfers) /\ Plain(SetValue \o h)
    BY <1>3, <1>6, PlainConcat
  <2>3. SetValue \o h \o f \in Seq(Transfers) /\ Plain(SetValue \o h \o f)
    BY <1>6, <2>2, PlainConcat
  <2> QED BY <2>1, <2>3, ClearIsPlain, PlainConcat
<1>9. SeparateWtmem(n) \in Seq(Transfers) /\ Plain(SeparateWtmem(n))
  <2>1. SeparateWtmem(n) = SetValue \o SetValue \o z \o f \o Clear
    BY DEF SeparateWtmem, f, z
  <2>2. SetValue \o SetValue \in Seq(Transfers) /\ Plain(SetValue \o SetValue)
    BY <1>3, PlainConcat
  <2>3. SetValue \o SetValue \o z \in Seq(Transfers) /\ Plain(SetValue \o SetValue \o z)
    BY <1>6, <2>2, PlainConcat
  <2>4. SetValue \o SetValue \o z \o f \in Seq(Transfers) /\ Plain(SetValue \o SetValue \o z \o f)
    BY <1>6, <2>3, PlainConcat
  <2> QED BY <2>1, <2>4, ClearIsPlain, PlainConcat
<1>10. WriteReg(n) \in Seq(Transfers) /\ Plain(WriteReg(n))
  <2>1. WriteReg(n) = h \o g \o Clear
    BY DEF WriteReg, g, h
  <2>2. h \o g \in Seq(Transfers) /\ Plain(h \o g)
    BY <1>6, <1>7, PlainConcat
  <2> QED BY <2>1, <2>2, ClearIsPlain, PlainConcat
<1> QED BY <1>3, <1>4, <1>5, <1>8, <1>9, <1>10, PlainTidy

LEMMA WritePiecesTidy ==
  ASSUME NEW n \in Nat
  PROVE  Tidy(WritePieces(n))
<1>1. ASSUME NEW i \in 1 .. n
      PROVE  LET x == [urb |-> "tx", comp |-> "tx", late |-> "reinit", skip |-> n - i,
                       asks |-> "nothing", checked |-> FALSE] IN
             x \in Transfers /\ IsPlain(x)
  <2>1. n - i \in Nat
    OBVIOUS
  <2> QED BY <2>1 DEF Transfers, Urbs, Comps, IsPlain, IsAsking, IsRead
<1>2. /\ WritePieces(n) \in [1 .. n -> Transfers]
      /\ \A i \in 1 .. n : IsPlain(WritePieces(n)[i])
  BY <1>1 DEF WritePieces
<1>3. WritePieces(n) \in Seq(Transfers) /\ Plain(WritePieces(n))
  BY <1>2 DEF Plain
<1> QED BY <1>3, PlainTidy

(* The sections that ask and read.                                          *)
LEMMA DebugTidy ==
  /\ Tidy(DebugCommand) /\ ~Commands(DebugCommand)
  /\ ReadSlot \in Seq(Transfers) /\ Paired(ReadSlot) /\ ~Due(ReadSlot) /\ ~Commands(ReadSlot)
<1> DEFINE x == Asks(Out("fw", 1))
           z == [Out("fw", 1) EXCEPT !.asks = "slot"]
           y == Checked(In("kill"))
<1>1. /\ x \in Transfers /\ y \in Transfers /\ z \in Transfers
      /\ IsAsking(x) /\ ~IsRead(x) /\ ~x.checked /\ ~IsLook(x) /\ ~IsCommand(x)
      /\ IsAsking(z) /\ ~IsRead(z) /\ ~z.checked /\ ~IsCommand(z)
      /\ IsRead(y) /\ ~IsAsking(y)
  BY TransfersOfTheDriver, AskersOfTheDriver DEF Comps
<1> HIDE DEF x, y, z
<1>2. ASSUME NEW w \in Transfers, IsAsking(w), ~IsRead(w), ~w.checked, ~IsCommand(w)
      PROVE  /\ <<w, y>> \in Seq(Transfers) /\ Paired(<<w, y>>) /\ ~Due(<<w, y>>)
             /\ ~Commands(<<w, y>>) /\ (Looks(<<w, y>>) <=> IsLook(w))
  <2> DEFINE s == <<w, y>>
  <2>1. s \in Seq(Transfers) /\ DOMAIN s = {1, 2} /\ s[1] = w /\ s[2] = y
    BY <1>1
  <2> HIDE DEF s
  <2>2. 1 \in DOMAIN s /\ 2 \in DOMAIN s /\ DOMAIN s \subseteq Nat \ {0}
    BY <2>1
  <2>3. Paired(s) /\ ~Due(s) /\ (Looks(s) <=> IsLook(w)) /\ (Commands(s) <=> IsCommand(w))
    BY <1>1, <1>2, <2>1, <2>2, ExchangeSection
  <2> QED BY <1>2, <2>1, <2>3 DEF s
<1>3. DebugCommand = <<x, y>> /\ ReadSlot = <<z, y>>
  BY DEF DebugCommand, ReadSlot, x, y, z
<1> QED BY <1>1, <1>2, <1>3 DEF Tidy

LEMMA AdminTidy == Tidy(Admin) /\ Commands(Admin)
<1> DEFINE v == AdminOut(2)
           x == Asks(AdminOut(1))
           y == In("reinit")
<1>1. /\ v \in Transfers /\ x \in Transfers /\ y \in Transfers /\ IsPlain(v)
      /\ IsAsking(x) /\ ~IsRead(x) /\ ~x.checked /\ ~IsLook(x) /\ IsCommand(x)
      /\ IsRead(y) /\ ~IsAsking(y)
  BY TransfersOfTheDriver, AskersOfTheDriver DEF Comps
<1> HIDE DEF v, x, y
<1> DEFINE s == <<v, x, y>>
<1>2. /\ s \in Seq(Transfers) /\ DOMAIN s = {1, 2, 3} /\ s[1] = v /\ s[2] = x /\ s[3] = y
  BY <1>1
<1> HIDE DEF s
<1>3. /\ 2 \in DOMAIN s /\ 3 \in DOMAIN s /\ DOMAIN s \subseteq Nat \ {0}
      /\ \A k \in DOMAIN s : k # 2 /\ k # 3 => IsPlain(s[k])
  BY <1>1, <1>2
<1>4. Paired(s) /\ ~Due(s) /\ (Looks(s) <=> IsLook(x)) /\ (Commands(s) <=> IsCommand(x))
  BY <1>1, <1>2, <1>3, ExchangeSection
<1>5. Admin = s
  BY DEF Admin, s, v, x, y
<1> QED BY <1>1, <1>2, <1>4, <1>5 DEF Tidy

LEMMA FwUpdateTidy == Tidy(FwUpdateStatus)
<1> DEFINE y == Asks(Checked(In("leave")))
<1>1. y \in Transfers /\ IsRead(y) /\ IsAsking(y) /\ ~IsLook(y)
  BY TransfersOfTheDriver, AskersOfTheDriver DEF Comps
<1> HIDE DEF y
<1> DEFINE s == <<y>>
<1>2. s \in Seq(Transfers) /\ DOMAIN s = {1} /\ s[1] = y
  BY <1>1
<1> HIDE DEF s
<1>3. Tidy(s)
  BY <1>1, <1>2 DEF Tidy, Paired, Due, DueAt, Looks
<1> QED BY <1>3 DEF FwUpdateStatus, s, y

LEMMA FlashTidy ==
  ASSUME NEW n \in Nat
  PROVE  Tidy(FlashDownload(n))
<1> DEFINE a == [i \in 1 .. n |-> Out("fw", n + 2 - i)]
           x == Asks(Out("fw", 1))
           y == In("leave")
           p == <<x, y>>
           s == FlashDownload(n)
<1>1. /\ x \in Transfers /\ y \in Transfers
      /\ IsAsking(x) /\ ~IsRead(x) /\ ~x.checked /\ ~IsLook(x)
      /\ IsRead(y) /\ ~IsAsking(y)
  BY TransfersOfTheDriver, AskersOfTheDriver DEF Comps
<1>2. a \in Seq(Transfers) /\ Len(a) = n /\ Plain(a)
  BY PlainPieces DEF Comps
<1> DEFINE b == a \o p
<1>3. IsConcat(b, a, p) /\ IsConcat(s, b, Clear)
  BY DEF FlashDownload, IsConcat
<1> HIDE DEF a, b, x, y, s
<1>4. p \in Seq(Transfers) /\ Len(p) = 2 /\ p[1] = x /\ p[2] = y
  BY <1>1
<1> HIDE DEF p
<1>5. /\ b \in Seq(Transfers) /\ Len(b) = n + 2
      /\ \A k \in 1 .. n : b[k] = a[k]
      /\ b[n + 1] = x /\ b[n + 2] = y
  <2>0. IsConcat(b, a, p) /\ a \in Seq(Transfers) /\ p \in Seq(Transfers)
    BY <1>2, <1>3, <1>4
  <2>1. /\ b \in Seq(Transfers) /\ Len(b) = Len(a) + Len(p)
        /\ \A k \in 1 .. Len(a) : b[k] = a[k]
        /\ \A k \in 1 .. Len(p) : b[Len(a) + k] = p[k]
    BY ONLY <2>0, ConcatAt
  <2>2. b[n + 1] = p[1] /\ b[n + 2] = p[2]
    BY <1>2, <1>3, <1>4, <2>1
  <2> QED BY <1>2, <1>3, <1>4, <2>1, <2>2
<1>6. /\ s \in Seq(Transfers) /\ Len(s) = n + 4 /\ DOMAIN s = 1 .. n + 4
      /\ \A k \in 1 .. n + 2 : s[k] = b[k]
      /\ s[n + 2 + 1] = Clear[1] /\ s[n + 2 + 2] = Clear[2]
  <2>0. IsConcat(s, b, Clear) /\ b \in Seq(Transfers) /\ Clear \in Seq(Transfers)
    BY <1>3, <1>5, ClearIsPlain
  <2>1. /\ s \in Seq(Transfers) /\ Len(s) = Len(b) + Len(Clear)
        /\ \A k \in 1 .. Len(b) : s[k] = b[k]
        /\ \A k \in 1 .. Len(Clear) : s[Len(b) + k] = Clear[k]
    BY ONLY <2>0, ConcatAt
  <2>2. s[n + 2 + 1] = Clear[1] /\ s[n + 2 + 2] = Clear[2]
    BY <1>3, <1>5, ClearIsPlain, <2>1
  <2> QED BY <1>3, <1>5, ClearIsPlain, <2>1, <2>2
<1>7. s[n + 1] = x /\ s[n + 2] = y
  <2>1. n + 1 \in 1 .. n + 2 /\ n + 2 \in 1 .. n + 2
    OBVIOUS
  <2> QED BY <1>5, <1>6, <2>1
<1>8. ASSUME NEW k \in DOMAIN s, k # n + 1, k # n + 2
      PROVE  IsPlain(s[k])
  <2>1. k \in 1 .. n \/ k = n + 2 + 1 \/ k = n + 2 + 2
    BY <1>6, <1>8
  <2>2. ASSUME k \in 1 .. n
        PROVE  IsPlain(s[k])
    <3>1. k \in 1 .. n + 2
      BY <2>2
    <3> QED BY <1>2, <1>5, <1>6, <2>2, <3>1 DEF Plain
  <2>3. IsPlain(s[n + 2 + 1]) /\ IsPlain(s[n + 2 + 2])
    BY <1>6, ClearIsPlain DEF Plain
  <2> QED BY <2>1, <2>2, <2>3
<1>9. n + 1 \in DOMAIN s /\ n + 2 \in DOMAIN s /\ DOMAIN s \subseteq Nat \ {0} /\ n + 1 < n + 2
  BY <1>6
<1>10. Paired(s) /\ ~Due(s) /\ (Looks(s) <=> IsLook(s[n + 1]))
  BY <1>1, <1>7, <1>8, <1>9, ExchangeSection
<1> QED BY <1>1, <1>6, <1>7, <1>10 DEF Tidy, s

LEMMA ReadRegTidy == Tidy(ReadReg)
<1> DEFINE o1 == Out("fw", 8)  o2 == Out("fw", 7)  o3 == Out("fw", 4)
           x == Asks(Out("fw", 3))
           y == In("leave")
           q == <<o1, o2>>  p == <<o3, x>>  r == <<y>>
           s == ReadReg
<1>1. /\ x \in Transfers /\ y \in Transfers
      /\ IsAsking(x) /\ ~IsRead(x) /\ ~x.checked /\ ~IsLook(x)
      /\ IsRead(y) /\ ~IsAsking(y)
      /\ o1 \in Transfers /\ o2 \in Transfers /\ o3 \in Transfers
      /\ IsPlain(o1) /\ IsPlain(o2) /\ IsPlain(o3)
  BY TransfersOfTheDriver, AskersOfTheDriver DEF Comps
<1> DEFINE a == q \o Clear  b == a \o p  c == b \o Clear
<1>2. /\ IsConcat(a, q, Clear) /\ IsConcat(b, a, p)
      /\ IsConcat(c, b, Clear) /\ IsConcat(s, c, r)
  BY DEF ReadReg, IsConcat
<1> HIDE DEF x, y, s, o1, o2, o3
<1>3. /\ q \in Seq(Transfers) /\ Plain(q) /\ Len(q) = 2
      /\ p \in Seq(Transfers) /\ Len(p) = 2 /\ p[1] = o3 /\ p[2] = x
      /\ r \in Seq(Transfers) /\ Len(r) = 1 /\ r[1] = y
  <2>1. q \in Seq(Transfers) /\ Plain(q) /\ Len(q) = 2
    BY <1>1, PlainPair
  <2>2. p \in Seq(Transfers) /\ Len(p) = 2 /\ p[1] = o3 /\ p[2] = x
    BY <1>1
  <2>3. r \in Seq(Transfers) /\ Len(r) = 1 /\ r[1] = y
    BY <1>1
  <2> QED BY <2>1, <2>2, <2>3
<1>4. a \in Seq(Transfers) /\ Len(a) = 4 /\ Plain(a)
  <2>1. a \in Seq(Transfers) /\ Plain(a)
    BY <1>3, ClearIsPlain, PlainConcat
  <2> HIDE DEF q, a
  <2>2. Len(a) = 2 + 2
    <3>1. IsConcat(a, q, Clear) /\ q \in Seq(Transfers) /\ Clear \in Seq(Transfers)
      BY <1>2, <1>3, ClearIsPlain
    <3>2. Len(a) = Len(q) + Len(Clear)
      BY ONLY <3>1, ConcatAt
    <3> QED BY <1>3, <3>2, ClearIsPlain
  <2> QED BY <2>1, <2>2
<1> HIDE DEF q, p, r, a, b, c
<1>5. /\ b \in Seq(Transfers) /\ Len(b) = 6 /\ \A k \in 1 .. 4 : b[k] = a[k]
      /\ b[5] = o3 /\ b[6] = x
  <2>0. IsConcat(b, a, p) /\ a \in Seq(Transfers) /\ p \in Seq(Transfers)
    BY <1>2, <1>3, <1>4
  <2>1. /\ b \in Seq(Transfers) /\ Len(b) = Len(a) + Len(p)
        /\ \A k \in 1 .. Len(a) : b[k] = a[k]
        /\ \A k \in 1 .. Len(p) : b[Len(a) + k] = p[k]
    BY ONLY <2>0, ConcatAt
  <2>2. b[4 + 1] = p[1] /\ b[4 + 2] = p[2]
    BY <1>2, <1>3, <1>4, <2>1
  <2> QED BY <1>2, <1>3, <1>4, <2>1, <2>2
<1>6. /\ c \in Seq(Transfers) /\ Len(c) = 8 /\ \A k \in 1 .. 6 : c[k] = b[k]
      /\ c[7] = Clear[1] /\ c[8] = Clear[2]
  <2>0. IsConcat(c, b, Clear) /\ b \in Seq(Transfers) /\ Clear \in Seq(Transfers)
    BY <1>2, <1>5, ClearIsPlain
  <2>1. /\ c \in Seq(Transfers) /\ Len(c) = Len(b) + Len(Clear)
        /\ \A k \in 1 .. Len(b) : c[k] = b[k]
        /\ \A k \in 1 .. Len(Clear) : c[Len(b) + k] = Clear[k]
    BY ONLY <2>0, ConcatAt
  <2>2. c[6 + 1] = Clear[1] /\ c[6 + 2] = Clear[2]
    BY <1>2, <1>5, ClearIsPlain, <2>1
  <2> QED BY <1>2, <1>5, ClearIsPlain, <2>1, <2>2
<1>7. s \in Seq(Transfers) /\ Len(s) = 9 /\ (\A k \in 1 .. 8 : s[k] = c[k]) /\ s[9] = y
  <2>0. IsConcat(s, c, r) /\ c \in Seq(Transfers) /\ r \in Seq(Transfers)
    BY <1>2, <1>3, <1>6
  <2>1. /\ s \in Seq(Transfers) /\ Len(s) = Len(c) + Len(r)
        /\ \A k \in 1 .. Len(c) : s[k] = c[k]
        /\ \A k \in 1 .. Len(r) : s[Len(c) + k] = r[k]
    BY ONLY <2>0, ConcatAt
  <2>2. s[8 + 1] = r[1]
    BY <1>2, <1>3, <1>6, <2>1
  <2> QED BY <1>2, <1>3, <1>6, <2>1, <2>2
<1>8. DOMAIN s = 1 .. 9 /\ s[6] = x /\ s[9] = y
  BY <1>5, <1>6, <1>7
<1>9. ASSUME NEW k \in DOMAIN s, k # 6, k # 9
      PROVE  IsPlain(s[k])
  <2>1. k \in 1 .. 4 \/ k = 5 \/ k = 7 \/ k = 8
    BY <1>8, <1>9
  <2>2. k \in 1 .. 4 => IsPlain(s[k])
    BY <1>4, <1>5, <1>6, <1>7 DEF Plain
  <2>3. IsPlain(s[5]) /\ IsPlain(s[7]) /\ IsPlain(s[8])
    BY <1>1, <1>5, <1>6, <1>7, ClearIsPlain DEF Plain
  <2> QED BY <2>1, <2>2, <2>3
<1>10. 6 \in DOMAIN s /\ 9 \in DOMAIN s /\ DOMAIN s \subseteq Nat \ {0} /\ 6 < 9
  BY <1>8
<1>11. Paired(s) /\ ~Due(s) /\ (Looks(s) <=> IsLook(s[6]))
  BY <1>1, <1>8, <1>9, <1>10, ExchangeSection
<1> QED BY <1>1, <1>7, <1>8, <1>11 DEF Tidy, s

(* Leaving out later sections does not change what a section asks and reads. *)
LEMMA StrictTidy ==
  ASSUME NEW s \in Seq(Transfers), Tidy(s)
  PROVE  Tidy(Strict(s)) /\ (Commands(s) => Commands(Strict(s)))
<1> DEFINE r == Strict(s)
<1>1. DOMAIN r = DOMAIN s /\ \A i \in DOMAIN s : r[i] = [s[i] EXCEPT !.skip = @ + 1]
  BY DEF Strict
<1>2. ASSUME NEW x \in Transfers
      PROVE  LET y == [x EXCEPT !.skip = @ + 1] IN
             /\ y \in Transfers /\ y.checked = x.checked
             /\ IsRead(y) <=> IsRead(x)
             /\ IsAsking(y) <=> IsAsking(x)
             /\ IsLook(y) <=> IsLook(x)
             /\ IsCommand(y) <=> IsCommand(x)
  <2> DEFINE y == [x EXCEPT !.skip = @ + 1]
  <2>1. /\ y.urb = x.urb /\ y.comp = x.comp /\ y.late = x.late
        /\ y.asks = x.asks /\ y.checked = x.checked
    BY DEF Transfers
  <2>2. y \in Transfers
    <3>1. x.urb \in Urbs /\ x.comp \in Comps /\ x.late \in {"leave", "kill", "reinit"}
      BY DEF Transfers
    <3>2. /\ x.skip + 1 \in Nat /\ x.asks \in {"nothing", "answer", "slot"}
          /\ x.checked \in BOOLEAN /\ (x.asks = "slot" => x.urb = "tx")
      BY DEF Transfers
    <3>3. y = [urb |-> x.urb, comp |-> x.comp, late |-> x.late, skip |-> x.skip + 1,
               asks |-> x.asks, checked |-> x.checked]
      BY DEF Transfers
    <3> HIDE DEF y
    <3> QED BY <3>1, <3>2, <3>3 DEF Transfers
  <2> HIDE DEF y
  <2>3. /\ y \in Transfers /\ y.checked = x.checked
        /\ IsRead(y) <=> IsRead(x)
        /\ IsAsking(y) <=> IsAsking(x)
        /\ IsLook(y) <=> IsLook(x)
        /\ IsCommand(y) <=> IsCommand(x)
    BY <2>1, <2>2 DEF IsRead, IsAsking, IsLook, IsCommand
  <2> QED BY <2>3 DEF y
<1> HIDE DEF r
<1>3. ASSUME NEW i \in DOMAIN s
      PROVE  /\ r[i] \in Transfers /\ r[i].checked = s[i].checked
             /\ IsRead(r[i]) <=> IsRead(s[i])
             /\ IsAsking(r[i]) <=> IsAsking(s[i])
             /\ IsLook(r[i]) <=> IsLook(s[i])
             /\ IsCommand(r[i]) <=> IsCommand(s[i])
  <2>1. s[i] \in Transfers /\ r[i] = [s[i] EXCEPT !.skip = @ + 1]
    BY <1>1
  <2> QED BY <1>2, <2>1
<1>4. r \in Seq(Transfers)
  <2>1. r \in [1 .. Len(s) -> Transfers]
    BY <1>1, <1>3 DEF r, Strict
  <2> QED BY <2>1
<1>5. ASSUME NEW i PROVE DueAt(r, i) <=> DueAt(s, i)
  BY <1>1, <1>3 DEF DueAt
<1>6. Paired(r) /\ ~Due(r)
  BY <1>1, <1>3, <1>5 DEF Tidy, Paired, Due
<1>7. ~Looks(r) /\ (Commands(s) => Commands(r))
  BY <1>1, <1>3 DEF Tidy, Looks, Commands
<1> QED BY <1>4, <1>6, <1>7 DEF Tidy, r

(* Calls all of whose sections are tidy.                                    *)
TidySections == {s \in Seq(Transfers) : Tidy(s)}

LEMMA TidyCalls ==
  ASSUME NEW c \in Seq(TidySections), c # <<>>
  PROVE  c \in Seq(Seq(Transfers)) \ {<<>>} /\ Orderly(c)
<1>1. c \in Seq(Seq(Transfers))
  BY DEF TidySections
<1>2. \A i \in DOMAIN c : Tidy(c[i])
  BY DEF TidySections
<1> QED BY <1>1, <1>2, TidyCall

LEMMA SeveralTidy ==
  ASSUME NEW n \in Nat
  PROVE  /\ Several(n) \in Seq(TidySections)
         /\ [i \in 1 .. n |-> Strict(DebugCommand)] \in Seq(TidySections)
         /\ n # 0 => Several(n) # <<>>
<1>1. DebugCommand \in TidySections /\ Strict(DebugCommand) \in TidySections
  BY DebugTidy, StrictTidy DEF TidySections, Tidy
<1> DEFINE d == DebugCommand  e == Strict(DebugCommand)
           f == [i \in 1 .. n |-> d]  g == [i \in 1 .. n |-> e]
<1> HIDE DEF d, e
<1>2. f \in [1 .. n -> TidySections] /\ g \in [1 .. n -> TidySections]
  BY <1>1 DEF d, e
<1>3. f \in Seq(TidySections) /\ g \in Seq(TidySections)
  BY <1>2
<1>4. n # 0 => f # <<>>
  <2> HIDE DEF f
  <2>1. n # 0 => 1 \in DOMAIN f
    BY <1>2
  <2> QED BY <2>1
<1> QED BY <1>3, <1>4 DEF Several, d, e

(* An I2C command: what is looked at comes after the admin command.         *)
LEMMA I2cOrderly ==
  ASSUME NEW s, Tidy(s), Commands(s)
  PROVE  <<s, ReadSlot>> \in Seq(Seq(Transfers)) \ {<<>>} /\ Orderly(<<s, ReadSlot>>)
<1> DEFINE c == <<s, ReadSlot>>
<1>1. /\ c \in Seq(Seq(Transfers)) /\ c # <<>> /\ DOMAIN c = {1, 2}
      /\ c[1] = s /\ c[2] = ReadSlot
  BY DebugTidy DEF Tidy
<1> HIDE DEF c
<1>2. Orderly(c)
  BY <1>1, DebugTidy DEF Orderly, Tidy
<1> QED BY <1>1, <1>2 DEF c

(* The calls of the driver, with n pieces or chips and p looks for the      *)
(* outcome of an update.                                                    *)
DriverSections(n) ==
  {SetValue, MpuSize, ConfigMpuGroup, ResetDevice, FlashDownload(n), SeparateConfig(n),
   SeparateWtmem(n), WriteReg(n), ReadReg, FwUpdateStatus, DebugCommand, Admin, WritePieces(n)}

DriverCalls(n, p) ==
  {<<s>> : s \in DriverSections(n)}
  \cup {I2cIoctl, I2cFile, FileCommand, FileLog, Utilization, GpioFile,
        SetThermal(n), EnableDebug(n), UpdateFlash(n, p)}

(* Every call of the driver, of any length, is one that AnswerCorrect is    *)
(* about: each section reads once for each time that it asks and after it   *)
(* has asked, and an I2C command looks into the slot after its own admin    *)
(* command.                                                                 *)
THEOREM CallsOfTheDriver ==
  ASSUME NEW n \in Nat \ {0}, NEW p \in Nat, NEW c \in DriverCalls(n, p)
  PROVE  c \in Seq(Seq(Transfers)) \ {<<>>} /\ Orderly(c)
<1>1. ASSUME NEW s \in DriverSections(n)
      PROVE  Tidy(s)
  BY SendingSections, WritePiecesTidy, DebugTidy, AdminTidy, FwUpdateTidy, FlashTidy, ReadRegTidy
     DEF DriverSections, MpuSize
<1>2. ASSUME NEW s, Tidy(s)
      PROVE  <<s>> \in Seq(TidySections) /\ <<s>> # <<>>
  <2>1. s \in TidySections
    BY <1>2 DEF Tidy, TidySections
  <2> QED BY <2>1
<1>3. CASE \E s \in DriverSections(n) : c = <<s>>
  <2>1. PICK s \in DriverSections(n) : c = <<s>>
    BY <1>3
  <2>2. Tidy(s)
    BY <1>1
  <2>3. c \in Seq(TidySections) /\ c # <<>>
    BY <1>2, <2>1, <2>2
  <2> QED BY <2>3, TidyCalls
<1>4. CASE c \in {FileCommand, FileLog, Utilization, GpioFile}
  <2>1. c = <<DebugCommand>> \/ c = <<Admin>>
    BY <1>4 DEF FileCommand, FileLog, GetLogbuffer, Utilization, FeatureReadChip0, GpioFile
  <2>2. c \in Seq(TidySections) /\ c # <<>>
    BY <1>2, <2>1, DebugTidy, AdminTidy
  <2> QED BY <2>2, TidyCalls
<1>5. CASE c \in {I2cIoctl, I2cFile}
  <2>1. Tidy(Strict(Admin)) /\ Commands(Strict(Admin))
    BY AdminTidy, StrictTidy DEF Tidy
  <2> QED BY <1>5, <2>1, AdminTidy, I2cOrderly DEF I2cIoctl, I2cFile
<1>6. CASE c = SetThermal(n)
  BY <1>6, SeveralTidy, TidyCalls DEF SetThermal
<1>7. CASE c = EnableDebug(n)
  <2> DEFINE a == <<Strict(DebugCommand)>>  b == Several(n)
  <2>1. a \in Seq(TidySections) /\ a # <<>> /\ b \in Seq(TidySections)
    BY <1>2, DebugTidy, StrictTidy, SeveralTidy DEF Tidy
  <2> HIDE DEF a, b
  <2>2. a \o b \in Seq(TidySections) /\ a \o b # <<>>
    BY <2>1
  <2>3. c = a \o b
    BY <1>7 DEF EnableDebug, DbgfsEnable, a, b
  <2> QED BY <2>2, <2>3, TidyCalls
<1>8. CASE c = UpdateFlash(n, p)
  <2> DEFINE a == Several(n)  b == [i \in 1 .. p |-> Strict(DebugCommand)]
  <2>1. a \in Seq(TidySections) /\ a # <<>> /\ b \in Seq(TidySections)
    BY SeveralTidy
  <2>2. c = a \o b
    BY <1>8 DEF UpdateFlash
  <2> HIDE DEF a, b
  <2>3. a \o b \in Seq(TidySections) /\ a \o b # <<>>
    BY <2>1
  <2> QED BY <2>2, <2>3, TidyCalls
<1> QED BY <1>3, <1>4, <1>5, <1>6, <1>7, <1>8 DEF DriverCalls
=============================================================================
