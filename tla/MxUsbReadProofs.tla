--------------------------- MODULE MxUsbReadProofs --------------------------
(* Theorems about the USB read path, for any number of threads, any choice  *)
(* of what they call and any number of transfers.                           *)
EXTENDS MxUsbRead, FiniteSetTheorems, TLAPS

\* The definitions every step is made of.
USE DEF Goto, Leave, dataVars, waitVars, histVars

-----------------------------------------------------------------------------
(* The open files are counted.                                              *)

Handles == {t \in Threads : pc[t] # "out"}
CountInv == refcount = Cardinality(Handles)

LEMMA HandlesFinite == IsFiniteSet(Handles) /\ Cardinality(Handles) \in Nat
<1>1. IsFiniteSet(Handles)
  BY FS_Subset, ReadAssumption DEF Handles, ReadAssumption
<1> QED BY <1>1, FS_CardinalityType

(* A thread with an open file, which may be in a call, is counted.          *)
LEMMA SomeHandle ==
  ASSUME CountInv, NEW t \in Threads, pc[t] # "out"
  PROVE  refcount \in Nat /\ refcount # 0
<1>1. Handles # {}
  BY DEF Handles
<1> QED BY <1>1, HandlesFinite, FS_EmptySet DEF CountInv

(* With a count of zero nothing is open.                                    *)
LEMMA NoHandle ==
  ASSUME CountInv, refcount = 0
  PROVE  \A t \in Threads : pc[t] = "out"
BY SomeHandle

-----------------------------------------------------------------------------
(* Type correctness.                                                        *)

LEMMA TypeInit == Init => TypeOK /\ CountInv
<1> SUFFICES ASSUME Init PROVE TypeOK /\ CountInv
  OBVIOUS
<1>1. TypeOK
  <2>1. overtaken \in [Threads -> BOOLEAN]
    BY Zenon DEF Init
  <2>2. /\ aborted \in BOOLEAN /\ unlinking \in BOOLEAN /\ length \in BOOLEAN
        /\ blank \in BOOLEAN /\ badCopy \in BOOLEAN
    BY Zenon DEF Init
  <2>3. /\ pc \in [Threads -> PC] /\ mine \in [Threads -> 0 .. transfers]
        /\ transfers \in 0 .. MaxTransfers /\ flying \in 0 .. transfers
    BY ReadAssumption DEF Init, ReadAssumption, PC
  <2> QED BY <2>1, <2>2, <2>3 DEF Init, TypeOK
<1>2. CountInv
  <2>1. Handles = {}
    BY DEF Init, Handles
  <2> QED BY <2>1, FS_EmptySet DEF Init, CountInv
<1> QED BY <1>1, <1>2

(* Only open and release change the set of open files.                      *)
LEMMA SameHandles ==
  ASSUME TypeOK, CountInv, UNCHANGED refcount,
         \A t \in Threads : pc'[t] = "out" <=> pc[t] = "out"
  PROVE  CountInv'
<1>1. Handles' = Handles
  BY DEF Handles
<1> QED BY <1>1 DEF CountInv

LEMMA OpenCounted ==
  ASSUME TypeOK, CountInv, NEW t \in Threads, Open(t)
  PROVE  CountInv' /\ refcount' \in Nat
<1>1. t \notin Handles /\ Handles' = Handles \cup {t}
  BY DEF TypeOK, Handles, Open
<1>2. Cardinality(Handles') = Cardinality(Handles) + 1
  BY <1>1, HandlesFinite, FS_AddElement
<1> QED BY <1>2, HandlesFinite DEF CountInv, Open

LEMMA ReleaseCounted ==
  ASSUME TypeOK, CountInv, NEW t \in Threads, Release(t)
  PROVE  CountInv' /\ refcount' \in Nat
<1>1. t \in Handles /\ Handles' = Handles \ {t}
  BY DEF TypeOK, Handles, Release
<1>2. Cardinality(Handles') = Cardinality(Handles) - 1
  BY <1>1, HandlesFinite, FS_RemoveElement
<1>3. refcount \in Nat /\ refcount # 0
  BY <1>1, SomeHandle DEF Handles
<1> QED BY <1>2, <1>3 DEF CountInv, Release

(* Every location of a thread is one of PC.                                 *)
LEMMA Locations ==
  /\ {"out", "open", "dmCfg", "abCfg", "abSet", "ctlCfg", "abUnlink", "ctl"} \subseteq PC
  /\ Reading \subseteq PC /\ Dummying \subseteq PC
BY DEF PC, InCfg, Reading, Dummying

(* A move to a known location keeps the type of pc.                         *)
LEMMA GotoType ==
  ASSUME TypeOK, NEW t \in Threads, NEW from, NEW to \in PC, Goto(t, from, to)
  PROVE  pc' \in [Threads -> PC]
BY DEF TypeOK

(* What all steps but open and release do to the files: nothing.            *)
Inside(t) ==
  \/ Read(t) \/ Ioctl(t) \/ RdSignal(t) \/ RdLock(t) \/ Lock(t) \/ DmLock(t)
  \/ Proceed(t)

LEMMA InsideCounted ==
  ASSUME TypeOK, CountInv, NEW t \in Threads, Inside(t)
  PROVE  CountInv'
<1>1. CASE Read(t) \/ Ioctl(t) \/ Lock(t) \/ AbortSet(t) \/ AbortUnlink(t) \/ ControlDone(t)
  BY <1>1, SameHandles DEF TypeOK, Read, Ioctl, Lock, AbortSet, AbortUnlink, ControlDone
<1>2. CASE RdSignal(t) \/ RdLock(t) \/ RdSubmit(t) \/ RdSubmitFails(t) \/ RdWake(t) \/ RdSleep(t)
  BY <1>2, SameHandles
  DEF TypeOK, RdSignal, RdLock, RdSubmit, RdSubmitFails, RdWake, RdSleep
<1>3. CASE RdCheck(t) \/ RdKill(t) \/ RdCopy(t) \/ RdCopyFails(t)
  BY <1>3, SameHandles DEF TypeOK, RdCheck, RdKill, RdCopy, RdCopyFails
<1>4. CASE DmLock(t) \/ DmSubmit(t) \/ DmSubmitFails(t) \/ DmDone(t) \/ DmLate(t) \/ DmKill(t)
  BY <1>4, SameHandles
  DEF TypeOK, DmLock, DmSubmit, DmSubmitFails, DmDone, DmLate, DmKill
<1> QED BY <1>1, <1>2, <1>3, <1>4 DEF Inside, Proceed

LEMMA DeviceCounted ==
  ASSUME TypeOK, CountInv, Packet \/ NoPacket \/ Unlinked
  PROVE  CountInv'
BY SameHandles DEF TypeOK, Packet, NoPacket, Unlinked, Complete

(* Submitting rxurb.                                                        *)
LEMMA SubmitType ==
  ASSUME TypeOK, NEW t \in Threads, Submit(t)
  PROVE  /\ transfers' \in 0 .. MaxTransfers /\ flying' \in 0 .. transfers'
         /\ unlinking' \in BOOLEAN /\ length' \in BOOLEAN /\ blank' \in BOOLEAN
         /\ mine' \in [Threads -> 0 .. transfers']
<1>1. transfers \in Nat /\ MaxTransfers \in Nat
  BY ReadAssumption DEF ReadAssumption, TypeOK
<1>2. transfers' \in 0 .. MaxTransfers /\ flying' \in 0 .. transfers'
  BY <1>1 DEF TypeOK, Submit
<1>3. \A n \in 0 .. transfers : n \in 0 .. transfers'
  BY <1>1 DEF Submit
<1>4. mine' \in [Threads -> 0 .. transfers']
  BY <1>1, <1>3 DEF TypeOK, Submit
<1> QED BY <1>2, <1>4, Zenon DEF Submit

(* A URB that is idle is under way for submission 0.                        *)
LEMMA IdleType ==
  ASSUME TypeOK
  PROVE  0 \in 0 .. transfers /\ FALSE \in BOOLEAN /\ TRUE \in BOOLEAN
BY DEF TypeOK

(* The return of a read or dummy read.                                      *)
LEMMA LeaveType ==
  ASSUME TypeOK, NEW t \in Threads, NEW from, Leave(t, from)
  PROVE  /\ pc' \in [Threads -> PC] /\ overtaken' \in [Threads -> BOOLEAN]
         /\ readlock' \in Threads \cup {NoThread}
<1>1. pc' \in [Threads -> PC]
  BY Locations DEF TypeOK
<1>2. overtaken' \in [Threads -> BOOLEAN]
  BY Zenon DEF TypeOK
<1> QED BY <1>1, <1>2

LEMMA InsideType ==
  ASSUME TypeOK, NEW t \in Threads, Inside(t)
  PROVE  TypeOK'
<1> USE Locations DEF Reading, Dummying
<1>1. CASE Read(t) \/ Ioctl(t) \/ Lock(t)
  BY <1>1, ZenonT(30) DEF TypeOK, Read, Ioctl, Lock
<1>2. CASE AbortSet(t) \/ AbortUnlink(t) \/ ControlDone(t)
  BY <1>2 DEF TypeOK, AbortSet, AbortUnlink, ControlDone
<1>3. CASE RdSignal(t) \/ RdLock(t) \/ RdWake(t) \/ RdSleep(t)
  BY <1>3 DEF TypeOK, RdSignal, RdLock, RdWake, RdSleep
<1>4. CASE RdSubmit(t) \/ DmSubmit(t)
  BY <1>4, SubmitType DEF TypeOK, RdSubmit, DmSubmit
<1>5. CASE RdSubmitFails(t) \/ RdCheck(t)
  BY <1>5 DEF TypeOK, RdSubmitFails, RdCheck
<1>6. CASE RdKill(t) \/ DmKill(t)
  <2>1. \/ Leave(t, "rdKill") \/ Leave(t, "dmKill")
    BY <1>6 DEF RdKill, DmKill
  <2>2. flying' \in 0 .. transfers' /\ done' \in Nat /\ cfglock' \in Threads \cup {NoThread}
    BY <1>6, IdleType DEF TypeOK, RdKill, DmKill
  <2>3. unlinking' \in BOOLEAN
    BY <1>6 DEF RdKill, DmKill
  <2>4. UNCHANGED <<refcount, aborted, transfers, dataVars, mine, copied, badCopy>>
    BY <1>6 DEF RdKill, DmKill
  <2> HIDE DEF Leave
  <2> QED BY <2>1, <2>2, <2>3, <2>4, LeaveType DEF TypeOK
<1>7. CASE RdCopy(t) \/ RdCopyFails(t)
  <2>1. Leave(t, "rdCopy")
    BY <1>7 DEF RdCopy, RdCopyFails
  <2>2. done' \in Nat /\ copied' \in Nat
    BY <1>7 DEF TypeOK, RdCopy, RdCopyFails
  <2>3. badCopy' \in BOOLEAN
    BY <1>7 DEF TypeOK, RdCopy, RdCopyFails
  <2>4. UNCHANGED <<cfglock, refcount, aborted, transfers, flying, unlinking, dataVars, mine>>
    BY <1>7 DEF RdCopy, RdCopyFails
  <2> HIDE DEF Leave
  <2> QED BY <2>1, <2>2, <2>3, <2>4, LeaveType DEF TypeOK
<1>8. CASE DmLock(t) \/ DmSubmitFails(t) \/ DmLate(t)
  BY <1>8 DEF TypeOK, DmLock, DmSubmitFails, DmLate
<1>9. CASE DmDone(t)
  <2>1. done' \in Nat
    BY <1>9 DEF TypeOK, DmDone
  <2> QED BY <1>9, <2>1 DEF TypeOK, DmDone
<1> QED BY <1>1, <1>2, <1>3, <1>4, <1>5, <1>6, <1>7, <1>8, <1>9 DEF Inside, Proceed

LEMMA DeviceType ==
  ASSUME TypeOK, Packet \/ NoPacket \/ Unlinked
  PROVE  TypeOK'
<1>1. pc' \in [Threads -> PC]
  BY Locations DEF TypeOK, Packet, NoPacket, Unlinked, Complete, Reading
<1>2. done' \in Nat /\ packet' \in Nat
  BY DEF TypeOK, Packet, NoPacket, Unlinked, Complete
<1> QED BY <1>1, <1>2, IdleType DEF TypeOK, Packet, NoPacket, Unlinked, Complete

LEMMA FileType ==
  ASSUME TypeOK, CountInv, NEW t \in Threads, Open(t) \/ Release(t)
  PROVE  TypeOK'
<1>1. refcount' \in Nat
  BY OpenCounted, ReleaseCounted
<1> QED BY <1>1, Locations DEF TypeOK, Open, Release

(* A step is one of a thread at its files, of a thread in a call, or of the *)
(* device and its controller.                                               *)
LEMMA Steps ==
  ASSUME [Next]_vars
  PROVE  \/ UNCHANGED vars
         \/ \E t \in Threads : Open(t) \/ Release(t)
         \/ \E t \in Threads : Inside(t)
         \/ Packet \/ NoPacket \/ Unlinked
BY DEF Next, Inside

LEMMA TypeStep == TypeOK /\ CountInv /\ [Next]_vars => TypeOK' /\ CountInv'
<1> SUFFICES ASSUME TypeOK, CountInv, [Next]_vars PROVE TypeOK' /\ CountInv'
  OBVIOUS
<1>1. CASE UNCHANGED vars
  BY <1>1 DEF TypeOK, CountInv, Handles, vars
<1>2. CASE \E t \in Threads : Open(t) \/ Release(t)
  BY <1>2, FileType, OpenCounted, ReleaseCounted
<1>3. CASE \E t \in Threads : Inside(t)
  BY <1>3, InsideType, InsideCounted
<1>4. CASE Packet \/ NoPacket \/ Unlinked
  BY <1>4, DeviceType, DeviceCounted
<1> QED BY <1>1, <1>2, <1>3, <1>4, Steps

(* Every variable of the read path keeps its type: in particular no release *)
(* takes reference_count below zero.                                        *)
THEOREM TypeCorrect == Spec => []TypeOK
<1> QED BY TypeInit, TypeStep, PTL DEF Spec

(* An abort is withdrawn by the reader it ends, or by the first open of a   *)
(* new session: memx_open resets the state for a count of zero only.        *)
THEOREM AbortTakenCorrect == Spec => AbortIsTaken
<1>1. ASSUME TypeOK, CountInv, [Next]_vars, aborted, ~aborted'
      PROVE  \/ \E t \in Threads : pc'[t] = "rdKill" /\ pc[t] # "rdKill"
             \/ \A t \in Threads : pc[t] = "out"
  <2>1. CASE UNCHANGED vars
    BY <1>1, <2>1 DEF vars
  <2>2. CASE \E t \in Threads : Open(t) \/ Release(t)
    BY <1>1, <2>2, NoHandle DEF Open, Release
  <2>3. CASE \E t \in Threads : Inside(t)
    <3> PICK t \in Threads : Inside(t)
      BY <2>3
    <3>1. RdCheck(t)
      BY <1>1 DEF Inside, Proceed, Read, Ioctl, RdSignal, RdLock, Lock, DmLock, RdSubmit,
                  RdSubmitFails, RdWake, RdSleep, RdKill, RdCopy, RdCopyFails, DmSubmit,
                  DmSubmitFails, DmDone, DmLate, DmKill, AbortSet, AbortUnlink, ControlDone
    <3> QED BY <1>1, <3>1 DEF RdCheck, TypeOK
  <2>4. CASE Packet \/ NoPacket \/ Unlinked
    BY <1>1, <2>4 DEF Packet, NoPacket, Unlinked
  <2> QED BY <1>1, <2>1, <2>2, <2>3, <2>4, Steps
<1>2. TypeOK /\ CountInv /\ [Next]_vars =>
        [aborted /\ ~aborted' => \/ \E t \in Threads : pc'[t] = "rdKill" /\ pc[t] # "rdKill"
                                 \/ \A t \in Threads : pc[t] = "out"]_vars
  BY <1>1
<1> QED BY TypeInit, TypeStep, <1>2, PTL DEF Spec, AbortIsTaken

-----------------------------------------------------------------------------
(* readlock.                                                                *)

(* A thread is between lock and unlock exactly if the lock is its own.      *)
LockInv == \A t \in Threads : pc[t] \in InRead <=> readlock = t

LEMMA LockInit == Init => LockInv
BY ReadAssumption DEF ReadAssumption, Init, LockInv, InRead, Reading, Dummying

LEMMA LockInside ==
  ASSUME TypeOK, LockInv, NEW t \in Threads, Inside(t)
  PROVE  LockInv'
<1> USE DEF TypeOK, LockInv, InRead, Reading, Dummying
<1>1. CASE Read(t) \/ Ioctl(t) \/ Lock(t) \/ AbortSet(t) \/ AbortUnlink(t) \/ ControlDone(t)
  BY <1>1 DEF Read, Ioctl, Lock, AbortSet, AbortUnlink, ControlDone
<1>2. CASE RdLock(t) \/ DmLock(t)
  BY <1>2, ReadAssumption DEF ReadAssumption, RdLock, DmLock
<1>3. CASE RdSignal(t) \/ RdSubmit(t) \/ RdWake(t) \/ RdSleep(t) \/ RdCheck(t)
  BY <1>3 DEF RdSignal, RdSubmit, RdWake, RdSleep, RdCheck
<1>4. CASE RdSubmitFails(t) \/ RdKill(t) \/ RdCopy(t) \/ RdCopyFails(t)
  BY <1>4, ReadAssumption DEF ReadAssumption, RdSubmitFails, RdKill, RdCopy, RdCopyFails
<1>5. CASE DmSubmit(t) \/ DmLate(t)
  BY <1>5 DEF DmSubmit, DmLate
<1>6. CASE DmSubmitFails(t) \/ DmDone(t) \/ DmKill(t)
  BY <1>6, ReadAssumption DEF ReadAssumption, DmSubmitFails, DmDone, DmKill
<1> QED BY <1>1, <1>2, <1>3, <1>4, <1>5, <1>6 DEF Inside, Proceed

LEMMA LockStep == TypeOK /\ LockInv /\ [Next]_vars => LockInv'
<1> SUFFICES ASSUME TypeOK, LockInv, [Next]_vars PROVE LockInv'
  OBVIOUS
<1>1. CASE UNCHANGED vars
  BY <1>1 DEF LockInv, vars
<1>2. CASE \E t \in Threads : Open(t) \/ Release(t)
  BY <1>2 DEF TypeOK, LockInv, InRead, Reading, Dummying, Open, Release
<1>3. CASE \E t \in Threads : Inside(t)
  BY <1>3, LockInside
<1>4. CASE Packet \/ NoPacket \/ Unlinked
  BY <1>4 DEF TypeOK, LockInv, InRead, Reading, Dummying, Packet, NoPacket, Unlinked, Complete
<1> QED BY <1>1, <1>2, <1>3, <1>4, Steps

-----------------------------------------------------------------------------
(* Packets are copied in their order.                                       *)

(* Where a thread is after its submission of rxurb.                         *)
Submitted == {"rdWait", "rdAsleep", "rdWoken", "rdSignal", "rdKill", "rdCopy", "dmWait", "dmKill"}

(* What is in rbuffer has not been copied while its reader may still do so. *)
CopiedInv ==
  /\ copied <= packet
  /\ \A t \in Threads : pc[t] \in Submitted /\ length => packet > copied

LEMMA CopiedInside ==
  ASSUME TypeOK, LockInv, CopiedInv, NEW t \in Threads, Inside(t)
  PROVE  CopiedInv'
<1> USE DEF TypeOK, CopiedInv, Submitted
<1>1. CASE Read(t) \/ Ioctl(t) \/ Lock(t) \/ AbortSet(t) \/ AbortUnlink(t) \/ ControlDone(t)
  BY <1>1 DEF Read, Ioctl, Lock, AbortSet, AbortUnlink, ControlDone
<1>2. CASE RdLock(t) \/ DmLock(t) \/ RdSignal(t) \/ RdWake(t) \/ RdSleep(t) \/ RdCheck(t)
  BY <1>2 DEF RdLock, DmLock, RdSignal, RdWake, RdSleep, RdCheck
<1>3. CASE RdSubmit(t) \/ DmSubmit(t)
  BY <1>3 DEF RdSubmit, DmSubmit, Submit
<1>4. CASE RdSubmitFails(t) \/ RdKill(t) \/ RdCopyFails(t)
  BY <1>4 DEF RdSubmitFails, RdKill, RdCopyFails
<1>5. CASE RdCopy(t)
  <2>1. \A u \in Threads : pc'[u] \notin Submitted
    BY <1>5 DEF LockInv, InRead, Reading, Dummying, RdCopy
  <2> QED BY <1>5, <2>1 DEF RdCopy
<1>6. CASE DmSubmitFails(t) \/ DmDone(t) \/ DmKill(t) \/ DmLate(t)
  BY <1>6 DEF DmSubmitFails, DmDone, DmKill, DmLate
<1> QED BY <1>1, <1>2, <1>3, <1>4, <1>5, <1>6 DEF Inside, Proceed

LEMMA CopiedStep == TypeOK /\ LockInv /\ CopiedInv /\ [Next]_vars => CopiedInv'
<1> SUFFICES ASSUME TypeOK, LockInv, CopiedInv, [Next]_vars PROVE CopiedInv'
  OBVIOUS
<1>1. CASE UNCHANGED vars
  BY <1>1 DEF CopiedInv, vars
<1>2. CASE \E t \in Threads : Open(t) \/ Release(t)
  BY <1>2 DEF TypeOK, CopiedInv, Submitted, Open, Release
<1>3. CASE \E t \in Threads : Inside(t)
  BY <1>3, CopiedInside
<1>4. CASE Packet
  BY <1>4 DEF TypeOK, CopiedInv, Packet, Complete
<1>5. CASE NoPacket \/ Unlinked
  BY <1>5 DEF TypeOK, CopiedInv, Submitted, NoPacket, Unlinked, Complete
<1> QED BY <1>1, <1>2, <1>3, <1>4, <1>5, Steps

(* A packet reaches one reader at most and packets keep their order, bad    *)
(* buffers included: memx_read copies only what its own transfer brought.   *)
THEOREM DeliveredCorrect == Spec => []DeliveredOnce
<1>1. Init => TypeOK /\ CountInv /\ LockInv /\ CopiedInv
  BY TypeInit, LockInit DEF Init, CopiedInv, Submitted
<1>2. TypeOK /\ CountInv /\ LockInv /\ CopiedInv /\ [Next]_vars
      => TypeOK' /\ CountInv' /\ LockInv' /\ CopiedInv'
  BY TypeStep, LockStep, CopiedStep
<1>3. CopiedInv => DeliveredOnce
  BY DEF CopiedInv, DeliveredOnce, Submitted
<1> QED BY <1>1, <1>2, <1>3, PTL DEF Spec

-----------------------------------------------------------------------------
(* rxurb and its completion are the business of one thread.                 *)

\* rxurb is under way for t's submission, or is over and counted once.
Own(t) ==
  /\ mine[t] = transfers
  /\ \/ flying = transfers /\ done = 0
     \/ flying = 0 /\ done = 1

Waits == {"rdWait", "rdAsleep", "rdWoken", "rdSignal", "rdCopy", "dmWait"}

(* As long as no user gave a bad buffer.  A reader goes on to copy only     *)
(* with its completion counted: only it can withdraw the abort that is the  *)
(* other way out of the wait, since it keeps its file open.                 *)
UrbInv ==
  ~badCopy =>
    /\ readlock = NoThread => flying = 0 /\ done = 0
    /\ \A t \in Threads :
         /\ pc[t] \in {"rdFill", "dmFill"} => flying = 0 /\ done = 0
         /\ pc[t] \in Waits => transfers # 0 /\ Own(t)
         /\ pc[t] = "rdWoken" => done = 1 \/ aborted
         /\ pc[t] = "rdCopy" => done = 1

LEMMA UrbInit == Init => UrbInv
BY DEF Init, UrbInv, Waits

(* What submitting and idling do to the others: they have no readlock.      *)
LEMMA Alone ==
  ASSUME LockInv, NEW t \in Threads, pc[t] \in InRead, NEW u \in Threads, u # t
  PROVE  pc[u] \notin InRead /\ readlock # NoThread
BY ReadAssumption DEF ReadAssumption, LockInv

LEMMA UrbInside ==
  ASSUME TypeOK, LockInv, UrbInv, NEW t \in Threads, Inside(t), ~badCopy'
  PROVE  UrbInv'
<1> USE DEF TypeOK, UrbInv, Own, Waits
<1>0. ~badCopy
  BY DEF Inside, Proceed, Read, Ioctl, RdSignal, RdLock, Lock, DmLock, RdSubmit, RdSubmitFails,
         RdWake, RdSleep, RdCheck, RdKill, RdCopy, RdCopyFails, DmSubmit, DmSubmitFails,
         DmDone, DmLate, DmKill, AbortSet, AbortUnlink, ControlDone
<1>1. CASE Read(t) \/ Ioctl(t) \/ Lock(t) \/ ControlDone(t)
  BY <1>0, <1>1 DEF Read, Ioctl, Lock, ControlDone
<1>2. CASE AbortSet(t) \/ AbortUnlink(t)
  BY <1>0, <1>2 DEF AbortSet, AbortUnlink
<1>3. CASE RdLock(t) \/ DmLock(t)
  BY <1>0, <1>3, ReadAssumption DEF ReadAssumption, RdLock, DmLock
<1>4. CASE RdSubmit(t) \/ DmSubmit(t)
  <2>1. \A u \in Threads \ {t} : pc[u] \notin InRead
    BY <1>4, Alone DEF RdSubmit, DmSubmit, InRead, Reading, Dummying
  <2>2. readlock # NoThread
    BY <1>4, ReadAssumption
    DEF ReadAssumption, LockInv, RdSubmit, DmSubmit, InRead, Reading, Dummying
  <2> QED BY <1>0, <1>4, <2>1, <2>2 DEF RdSubmit, DmSubmit, Submit, InRead, Reading, Dummying
<1>5. CASE RdWake(t) \/ RdSleep(t) \/ RdSignal(t) \/ DmLate(t)
  BY <1>0, <1>5 DEF RdWake, RdSleep, RdSignal, ReadCond, DmLate
<1>6. CASE RdCheck(t)
  <2>1. \A u \in Threads \ {t} : pc[u] \notin InRead
    BY <1>6, Alone DEF RdCheck, InRead, Reading, Dummying
  <2> QED BY <1>0, <1>6, <2>1 DEF RdCheck, InRead, Reading, Dummying
<1>7. CASE RdSubmitFails(t) \/ DmSubmitFails(t)
  BY <1>0, <1>7 DEF RdSubmitFails, DmSubmitFails
<1>8. CASE RdKill(t) \/ DmKill(t) \/ RdCopy(t) \/ DmDone(t)
  <2>1. pc[t] \in InRead
    BY <1>8 DEF RdKill, DmKill, RdCopy, DmDone, InRead, Reading, Dummying
  <2>2. \A u \in Threads : pc'[u] \notin InRead
    BY <1>8, <2>1, Alone DEF RdKill, DmKill, RdCopy, DmDone, InRead, Reading, Dummying
  <2>3. flying' = 0 /\ done' = 0
    BY <1>0, <1>8 DEF RdKill, DmKill, RdCopy, DmDone
  <2> QED BY <2>2, <2>3 DEF InRead, Reading, Dummying
<1>9. CASE RdCopyFails(t)
  BY <1>9 DEF RdCopyFails
<1> QED BY <1>1, <1>2, <1>3, <1>4, <1>5, <1>6, <1>7, <1>8, <1>9 DEF Inside, Proceed

LEMMA UrbStep == TypeOK /\ CountInv /\ LockInv /\ UrbInv /\ [Next]_vars => UrbInv'
<1> SUFFICES ASSUME TypeOK, CountInv, LockInv, UrbInv, [Next]_vars PROVE UrbInv'
  OBVIOUS
<1>1. CASE UNCHANGED vars
  BY <1>1 DEF UrbInv, Own, vars
<1>2. CASE \E t \in Threads : Open(t) \/ Release(t)
  <2> PICK t \in Threads : Open(t) \/ Release(t)
    BY <1>2
  <2>1. \A u \in Threads : pc'[u] \notin {"out", "open"} => pc[u] = pc'[u] /\ aborted' = aborted
    BY SomeHandle DEF TypeOK, Open, Release
  <2> QED BY <2>1 DEF UrbInv, Own, Waits, Open, Release
<1>3. CASE \E t \in Threads : Inside(t)
  BY <1>3, UrbInside DEF UrbInv
<1>4. CASE Packet \/ NoPacket \/ Unlinked
  <2>1. flying # 0 /\ flying' = 0 /\ done' = done + 1
    BY <1>4 DEF Packet, NoPacket, Unlinked, Complete
  <2>2. UNCHANGED <<readlock, aborted, transfers, mine, badCopy>>
    BY <1>4 DEF Packet, NoPacket, Unlinked
  <2>3. \A t \in Threads : pc'[t] = pc[t] \/ (pc[t] = "rdAsleep" /\ pc'[t] = "rdWait")
    BY <1>4 DEF TypeOK, Packet, NoPacket, Unlinked, Complete
  <2> QED BY <2>1, <2>2, <2>3 DEF TypeOK, UrbInv, Own, Waits
<1> QED BY <1>1, <1>2, <1>3, <1>4, Steps

LEMMA UrbAlways == Spec => [](TypeOK /\ CountInv /\ LockInv /\ UrbInv)
<1>1. Init => TypeOK /\ CountInv /\ LockInv /\ UrbInv
  BY TypeInit, LockInit, UrbInit
<1>2. TypeOK /\ CountInv /\ LockInv /\ UrbInv /\ [Next]_vars
      => TypeOK' /\ CountInv' /\ LockInv' /\ UrbInv'
  BY TypeStep, LockStep, UrbStep
<1> QED BY <1>1, <1>2, PTL DEF Spec

(* Whoever takes readlock finds rxurb idle and no completion counted,       *)
(* however the read before ended, unless memx_read left for a bad buffer.   *)
THEOREM ResidueCorrect == Spec => []NoResidue
<1>1. UrbInv => NoResidue
  BY DEF UrbInv, NoResidue
<1> QED BY UrbAlways, <1>1, PTL

(* A reader past its wait in memx_read copies the data of its own transfer. *)
THEOREM CopyCorrect == Spec => []CopyIsOwn
<1>1. TypeOK /\ UrbInv => CopyIsOwn
  BY DEF TypeOK, UrbInv, CopyIsOwn, Own, Waits
<1> QED BY UrbAlways, <1>1, PTL

-----------------------------------------------------------------------------
(* Aborts and the reads they overtake.                                      *)

(* An abort that has set the state has overtaken every read there is, and a *)
(* read it has not overtaken neither loses its transfer nor has lost it.    *)
OvertakenInv ==
  /\ \A t, u \in Threads : pc[u] = "abUnlink" /\ pc[t] \in Reading => overtaken[t]
  /\ ~badCopy => \A t \in Threads :
       pc[t] \in Waits \ {"dmWait"} /\ (unlinking \/ (done > 0 /\ ~length /\ ~blank)) => overtaken[t]

LEMMA OvertakenInside ==
  ASSUME TypeOK, UrbInv, OvertakenInv, NEW t \in Threads, Inside(t)
  PROVE  OvertakenInv'
<1> USE DEF TypeOK, OvertakenInv, Reading, Waits
<1>1. CASE Read(t)
  BY <1>1 DEF Read
<1>2. CASE AbortSet(t)
  BY <1>2 DEF AbortSet
<1>3. CASE AbortUnlink(t)
  BY <1>3 DEF AbortUnlink
<1>4. CASE Ioctl(t) \/ Lock(t) \/ ControlDone(t)
  BY <1>4 DEF Ioctl, Lock, ControlDone
<1>5. CASE RdLock(t) \/ DmLock(t) \/ RdSignal(t) \/ RdWake(t) \/ RdSleep(t) \/ DmLate(t)
  BY <1>5 DEF RdLock, DmLock, RdSignal, RdWake, RdSleep, DmLate
<1>6. CASE RdCheck(t)
  BY <1>6 DEF RdCheck
<1>7. CASE RdSubmit(t) \/ DmSubmit(t)
  BY <1>7 DEF RdSubmit, DmSubmit, Submit, UrbInv
<1>8. CASE RdSubmitFails(t) \/ RdKill(t) \/ RdCopy(t) \/ RdCopyFails(t)
  BY <1>8 DEF RdSubmitFails, RdKill, RdCopy, RdCopyFails
<1>9. CASE DmSubmitFails(t) \/ DmDone(t) \/ DmKill(t)
  BY <1>9 DEF DmSubmitFails, DmDone, DmKill
<1> QED BY <1>1, <1>2, <1>3, <1>4, <1>5, <1>6, <1>7, <1>8, <1>9 DEF Inside, Proceed

LEMMA OvertakenStep == TypeOK /\ UrbInv /\ OvertakenInv /\ [Next]_vars => OvertakenInv'
<1> SUFFICES ASSUME TypeOK, UrbInv, OvertakenInv, [Next]_vars PROVE OvertakenInv'
  OBVIOUS
<1>1. CASE UNCHANGED vars
  BY <1>1 DEF OvertakenInv, vars
<1>2. CASE \E t \in Threads : Open(t) \/ Release(t)
  BY <1>2 DEF TypeOK, OvertakenInv, Reading, Waits, Open, Release
<1>3. CASE \E t \in Threads : Inside(t)
  BY <1>3, OvertakenInside
<1>4. CASE Packet
  BY <1>4 DEF TypeOK, OvertakenInv, Reading, Waits, Packet, Complete
<1>5. CASE NoPacket \/ Unlinked
  BY <1>5 DEF TypeOK, OvertakenInv, Reading, Waits, NoPacket, Unlinked, Complete
<1> QED BY <1>1, <1>2, <1>3, <1>4, <1>5, Steps

(* memx_read returns no bytes only if its own transfer ended by itself with *)
(* none, an error included, or a memx_abort_transfer was made while it was  *)
(* under way: never for what an earlier read left in rx_comp.               *)
THEOREM EmptyCorrect == Spec => []EmptyHasCause
<1>1. Init => OvertakenInv
  BY DEF Init, OvertakenInv, Waits
<1>2. UrbInv /\ OvertakenInv => EmptyHasCause
  BY DEF UrbInv, OvertakenInv, EmptyHasCause, Waits
<1> QED BY UrbAlways, <1>1, <1>2, OvertakenStep, PTL DEF Spec
=============================================================================
