--------------------------- MODULE MxPcieIoProofs ---------------------------
(* Theorems about the PCIe file operations, for any number of threads and   *)
(* chips, any capacity of the notification fifo and every bound.            *)
EXTENDS MxPcieIo, FiniteSetTheorems, TLAPS

\* The definitions every step is made of.
USE DEF Goto, Free, Release

-----------------------------------------------------------------------------
(* Type correctness.                                                        *)

(* Every location of a thread is one of PC.                                 *)
LEMMA Locations ==
  /\ {"out", "open"} \subseteq PC
  /\ Wants \subseteq PC /\ Reading \subseteq PC /\ Holding \subseteq PC
BY DEF PC, Wants, Reading, Holding, Awaiting

LEMMA NoneSet == \A S : [x \in S |-> FALSE] \in [S -> BOOLEAN]
BY Zenon

LEMMA TypeInit == Init => TypeOK
<1> SUFFICES ASSUME Init PROVE TypeOK
  OBVIOUS
<1>1. fifo \in Seq(Chips) /\ Len(fifo) <= FifoCap
  BY IoAssumption DEF Init, IoAssumption
<1>2. pc \in [Threads -> PC]
  BY Locations DEF Init
<1>3. /\ txAbort \in [Chips -> BOOLEAN] /\ indicator \in [Chips -> BOOLEAN]
      /\ live \in [Chips -> BOOLEAN] /\ own \in [Chips -> BOOLEAN]
      /\ abandoned \in [Chips -> BOOLEAN] /\ rival \in [Threads -> BOOLEAN]
  BY NoneSet, Zenon DEF Init
<1>4. tgt \in [Threads -> Chips \cup {NoChip}] /\ stale \in [Chips -> Nat]
  BY DEF Init
<1>5. mutex \in Threads \cup {NoThread} /\ refcount \in Int /\ leaks \in Nat
  BY DEF Init
<1>6. /\ rxAbort \in BOOLEAN /\ readAbort \in BOOLEAN /\ fwAbort \in BOOLEAN
      /\ session \in BOOLEAN
  BY Zenon DEF Init
<1> QED BY <1>1, <1>2, <1>3, <1>4, <1>5, <1>6 DEF TypeOK

(* A move to a known location keeps the type of pc.                         *)
LEMMA GotoType ==
  ASSUME TypeOK, NEW t \in Threads, NEW from, NEW to \in PC, Goto(t, from, to)
  PROVE  pc' \in [Threads -> PC]
BY DEF TypeOK

(* What a thread does to the files keeps the types.                         *)
LEMMA TypeFile ==
  ASSUME TypeOK, NEW t \in Threads, FileStep(t)
  PROVE  TypeOK'
<1>1. CASE Call(t)
  <2>1. pc' \in [Threads -> PC]
    BY <1>1 DEF TypeOK, Call, PC, Wants
  <2> QED BY <1>1, <2>1 DEF TypeOK, Call, flagVars, txVars
<1>2. CASE LockSignal(t)
  <2>1. pc' \in [Threads -> PC]
    BY <1>2 DEF TypeOK, LockSignal, PC
  <2> QED BY <1>2, <2>1 DEF TypeOK, LockSignal, flagVars, txVars
<1>3. CASE Open(t)
  <2>1. pc' \in [Threads -> PC]
    BY <1>3 DEF TypeOK, Open, PC
  <2>2. /\ rxAbort' \in BOOLEAN /\ readAbort' \in BOOLEAN /\ fwAbort' \in BOOLEAN
        /\ txAbort' \in [Chips -> BOOLEAN]
    BY <1>3 DEF TypeOK, Open, ResetOnFirstOpen, flagVars
  <2>3. session' \in BOOLEAN
    BY <1>3, Zenon DEF TypeOK, Open
  <2> QED BY <1>3, <2>1, <2>2, <2>3 DEF TypeOK, Open, txVars
<1>4. CASE ReleaseFile(t)
  BY <1>4 DEF TypeOK, ReleaseFile, PC, Wants, flagVars, txVars
<1> QED BY <1>1, <1>2, <1>3, <1>4 DEF FileStep

(* Taking the first notification, adding one, and who else may have been    *)
(* counting on it.                                                          *)
LEMMA TakeType ==
  ASSUME TypeOK, fifo # <<>>
  PROVE  Tail(fifo) \in Seq(Chips) /\ Len(Tail(fifo)) <= FifoCap
BY IoAssumption DEF TypeOK, IoAssumption

LEMMA EmptyType == <<>> \in Seq(Chips) /\ Len(<<>>) <= FifoCap
BY IoAssumption DEF IoAssumption

LEMMA AddType ==
  ASSUME TypeOK, NEW c \in Chips, Len(fifo) < FifoCap
  PROVE  Append(fifo, c) \in Seq(Chips) /\ Len(Append(fifo, c)) <= FifoCap
BY IoAssumption DEF TypeOK, IoAssumption

LEMMA OthersType ==
  ASSUME TypeOK, NEW t \in Threads
  PROVE  Others(t) \in [Threads -> BOOLEAN]
BY Zenon DEF Others

LEMMA NoRivalType ==
  ASSUME TypeOK, NEW t \in Threads
  PROVE  NoRival(t) \in [Threads -> BOOLEAN]
BY DEF TypeOK, NoRival

(* The bookkeeping of a write that ends.                                    *)
LEMMA LeaveOwedType ==
  ASSUME TypeOK, NEW c, LeaveOwed(c)
  PROVE  /\ live' \in [Chips -> BOOLEAN]
         /\ stale' \in [Chips -> Nat]
         /\ own' \in [Chips -> BOOLEAN]
<1>1. \A f \in [Chips -> BOOLEAN] : [f EXCEPT ![c] = FALSE] \in [Chips -> BOOLEAN]
  OBVIOUS
<1>2. live' \in [Chips -> BOOLEAN] /\ own' \in [Chips -> BOOLEAN]
  BY <1>1, Zenon DEF TypeOK, LeaveOwed
<1>3. stale' \in [Chips -> Nat]
  <2>1. CASE c \in Chips
    <3>1. (IF live[c] THEN stale[c] + 1 ELSE stale[c]) \in Nat
      BY <2>1 DEF TypeOK
    <3> QED BY <2>1, <3>1, Zenon DEF TypeOK, LeaveOwed
  <2>2. CASE c \notin Chips
    BY <2>2, Zenon DEF TypeOK, LeaveOwed
  <2> QED BY <2>1, <2>2
<1> QED BY <1>2, <1>3

(* What a thread does in read keeps the types.                              *)
LEMMA TypeRead ==
  ASSUME TypeOK, NEW t \in Threads, ReadStep(t)
  PROVE  TypeOK'
<1>1. CASE ReadFirstTry(t)
  <2>1. fifo' \in Seq(Chips) /\ Len(fifo') <= FifoCap
    BY <1>1, TakeType DEF TypeOK, ReadFirstTry
  <2>2. rival' \in [Threads -> BOOLEAN]
    BY <1>1, OthersType DEF TypeOK, ReadFirstTry, NoRival
  <2> QED BY <1>1, <2>1, <2>2 DEF TypeOK, ReadFirstTry, PC, Reading, flagVars, txVars
<1>2. CASE ReadWaitEnd(t)
  BY <1>2 DEF TypeOK, ReadWaitEnd, PC, Wants, Reading, Holding, Awaiting, flagVars, txVars, Others, NoRival
<1>3. CASE ReadCheck(t)
  BY <1>3 DEF TypeOK, ReadCheck, PC, Wants, Reading, Holding, Awaiting, flagVars, txVars, Others, NoRival
<1>4. CASE ReadAbort(t)
  BY <1>4 DEF TypeOK, ReadAbort, PC, Wants, Reading, Holding, Awaiting, flagVars, txVars, Others, NoRival
<1>5. CASE ReadPop(t)
  <2>1. fifo' \in Seq(Chips) /\ Len(fifo') <= FifoCap
    BY <1>5, TakeType DEF TypeOK, ReadPop
  <2>2. rival' \in [Threads -> BOOLEAN]
    BY <1>5, OthersType, NoRivalType DEF TypeOK, ReadPop
  <2> QED BY <1>5, <2>1, <2>2 DEF TypeOK, ReadPop, PC, Reading, flagVars, txVars
<1>6. CASE ReadCopy(t)
  BY <1>6 DEF TypeOK, ReadCopy, PC, Wants, Reading, Holding, Awaiting, flagVars, txVars, Others, NoRival
<1> QED BY <1>1, <1>2, <1>3, <1>4, <1>5, <1>6 DEF ReadStep

(* What a thread does in write keeps the types.                             *)
LEMMA TypeWrite ==
  ASSUME TypeOK, NEW t \in Threads, WriteStep(t)
  PROVE  TypeOK'
<1>1. CASE WriteEnter(t)
  BY <1>1 DEF TypeOK, WriteEnter, PC, Wants, Reading, Holding, Awaiting, flagVars, txVars, Acquire, GiveUp, LeaveOwed
<1>2. CASE WriteRing(t)
  <2>1. pc' \in [Threads -> PC]
    BY <1>2, ZenonT(30) DEF TypeOK, WriteRing, PC, Holding, Awaiting
  <2>2. tgt' \in [Threads -> Chips \cup {NoChip}] /\ mutex' \in Threads \cup {NoThread}
    BY <1>2, ZenonT(30) DEF TypeOK, WriteRing
  <2>3. live' \in [Chips -> BOOLEAN]
    BY <1>2 DEF TypeOK, WriteRing
  <2> QED BY <1>2, <2>1, <2>2, <2>3 DEF TypeOK, WriteRing, flagVars
<1>3. CASE WriteWaitEnd(t)
  BY <1>3 DEF TypeOK, WriteWaitEnd, PC, Wants, Reading, Holding, Awaiting, flagVars, txVars, Acquire, GiveUp, LeaveOwed
<1>4. CASE WriteAborted(t)
  <2>1. live' \in [Chips -> BOOLEAN] /\ stale' \in [Chips -> Nat] /\ own' \in [Chips -> BOOLEAN]
    BY <1>4, LeaveOwedType DEF WriteAborted, GiveUp
  <2> QED BY <1>4, <2>1 DEF TypeOK, WriteAborted, GiveUp, PC, Holding, Awaiting, flagVars
<1>5. CASE WriteInterrupted(t)
  <2>1. live' \in [Chips -> BOOLEAN] /\ stale' \in [Chips -> Nat] /\ own' \in [Chips -> BOOLEAN]
    BY <1>5, LeaveOwedType DEF WriteInterrupted, GiveUp
  <2> QED BY <1>5, <2>1 DEF TypeOK, WriteInterrupted, GiveUp, PC, Holding, Awaiting, flagVars
<1>6. CASE WriteCheck(t)
  BY <1>6 DEF TypeOK, WriteCheck, PC, Wants, Reading, Holding, Awaiting, flagVars, txVars, Acquire, GiveUp, LeaveOwed
<1>7. CASE WriteFinish(t)
  <2>1. live' \in [Chips -> BOOLEAN] /\ stale' \in [Chips -> Nat] /\ own' \in [Chips -> BOOLEAN]
    BY <1>7, LeaveOwedType DEF WriteFinish
  <2> QED BY <1>7, <2>1 DEF TypeOK, WriteFinish, PC, Holding, Awaiting, flagVars
<1> QED BY <1>1, <1>2, <1>3, <1>4, <1>5, <1>6, <1>7 DEF WriteStep

(* What a thread does in an ioctl keeps the types.                          *)
LEMMA TypeIoctl ==
  ASSUME TypeOK, NEW t \in Threads, IoctlStep(t)
  PROVE  TypeOK'
<1>1. CASE AbortBegin(t)
  BY <1>1 DEF TypeOK, AbortBegin, PC, Wants, Reading, Holding, Awaiting, flagVars, txVars, Acquire, Others
<1>2. CASE AbortFlush(t)
  <2>1. fifo' \in Seq(Chips) /\ Len(fifo') <= FifoCap
    BY <1>2, EmptyType DEF TypeOK, AbortFlush
  <2>2. rival' \in [Threads -> BOOLEAN]
    BY <1>2, OthersType DEF TypeOK, AbortFlush
  <2> QED BY <1>2, <2>1, <2>2 DEF TypeOK, AbortFlush, PC, Holding, flagVars, txVars
<1>3. CASE AbortTx(t)
  BY <1>3 DEF TypeOK, AbortTx, PC, Wants, Reading, Holding, Awaiting, flagVars, txVars, Acquire, Others
<1>4. CASE SetAbortRead(t)
  BY <1>4 DEF TypeOK, SetAbortRead, PC, Wants, Reading, Holding, Awaiting, flagVars, txVars, Acquire, Others
<1>5. CASE FwCmdBegin(t)
  BY <1>5 DEF TypeOK, FwCmdBegin, PC, Wants, Reading, Holding, Awaiting, flagVars, txVars, Acquire, Others
<1>6. CASE FwCmdEnd(t)
  BY <1>6 DEF TypeOK, FwCmdEnd, PC, Wants, Reading, Holding, Awaiting, flagVars, txVars, Acquire, Others
<1>7. CASE DummyEnter(t)
  BY <1>7 DEF TypeOK, DummyEnter, PC, Wants, Reading, Holding, Awaiting, flagVars, txVars, Acquire, Others
<1>8. CASE DummyFirstTry(t)
  <2>1. fifo' \in Seq(Chips) /\ Len(fifo') <= FifoCap
    BY <1>8, TakeType DEF TypeOK, DummyFirstTry
  <2>2. rival' \in [Threads -> BOOLEAN]
    BY <1>8, OthersType DEF TypeOK, DummyFirstTry
  <2> QED BY <1>8, <2>1, <2>2 DEF TypeOK, DummyFirstTry, PC, Holding, flagVars, txVars
<1>9. CASE DummyWaitEnd(t)
  BY <1>9 DEF TypeOK, DummyWaitEnd, PC, Wants, Reading, Holding, Awaiting, flagVars, txVars, Acquire, Others
<1>10. CASE DummyTake(t)
  <2>1. fifo' \in Seq(Chips) /\ Len(fifo') <= FifoCap
    BY <1>10, TakeType DEF TypeOK, DummyTake
  <2>2. rival' \in [Threads -> BOOLEAN]
    BY <1>10, OthersType DEF TypeOK, DummyTake
  <2> QED BY <1>10, <2>1, <2>2 DEF TypeOK, DummyTake, PC, Holding, flagVars, txVars
<1> QED BY <1>1, <1>2, <1>3, <1>4, <1>5, <1>6, <1>7, <1>8, <1>9, <1>10 DEF IoctlStep

(* The interrupts keep the types.                                           *)
LEMMA TypeDevice ==
  ASSUME TypeOK, NEW c \in Chips, DeviceStep(c)
  PROVE  TypeOK'
<1>1. CASE EgressIsr(c)
  BY <1>1, AddType DEF TypeOK, EgressIsr, threadVars, flagVars, txVars
<1>2. CASE IngressStale(c)
  BY <1>2 DEF TypeOK, IngressStale, PC, Wants, Reading, Holding, Awaiting, flagVars, txVars, threadVars
<1>3. CASE IngressLive(c)
  BY <1>3 DEF TypeOK, IngressLive, PC, Wants, Reading, Holding, Awaiting, flagVars, txVars, threadVars
<1> QED BY <1>1, <1>2, <1>3 DEF DeviceStep

LEMMA TypeStep == TypeOK /\ [Next]_vars => TypeOK'
<1> SUFFICES ASSUME TypeOK, [Next]_vars PROVE TypeOK'
  OBVIOUS
<1>1. CASE UNCHANGED vars
  BY <1>1 DEF TypeOK, vars
<1>2. CASE \E t \in Threads : FileStep(t) \/ ReadStep(t) \/ WriteStep(t) \/ IoctlStep(t)
  BY <1>2, TypeFile, TypeRead, TypeWrite, TypeIoctl
<1>3. CASE \E c \in Chips : DeviceStep(c)
  BY <1>3, TypeDevice
<1> QED BY <1>1, <1>2, <1>3 DEF Next

(* Every variable keeps its type.                                           *)
THEOREM TypeCorrect == Spec => []TypeOK
BY TypeInit, TypeStep, PTL DEF Spec

-----------------------------------------------------------------------------
(* The mutex.  A thread moves in one of five ways: outside the mutex, into  *)
(* it, inside it without or with the start of a write, and out of it.       *)

LEMMA Outside ==
  ASSUME TypeOK, MutexHeld, NEW t \in Threads, NEW from, NEW to,
         from \notin Holding, to \notin Holding, Goto(t, from, to), UNCHANGED <<tgt, mutex>>
  PROVE  MutexHeld'
BY DEF TypeOK, MutexHeld, Holding

LEMMA Entering ==
  ASSUME TypeOK, MutexHeld, NEW t \in Threads, NEW from, NEW to,
         from \notin Holding, to \in Holding \ Awaiting, Goto(t, from, to),
         Acquire(t), UNCHANGED tgt
  PROVE  MutexHeld'
BY IoAssumption DEF TypeOK, MutexHeld, Holding, Acquire, IoAssumption

LEMMA Inside ==
  ASSUME TypeOK, MutexHeld, NEW t \in Threads, NEW from, NEW to,
         from \in Holding, to \in Holding, from \in Awaiting <=> to \in Awaiting,
         Goto(t, from, to), UNCHANGED <<tgt, mutex>>
  PROVE  MutexHeld'
BY DEF TypeOK, MutexHeld, Holding

LEMMA Aiming ==
  ASSUME TypeOK, MutexHeld, NEW t \in Threads, NEW c \in Chips,
         Goto(t, "wrBell", "wrWait"), tgt' = [tgt EXCEPT ![t] = c], UNCHANGED mutex
  PROVE  MutexHeld'
BY IoAssumption DEF TypeOK, MutexHeld, Holding, Awaiting, IoAssumption

LEMMA Leaving ==
  ASSUME TypeOK, MutexHeld, NEW t \in Threads, NEW from, NEW to,
         from \in Holding, to \notin Holding, Goto(t, from, to), Release(t),
         \/ from \notin Awaiting /\ UNCHANGED tgt
         \/ tgt' = [tgt EXCEPT ![t] = NoChip]
  PROVE  MutexHeld'
BY IoAssumption DEF TypeOK, MutexHeld, Holding, IoAssumption

LEMMA MutexInit == Init => MutexHeld
BY IoAssumption DEF Init, MutexHeld, Holding, Awaiting, IoAssumption

(* Files: the mutex is taken and given back in one step.                    *)
LEMMA MutexFile ==
  ASSUME TypeOK, MutexHeld, NEW t \in Threads, FileStep(t)
  PROVE  MutexHeld'
<1>1. CASE Call(t)
  BY <1>1, Outside DEF Call, Holding, Awaiting, Wants
<1>2. CASE LockSignal(t)
  BY <1>2, Outside DEF LockSignal, Holding, Awaiting, Wants
<1>3. CASE Open(t)
  BY <1>3, Outside DEF Open, Holding, Awaiting, Wants
<1>4. CASE ReleaseFile(t)
  BY <1>4, Outside DEF ReleaseFile, Holding, Awaiting, Wants
<1> QED BY <1>1, <1>2, <1>3, <1>4 DEF FileStep

(* Reading: without the mutex.                                              *)
LEMMA MutexRead ==
  ASSUME TypeOK, MutexHeld, NEW t \in Threads, ReadStep(t)
  PROVE  MutexHeld'
<1>1. CASE ReadFirstTry(t)
  BY <1>1, Outside DEF ReadFirstTry, Holding, Awaiting, Wants
<1>2. CASE ReadWaitEnd(t)
  BY <1>2, Outside DEF ReadWaitEnd, Holding, Awaiting, Wants
<1>3. CASE ReadCheck(t)
  BY <1>3, Outside DEF ReadCheck, Holding, Awaiting, Wants
<1>4. CASE ReadAbort(t)
  BY <1>4, Outside DEF ReadAbort, Holding, Awaiting, Wants
<1>5. CASE ReadPop(t)
  BY <1>5, Outside DEF ReadPop, Holding, Awaiting, Wants
<1>6. CASE ReadCopy(t)
  BY <1>6, Outside DEF ReadCopy, Holding, Awaiting, Wants
<1> QED BY <1>1, <1>2, <1>3, <1>4, <1>5, <1>6 DEF ReadStep

(* Writing: inside from the first step to the last.                         *)
LEMMA MutexWrite ==
  ASSUME TypeOK, MutexHeld, NEW t \in Threads, WriteStep(t)
  PROVE  MutexHeld'
<1>1. CASE WriteEnter(t)
  BY <1>1, Entering DEF WriteEnter, Holding, Awaiting, Wants
<1>2. CASE WriteRing(t)
  BY <1>2, Leaving, Aiming DEF WriteRing, Holding, Awaiting, Wants
<1>3. CASE WriteWaitEnd(t)
  BY <1>3, Inside DEF WriteWaitEnd, Holding, Awaiting, Wants
<1>4. CASE WriteAborted(t)
  BY <1>4, Leaving DEF WriteAborted, Holding, Awaiting, Wants
<1>5. CASE WriteInterrupted(t)
  BY <1>5, Leaving DEF WriteInterrupted, Holding, Awaiting, Wants
<1>6. CASE WriteCheck(t)
  BY <1>6, Inside DEF WriteCheck, Holding, Awaiting, Wants
<1>7. CASE WriteFinish(t)
  BY <1>7, Leaving DEF WriteFinish, Holding, Awaiting, Wants
<1> QED BY <1>1, <1>2, <1>3, <1>4, <1>5, <1>6, <1>7 DEF WriteStep

(* Ioctls.                                                                  *)
LEMMA MutexIoctl ==
  ASSUME TypeOK, MutexHeld, NEW t \in Threads, IoctlStep(t)
  PROVE  MutexHeld'
<1>1. CASE AbortBegin(t)
  BY <1>1, Entering DEF AbortBegin, Holding, Awaiting, Wants
<1>2. CASE AbortFlush(t)
  BY <1>2, Inside DEF AbortFlush, Holding, Awaiting, Wants
<1>3. CASE AbortTx(t)
  BY <1>3, Leaving DEF AbortTx, Holding, Awaiting, Wants
<1>4. CASE SetAbortRead(t)
  BY <1>4, Outside DEF SetAbortRead, Holding, Awaiting, Wants
<1>5. CASE FwCmdBegin(t)
  BY <1>5, Entering DEF FwCmdBegin, Holding, Awaiting, Wants
<1>6. CASE FwCmdEnd(t)
  BY <1>6, Leaving DEF FwCmdEnd, Holding, Awaiting, Wants
<1>7. CASE DummyEnter(t)
  BY <1>7, Entering DEF DummyEnter, Holding, Awaiting, Wants
<1>8. CASE DummyFirstTry(t)
  BY <1>8, Inside, Leaving DEF DummyFirstTry, Holding, Awaiting, Wants
<1>9. CASE DummyWaitEnd(t)
  BY <1>9, Inside, Leaving DEF DummyWaitEnd, Holding, Awaiting, Wants
<1>10. CASE DummyTake(t)
  BY <1>10, Leaving DEF DummyTake, Holding, Awaiting, Wants
<1> QED BY <1>1, <1>2, <1>3, <1>4, <1>5, <1>6, <1>7, <1>8, <1>9, <1>10 DEF IoctlStep

LEMMA MutexStep == TypeOK /\ MutexHeld /\ [Next]_vars => MutexHeld'
<1> SUFFICES ASSUME TypeOK, MutexHeld, [Next]_vars PROVE MutexHeld'
  OBVIOUS
<1>1. CASE UNCHANGED vars
  BY <1>1 DEF MutexHeld, vars
<1>2. CASE \E t \in Threads : FileStep(t) \/ ReadStep(t) \/ WriteStep(t) \/ IoctlStep(t)
  BY <1>2, MutexFile, MutexRead, MutexWrite, MutexIoctl
<1>3. CASE \E c \in Chips : DeviceStep(c)
  BY <1>3 DEF MutexHeld, DeviceStep, EgressIsr, IngressStale, IngressLive, threadVars
<1> QED BY <1>1, <1>2, <1>3 DEF Next

(* At most one call is between down and up, and it is the one the semaphore *)
(* was given to; a chip is the target of the write in progress only.        *)
THEOREM MutexCorrect == Spec => []MutexHeld
<1>1. Init => TypeOK /\ MutexHeld
  BY TypeInit, MutexInit
<1>2. TypeOK /\ MutexHeld /\ [Next]_vars => TypeOK' /\ MutexHeld'
  BY TypeStep, MutexStep
<1> QED BY <1>1, <1>2, PTL DEF Spec

-----------------------------------------------------------------------------
(* reference_count.                                                         *)

LEMMA HandlesFinite == IsFiniteSet(Handles) /\ Cardinality(Handles) \in Nat
<1>1. IsFiniteSet(Handles)
  BY FS_Subset, IoAssumption DEF Handles, IoAssumption
<1> QED BY <1>1, FS_CardinalityType

(* A move within the open file, or within user space, keeps the handles.    *)
LEMMA SameHandles ==
  ASSUME TypeOK, NEW t \in Threads, NEW from, NEW to, Goto(t, from, to),
         from \in {"out", "wantOpen"} <=> to \in {"out", "wantOpen"}
  PROVE  Handles' = Handles
BY DEF TypeOK, Handles

LEMMA OneMoreHandle ==
  ASSUME TypeOK, NEW t \in Threads, Goto(t, "wantOpen", "open")
  PROVE  Cardinality(Handles') = Cardinality(Handles) + 1
<1>1. t \notin Handles /\ Handles' = Handles \cup {t}
  BY DEF TypeOK, Handles
<1> QED BY <1>1, HandlesFinite, FS_AddElement

LEMMA OneHandleLess ==
  ASSUME TypeOK, NEW t \in Threads, Goto(t, "wantRelease", "out")
  PROVE  Cardinality(Handles') = Cardinality(Handles) - 1
<1>1. t \in Handles /\ Handles' = Handles \ {t}
  BY DEF TypeOK, Handles
<1> QED BY <1>1, HandlesFinite, FS_RemoveElement

LEMMA CountInit == Init => CountIsHandles
<1> SUFFICES ASSUME Init PROVE CountIsHandles
  OBVIOUS
<1>1. Handles = {}
  BY DEF Init, Handles
<1>2. Cardinality(Handles) = 0
  BY <1>1, FS_EmptySet
<1> QED BY <1>2 DEF Init, CountIsHandles

LEMMA CountFile ==
  ASSUME TypeOK, CountIsHandles, NEW t \in Threads, FileStep(t)
  PROVE  CountIsHandles'
<1>1. CASE Call(t)
  <2>1. Handles' = Handles
    BY <1>1, SameHandles DEF Call
  <2> QED BY <1>1, <2>1 DEF Call, CountIsHandles
<1>2. CASE LockSignal(t)
  <2>1. CASE Goto(t, "wantRelease", "out") /\ leaks' = leaks + 1
    <3>1. Cardinality(Handles') = Cardinality(Handles) - 1
      BY <2>1, OneHandleLess
    <3>2. UNCHANGED refcount /\ leaks' = leaks + 1 /\ leaks \in Int
      BY <1>2, <2>1 DEF LockSignal, TypeOK
    <3> QED BY <3>1, <3>2, HandlesFinite DEF CountIsHandles
  <2>2. CASE UNCHANGED leaks /\ ~Goto(t, "wantRelease", "out")
    <3>1. Handles' = Handles
      BY <1>2, <2>2, SameHandles DEF LockSignal, Wants
    <3> QED BY <1>2, <2>2, <3>1 DEF LockSignal, CountIsHandles
  <2> QED BY <1>2, <2>1, <2>2 DEF LockSignal, Wants
<1>3. CASE Open(t)
  <2>1. Cardinality(Handles') = Cardinality(Handles) + 1
    BY <1>3, OneMoreHandle DEF Open
  <2>2. refcount' = refcount + 1 /\ UNCHANGED leaks /\ leaks \in Int /\ refcount \in Int
    BY <1>3 DEF Open, TypeOK
  <2> QED BY <2>1, <2>2, HandlesFinite DEF CountIsHandles
<1>4. CASE ReleaseFile(t)
  <2>1. Cardinality(Handles') = Cardinality(Handles) - 1
    BY <1>4, OneHandleLess DEF ReleaseFile
  <2>2. refcount' = refcount - 1 /\ UNCHANGED leaks /\ leaks \in Int /\ refcount \in Int
    BY <1>4 DEF ReleaseFile, TypeOK
  <2> QED BY <2>1, <2>2, HandlesFinite DEF CountIsHandles
<1> QED BY <1>1, <1>2, <1>3, <1>4 DEF FileStep

(* Everything else leaves the count and the handles alone.                  *)
LEMMA CountElsewhere ==
  ASSUME TypeOK, NEW t \in Threads, ReadStep(t) \/ WriteStep(t) \/ IoctlStep(t)
  PROVE  UNCHANGED <<refcount, leaks>> /\ Handles' = Handles
<1>1. UNCHANGED <<refcount, leaks>>
  BY DEF ReadStep, ReadFirstTry, ReadWaitEnd, ReadCheck, ReadAbort, ReadPop, ReadCopy,
         WriteStep, WriteEnter, WriteRing, WriteWaitEnd, WriteAborted, WriteInterrupted,
         WriteCheck, WriteFinish,
         IoctlStep, AbortBegin, AbortFlush, AbortTx, SetAbortRead, FwCmdBegin, FwCmdEnd,
         DummyEnter, DummyFirstTry, DummyWaitEnd, DummyTake
<1>2. \E from, to \in PC \ {"out", "wantOpen"} : Goto(t, from, to)
  BY DEF ReadStep, ReadFirstTry, ReadWaitEnd, ReadCheck, ReadAbort, ReadPop, ReadCopy,
         WriteStep, WriteEnter, WriteRing, WriteWaitEnd, WriteAborted, WriteInterrupted,
         WriteCheck, WriteFinish,
         IoctlStep, AbortBegin, AbortFlush, AbortTx, SetAbortRead, FwCmdBegin, FwCmdEnd,
         DummyEnter, DummyFirstTry, DummyWaitEnd, DummyTake,
         PC, Wants, Reading, Holding, Awaiting
<1> QED BY <1>1, <1>2, SameHandles

LEMMA CountStep == TypeOK /\ CountIsHandles /\ [Next]_vars => CountIsHandles'
<1> SUFFICES ASSUME TypeOK, CountIsHandles, [Next]_vars PROVE CountIsHandles'
  OBVIOUS
<1>1. CASE UNCHANGED vars
  BY <1>1 DEF CountIsHandles, Handles, vars
<1>2. CASE \E t \in Threads : FileStep(t) \/ ReadStep(t) \/ WriteStep(t) \/ IoctlStep(t)
  <2> PICK t \in Threads : FileStep(t) \/ ReadStep(t) \/ WriteStep(t) \/ IoctlStep(t)
    BY <1>2
  <2>1. CASE FileStep(t)
    BY <2>1, CountFile
  <2>2. CASE ReadStep(t) \/ WriteStep(t) \/ IoctlStep(t)
    BY <2>2, CountElsewhere DEF CountIsHandles
  <2> QED BY <2>1, <2>2
<1>3. CASE \E c \in Chips : DeviceStep(c)
  BY <1>3 DEF CountIsHandles, Handles, DeviceStep, EgressIsr, IngressStale, IngressLive, threadVars
<1> QED BY <1>1, <1>2, <1>3 DEF Next

(* reference_count counts the open files, and the releases a signal cut     *)
(* short; in particular it is zero only when nothing is open.               *)
THEOREM CountCorrect == Spec => []CountIsHandles
<1>1. Init => TypeOK /\ CountIsHandles
  BY TypeInit, CountInit
<1>2. TypeOK /\ CountIsHandles /\ [Next]_vars => TypeOK' /\ CountIsHandles'
  BY TypeStep, CountStep
<1> QED BY <1>1, <1>2, PTL DEF Spec

LEMMA FirstOpenIsAlone ==
  ASSUME TypeOK, CountIsHandles, refcount = 0
  PROVE  Handles = {} /\ leaks = 0
<1>1. Cardinality(Handles) = 0 /\ leaks = 0
  BY HandlesFinite DEF TypeOK, CountIsHandles
<1> QED BY <1>1, HandlesFinite, FS_EmptySet

-----------------------------------------------------------------------------
(* The abort flags.                                                         *)

(* An abort in progress belongs to the session it began in.                 *)
FlagsInv ==
  /\ FlagsOfThisSession
  /\ \A t \in Threads : pc[t] \in {"abFlush", "abTx"} => session

LEMMA FlagsInit == Init => FlagsInv
BY DEF Init, FlagsInv, FlagsOfThisSession

LEMMA FlagsFile ==
  ASSUME TypeOK, CountIsHandles, FlagsInv, NEW t \in Threads, FileStep(t)
  PROVE  FlagsInv'
<1>1. CASE Call(t) \/ ReleaseFile(t)
  BY <1>1 DEF Call, ReleaseFile, FlagsInv, FlagsOfThisSession, flagVars, TypeOK
<1>2. CASE LockSignal(t)
  BY <1>2 DEF LockSignal, FlagsInv, FlagsOfThisSession, flagVars, TypeOK, Wants
<1>3. CASE Open(t)
  <2>1. \A u \in Threads : pc'[u] \in {"abFlush", "abTx"} => session'
    BY <1>3 DEF Open, FlagsInv, TypeOK, Handles
  <2>2. CASE refcount = 0
    BY <1>3, <2>1, <2>2 DEF Open, ResetOnFirstOpen, FlagsInv, FlagsOfThisSession
  <2>3. CASE refcount # 0
    <3>1. leaks = 0 => Handles # {}
      <4>1. Handles = {} => Cardinality(Handles) = 0
        BY FS_EmptySet
      <4> QED BY <2>3, <4>1, HandlesFinite DEF TypeOK, CountIsHandles
    <3>2. UNCHANGED <<flagVars, leaks>> /\ session' = (session /\ Handles # {})
      BY <1>3, <2>3 DEF Open, ResetOnFirstOpen
    <3> QED BY <2>1, <3>1, <3>2 DEF FlagsInv, FlagsOfThisSession, flagVars
  <2> QED BY <2>2, <2>3
<1> QED BY <1>1, <1>2, <1>3 DEF FileStep

LEMMA FlagsRead ==
  ASSUME TypeOK, FlagsInv, NEW t \in Threads, ReadStep(t)
  PROVE  FlagsInv'
BY DEF FlagsInv, FlagsOfThisSession, flagVars, TypeOK, ReadStep, ReadFirstTry, ReadWaitEnd, ReadCheck, ReadAbort, ReadPop, ReadCopy

LEMMA FlagsWrite ==
  ASSUME TypeOK, FlagsInv, NEW t \in Threads, WriteStep(t)
  PROVE  FlagsInv'
<1>1. CASE WriteAborted(t)
  BY <1>1 DEF FlagsInv, FlagsOfThisSession, WriteAborted, TypeOK
<1>2. CASE ~WriteAborted(t)
  BY <1>2 DEF FlagsInv, FlagsOfThisSession, flagVars, TypeOK, WriteStep, WriteEnter, WriteRing,
              WriteWaitEnd, WriteInterrupted, WriteCheck, WriteFinish
<1> QED BY <1>1, <1>2

LEMMA FlagsIoctl ==
  ASSUME TypeOK, FlagsInv, NEW t \in Threads, IoctlStep(t)
  PROVE  FlagsInv'
<1>1. CASE AbortBegin(t) \/ SetAbortRead(t)
  BY <1>1 DEF FlagsInv, FlagsOfThisSession, AbortBegin, SetAbortRead, TypeOK
<1>2. CASE AbortFlush(t) \/ AbortTx(t)
  BY <1>2 DEF FlagsInv, FlagsOfThisSession, AbortFlush, AbortTx, flagVars, TypeOK
<1>3. CASE FwCmdBegin(t) \/ FwCmdEnd(t)
  BY <1>3 DEF FlagsInv, FlagsOfThisSession, FwCmdBegin, FwCmdEnd, flagVars, TypeOK
<1>4. CASE DummyEnter(t) \/ DummyFirstTry(t) \/ DummyWaitEnd(t) \/ DummyTake(t)
  BY <1>4 DEF FlagsInv, FlagsOfThisSession, DummyEnter, DummyFirstTry, DummyWaitEnd, DummyTake,
              flagVars, TypeOK
<1> QED BY <1>1, <1>2, <1>3, <1>4 DEF IoctlStep

LEMMA FlagsStep == TypeOK /\ CountIsHandles /\ FlagsInv /\ [Next]_vars => FlagsInv'
<1> SUFFICES ASSUME TypeOK, CountIsHandles, FlagsInv, [Next]_vars PROVE FlagsInv'
  OBVIOUS
<1>1. CASE UNCHANGED vars
  BY <1>1 DEF FlagsInv, FlagsOfThisSession, vars
<1>2. CASE \E t \in Threads : FileStep(t) \/ ReadStep(t) \/ WriteStep(t) \/ IoctlStep(t)
  BY <1>2, FlagsFile, FlagsRead, FlagsWrite, FlagsIoctl
<1>3. CASE \E c \in Chips : DeviceStep(c)
  BY <1>3 DEF FlagsInv, FlagsOfThisSession, DeviceStep, EgressIsr, IngressStale, IngressLive,
              threadVars, flagVars
<1> QED BY <1>1, <1>2, <1>3 DEF Next

(* No abort flag outlives its session, unless a release was lost.           *)
THEOREM FlagsCorrect == Spec => []FlagsOfThisSession
<1>1. Init => TypeOK /\ CountIsHandles /\ FlagsInv
  BY TypeInit, CountInit, FlagsInit
<1>2. TypeOK /\ CountIsHandles /\ FlagsInv /\ [Next]_vars => TypeOK' /\ CountIsHandles' /\ FlagsInv'
  BY TypeStep, CountStep, FlagsStep
<1>3. FlagsInv => FlagsOfThisSession
  BY DEF FlagsInv
<1> QED BY <1>1, <1>2, <1>3, PTL DEF Spec

-----------------------------------------------------------------------------
(* What a step may never do.  The bodies of the two action properties:      *)

AbortKept ==
  /\ rxAbort /\ ~rxAbort' =>
       Handles = {} \/ \E t \in Threads : pc[t] = "rdAbort" /\ pc'[t] = "open"
  /\ \A c \in Chips : txAbort[c] /\ ~txAbort'[c] =>
       Handles = {} \/ \E t \in Threads : tgt[t] = c /\ pc'[t] = "open"

DrainedByReads ==
  readAbort /\ fifo' # fifo =>
    \/ Len(fifo') = Len(fifo) + 1
    \/ /\ fifo' = Tail(fifo)
       /\ \E t \in Threads : \/ pc'[t] = "rdCopy" /\ pc[t] # "rdCopy"
                             \/ pc[t] \in {"dmPop", "dmTake"} /\ pc'[t] = "open"

LEMMA KeptByFile ==
  ASSUME TypeOK, CountIsHandles, NEW t \in Threads, FileStep(t)
  PROVE  AbortKept
<1>1. CASE Call(t) \/ LockSignal(t) \/ ReleaseFile(t)
  BY <1>1 DEF Call, LockSignal, ReleaseFile, AbortKept, flagVars
<1>2. CASE Open(t)
  BY <1>2, FirstOpenIsAlone DEF Open, ResetOnFirstOpen, AbortKept, flagVars
<1> QED BY <1>1, <1>2 DEF FileStep

LEMMA KeptByRead ==
  ASSUME TypeOK, NEW t \in Threads, ReadStep(t)
  PROVE  AbortKept
<1>1. CASE ReadAbort(t)
  BY <1>1 DEF ReadAbort, AbortKept, TypeOK
<1>2. CASE ~ReadAbort(t)
  BY <1>2 DEF AbortKept, flagVars, ReadStep, ReadFirstTry, ReadWaitEnd, ReadCheck, ReadPop, ReadCopy
<1> QED BY <1>1, <1>2

LEMMA KeptByWrite ==
  ASSUME TypeOK, NEW t \in Threads, WriteStep(t)
  PROVE  AbortKept
<1>1. CASE WriteAborted(t)
  <2>1. pc'[t] = "open" /\ UNCHANGED rxAbort
    BY <1>1 DEF WriteAborted, TypeOK
  <2>2. \A c \in Chips : c # tgt[t] => txAbort'[c] = txAbort[c]
    BY <1>1 DEF WriteAborted, TypeOK
  <2> QED BY <2>1, <2>2 DEF AbortKept
<1>2. CASE ~WriteAborted(t)
  BY <1>2 DEF AbortKept, flagVars, WriteStep, WriteEnter, WriteRing, WriteWaitEnd,
              WriteInterrupted, WriteCheck, WriteFinish
<1> QED BY <1>1, <1>2

LEMMA KeptByIoctl ==
  ASSUME TypeOK, NEW t \in Threads, IoctlStep(t)
  PROVE  AbortKept
BY DEF AbortKept, flagVars, IoctlStep, AbortBegin, AbortFlush, AbortTx, SetAbortRead, FwCmdBegin,
       FwCmdEnd, DummyEnter, DummyFirstTry, DummyWaitEnd, DummyTake

(* An abort is taken by the one it frees, or dropped with nobody there.     *)
THEOREM AbortKeptCorrect == Spec => AbortNotForgotten
<1>1. Init => TypeOK /\ CountIsHandles
  BY TypeInit, CountInit
<1>2. TypeOK /\ CountIsHandles /\ [Next]_vars => TypeOK' /\ CountIsHandles'
  BY TypeStep, CountStep
<1>3. TypeOK /\ CountIsHandles /\ [Next]_vars => [AbortKept]_vars
  <2> SUFFICES ASSUME TypeOK, CountIsHandles, Next PROVE AbortKept
    OBVIOUS
  <2>1. CASE \E t \in Threads : FileStep(t) \/ ReadStep(t) \/ WriteStep(t) \/ IoctlStep(t)
    BY <2>1, KeptByFile, KeptByRead, KeptByWrite, KeptByIoctl
  <2>2. CASE \E c \in Chips : DeviceStep(c)
    BY <2>2 DEF AbortKept, DeviceStep, EgressIsr, IngressStale, IngressLive, flagVars
  <2> QED BY <2>1, <2>2 DEF Next
<1> QED BY <1>1, <1>2, <1>3, PTL DEF Spec, AbortNotForgotten, AbortKept

LEMMA DrainedByRead ==
  ASSUME TypeOK, NEW t \in Threads, ReadStep(t)
  PROVE  DrainedByReads
<1>1. CASE ReadFirstTry(t) \/ ReadPop(t)
  BY <1>1 DEF ReadFirstTry, ReadPop, DrainedByReads, TypeOK
<1>2. CASE ReadWaitEnd(t) \/ ReadCheck(t) \/ ReadAbort(t) \/ ReadCopy(t)
  BY <1>2 DEF ReadWaitEnd, ReadCheck, ReadAbort, ReadCopy, DrainedByReads
<1> QED BY <1>1, <1>2 DEF ReadStep

LEMMA DrainedByIoctl ==
  ASSUME TypeOK, NEW t \in Threads, IoctlStep(t)
  PROVE  DrainedByReads
<1>1. CASE DummyFirstTry(t) \/ DummyTake(t)
  BY <1>1 DEF DummyFirstTry, DummyTake, DrainedByReads, TypeOK
<1>2. CASE AbortFlush(t)
  BY <1>2 DEF AbortFlush, DrainedByReads
<1>3. CASE ~(DummyFirstTry(t) \/ DummyTake(t) \/ AbortFlush(t))
  BY <1>3 DEF DrainedByReads, IoctlStep, AbortBegin, AbortTx, SetAbortRead, FwCmdBegin, FwCmdEnd,
              DummyEnter, DummyWaitEnd
<1> QED BY <1>1, <1>2, <1>3

(* After set_abort_read no notification is lost on its way to a reader.     *)
THEOREM DrainCorrect == Spec => DrainOneByOne
<1>1. TypeOK /\ [Next]_vars => [DrainedByReads]_vars
  <2> SUFFICES ASSUME TypeOK, Next PROVE DrainedByReads
    OBVIOUS
  <2>1. CASE \E t \in Threads : FileStep(t) \/ WriteStep(t)
    BY <2>1 DEF DrainedByReads, FileStep, Call, LockSignal, Open, ReleaseFile, WriteStep,
                WriteEnter, WriteRing, WriteWaitEnd, WriteAborted, WriteInterrupted, WriteCheck,
                WriteFinish
  <2>2. CASE \E t \in Threads : ReadStep(t) \/ IoctlStep(t)
    BY <2>2, DrainedByRead, DrainedByIoctl
  <2>3. CASE \E c \in Chips : DeviceStep(c)
    <3> PICK c \in Chips : DeviceStep(c)
      BY <2>3
    <3>1. CASE EgressIsr(c)
      BY <3>1 DEF EgressIsr, DrainedByReads, TypeOK
    <3>2. CASE IngressStale(c) \/ IngressLive(c)
      BY <3>2 DEF IngressStale, IngressLive, DrainedByReads
    <3> QED BY <3>1, <3>2 DEF DeviceStep
  <2> QED BY <2>1, <2>2, <2>3 DEF Next
<1> QED BY <1>1, TypeInit, TypeStep, PTL DEF Spec, DrainOneByOne, DrainedByReads

-----------------------------------------------------------------------------
(* Readers that were woken for nothing.  EmptyPopNeedsRival speaks of the   *)
(* second try only; from the wake-up on, what woke the reader is the        *)
(* notification, the abort flag, or gone with a rival.                      *)

WokenInv ==
  \A t \in Threads :
    /\ pc[t] = "rdWoke" => fifo # <<>> \/ rxAbort \/ rival[t]
    /\ pc[t] = "rdPop" => fifo # <<>> \/ rival[t]

LEMMA WokenInit == Init => WokenInv
BY DEF Init, WokenInv

LEMMA OthersAt ==
  ASSUME NEW t \in Threads, NEW u \in Threads, u # t, rival' = Others(t), pc[u] \in {"rdWoke", "rdPop"}
  PROVE  rival'[u]
BY Zenon DEF Others

(* A step that takes something from the fifo, or the abort, tells the rest. *)
LEMMA WokenTake ==
  ASSUME TypeOK, WokenInv, NEW t \in Threads, NEW to, to \notin {"rdWoke", "rdPop"},
         pc' = [pc EXCEPT ![t] = to], rival' = Others(t)
  PROVE  WokenInv'
<1> SUFFICES ASSUME NEW u \in Threads, pc'[u] \in {"rdWoke", "rdPop"} PROVE rival'[u]
  BY DEF WokenInv
<1>1. u # t /\ pc[u] \in {"rdWoke", "rdPop"}
  BY DEF TypeOK
<1> QED BY <1>1, OthersAt

(* A step of a thread that is not woken by it, and takes nothing.           *)
LEMMA WokenKeep ==
  ASSUME TypeOK, WokenInv, NEW t \in Threads, NEW to, to \notin {"rdWoke", "rdPop"},
         pc' = [pc EXCEPT ![t] = to],
         fifo # <<>> => fifo' # <<>>,
         rxAbort => rxAbort' \/ \A u \in Threads : pc[u] # "rdWoke",
         \A u \in Threads : u # t /\ rival[u] => rival'[u]
  PROVE  WokenInv'
BY DEF TypeOK, WokenInv

LEMMA WokenFile ==
  ASSUME TypeOK, CountIsHandles, WokenInv, NEW t \in Threads, FileStep(t)
  PROVE  WokenInv'
<1>1. CASE Call(t) \/ LockSignal(t) \/ ReleaseFile(t)
  BY <1>1 DEF Call, LockSignal, ReleaseFile, flagVars, Wants, TypeOK, WokenInv
<1>2. CASE Open(t)
  <2>1. rxAbort => rxAbort' \/ \A u \in Threads : pc[u] # "rdWoke"
    BY <1>2, FirstOpenIsAlone DEF Open, ResetOnFirstOpen, flagVars, Handles
  <2> QED BY <1>2, <2>1, WokenKeep DEF Open
<1> QED BY <1>1, <1>2 DEF FileStep

LEMMA WokenRead ==
  ASSUME TypeOK, WokenInv, NEW t \in Threads, ReadStep(t)
  PROVE  WokenInv'
<1>1. CASE ReadFirstTry(t)
  BY <1>1, WokenTake, WokenKeep DEF ReadFirstTry, flagVars
<1>2. CASE ReadWaitEnd(t)
  BY <1>2 DEF ReadWaitEnd, ReadCond, NoRival, flagVars, TypeOK, WokenInv
<1>3. CASE ReadCheck(t)
  BY <1>3 DEF ReadCheck, flagVars, TypeOK, WokenInv
<1>4. CASE ReadAbort(t)
  BY <1>4, WokenTake DEF ReadAbort
<1>5. CASE ReadPop(t)
  BY <1>5, WokenTake, WokenKeep DEF ReadPop, NoRival, flagVars, TypeOK
<1>6. CASE ReadCopy(t)
  BY <1>6, WokenKeep DEF ReadCopy, flagVars
<1> QED BY <1>1, <1>2, <1>3, <1>4, <1>5, <1>6 DEF ReadStep

LEMMA WokenWrite ==
  ASSUME TypeOK, WokenInv, NEW t \in Threads, WriteStep(t)
  PROVE  WokenInv'
BY DEF TypeOK, WokenInv, flagVars, WriteStep, WriteEnter, WriteRing, WriteWaitEnd, WriteAborted,
       WriteInterrupted, WriteCheck, WriteFinish

LEMMA WokenIoctl ==
  ASSUME TypeOK, WokenInv, NEW t \in Threads, IoctlStep(t)
  PROVE  WokenInv'
<1>1. CASE AbortBegin(t) \/ AbortTx(t) \/ SetAbortRead(t) \/ FwCmdBegin(t) \/ FwCmdEnd(t) \/ DummyEnter(t)
  BY <1>1 DEF AbortBegin, AbortTx, SetAbortRead, FwCmdBegin, FwCmdEnd, DummyEnter, flagVars,
              TypeOK, WokenInv
<1>2. CASE AbortFlush(t)
  BY <1>2, WokenTake, WokenKeep DEF AbortFlush, flagVars
<1>3. CASE DummyFirstTry(t) \/ DummyTake(t)
  <2>1. \E to \in {"open", "dmWait"} : pc' = [pc EXCEPT ![t] = to]
    BY <1>3 DEF DummyFirstTry, DummyTake
  <2>2. rival' = Others(t) \/ UNCHANGED <<fifo, rival>>
    BY <1>3 DEF DummyFirstTry, DummyTake
  <2>3. UNCHANGED rxAbort
    BY <1>3 DEF DummyFirstTry, DummyTake, flagVars
  <2> QED BY <2>1, <2>2, <2>3, WokenTake, WokenKeep
<1>4. CASE DummyWaitEnd(t)
  BY <1>4, WokenKeep DEF DummyWaitEnd, flagVars
<1> QED BY <1>1, <1>2, <1>3, <1>4 DEF IoctlStep

LEMMA WokenStep == TypeOK /\ CountIsHandles /\ WokenInv /\ [Next]_vars => WokenInv'
<1> SUFFICES ASSUME TypeOK, CountIsHandles, WokenInv, [Next]_vars PROVE WokenInv'
  OBVIOUS
<1>1. CASE UNCHANGED vars
  BY <1>1 DEF WokenInv, vars
<1>2. CASE \E t \in Threads : FileStep(t) \/ ReadStep(t) \/ WriteStep(t) \/ IoctlStep(t)
  BY <1>2, WokenFile, WokenRead, WokenWrite, WokenIoctl
<1>3. CASE \E c \in Chips : DeviceStep(c)
  <2> PICK c \in Chips : DeviceStep(c)
    BY <1>3
  <2>1. fifo # <<>> => fifo' # <<>>
    BY DEF DeviceStep, EgressIsr, IngressStale, IngressLive, TypeOK
  <2>2. UNCHANGED <<pc, rxAbort, rival>>
    BY DEF DeviceStep, EgressIsr, IngressStale, IngressLive, threadVars, flagVars
  <2> QED BY <2>1, <2>2 DEF WokenInv
<1> QED BY <1>1, <1>2, <1>3 DEF Next

(* A reader that fails with -EFAULT lost a race: what woke it was there.    *)
THEOREM EmptyPopCorrect == Spec => []EmptyPopNeedsRival
<1>1. Init => TypeOK /\ CountIsHandles /\ WokenInv
  BY TypeInit, CountInit, WokenInit
<1>2. TypeOK /\ CountIsHandles /\ WokenInv /\ [Next]_vars => TypeOK' /\ CountIsHandles' /\ WokenInv'
  BY TypeStep, CountStep, WokenStep
<1>3. WokenInv => EmptyPopNeedsRival
  BY DEF WokenInv, EmptyPopNeedsRival
<1> QED BY <1>1, <1>2, <1>3, PTL DEF Spec

-----------------------------------------------------------------------------
(* Writes and their answers.  WriteHasOwnAnswer and NoResidue speak of the  *)
(* end of a write and of the time after it; what carries them there is that *)
(* on a chip no write has abandoned, an indicator is the answer to the write*)
(* in progress, and no earlier answer is owed.                              *)

Aimed(c) == \E t \in Threads : tgt[t] = c

WriteInv ==
  /\ \A c \in Chips : live[c] \/ own[c] => Aimed(c)
  /\ \A c \in Chips : own[c] => ~live[c]
  /\ \A c \in Chips : ~abandoned[c] => stale[c] = 0 /\ (indicator[c] => own[c])
  /\ \A t \in Threads : pc[t] \in {"wrWoke", "wrDone"} => indicator[tgt[t]]

LEMMA WriteInit == Init => WriteInv
BY DEF Init, WriteInv

(* A step that leaves the writes alone and does not wake one.               *)
LEMMA WriteKeep ==
  ASSUME TypeOK, WriteInv, NEW t \in Threads, NEW to, to \notin {"wrWoke", "wrDone"},
         pc' = [pc EXCEPT ![t] = to], UNCHANGED <<tgt, txVars>>
  PROVE  WriteInv'
BY DEF TypeOK, WriteInv, Aimed, txVars

(* The thread in a write aims at a chip, and no other thread does.          *)
LEMMA OneAim ==
  ASSUME TypeOK, MutexHeld, NEW t \in Threads, pc[t] \in Awaiting
  PROVE  /\ tgt[t] \in Chips
         /\ \A u \in Threads : u # t => tgt[u] = NoChip /\ pc[u] \notin Awaiting
BY DEF TypeOK, MutexHeld, Holding

LEMMA NoAim ==
  ASSUME TypeOK, MutexHeld, NEW t \in Threads, pc[t] \in Holding \ Awaiting
  PROVE  \A u \in Threads : tgt[u] = NoChip /\ pc[u] \notin Awaiting
BY DEF TypeOK, MutexHeld, Holding

(* The end of a write, whether it gave up or took its answer.               *)
LEMMA WriteEnds ==
  ASSUME TypeOK, MutexHeld, WriteInv, NEW t \in Threads, pc[t] \in Awaiting,
         pc' = [pc EXCEPT ![t] = "open"], tgt' = [tgt EXCEPT ![t] = NoChip], LeaveOwed(tgt[t]),
         \/ abandoned' = [abandoned EXCEPT ![tgt[t]] = TRUE] /\ UNCHANGED indicator
         \/ /\ indicator[tgt[t]]
            /\ indicator' = [indicator EXCEPT ![tgt[t]] = FALSE]
            /\ UNCHANGED abandoned
  PROVE  WriteInv'
<1> DEFINE c == tgt[t]
<1>1. c \in Chips /\ \A u \in Threads : u # t => tgt[u] = NoChip /\ pc[u] \notin Awaiting
  BY OneAim
<1>2. ~live'[c] /\ ~own'[c]
  BY <1>1 DEF LeaveOwed, TypeOK
<1>3. \A d \in Chips : d # c => /\ ~live[d] /\ ~own[d]
                              /\ live'[d] = live[d] /\ own'[d] = own[d] /\ stale'[d] = stale[d]
                              /\ indicator'[d] = indicator[d] /\ abandoned'[d] = abandoned[d]
  <2> SUFFICES ASSUME NEW d \in Chips, d # c
               PROVE  /\ ~live[d] /\ ~own[d]
                      /\ live'[d] = live[d] /\ own'[d] = own[d] /\ stale'[d] = stale[d]
                      /\ indicator'[d] = indicator[d] /\ abandoned'[d] = abandoned[d]
    OBVIOUS
  <2>1. ~Aimed(d)
    BY <1>1, IoAssumption DEF Aimed, IoAssumption
  <2>2. live'[d] = live[d] /\ own'[d] = own[d] /\ stale'[d] = stale[d]
    BY <1>1 DEF LeaveOwed, TypeOK
  <2>3. indicator'[d] = indicator[d] /\ abandoned'[d] = abandoned[d]
    BY <1>1 DEF TypeOK
  <2> QED BY <2>1, <2>2, <2>3 DEF WriteInv
<1>4. ~abandoned'[c] => stale'[c] = 0 /\ ~indicator'[c]
  BY <1>1 DEF LeaveOwed, TypeOK, WriteInv
<1>5. \A u \in Threads : pc'[u] \notin {"wrWoke", "wrDone"}
  BY <1>1 DEF TypeOK, Awaiting
<1> QED BY <1>2, <1>3, <1>4, <1>5 DEF WriteInv

LEMMA WriteWrite ==
  ASSUME TypeOK, MutexHeld, WriteInv, NEW t \in Threads, WriteStep(t)
  PROVE  WriteInv'
<1>1. CASE WriteEnter(t)
  BY <1>1, WriteKeep DEF WriteEnter
<1>2. CASE WriteRing(t)
  <2>1. CASE Goto(t, "wrBell", "open") /\ UNCHANGED <<tgt, live>>
    BY <1>2, <2>1, WriteKeep DEF WriteRing, txVars
  <2>2. CASE \E c \in Chips : /\ Goto(t, "wrBell", "wrWait")
                             /\ tgt' = [tgt EXCEPT ![t] = c]
                             /\ live' = [live EXCEPT ![c] = c \notin Unrung]
    <3> PICK c \in Chips : /\ Goto(t, "wrBell", "wrWait")
                           /\ tgt' = [tgt EXCEPT ![t] = c]
                           /\ live' = [live EXCEPT ![c] = c \notin Unrung]
      BY <2>2
    <3>1. \A u \in Threads : tgt[u] = NoChip /\ pc[u] \notin Awaiting
      BY NoAim DEF Holding, Awaiting
    <3>2. \A d \in Chips : ~own[d] /\ ~live[d]
      BY <3>1, IoAssumption DEF WriteInv, Aimed, IoAssumption
    <3>3. UNCHANGED <<indicator, stale, own, abandoned>>
      BY <1>2 DEF WriteRing
    <3>4. tgt'[t] = c /\ \A u \in Threads : pc'[u] \notin {"wrWoke", "wrDone"}
      BY <3>1 DEF TypeOK, Awaiting
    <3>5. \A d \in Chips : live'[d] => d = c
      BY <3>2 DEF TypeOK
    <3> QED BY <3>2, <3>3, <3>4, <3>5 DEF WriteInv, Aimed
  <2> QED BY <1>2, <2>1, <2>2 DEF WriteRing
<1>3. CASE WriteWaitEnd(t)
  BY <1>3 DEF WriteWaitEnd, TypeOK, WriteInv, Aimed, txVars
<1>4. CASE WriteAborted(t)
  BY <1>4, WriteEnds DEF WriteAborted, GiveUp, Awaiting
<1>5. CASE WriteInterrupted(t)
  BY <1>5, WriteEnds DEF WriteInterrupted, GiveUp, Awaiting
<1>6. CASE WriteCheck(t)
  BY <1>6 DEF WriteCheck, TypeOK, WriteInv, Aimed, txVars
<1>7. CASE WriteFinish(t)
  <2>1. indicator[tgt[t]]
    BY <1>7 DEF WriteFinish, WriteInv
  <2> QED BY <1>7, <2>1, WriteEnds DEF WriteFinish, Awaiting
<1> QED BY <1>1, <1>2, <1>3, <1>4, <1>5, <1>6, <1>7 DEF WriteStep

LEMMA WriteElsewhere ==
  ASSUME TypeOK, MutexHeld, WriteInv, NEW t \in Threads, FileStep(t) \/ ReadStep(t) \/ IoctlStep(t)
  PROVE  WriteInv'
<1>1. CASE FileStep(t)
  BY <1>1 DEF FileStep, Call, LockSignal, Open, ReleaseFile, Wants, TypeOK, WriteInv, Aimed, txVars
<1>2. CASE ReadStep(t)
  BY <1>2 DEF ReadStep, ReadFirstTry, ReadWaitEnd, ReadCheck, ReadAbort, ReadPop, ReadCopy,
              TypeOK, WriteInv, Aimed, txVars
<1>3. CASE AbortTx(t)
  <2>1. \A u \in Threads : pc[u] \notin Awaiting
    BY <1>3, NoAim DEF AbortTx, Holding, Awaiting
  <2>2. \A u \in Threads : pc'[u] \notin {"wrWoke", "wrDone"}
    BY <1>3, <2>1 DEF AbortTx, TypeOK, Awaiting
  <2>3. /\ UNCHANGED <<tgt, live, stale>>
        /\ \A c \in Chips : /\ ~indicator'[c] /\ ~own'[c]
                            /\ ~abandoned'[c] => stale[c] = 0
    BY <1>3 DEF AbortTx, TypeOK, WriteInv
  <2> QED BY <2>2, <2>3 DEF WriteInv, Aimed
<1>4. CASE IoctlStep(t) /\ ~AbortTx(t)
  BY <1>4 DEF IoctlStep, AbortBegin, AbortFlush, SetAbortRead, FwCmdBegin, FwCmdEnd, DummyEnter,
              DummyFirstTry, DummyWaitEnd, DummyTake, TypeOK, WriteInv, Aimed, txVars
<1> QED BY <1>1, <1>2, <1>3, <1>4

LEMMA WriteDevice ==
  ASSUME TypeOK, WriteInv, NEW c \in Chips, DeviceStep(c)
  PROVE  WriteInv'
<1>1. CASE EgressIsr(c)
  BY <1>1 DEF EgressIsr, WriteInv, Aimed, threadVars, txVars
<1>2. CASE IngressStale(c)
  <2>1. stale[c] # 0 /\ stale[c] \in Nat
    BY <1>2 DEF IngressStale, TypeOK
  <2>2. abandoned[c]
    BY <2>1 DEF WriteInv
  <2> QED BY <1>2, <2>2 DEF IngressStale, TypeOK, WriteInv, Aimed, threadVars
<1>3. CASE IngressLive(c)
  BY <1>3 DEF IngressLive, TypeOK, WriteInv, Aimed, threadVars
<1> QED BY <1>1, <1>2, <1>3 DEF DeviceStep

LEMMA WriteStepInv == TypeOK /\ MutexHeld /\ WriteInv /\ [Next]_vars => WriteInv'
<1> SUFFICES ASSUME TypeOK, MutexHeld, WriteInv, [Next]_vars PROVE WriteInv'
  OBVIOUS
<1>1. CASE UNCHANGED vars
  BY <1>1 DEF WriteInv, Aimed, vars
<1>2. CASE \E t \in Threads : FileStep(t) \/ ReadStep(t) \/ WriteStep(t) \/ IoctlStep(t)
  BY <1>2, WriteWrite, WriteElsewhere
<1>3. CASE \E c \in Chips : DeviceStep(c)
  BY <1>3, WriteDevice
<1> QED BY <1>1, <1>2, <1>3 DEF Next

LEMMA WriteInvariant == Spec => [](TypeOK /\ MutexHeld /\ WriteInv)
<1>1. Init => TypeOK /\ MutexHeld /\ WriteInv
  BY TypeInit, MutexInit, WriteInit
<1>2. TypeOK /\ MutexHeld /\ WriteInv /\ [Next]_vars => TypeOK' /\ MutexHeld' /\ WriteInv'
  BY TypeStep, MutexStep, WriteStepInv
<1> QED BY <1>1, <1>2, PTL DEF Spec

(* A write reports success on the answer to its own doorbell, until some    *)
(* write to the chip gives up.                                              *)
THEOREM OwnAnswerCorrect == Spec => []WriteHasOwnAnswer
<1>1. TypeOK /\ MutexHeld /\ WriteInv => WriteHasOwnAnswer
  BY OneAim DEF WriteInv, WriteHasOwnAnswer, Awaiting
<1> QED BY <1>1, WriteInvariant, PTL

(* A write leaves no answer behind for the next one, unless it gave up.     *)
THEOREM ResidueCorrect == Spec => []NoResidue
<1>1. TypeOK /\ WriteInv => NoResidue
  BY DEF TypeOK, WriteInv, NoResidue, Aimed
<1> QED BY <1>1, WriteInvariant, PTL
=============================================================================
