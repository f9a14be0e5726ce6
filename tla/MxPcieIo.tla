------------------------------ MODULE MxPcieIo ------------------------------
(***************************************************************************)
(* The file operations of /dev/memx<n> in the PCIe driver                  *)
(* (1_kdrv_src/pcie/memx_cascade_pciemain.c) and the two data interrupts   *)
(* that complete them (memx_msix_irq.c).                                   *)
(*                                                                         *)
(* User threads open the node, read output feature maps, write input       *)
(* feature maps and issue ioctls.  memx_dev->mutex serialises open,        *)
(* release, write and ioctl; read takes no lock at all.  The egress        *)
(* interrupt queues a notification in rx_msix_fifo for read; the ingress   *)
(* interrupt sets tx_ctrl[chip].indicator for the write in progress.       *)
(*                                                                         *)
(* pc[t] is where thread t stands in the driver:                           *)
(*   out, open              in user space, without and with an open file   *)
(*   want...                in down_interruptible(&memx_dev->mutex)        *)
(*   rdWait .. rdCopy       in memx_fops_read                              *)
(*   wrBell .. wrDone       in memx_fops_write, holding the mutex          *)
(*   abFlush, abTx          in memx_pcie_abort_transfer, holding it        *)
(*   fwWait                 waiting for a firmware command, holding it     *)
(*   dmPop, dmWait, dmTake  in memx_pcie_dummy_read, holding it            *)
(* The value of wq_status after a wait is part of pc (Woke, Timeout,       *)
(* Signal).                                                                *)
(***************************************************************************)
EXTENDS Integers, Sequences, FiniteSets

CONSTANTS
  Threads,      \* user threads, each with at most one file of its own
  Readers,      \* threads that call read()
  Writers,      \* threads that call write()
  Controllers,  \* threads that call ioctl()
  Chips,        \* chips 0 .. MAX_SUPPORT_CHIP_NUM - 1
  Unrung,       \* the chips among them whose doorbell is not rung, or rings for nobody
  FifoCap,      \* entries of rx_msix_fifo (MAX_CHIP_NUM = 16 in the code)
  Signals,      \* whether a signal can interrupt a wait
  MaxStale,     \* bound: doorbells of given-up writes the device still owes
  MaxLeaks,     \* bound: releases whose down_interruptible was interrupted
  NoThread,     \* the mutex is free
  NoChip        \* no write is in progress

ASSUME IoAssumption ==
  /\ IsFiniteSet(Threads)
  /\ Readers \subseteq Threads
  /\ Writers \subseteq Threads
  /\ Controllers \subseteq Threads
  /\ FifoCap \in Nat \ {0}
  /\ Signals \in BOOLEAN
  /\ MaxStale \in Nat \ {0}
  /\ MaxLeaks \in Nat
  /\ NoThread \notin Threads
  /\ NoChip \notin Chips
  /\ Unrung \subseteq Chips

VARIABLES
  pc,          \* [Threads -> PC]
  tgt,         \* [Threads -> Chips \cup {NoChip}]: target_chip_id of a write
  mutex,       \* holder of memx_dev->mutex
  refcount,    \* memx_dev->reference_count
  fifo,        \* rx_msix_fifo: the chips whose output awaits a read
  rxAbort,     \* rx_ctrl.is_abort
  readAbort,   \* rx_ctrl.is_read_abort
  txAbort,     \* [Chips -> BOOLEAN]: tx_ctrl[].is_abort
  fwAbort,     \* fw_ctrl.is_abort
  indicator,   \* [Chips -> BOOLEAN]: tx_ctrl[c].indicator = c
  live,        \* [Chips -> BOOLEAN]: device owes the write in progress an answer
  stale,       \* [Chips -> Nat]: answers owed to writes that have given up
  own,         \* history: indicator[c] was set by the answer to the write in progress
  abandoned,   \* history: a write to c gave up and left something behind
  rival,       \* [Threads -> BOOLEAN]: history: what woke t may be gone
  session,     \* history: abort or set_abort_read since the first open
  leaks        \* history: releases that did not decrement reference_count

threadVars == <<pc, tgt, mutex>>
flagVars   == <<rxAbort, readAbort, txAbort, fwAbort>>
txVars     == <<indicator, live, stale, own, abandoned>>
vars == <<pc, tgt, mutex, refcount, fifo, rxAbort, readAbort, txAbort, fwAbort,
          indicator, live, stale, own, abandoned, rival, session, leaks>>

Wants   == {"wantOpen", "wantRelease", "wantWrite", "wantAbort", "wantDummy",
            "wantSetAbortRead", "wantFwCmd"}
Reading == {"rdWait", "rdWoke", "rdTimeout", "rdSignal", "rdAbort", "rdPop", "rdCopy"}
Awaiting == {"wrWait", "wrWoke", "wrTimeout", "wrSignal", "wrDone"}
Holding == {"wrBell", "abFlush", "abTx", "fwWait", "dmPop", "dmWait", "dmTake"} \cup Awaiting
PC      == {"out", "open"} \cup Wants \cup Reading \cup Holding

\* Threads with a file that release has not given back.
Handles == {t \in Threads : pc[t] \notin {"out", "wantOpen"}}

Goto(t, from, to) == pc[t] = from /\ pc' = [pc EXCEPT ![t] = to]

\* down_interruptible succeeds on a free semaphore; up.
Acquire(t) == mutex = NoThread /\ mutex' = t
Free       == mutex = NoThread /\ UNCHANGED mutex
Release(t) == mutex' = NoThread

-----------------------------------------------------------------------------
(* memx_pcie_probe leaves the device idle, nothing open and no flag set.    *)
Init ==
  /\ pc = [t \in Threads |-> "out"]
  /\ tgt = [t \in Threads |-> NoChip]
  /\ mutex = NoThread
  /\ refcount = 0
  /\ fifo = <<>>
  /\ rxAbort = FALSE
  /\ readAbort = FALSE
  /\ txAbort = [c \in Chips |-> FALSE]
  /\ fwAbort = FALSE
  /\ indicator = [c \in Chips |-> FALSE]
  /\ live = [c \in Chips |-> FALSE]
  /\ stale = [c \in Chips |-> 0]
  /\ own = [c \in Chips |-> FALSE]
  /\ abandoned = [c \in Chips |-> FALSE]
  /\ rival = [t \in Threads |-> FALSE]
  /\ session = FALSE
  /\ leaks = 0

-----------------------------------------------------------------------------
(* System calls.  A call of open, release, write or ioctl first waits for   *)
(* the mutex; a signal during that wait makes the call return -ERESTARTSYS. *)

Call(t) ==
  /\ \/ Goto(t, "out", "wantOpen")
     \/ Goto(t, "open", "wantRelease")
     \/ t \in Writers /\ Goto(t, "open", "wantWrite")
     \/ /\ t \in Controllers
        /\ \E w \in {"wantAbort", "wantDummy", "wantSetAbortRead", "wantFwCmd"} :
             Goto(t, "open", w)
  /\ UNCHANGED <<tgt, mutex, refcount, fifo, flagVars, txVars, rival, session, leaks>>

(* The wait for a semaphore that is held ends with a signal.  For release   *)
(* the file is gone all the same and the count is never decremented.        *)
LockSignal(t) ==
  /\ Signals
  /\ mutex # NoThread
  /\ \/ Goto(t, "wantOpen", "out") /\ UNCHANGED leaks
     \/ Goto(t, "wantRelease", "out") /\ leaks < MaxLeaks /\ leaks' = leaks + 1
     \/ /\ \E w \in Wants \ {"wantOpen", "wantRelease"} : Goto(t, w, "open")
        /\ UNCHANGED leaks
  /\ UNCHANGED <<tgt, mutex, refcount, fifo, flagVars, txVars, rival, session>>

(* Faults: every opener clears the flags; is_read_abort is not cleared.     *)
ResetAlways ==
  /\ rxAbort' = FALSE
  /\ readAbort' = FALSE
  /\ txAbort' = [c \in Chips |-> FALSE]
  /\ fwAbort' = FALSE

ResetForgetsReadAbort ==
  IF refcount = 0
  THEN /\ rxAbort' = FALSE
       /\ txAbort' = [c \in Chips |-> FALSE]
       /\ fwAbort' = FALSE
       /\ UNCHANGED readAbort
  ELSE UNCHANGED flagVars

(* memx_fops_open: the first opener clears the abort flags (and nothing     *)
(* else: the fifo and the indicators keep what an earlier user left).       *)
ResetOnFirstOpen ==
  IF refcount = 0
  THEN /\ rxAbort' = FALSE
       /\ readAbort' = FALSE
       /\ txAbort' = [c \in Chips |-> FALSE]
       /\ fwAbort' = FALSE
  ELSE UNCHANGED flagVars

Open(t) ==
  /\ Goto(t, "wantOpen", "open")
  /\ Free
  /\ ResetOnFirstOpen
  /\ refcount' = refcount + 1
  /\ session' = (session /\ Handles # {})
  /\ UNCHANGED <<tgt, fifo, txVars, rival, leaks>>

ReleaseFile(t) ==
  /\ Goto(t, "wantRelease", "out")
  /\ Free
  /\ refcount' = refcount - 1
  /\ UNCHANGED <<tgt, fifo, flagVars, txVars, rival, session, leaks>>

-----------------------------------------------------------------------------
(* memx_fops_read.  Every kfifo access is under rx_ctrl.lock, so atomic;    *)
(* nothing else in the function is.                                         *)

\* t takes what a thread already woken may be counting on: an entry, or the abort.
Others(t) == [u \in Threads |-> u # t /\ (rival[u] \/ pc[u] \in {"rdWoke", "rdPop"})]
NoRival(t) == [rival EXCEPT ![t] = FALSE]

ReadCond == rxAbort \/ fifo # <<>>

(* Line 455: a pending notification is taken without waiting.               *)
ReadFirstTry(t) ==
  /\ t \in Readers
  /\ \/ /\ fifo # <<>>
        /\ Goto(t, "open", "rdCopy")
        /\ fifo' = Tail(fifo)
        /\ rival' = Others(t)
     \/ /\ fifo = <<>>
        /\ Goto(t, "open", "rdWait")
        /\ UNCHANGED <<fifo, rival>>
  /\ UNCHANGED <<tgt, mutex, refcount, flagVars, txVars, session, leaks>>

(* Line 457: wait_event_interruptible_timeout returns.                      *)
ReadWaitEnd(t) ==
  /\ \/ ReadCond /\ Goto(t, "rdWait", "rdWoke")
     \/ ~ReadCond /\ Goto(t, "rdWait", "rdTimeout")
     \/ Signals /\ ~ReadCond /\ Goto(t, "rdWait", "rdSignal")
  /\ rival' = NoRival(t)
  /\ UNCHANGED <<tgt, mutex, refcount, fifo, flagVars, txVars, session, leaks>>

\* Fault: a timeout leaves the loop as a wake-up does.
ReadCheckTimeoutIsWake(t) ==
  /\ \/ /\ rxAbort
        /\ \E s \in {"rdWoke", "rdTimeout", "rdSignal"} : Goto(t, s, "rdAbort")
     \/ /\ ~rxAbort
        /\ \/ Goto(t, "rdWoke", "rdPop")
           \/ Goto(t, "rdTimeout", "rdPop")
           \/ Goto(t, "rdSignal", "open")
  /\ UNCHANGED <<tgt, mutex, refcount, fifo, flagVars, txVars, rival, session, leaks>>

(* Lines 458-474: is_abort is looked at first, whatever ended the wait.     *)
ReadCheck(t) ==
  /\ \/ /\ rxAbort
        /\ \E s \in {"rdWoke", "rdTimeout", "rdSignal"} : Goto(t, s, "rdAbort")
     \/ /\ ~rxAbort
        /\ \/ Goto(t, "rdWoke", "rdPop")
           \/ Goto(t, "rdTimeout", "rdWait")
           \/ Goto(t, "rdSignal", "open")
  /\ UNCHANGED <<tgt, mutex, refcount, fifo, flagVars, txVars, rival, session, leaks>>

\* Fault: the abort is taken, and the loop goes on.
ReadAbortWaitsOn(t) ==
  /\ Goto(t, "rdAbort", "rdWait")
  /\ fwAbort' = FALSE
  /\ rxAbort' = FALSE
  /\ rival' = Others(t)
  /\ UNCHANGED <<tgt, mutex, refcount, fifo, readAbort, txAbort, txVars, session, leaks>>

(* Lines 459-464: the abort is taken and both flags are cleared.            *)
ReadAbort(t) ==
  /\ Goto(t, "rdAbort", "open")
  /\ fwAbort' = FALSE
  /\ rxAbort' = FALSE
  /\ rival' = Others(t)
  /\ UNCHANGED <<tgt, mutex, refcount, fifo, readAbort, txAbort, txVars, session, leaks>>

(* Line 476: the second kfifo_out; it finds nothing when a rival was faster *)
(* and read returns -EFAULT.                                                *)
ReadPop(t) ==
  /\ \/ /\ fifo # <<>>
        /\ Goto(t, "rdPop", "rdCopy")
        /\ fifo' = Tail(fifo)
        /\ rival' = Others(t)
     \/ /\ fifo = <<>>
        /\ Goto(t, "rdPop", "open")
        /\ rival' = NoRival(t)
        /\ UNCHANGED fifo
  /\ UNCHANGED <<tgt, mutex, refcount, flagVars, txVars, session, leaks>>

(* Lines 484-498: copy_to_user, with or without success, ends the call.     *)
ReadCopy(t) ==
  /\ Goto(t, "rdCopy", "open")
  /\ UNCHANGED <<tgt, mutex, refcount, fifo, flagVars, txVars, rival, session, leaks>>

-----------------------------------------------------------------------------
(* memx_fops_write: the mutex is held from the doorbell to the answer.      *)

WriteEnter(t) ==
  /\ Goto(t, "wantWrite", "wrBell")
  /\ Acquire(t)
  /\ UNCHANGED <<tgt, refcount, fifo, flagVars, txVars, rival, session, leaks>>

(* Lines 524-541: the target chip comes from the DMA buffer, so it is any   *)
(* value; an invalid one ends the call.  The doorbell is rung without       *)
(* looking at the indicator.  For a chip that memx_xflow_basic_check        *)
(* refuses (4 and up in the 16 MB layout) memx_pcie_trigger_device_irq      *)
(* rings nothing and returns nothing: the write waits all the same.         *)
WriteRing(t) ==
  /\ \/ /\ Goto(t, "wrBell", "open")
        /\ Release(t)
        /\ UNCHANGED <<tgt, live>>
     \/ \E c \in Chips :
          /\ stale[c] < MaxStale
          /\ Goto(t, "wrBell", "wrWait")
          /\ tgt' = [tgt EXCEPT ![t] = c]
          /\ live' = [live EXCEPT ![c] = c \notin Unrung]
          /\ UNCHANGED mutex
  /\ UNCHANGED <<refcount, fifo, flagVars, indicator, stale, own, abandoned, rival, session, leaks>>

(* Line 544: the condition is the indicator alone, not the abort flag.      *)
WriteWaitEnd(t) ==
  /\ pc[t] = "wrWait"
  /\ \/ indicator[tgt[t]] /\ Goto(t, "wrWait", "wrWoke")
     \/ ~indicator[tgt[t]] /\ Goto(t, "wrWait", "wrTimeout")
     \/ Signals /\ ~indicator[tgt[t]] /\ Goto(t, "wrWait", "wrSignal")
  /\ UNCHANGED <<tgt, mutex, refcount, fifo, flagVars, txVars, rival, session, leaks>>

(* The write to c is over: an answer the device still owes it will come to  *)
(* nobody, or to a later write.                                             *)
LeaveOwed(c) ==
  /\ live' = [live EXCEPT ![c] = FALSE]
  /\ stale' = [stale EXCEPT ![c] = IF live[c] THEN @ + 1 ELSE @]
  /\ own' = [own EXCEPT ![c] = FALSE]

(* The write returns without taking an answer: an indicator already set     *)
(* stays set.                                                               *)
GiveUp(c) ==
  /\ LeaveOwed(c)
  /\ abandoned' = [abandoned EXCEPT ![c] = TRUE]
  /\ UNCHANGED indicator

(* Lines 545-550: a set abort flag wins over an answer that has come.       *)
WriteAborted(t) ==
  /\ \E s \in {"wrWoke", "wrTimeout", "wrSignal"} : Goto(t, s, "open")
  /\ txAbort[tgt[t]]
  /\ txAbort' = [txAbort EXCEPT ![tgt[t]] = FALSE]
  /\ GiveUp(tgt[t])
  /\ tgt' = [tgt EXCEPT ![t] = NoChip]
  /\ Release(t)
  /\ UNCHANGED <<refcount, fifo, rxAbort, readAbort, fwAbort, rival, session, leaks>>

(* Lines 551-554 and 571-573.                                               *)
WriteInterrupted(t) ==
  /\ Goto(t, "wrSignal", "open")
  /\ ~txAbort[tgt[t]]
  /\ GiveUp(tgt[t])
  /\ tgt' = [tgt EXCEPT ![t] = NoChip]
  /\ Release(t)
  /\ UNCHANGED <<refcount, fifo, flagVars, rival, session, leaks>>

\* Fault: the test of the wait's result is inverted: a wake-up waits again.
WriteCheckInverted(t) ==
  /\ pc[t] \in {"wrTimeout", "wrWoke"}
  /\ ~txAbort[tgt[t]]
  /\ \/ Goto(t, "wrWoke", "wrWait")
     \/ Goto(t, "wrTimeout", "wrDone")
  /\ UNCHANGED <<tgt, mutex, refcount, fifo, flagVars, txVars, rival, session, leaks>>

(* Lines 555-559: a timeout waits again, a wake-up goes on.                 *)
WriteCheck(t) ==
  /\ pc[t] \in {"wrTimeout", "wrWoke"}
  /\ ~txAbort[tgt[t]]
  /\ \/ Goto(t, "wrTimeout", "wrWait")
     \/ Goto(t, "wrWoke", "wrDone")
  /\ UNCHANGED <<tgt, mutex, refcount, fifo, flagVars, txVars, rival, session, leaks>>

\* Fault: the indicator is not reset.
WriteFinishNoReset(t) ==
  /\ Goto(t, "wrDone", "open")
  /\ LeaveOwed(tgt[t])
  /\ tgt' = [tgt EXCEPT ![t] = NoChip]
  /\ Release(t)
  /\ UNCHANGED <<refcount, fifo, flagVars, indicator, abandoned, rival, session, leaks>>

(* Lines 566-573: the indicator is reset and the byte count returned.       *)
WriteFinish(t) ==
  /\ Goto(t, "wrDone", "open")
  /\ indicator' = [indicator EXCEPT ![tgt[t]] = FALSE]
  /\ LeaveOwed(tgt[t])
  /\ tgt' = [tgt EXCEPT ![t] = NoChip]
  /\ Release(t)
  /\ UNCHANGED <<refcount, fifo, flagVars, abandoned, rival, session, leaks>>

-----------------------------------------------------------------------------
(* ioctl MEMX_ABORT_TRANSFER: memx_pcie_abort_transfer in three steps, as   *)
(* read sees them.                                                          *)

AbortBegin(t) ==
  /\ Goto(t, "wantAbort", "abFlush")
  /\ Acquire(t)
  /\ rxAbort' = TRUE
  /\ session' = TRUE
  /\ UNCHANGED <<tgt, refcount, fifo, readAbort, txAbort, fwAbort, txVars, rival, leaks>>

(* After set_abort_read the notifications are left for dummy reads.         *)
AbortFlush(t) ==
  /\ Goto(t, "abFlush", "abTx")
  /\ IF readAbort
     THEN UNCHANGED <<fifo, rival>>
     ELSE fifo' = <<>> /\ rival' = Others(t)
  /\ UNCHANGED <<tgt, mutex, refcount, flagVars, txVars, session, leaks>>

(* Clearing the indicator wipes what given-up writes left, unless the       *)
(* device still owes an answer.                                             *)
AbortTx(t) ==
  /\ Goto(t, "abTx", "open")
  /\ txAbort' = [c \in Chips |-> TRUE]
  /\ indicator' = [c \in Chips |-> FALSE]
  /\ own' = [c \in Chips |-> FALSE]
  /\ abandoned' = [c \in Chips |-> abandoned[c] /\ stale[c] > 0]
  /\ fwAbort' = TRUE
  /\ Release(t)
  /\ UNCHANGED <<tgt, refcount, fifo, rxAbort, readAbort, live, stale, rival, session, leaks>>

(* ioctl MEMX_SET_ABORT_READ.                                               *)
SetAbortRead(t) ==
  /\ Goto(t, "wantSetAbortRead", "open")
  /\ Free
  /\ readAbort' = TRUE
  /\ session' = TRUE
  /\ UNCHANGED <<tgt, refcount, fifo, rxAbort, txAbort, fwAbort, txVars, rival, leaks>>

(* ioctls that run a firmware command (MEMX_CONFIG_MPU_GROUP,               *)
(* MEMX_INIT_WTMEM_FMAP, MEMX_DOWNLOAD_FIRMWARE, MEMX_WAIT_FW_MSIX_ACK,     *)
(* MEMX_VENDOR_CMD): the mutex is held until the answer, or five timeouts,  *)
(* and the pending abort, if any, is consumed, except by a request that ends *)
(* before the wait.  MxFwCmd has the detail.                                *)
FwCmdBegin(t) ==
  /\ Goto(t, "wantFwCmd", "fwWait")
  /\ Acquire(t)
  /\ UNCHANGED <<tgt, refcount, fifo, flagVars, txVars, rival, session, leaks>>

FwCmdEnd(t) ==
  /\ Goto(t, "fwWait", "open")
  /\ fwAbort' = FALSE \/ UNCHANGED fwAbort
  /\ Release(t)
  /\ UNCHANGED <<tgt, refcount, fifo, rxAbort, readAbort, txAbort, txVars, rival, session, leaks>>

(* ioctl MEMX_DUMMY_READ: take one notification, waiting 100 ms for it.     *)
DummyEnter(t) ==
  /\ Goto(t, "wantDummy", "dmPop")
  /\ Acquire(t)
  /\ UNCHANGED <<tgt, refcount, fifo, flagVars, txVars, rival, session, leaks>>

DummyFirstTry(t) ==
  /\ \/ /\ fifo # <<>>
        /\ Goto(t, "dmPop", "open")
        /\ fifo' = Tail(fifo)
        /\ rival' = Others(t)
        /\ Release(t)
     \/ /\ fifo = <<>>
        /\ Goto(t, "dmPop", "dmWait")
        /\ UNCHANGED <<fifo, rival, mutex>>
  /\ UNCHANGED <<tgt, refcount, flagVars, txVars, session, leaks>>

(* A timeout or a signal ends the call, a wake-up leads to the second try.  *)
DummyWaitEnd(t) ==
  /\ \/ fifo # <<>> /\ Goto(t, "dmWait", "dmTake") /\ UNCHANGED mutex
     \/ fifo = <<>> /\ Goto(t, "dmWait", "open") /\ Release(t)
  /\ UNCHANGED <<tgt, refcount, fifo, flagVars, txVars, rival, session, leaks>>

DummyTake(t) ==
  /\ Goto(t, "dmTake", "open")
  /\ Release(t)
  /\ \/ fifo # <<>> /\ fifo' = Tail(fifo) /\ rival' = Others(t)
     \/ fifo = <<>> /\ UNCHANGED <<fifo, rival>>
  /\ UNCHANGED <<tgt, refcount, flagVars, txVars, session, leaks>>

-----------------------------------------------------------------------------
(* Interrupts.                                                              *)

(* memx_egress_dcore_isr: when the fifo is full the notification is dropped,*)
(* which changes nothing here.                                              *)
EgressIsr(c) ==
  /\ Len(fifo) < FifoCap
  /\ fifo' = Append(fifo, c)
  /\ UNCHANGED <<threadVars, refcount, flagVars, txVars, rival, session, leaks>>

(* memx_ingress_dcore_isr, for doorbells of given-up writes.  The device    *)
(* answers doorbells in order, and one interrupt may stand for several.     *)
IngressStale(c) ==
  /\ \E n \in 1..stale[c] : stale' = [stale EXCEPT ![c] = @ - n]
  /\ indicator' = [indicator EXCEPT ![c] = TRUE]
  /\ own' = [own EXCEPT ![c] = FALSE]
  /\ UNCHANGED <<threadVars, refcount, fifo, flagVars, live, abandoned, rival, session, leaks>>

\* Fault: the interrupt records its vector, not the chip the write compares with.
IngressWrongIndex(c) ==
  /\ live[c]
  /\ live' = [live EXCEPT ![c] = FALSE]
  /\ stale' = [stale EXCEPT ![c] = 0]
  /\ own' = [own EXCEPT ![c] = TRUE]
  /\ UNCHANGED <<threadVars, refcount, fifo, flagVars, indicator, abandoned, rival, session, leaks>>

(* memx_ingress_dcore_isr, for the doorbell of the write in progress.       *)
IngressLive(c) ==
  /\ live[c]
  /\ live' = [live EXCEPT ![c] = FALSE]
  /\ stale' = [stale EXCEPT ![c] = 0]
  /\ indicator' = [indicator EXCEPT ![c] = TRUE]
  /\ own' = [own EXCEPT ![c] = TRUE]
  /\ UNCHANGED <<threadVars, refcount, fifo, flagVars, abandoned, rival, session, leaks>>

-----------------------------------------------------------------------------
FileStep(t)  == Call(t) \/ LockSignal(t) \/ Open(t) \/ ReleaseFile(t)
ReadStep(t)  == \/ ReadFirstTry(t) \/ ReadWaitEnd(t) \/ ReadCheck(t)
                \/ ReadAbort(t) \/ ReadPop(t) \/ ReadCopy(t)
WriteStep(t) == \/ WriteEnter(t) \/ WriteRing(t) \/ WriteWaitEnd(t)
                \/ WriteAborted(t) \/ WriteInterrupted(t) \/ WriteCheck(t)
                \/ WriteFinish(t)
IoctlStep(t) == \/ AbortBegin(t) \/ AbortFlush(t) \/ AbortTx(t) \/ SetAbortRead(t)
                \/ FwCmdBegin(t) \/ FwCmdEnd(t) \/ DummyEnter(t)
                \/ DummyFirstTry(t) \/ DummyWaitEnd(t) \/ DummyTake(t)
DeviceStep(c) == EgressIsr(c) \/ IngressStale(c) \/ IngressLive(c)

Next ==
  \/ \E t \in Threads : FileStep(t) \/ ReadStep(t) \/ WriteStep(t) \/ IoctlStep(t)
  \/ \E c \in Chips : DeviceStep(c)

Spec == Init /\ [][Next]_vars

-----------------------------------------------------------------------------
(* Fairness.  A thread inside the driver keeps running: every wait of read  *)
(* and write has a timeout, so each of its steps stays enabled.  A semaphore*)
(* serves its waiters in order, so a thread that finds it free again and    *)
(* again gets it.  Users need not call anything, and no signal need come.   *)
(* That the device answers every doorbell is an assumption on the device.   *)

ReadRun(t)  == \/ ReadWaitEnd(t) \/ ReadCheck(t) \/ ReadAbort(t) \/ ReadPop(t) \/ ReadCopy(t)
WriteRun(t) == \/ WriteRing(t) \/ WriteWaitEnd(t) \/ WriteAborted(t)
               \/ WriteInterrupted(t) \/ WriteCheck(t) \/ WriteFinish(t)
IoctlRun(t) == \/ AbortFlush(t) \/ AbortTx(t) \/ FwCmdEnd(t)
               \/ DummyFirstTry(t) \/ DummyWaitEnd(t) \/ DummyTake(t)
TakeMutex(t) == \/ Open(t) \/ ReleaseFile(t) \/ WriteEnter(t) \/ AbortBegin(t)
                \/ SetAbortRead(t) \/ FwCmdBegin(t) \/ DummyEnter(t)

DriverFairness ==
  \A t \in Threads : /\ WF_vars(ReadRun(t))
                     /\ WF_vars(WriteRun(t))
                     /\ WF_vars(IoctlRun(t))
                     /\ SF_vars(TakeMutex(t))
DeviceFairness == \A c \in Chips : WF_vars(IngressLive(c))

FairSpec == Spec /\ DriverFairness /\ DeviceFairness

-----------------------------------------------------------------------------
(* Properties.                                                              *)

TypeOK ==
  /\ pc \in [Threads -> PC]
  /\ tgt \in [Threads -> Chips \cup {NoChip}]
  /\ mutex \in Threads \cup {NoThread}
  /\ refcount \in Int
  /\ fifo \in Seq(Chips) /\ Len(fifo) <= FifoCap
  /\ rxAbort \in BOOLEAN
  /\ readAbort \in BOOLEAN
  /\ txAbort \in [Chips -> BOOLEAN]
  /\ fwAbort \in BOOLEAN
  /\ indicator \in [Chips -> BOOLEAN]
  /\ live \in [Chips -> BOOLEAN]
  /\ stale \in [Chips -> Nat]
  /\ own \in [Chips -> BOOLEAN]
  /\ abandoned \in [Chips -> BOOLEAN]
  /\ rival \in [Threads -> BOOLEAN]
  /\ session \in BOOLEAN
  /\ leaks \in Nat

(* The mutex has exactly the owner whose call is between its down and up,   *)
(* so at most one doorbell wait, firmware command, abort or dummy read is   *)
(* in progress, and one write at most aims at a chip.                       *)
MutexHeld ==
  /\ \A t \in Threads : pc[t] \in Holding <=> mutex = t
  /\ \A t \in Threads : pc[t] \in Awaiting <=> tgt[t] # NoChip

(* A write reports its bytes as sent only on the device's answer to its own *)
(* doorbell, unless an earlier write to the chip gave up (by signal or by a *)
(* pending abort) and left an answer behind that nobody has cleared.        *)
WriteHasOwnAnswer ==
  \A t \in Threads : pc[t] = "wrDone" => own[tgt[t]] \/ abandoned[tgt[t]]

(* The indicator is set, or an answer is owed, only while a write to the    *)
(* chip is in progress: whatever a finished write leaves would complete the *)
(* next one.  A write that gave up is the one exception.                    *)
NoResidue ==
  \A c \in Chips :
    (indicator[c] \/ stale[c] > 0 \/ live[c]) =>
      abandoned[c] \/ \E t \in Threads : tgt[t] = c

(* read fails with -EFAULT (empty fifo on the second try) only if, since it *)
(* was woken, another reader, a dummy read or an abort emptied the fifo, or *)
(* another reader returned with the abort that had woken both.              *)
EmptyPopNeedsRival ==
  \A t \in Threads : pc[t] = "rdPop" /\ fifo = <<>> => rival[t]

(* reference_count is the number of open files plus the releases that a     *)
(* signal kept from the mutex.                                              *)
CountIsHandles == refcount = Cardinality(Handles) + leaks

(* No abort flag outlives its session: with no release lost, a flag that is *)
(* set while files are open was set since the first of them was opened.     *)
FlagsOfThisSession ==
  /\ leaks = 0
  /\ (rxAbort \/ readAbort \/ fwAbort \/ \E c \in Chips : txAbort[c])
  => session

(* An abort of the reader is withdrawn only by a reader that returns with   *)
(* it, or by the opener of a device that nobody has open.                   *)
AbortNotForgotten ==
  [][ /\ rxAbort /\ ~rxAbort' =>
           Handles = {} \/ \E t \in Threads : pc[t] = "rdAbort" /\ pc'[t] = "open"
      /\ \A c \in Chips : txAbort[c] /\ ~txAbort'[c] =>
           Handles = {} \/ \E t \in Threads : tgt[t] = c /\ pc'[t] = "open" ]_vars

(* After set_abort_read an abort leaves the queued notifications to dummy   *)
(* reads: from then on, until the next first open, an entry leaves the fifo *)
(* one at a time and only into the hands of a read or a dummy read.         *)
DrainOneByOne ==
  [][ readAbort /\ fifo' # fifo =>
        \/ Len(fifo') = Len(fifo) + 1
        \/ /\ fifo' = Tail(fifo)
           /\ \E t \in Threads : \/ pc'[t] = "rdCopy" /\ pc[t] # "rdCopy"
                                 \/ pc[t] \in {"dmPop", "dmTake"} /\ pc'[t] = "open" ]_vars

(* A write to a chip whose doorbell was not rung: nobody will answer it, and *)
(* it holds the mutex until a signal or a pending abort ends it.            *)
Unanswerable == \E t \in Threads : tgt[t] \in Unrung

(* With a device that answers every doorbell, a write comes back, unless    *)
(* from some time on the mutex is held by a write that rang none.           *)
WriteReturns ==
  []<>(~Unanswerable) => \A t \in Threads : pc[t] = "wantWrite" ~> pc[t] = "open"

(* On the same terms an abort is carried out although the mutex it needs is *)
(* held by writes, firmware commands and dummy reads while they wait.       *)
AbortReturns ==
  []<>(~Unanswerable) => \A t \in Threads : pc[t] = "wantAbort" ~> pc[t] = "open"

(* One reader: an abort that finds it waiting makes it return.              *)
AbortFreesReader ==
  \A t \in Readers : pc[t] \in Reading /\ rxAbort ~> pc[t] = "open"
=============================================================================
