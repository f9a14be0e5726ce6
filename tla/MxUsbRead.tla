------------------------------ MODULE MxUsbRead ------------------------------
(***************************************************************************)
(* The read path of the USB driver (1_kdrv_src/usb/memx_cascade_usbmain.c):*)
(* open and release, read(), and the ioctls MEMX_DUMMY_READ and            *)
(* MEMX_ABORT_TRANSFER.                                                    *)
(*                                                                         *)
(* Readers take readlock and share one URB, rxurb, its buffer and its      *)
(* completion rx_comp.  All else takes cfglock, so an abort and a reader   *)
(* share only data->state, which no lock protects.  The other ioctls are   *)
(* in MxUsbCtl; here they just hold cfglock for a while.                   *)
(*                                                                         *)
(* pc[t] is where thread t stands:                                         *)
(*   out, open             in user space, without and with an open file    *)
(*   rdLock .. rdCopy      in memx_read                                    *)
(*   dmCfg .. dmKill       in memx_dummy_read, from dmLock with cfglock    *)
(*   abCfg .. abUnlink     in memx_abort_transfer                          *)
(*   ctlCfg, ctl           in another ioctl or a write                     *)
(***************************************************************************)
EXTENDS Integers, FiniteSets

CONSTANTS
  Threads,       \* user threads, each with at most one file of its own
  Ops,           \* what they call, of Operations
  Signals,       \* whether a signal can interrupt a read
  BadBuffers,    \* whether copy_to_user can fail
  MaxTransfers,  \* bound: submissions of rxurb
  NoThread

Operations == {"read", "dummy", "abort", "control"}

ASSUME ReadAssumption ==
  /\ IsFiniteSet(Threads)
  /\ Ops \subseteq Operations
  /\ Signals \in BOOLEAN
  /\ BadBuffers \in BOOLEAN
  /\ MaxTransfers \in Nat
  /\ NoThread \notin Threads

VARIABLES
  pc,        \* [Threads -> PC]
  cfglock,   \* a thread, or NoThread
  readlock,  \* a thread, or NoThread
  refcount,  \* data->reference_count
  aborted,   \* data->state = MEMX_XFER_STATE_ABORT
  transfers, \* submissions of rxurb so far
  flying,    \* the submission rxurb is under way for, 0 if it is idle
  unlinking, \* usb_unlink_urb has been called on it
  length,    \* rxurb->actual_length # 0
  blank,     \* rxurb ended by itself with no bytes: an empty packet, or an error status
  packet,    \* number of the device's packet in rbuffer
  done,      \* completions counted in rx_comp
  mine,      \* [Threads -> Nat]: the submission t waits for
  overtaken, \* [Threads -> BOOLEAN]: history: an abort was made during t's read
  copied,    \* history: the last packet copied to a user
  badCopy    \* history: a copy_to_user has failed

dataVars == <<length, blank, packet>>
waitVars == <<aborted, transfers, flying, unlinking, dataVars, done>>
histVars == <<overtaken, copied, badCopy>>
vars == <<pc, cfglock, readlock, refcount, aborted, transfers, flying, unlinking, length,
          blank, packet, done, mine, overtaken, copied, badCopy>>

Reading  == {"rdLock", "rdFill", "rdWait", "rdAsleep", "rdWoken", "rdSignal", "rdKill",
              "rdCopy"}
Dummying == {"dmLock", "dmFill", "dmWait", "dmKill"}
InRead   == (Reading \ {"rdLock"}) \cup (Dummying \ {"dmLock"})   \* with readlock
InCfg    == Dummying \cup {"abUnlink", "ctl"}                     \* with cfglock
PC == {"out", "open", "dmCfg", "abCfg", "abSet", "ctlCfg"} \cup Reading \cup InCfg

Goto(t, from, to) == pc[t] = from /\ pc' = [pc EXCEPT ![t] = to]

(* The return of read or dummy read.                                        *)
Leave(t, from) ==
  /\ Goto(t, from, "open")
  /\ readlock' = NoThread
  /\ overtaken' = [overtaken EXCEPT ![t] = FALSE]

Init ==
  /\ pc = [t \in Threads |-> "out"]
  /\ cfglock = NoThread
  /\ readlock = NoThread
  /\ refcount = 0
  /\ aborted = FALSE
  /\ transfers = 0
  /\ flying = 0
  /\ unlinking = FALSE
  /\ length = FALSE
  /\ blank = FALSE
  /\ packet = 0
  /\ done = 0
  /\ mine = [t \in Threads |-> 0]
  /\ overtaken = [t \in Threads |-> FALSE]
  /\ copied = 0
  /\ badCopy = FALSE

-----------------------------------------------------------------------------
\* Fault: every open withdraws an abort.
OpenAnyway(t) ==
  /\ Goto(t, "out", "open")
  /\ cfglock = NoThread
  /\ refcount' = refcount + 1
  /\ aborted' = FALSE
  /\ UNCHANGED <<cfglock, readlock, transfers, flying, unlinking, dataVars, done, mine,
                 histVars>>

(* memx_open and memx_release: one critical section each.  Only the first   *)
(* open withdraws an abort that nobody has taken.                           *)
Open(t) ==
  /\ Goto(t, "out", "open")
  /\ cfglock = NoThread
  /\ refcount' = refcount + 1
  /\ aborted' = (aborted /\ refcount # 0)
  /\ UNCHANGED <<cfglock, readlock, transfers, flying, unlinking, dataVars, done, mine,
                 histVars>>

Release(t) ==
  /\ Goto(t, "open", "out")
  /\ cfglock = NoThread
  /\ refcount' = refcount - 1
  /\ UNCHANGED <<cfglock, readlock, waitVars, mine, histVars>>

-----------------------------------------------------------------------------
(* memx_read.                                                               *)

(* data->state is looked at before readlock is waited for; with an abort    *)
(* pending the read returns at once and changes nothing.                    *)
Read(t) ==
  /\ "read" \in Ops
  /\ Goto(t, "open", "rdLock")
  /\ ~aborted
  /\ overtaken' = [overtaken EXCEPT ![t] = \E u \in Threads : pc[u] = "abUnlink"]
  /\ UNCHANGED <<cfglock, readlock, refcount, waitVars, mine, copied, badCopy>>

\* Fault: a reader does not take readlock.
RdLockNothing(t) ==
  /\ Goto(t, "rdLock", "rdFill")
  /\ UNCHANGED <<cfglock, readlock, refcount, waitVars, mine, histVars>>

RdLock(t) ==
  /\ Goto(t, "rdLock", "rdFill")
  /\ readlock = NoThread
  /\ readlock' = t
  /\ UNCHANGED <<cfglock, refcount, waitVars, mine, histVars>>

(* usb_fill_bulk_urb and usb_submit_urb, which zeroes actual_length.        *)
Submit(t) ==
  /\ flying = 0 /\ transfers < MaxTransfers
  /\ transfers' = transfers + 1
  /\ flying' = transfers + 1
  /\ unlinking' = FALSE
  /\ length' = FALSE
  /\ blank' = FALSE
  /\ mine' = [mine EXCEPT ![t] = transfers + 1]

RdSubmit(t) ==
  /\ Goto(t, "rdFill", "rdWait")
  /\ Submit(t)
  /\ UNCHANGED <<cfglock, readlock, refcount, aborted, packet, done, histVars>>

(* rxurb is under way, or usb_submit_urb fails for a reason of its own.     *)
RdSubmitFails(t) ==
  /\ Leave(t, "rdFill")
  /\ UNCHANGED <<cfglock, refcount, waitVars, mine, copied, badCopy>>

(* wait_event_interruptible: the condition is looked at before going to     *)
(* sleep, and again when the callback or a signal wakes the reader; setting *)
(* the state does not.                                                      *)
ReadCond == done > 0 \/ aborted

RdWake(t) ==
  /\ ReadCond
  /\ Goto(t, "rdWait", "rdWoken")
  /\ UNCHANGED <<cfglock, readlock, refcount, waitVars, mine, histVars>>

RdSleep(t) ==
  /\ ~ReadCond
  /\ Goto(t, "rdWait", "rdAsleep")
  /\ UNCHANGED <<cfglock, readlock, refcount, waitVars, mine, histVars>>

RdSignal(t) ==
  /\ Signals
  /\ Goto(t, "rdAsleep", IF ReadCond THEN "rdWoken" ELSE "rdSignal")
  /\ UNCHANGED <<cfglock, readlock, refcount, waitVars, mine, histVars>>

(* What ended the wait: an abort before all else, and the reader that finds *)
(* it withdraws it.                                                         *)
RdCheck(t) ==
  \/ /\ aborted
     /\ \E w \in {"rdWoken", "rdSignal"} : Goto(t, w, "rdKill")
     /\ aborted' = FALSE
     /\ UNCHANGED <<cfglock, readlock, refcount, transfers, flying, unlinking, dataVars,
                    done, mine, histVars>>
  \/ /\ ~aborted
     /\ Goto(t, "rdSignal", "rdKill") \/ Goto(t, "rdWoken", "rdCopy")
     /\ UNCHANGED <<cfglock, readlock, refcount, waitVars, mine, histVars>>

\* Fault: the completion of the killed URB stays counted.
RdKillNoReinit(t) ==
  /\ Leave(t, "rdKill")
  /\ flying' = 0
  /\ unlinking' = FALSE
  /\ done' = IF flying = 0 THEN done ELSE done + 1
  /\ UNCHANGED <<cfglock, refcount, aborted, transfers, dataVars, mine, copied, badCopy>>

(* usb_kill_urb, reinit_completion                                          *)
RdKill(t) ==
  /\ Leave(t, "rdKill")
  /\ flying' = 0
  /\ unlinking' = FALSE
  /\ done' = 0
  /\ UNCHANGED <<cfglock, refcount, aborted, transfers, dataVars, mine, copied, badCopy>>

RdCopy(t) ==
  /\ Leave(t, "rdCopy")
  /\ copied' = IF length THEN packet ELSE copied
  /\ done' = 0
  /\ UNCHANGED <<cfglock, refcount, aborted, transfers, flying, unlinking, dataVars, mine,
                 badCopy>>

(* The completion stays counted.                                            *)
RdCopyFails(t) ==
  /\ BadBuffers
  /\ Leave(t, "rdCopy")
  /\ length
  /\ badCopy' = TRUE
  /\ UNCHANGED <<cfglock, refcount, waitVars, mine, copied>>

-----------------------------------------------------------------------------
(* The ioctls.  mutex_lock(&data->cfglock) cannot be interrupted.           *)

Ioctl(t) ==
  /\ \/ "dummy" \in Ops /\ Goto(t, "open", "dmCfg")
     \/ "abort" \in Ops /\ Goto(t, "open", "abCfg")
     \/ "control" \in Ops /\ Goto(t, "open", "ctlCfg")
  /\ UNCHANGED <<cfglock, readlock, refcount, waitVars, mine, histVars>>

Lock(t) ==
  /\ \/ Goto(t, "dmCfg", "dmLock")
     \/ Goto(t, "abCfg", "abSet")
     \/ Goto(t, "ctlCfg", "ctl")
  /\ cfglock = NoThread
  /\ cfglock' = t
  /\ UNCHANGED <<readlock, refcount, waitVars, mine, histVars>>

ControlDone(t) ==
  /\ Goto(t, "ctl", "open")
  /\ cfglock' = NoThread
  /\ UNCHANGED <<readlock, refcount, waitVars, mine, histVars>>

(* memx_abort_transfer: the state first, the URB then.                      *)
AbortSet(t) ==
  /\ Goto(t, "abSet", "abUnlink")
  /\ aborted' = TRUE
  /\ overtaken' = [u \in Threads |-> overtaken[u] \/ pc[u] \in Reading]
  /\ UNCHANGED <<cfglock, readlock, refcount, transfers, flying, unlinking, dataVars, done,
                 mine, copied, badCopy>>

\* Fault: an abort leaves rxurb alone.
AbortNoUnlink(t) ==
  /\ Goto(t, "abUnlink", "open")
  /\ cfglock' = NoThread
  /\ UNCHANGED <<readlock, refcount, waitVars, mine, histVars>>

(* Whoever's transfer is under way now is unlinked.                         *)
AbortUnlink(t) ==
  /\ Goto(t, "abUnlink", "open")
  /\ unlinking' = (flying # 0)
  /\ cfglock' = NoThread
  /\ UNCHANGED <<readlock, refcount, aborted, transfers, flying, dataVars, done, mine,
                 histVars>>

(* memx_dummy_read, with cfglock.                                           *)
DmLock(t) ==
  /\ Goto(t, "dmLock", "dmFill")
  /\ readlock = NoThread
  /\ readlock' = t
  /\ UNCHANGED <<cfglock, refcount, waitVars, mine, histVars>>

DmSubmit(t) ==
  /\ Goto(t, "dmFill", "dmWait")
  /\ Submit(t)
  /\ UNCHANGED <<cfglock, readlock, refcount, aborted, packet, done, histVars>>

DmSubmitFails(t) ==
  /\ Leave(t, "dmFill")
  /\ cfglock' = NoThread
  /\ UNCHANGED <<refcount, waitVars, mine, copied, badCopy>>

\* Fault: the dummy read looks at the completion and leaves it counted.
DmDoneLeft(t) ==
  /\ Leave(t, "dmWait")
  /\ done > 0
  /\ cfglock' = NoThread
  /\ UNCHANGED <<refcount, waitVars, mine, copied, badCopy>>

(* wait_for_completion_timeout takes the completion.                        *)
DmDone(t) ==
  /\ Leave(t, "dmWait")
  /\ done > 0
  /\ done' = done - 1
  /\ cfglock' = NoThread
  /\ UNCHANGED <<refcount, aborted, transfers, flying, unlinking, dataVars, mine, copied,
                 badCopy>>

\* Fault: a dummy read that is late waits once more, and again.
DmLateWaitsOn(t) == pc[t] = "dmWait" /\ done = 0 /\ UNCHANGED vars

(* The 100 ms of the wait are over.                                         *)
DmLate(t) ==
  /\ Goto(t, "dmWait", "dmKill")
  /\ done = 0
  /\ UNCHANGED <<cfglock, readlock, refcount, waitVars, mine, histVars>>

DmKill(t) ==
  /\ Leave(t, "dmKill")
  /\ flying' = 0
  /\ unlinking' = FALSE
  /\ done' = 0
  /\ cfglock' = NoThread
  /\ UNCHANGED <<refcount, aborted, transfers, dataVars, mine, copied, badCopy>>

-----------------------------------------------------------------------------
(* The host controller, and the callback memx_rxcomplete.                   *)

Complete ==
  /\ flying # 0
  /\ flying' = 0
  /\ unlinking' = FALSE
  /\ done' = done + 1
  /\ pc' = [t \in Threads |-> IF pc[t] = "rdAsleep" THEN "rdWait" ELSE pc[t]]

(* Bytes have come: a packet, or what there is of one when the URB ends in  *)
(* an error, for nothing looks at urb->status.  An URB being unlinked may   *)
(* still get them.                                                          *)
Packet ==
  /\ Complete
  /\ length' = TRUE
  /\ packet' = packet + 1
  /\ UNCHANGED <<cfglock, readlock, refcount, aborted, transfers, blank, mine, histVars>>

(* An empty packet, or an error before the first byte.                      *)
NoPacket ==
  /\ Complete
  /\ blank' = TRUE
  /\ UNCHANGED <<cfglock, readlock, refcount, aborted, transfers, length, packet, mine,
                 histVars>>

Unlinked ==
  /\ unlinking
  /\ Complete
  /\ UNCHANGED <<cfglock, readlock, refcount, aborted, transfers, dataVars, mine, histVars>>

\* What thread t does once it has asked for something.
Proceed(t) ==
  \/ RdSubmit(t) \/ RdSubmitFails(t) \/ RdWake(t) \/ RdSleep(t) \/ RdCheck(t) \/ RdKill(t)
  \/ RdCopy(t) \/ RdCopyFails(t)
  \/ DmSubmit(t) \/ DmSubmitFails(t) \/ DmDone(t) \/ DmLate(t) \/ DmKill(t)
  \/ AbortSet(t) \/ AbortUnlink(t) \/ ControlDone(t)

Next ==
  \/ \E t \in Threads : Open(t) \/ Release(t) \/ Read(t) \/ Ioctl(t) \/ RdSignal(t)
                        \/ RdLock(t) \/ Lock(t) \/ DmLock(t) \/ Proceed(t)
  \/ Packet
  \/ NoPacket
  \/ Unlinked

Spec == Init /\ [][Next]_vars

(* A thread that can run does, a mutex serves its waiters in turn, and the  *)
(* host controller unlinks what it is told to.  The device need not send.   *)
FairSpec ==
  /\ Spec
  /\ \A t \in Threads : WF_vars(Proceed(t)) /\ SF_vars(RdLock(t)) /\ SF_vars(Lock(t))
                        /\ SF_vars(DmLock(t))
  /\ WF_vars(Unlinked)

-----------------------------------------------------------------------------
TypeOK ==
  /\ pc \in [Threads -> PC]
  /\ cfglock \in Threads \cup {NoThread}
  /\ readlock \in Threads \cup {NoThread}
  /\ refcount \in Nat
  /\ aborted \in BOOLEAN
  /\ transfers \in 0 .. MaxTransfers
  /\ flying \in 0 .. transfers
  /\ unlinking \in BOOLEAN
  /\ length \in BOOLEAN
  /\ blank \in BOOLEAN
  /\ packet \in Nat
  /\ done \in Nat
  /\ mine \in [Threads -> 0 .. transfers]
  /\ overtaken \in [Threads -> BOOLEAN]
  /\ copied \in Nat
  /\ badCopy \in BOOLEAN

(* Unless a user gave a bad buffer, whoever takes readlock finds rxurb idle *)
(* and nothing counted: abort, signal, timeout and data leave nothing.      *)
NoResidue == readlock = NoThread /\ ~badCopy => flying = 0 /\ done = 0

(* The data a reader copies are those of its own transfer, which is over.   *)
CopyIsOwn ==
  \A t \in Threads : pc[t] = "rdCopy" /\ ~badCopy => flying = 0 /\ mine[t] = transfers

(* A read returns no bytes only when its own transfer brought none, or when *)
(* an abort was made while it was under way: one for an earlier reader may  *)
(* unlink a later one's transfer.  What an earlier read left never does it. *)
EmptyHasCause ==
  \A t \in Threads : pc[t] = "rdCopy" /\ ~length /\ ~badCopy => overtaken[t] \/ blank

(* A packet is copied to one reader at most, and packets in their order.    *)
DeliveredOnce == \A t \in Threads : pc[t] = "rdCopy" /\ length => packet > copied

(* An abort that is pending is withdrawn by the reader it ends, or by the   *)
(* first open of a new session.                                             *)
AbortIsTaken ==
  [][aborted /\ ~aborted' => \/ \E t \in Threads : pc'[t] = "rdKill" /\ pc[t] # "rdKill"
                             \/ \A t \in Threads : pc[t] = "out"]_vars

(* A pending abort ends the wait of the reader it finds, though the device  *)
(* never sends.                                                             *)
Waiting(t) == pc[t] \in {"rdWait", "rdAsleep"}
AbortFreesReader == \A t \in Threads : Waiting(t) /\ aborted ~> ~Waiting(t)

(* An abort gets cfglock and returns, however long readers wait: only a     *)
(* dummy read, which waits for readlock with cfglock held, can keep it.     *)
BehindReader == \E t \in Threads : pc[t] = "dmLock" /\ readlock # NoThread
AbortReturns == \A t \in Threads : pc[t] = "abCfg" ~> pc[t] = "open" \/ BehindReader
=============================================================================
