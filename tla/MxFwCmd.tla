------------------------------ MODULE MxFwCmd -------------------------------
(***************************************************************************)
(* The firmware command channel of the PCIe driver (memx_fw_cmd.c), its    *)
(* callers in memx_cascade_pciemain.c and memx_fw_init.c, and the ack      *)
(* interrupt (memx_msix_irq.c).                                            *)
(*                                                                         *)
(* A command is put in a buffer in the device's SRAM and interrupt 4 of    *)
(* the device is raised; the firmware writes the result over the same      *)
(* buffer and raises an MSI-X, whose handler sets fw_ctrl.indicator.  The  *)
(* ack says nothing of which command it is for.  The driver waits for it   *)
(* FailAckCount times one second, and gives up on a signal or an abort.    *)
(*                                                                         *)
(* Users come through ioctl, or remove, and hold their device's mutex for  *)
(* the whole call; probe and resume (Drivers) do not, although the node    *)
(* exists before probe runs its first command.  g_memx_fw_cmd_mutex is one *)
(* semaphore for all devices.  A call runs one or more requests:           *)
(*   cmd      sends a command and ignores the result buffer                *)
(*   query    sends a command and reads its result                         *)
(*   vendor   fills the buffer before it takes the semaphore, and reads it *)
(*            back whether or not the command came through                 *)
(*   ackOnly  sends nothing and waits for an ack (firmware has booted)     *)
(***************************************************************************)
EXTENDS Naturals, Sequences

CONSTANTS
  Users,         \* threads in memx_fops_ioctl or memx_pcie_remove
  Drivers,       \* threads in memx_pcie_probe or memx_pcie_resume
  Devices,
  DevOf,         \* [Users \cup Drivers -> Devices]
  FailAckCount,  \* FAIL_ACK_COUNT, 5 in the code
  Booted,        \* whether the boot ack has been taken before we start
  Signals,       \* whether a signal can interrupt the wait
  Aborts,        \* whether MEMX_ABORT_TRANSFER is called
  MaxCalls,      \* bound: calls of the whole behaviour
  Nobody         \* a semaphore is free

Threads == Users \cup Drivers

ASSUME FwCmdAssumption ==
  /\ Users \cap Drivers = {}
  /\ DevOf \in [Threads -> Devices]
  /\ FailAckCount \in Nat \ {0}
  /\ Booted \in BOOLEAN /\ Signals \in BOOLEAN /\ Aborts \in BOOLEAN
  /\ MaxCalls \in Nat
  /\ Nobody \notin Threads

VARIABLES
  pc,         \* [Threads -> PC]
  todo,       \* [Threads -> Seq(Requests)]: requests of the call not finished
  mine,       \* [Threads -> Nat]: number of the command t sent last, 0 for a user in no call
  fails,      \* [Threads -> 0 .. FailAckCount]: fail_count
  devMutex,   \* [Devices -> Users \cup {Nobody}]: memx_dev->mutex
  cmdMutex,   \* g_memx_fw_cmd_mutex
  sent,       \* [Devices -> Nat]: commands sent so far
  buffer,     \* [Devices -> Contents]: mmap_fw_cmd_buffer_base
  bell,       \* [Devices -> BOOLEAN]: interrupt 4 of the device is pending
  running,    \* [Devices -> SUBSET Nat]: the command the firmware works on, if any
  msi,        \* [Devices -> SUBSET Nat]: commands whose ack is on its way, 0 the boot
  indicator,  \* [Devices -> BOOLEAN]: fw_ctrl.indicator # -1
  isAbort,    \* [Devices -> BOOLEAN]: fw_ctrl.is_abort
  ackOf,      \* history: the command whose ack set the indicator
  left,       \* [Devices -> BOOLEAN]: history: a wait gave up, or took another's ack
  calls       \* calls begun so far

callVars   == <<todo, mine, calls>>
lockVars   == <<devMutex, cmdMutex>>
deviceVars == <<sent, buffer, bell, running, msi>>
ackVars    == <<indicator, isAbort, ackOf, left>>
vars == <<pc, todo, mine, fails, devMutex, cmdMutex, sent, buffer, bell, running, msi,
          indicator, isAbort, ackOf, left, calls>>

Requests == {"cmd", "query", "vendor", "ackOnly"}
InChannel == {"fill", "ring", "wait", "woke", "timeout", "signal", "failed", "acked"}
PC == {"idle", "next", "lock", "result"} \cup InChannel

\* What is in the buffer: a command or the result of one; 0 is what a vendor call put there.
Contents == [of : Nat, result : BOOLEAN]

(* MEMX_INIT_WTMEM_FMAP, MEMX_CONFIG_MPU_GROUP, MEMX_DOWNLOAD_FIRMWARE,     *)
(* MEMX_VENDOR_CMD, MEMX_WAIT_FW_MSIX_ACK; remove is like the first.        *)
IoctlCalls == {<<"cmd">>, <<"cmd", "query">>, <<"query">>, <<"vendor">>, <<"ackOnly">>}
(* memx_firmware_init, when it has downloaded the firmware and when not.    *)
DriverCalls == {<<"ackOnly", "cmd", "query">>, <<"cmd", "query">>}

Goto(t, from, to) == pc[t] = from /\ pc' = [pc EXCEPT ![t] = to]
Request(t) == Head(todo[t])

-----------------------------------------------------------------------------
Init ==
  /\ pc = [t \in Threads |-> "idle"]
  /\ todo = [t \in Threads |-> <<>>]
  /\ mine = [t \in Threads |-> 0]
  /\ fails = [t \in Threads |-> 0]
  /\ devMutex = [d \in Devices |-> Nobody]
  /\ cmdMutex = Nobody
  /\ sent = [d \in Devices |-> 0]
  /\ buffer = [d \in Devices |-> [of |-> 0, result |-> FALSE]]
  /\ bell = [d \in Devices |-> FALSE]
  /\ running = [d \in Devices |-> {}]
  /\ msi = [d \in Devices |-> IF Booted THEN {} ELSE {0}]
  /\ indicator = [d \in Devices |-> FALSE]
  /\ isAbort = [d \in Devices |-> FALSE]
  /\ ackOf = [d \in Devices |-> 0]
  /\ left = [d \in Devices |-> FALSE]
  /\ calls = 0

\* Fault: an ioctl does not take memx_dev->mutex.
BeginUnlocked(t) ==
  /\ Goto(t, "idle", "next")
  /\ calls < MaxCalls
  /\ calls' = calls + 1
  /\ \E c \in IoctlCalls : todo' = [todo EXCEPT ![t] = c]
  /\ UNCHANGED <<mine, fails, lockVars, deviceVars, ackVars>>

(* A call begins; a user first gets the mutex of its device.                *)
Begin(t) ==
  /\ Goto(t, "idle", "next")
  /\ calls < MaxCalls
  /\ calls' = calls + 1
  /\ \/ /\ t \in Users
        /\ devMutex[DevOf[t]] = Nobody
        /\ devMutex' = [devMutex EXCEPT ![DevOf[t]] = t]
        /\ \E c \in IoctlCalls : todo' = [todo EXCEPT ![t] = c]
     \/ /\ t \in Drivers
        /\ \E c \in DriverCalls : todo' = [todo EXCEPT ![t] = c]
        /\ UNCHANGED devMutex
  /\ UNCHANGED <<mine, fails, cmdMutex, deviceVars, ackVars>>

(* A vendor call fills the buffer before it takes the semaphore.            *)
NextRequest(t) ==
  /\ todo[t] # <<>>
  /\ Goto(t, "next", "lock")
  /\ buffer' = IF Request(t) = "vendor"
               THEN [buffer EXCEPT ![DevOf[t]] = [of |-> 0, result |-> FALSE]]
               ELSE buffer
  /\ UNCHANGED <<fails, callVars, lockVars, sent, bell, running, msi, ackVars>>

(* down(&g_memx_fw_cmd_mutex) cannot be interrupted.                        *)
LockChannel(t) ==
  /\ Goto(t, "lock", "fill")
  /\ cmdMutex = Nobody
  /\ cmdMutex' = t
  /\ UNCHANGED <<fails, callVars, devMutex, deviceVars, ackVars>>

(* memx_send_command_to_firmware up to the doorbell.                        *)
FillBuffer(t) ==
  LET d == DevOf[t] IN
  /\ pc[t] = "fill"
  /\ \/ /\ Request(t) = "ackOnly"
        /\ Goto(t, "fill", "wait")
        /\ UNCHANGED <<mine, sent, buffer>>
     \/ /\ Request(t) # "ackOnly"
        /\ Goto(t, "fill", "ring")
        /\ sent' = [sent EXCEPT ![d] = @ + 1]
        /\ mine' = [mine EXCEPT ![t] = sent[d] + 1]
        /\ buffer' = [buffer EXCEPT ![d] = [of |-> sent[d] + 1, result |-> FALSE]]
  /\ UNCHANGED <<todo, calls, fails, lockVars, bell, running, msi, ackVars>>

(* memx_pcie_trigger_device_irq(memx_dev, 0, fw_cmd_idx_4).                 *)
RingBell(t) ==
  /\ Goto(t, "ring", "wait")
  /\ bell' = [bell EXCEPT ![DevOf[t]] = TRUE]
  /\ UNCHANGED <<fails, callVars, lockVars, sent, buffer, running, msi, ackVars>>

(* wait_event_interruptible_timeout on fw_ctrl.wq, one second.              *)
WaitEnd(t) ==
  /\ \/ indicator[DevOf[t]] /\ Goto(t, "wait", "woke")
     \/ ~indicator[DevOf[t]] /\ Goto(t, "wait", "timeout")
     \/ Signals /\ ~indicator[DevOf[t]] /\ Goto(t, "wait", "signal")
  /\ UNCHANGED <<fails, callVars, lockVars, deviceVars, ackVars>>

(* A set abort flag is looked at first, and consumed.                       *)
WaitAborted(t) ==
  /\ isAbort[DevOf[t]]
  /\ \E s \in {"woke", "timeout", "signal"} : Goto(t, s, "failed")
  /\ isAbort' = [isAbort EXCEPT ![DevOf[t]] = FALSE]
  /\ UNCHANGED <<fails, callVars, lockVars, deviceVars, indicator, ackOf, left>>

\* Fault: the limit is compared before it is counted, and one wait is too many.
WaitCheckOneMore(t) ==
  /\ ~isAbort[DevOf[t]]
  /\ \/ Goto(t, "signal", "failed") /\ UNCHANGED fails
     \/ Goto(t, "woke", "acked") /\ UNCHANGED fails
     \/ /\ fails[t] < FailAckCount + 1
        /\ Goto(t, "timeout", "wait")
        /\ fails' = [fails EXCEPT ![t] = @ + 1]
     \/ /\ fails[t] = FailAckCount + 1
        /\ Goto(t, "timeout", "failed")
        /\ UNCHANGED fails
  /\ UNCHANGED <<callVars, lockVars, deviceVars, ackVars>>

\* Fault: a timeout is not counted.
WaitCheckNoCount(t) ==
  /\ ~isAbort[DevOf[t]]
  /\ \/ Goto(t, "signal", "failed")
     \/ Goto(t, "woke", "acked")
     \/ Goto(t, "timeout", "wait")
  /\ UNCHANGED <<fails, callVars, lockVars, deviceVars, ackVars>>

(* Signal and ack end the wait, so does the last of FailAckCount timeouts.  *)
WaitCheck(t) ==
  /\ ~isAbort[DevOf[t]]
  /\ \/ Goto(t, "signal", "failed") /\ UNCHANGED fails
     \/ Goto(t, "woke", "acked") /\ UNCHANGED fails
     \/ /\ fails[t] + 1 < FailAckCount
        /\ Goto(t, "timeout", "wait")
        /\ fails' = [fails EXCEPT ![t] = @ + 1]
     \/ /\ fails[t] + 1 = FailAckCount
        /\ Goto(t, "timeout", "failed")
        /\ fails' = [fails EXCEPT ![t] = @ + 1]
  /\ UNCHANGED <<callVars, lockVars, deviceVars, ackVars>>

(* The request is over: the next of the call comes.                         *)
Finish(t, from) ==
  /\ Goto(t, from, "next")
  /\ todo' = [todo EXCEPT ![t] = Tail(@)]

\* Fault: the indicator is not reset.
TakeAckNoReset(t) ==
  LET d == DevOf[t] IN
  /\ pc[t] = "acked"
  /\ left' = [left EXCEPT ![d] = @ \/ (Request(t) # "ackOnly" /\ ackOf[d] # mine[t])]
  /\ cmdMutex' = Nobody
  /\ \/ Request(t) \in {"query", "vendor"} /\ Goto(t, "acked", "result") /\ UNCHANGED todo
     \/ Request(t) \in {"cmd", "ackOnly"} /\ Finish(t, "acked")
  /\ fails' = [fails EXCEPT ![t] = 0]
  /\ UNCHANGED <<mine, calls, devMutex, deviceVars, indicator, isAbort, ackOf>>

(* The wait returned 0: the ack is consumed, the semaphore given back and   *)
(* the buffer, as it is later, is what the caller gets.                     *)
TakeAck(t) ==
  LET d == DevOf[t] IN
  /\ pc[t] = "acked"
  /\ indicator' = [indicator EXCEPT ![d] = FALSE]
  /\ left' = [left EXCEPT ![d] = @ \/ (Request(t) # "ackOnly" /\ ackOf[d] # mine[t])]
  /\ cmdMutex' = Nobody
  /\ \/ Request(t) \in {"query", "vendor"} /\ Goto(t, "acked", "result") /\ UNCHANGED todo
     \/ Request(t) \in {"cmd", "ackOnly"} /\ Finish(t, "acked")
  /\ fails' = [fails EXCEPT ![t] = 0]
  /\ UNCHANGED <<mine, calls, devMutex, deviceVars, isAbort, ackOf>>

(* The wait failed and NULL is returned: a query ends with an error, a      *)
(* vendor call reads the buffer all the same, the others do not look.       *)
FailRequest(t) ==
  /\ pc[t] = "failed"
  /\ cmdMutex' = Nobody
  /\ left' = [left EXCEPT ![DevOf[t]] = TRUE]
  /\ \/ Request(t) = "vendor" /\ Goto(t, "failed", "result") /\ UNCHANGED todo
     \/ Request(t) # "vendor" /\ Finish(t, "failed")
  /\ fails' = [fails EXCEPT ![t] = 0]
  /\ UNCHANGED <<mine, calls, devMutex, deviceVars, indicator, isAbort, ackOf>>

(* memx_get_hw_info, MEMX_DOWNLOAD_FIRMWARE and MEMX_VENDOR_CMD read the    *)
(* buffer with the semaphore already given back.                            *)
ReadResult(t) ==
  /\ Finish(t, "result")
  /\ UNCHANGED <<mine, calls, fails, lockVars, deviceVars, ackVars>>

End(t) ==
  /\ todo[t] = <<>>
  /\ Goto(t, "next", "idle")
  /\ mine' = [mine EXCEPT ![t] = IF t \in Users THEN 0 ELSE @]
  /\ devMutex' = [d \in Devices |-> IF devMutex[d] = t THEN Nobody ELSE devMutex[d]]
  /\ UNCHANGED <<todo, calls, fails, cmdMutex, deviceVars, ackVars>>

-----------------------------------------------------------------------------
(* What else touches fw_ctrl: memx_pcie_abort_transfer, under the mutex of  *)
(* the device; and a reader that returns with the abort, under no lock.     *)
AbortTransfer(d) ==
  /\ Aborts
  /\ devMutex[d] = Nobody
  /\ isAbort' = [isAbort EXCEPT ![d] = TRUE]
  /\ indicator' = [indicator EXCEPT ![d] = FALSE]
  /\ UNCHANGED <<pc, fails, callVars, lockVars, deviceVars, ackOf, left>>

ReaderTakesAbort(d) ==
  /\ isAbort[d]
  /\ isAbort' = [isAbort EXCEPT ![d] = FALSE]
  /\ UNCHANGED <<pc, fails, callVars, lockVars, deviceVars, indicator, ackOf, left>>

(* memx_firmware_msix_ack_isr.                                              *)
FwAckIsr(d) ==
  /\ \E n \in msi[d] : /\ msi' = [msi EXCEPT ![d] = @ \ {n}]
                       /\ ackOf' = [ackOf EXCEPT ![d] = n]
  /\ indicator' = [indicator EXCEPT ![d] = TRUE]
  /\ UNCHANGED <<pc, fails, callVars, lockVars, sent, buffer, bell, running, isAbort, left>>

(* The firmware takes what the buffer holds when it sees the doorbell, and  *)
(* writes the result over whatever is there when it is done.                *)
FwTake(d) ==
  /\ bell[d] /\ running[d] = {}
  /\ bell' = [bell EXCEPT ![d] = FALSE]
  /\ running' = [running EXCEPT ![d] = {buffer[d].of}]
  /\ UNCHANGED <<pc, fails, callVars, lockVars, sent, buffer, msi, ackVars>>

FwDone(d) ==
  /\ \E n \in running[d] : /\ buffer' = [buffer EXCEPT ![d] = [of |-> n, result |-> TRUE]]
                           /\ msi' = [msi EXCEPT ![d] = @ \cup {n}]
  /\ running' = [running EXCEPT ![d] = {}]
  /\ UNCHANGED <<pc, fails, callVars, lockVars, sent, bell, ackVars>>

-----------------------------------------------------------------------------
Run(t) == \/ NextRequest(t) \/ FillBuffer(t) \/ RingBell(t) \/ WaitEnd(t) \/ WaitAborted(t)
          \/ WaitCheck(t) \/ TakeAck(t) \/ FailRequest(t) \/ ReadResult(t) \/ End(t)
Device(d) == \/ AbortTransfer(d) \/ ReaderTakesAbort(d) \/ FwAckIsr(d) \/ FwTake(d) \/ FwDone(d)

Next == \/ \E t \in Threads : Begin(t) \/ LockChannel(t) \/ Run(t)
        \/ \E d \in Devices : Device(d)

Spec == Init /\ [][Next]_vars

(* A thread in the driver keeps running, every wait having a timeout, and a *)
(* semaphore serves its waiters in turn.  The firmware need not answer.     *)
FairSpec == /\ Spec
            /\ \A t \in Threads : WF_vars(Run(t)) /\ SF_vars(LockChannel(t))

-----------------------------------------------------------------------------
TypeOK ==
  /\ pc \in [Threads -> PC]
  /\ todo \in [Threads -> Seq(Requests)]
  /\ mine \in [Threads -> Nat]
  /\ fails \in [Threads -> 0 .. FailAckCount]
  /\ devMutex \in [Devices -> Users \cup {Nobody}]
  /\ cmdMutex \in Threads \cup {Nobody}
  /\ sent \in [Devices -> Nat]
  /\ buffer \in [Devices -> Contents]
  /\ bell \in [Devices -> BOOLEAN]
  /\ running \in [Devices -> SUBSET Nat]
  /\ msi \in [Devices -> SUBSET Nat]
  /\ indicator \in [Devices -> BOOLEAN]
  /\ isAbort \in [Devices -> BOOLEAN]
  /\ ackOf \in [Devices -> Nat]
  /\ left \in [Devices -> BOOLEAN]
  /\ calls \in Nat

(* memx_wait_for_firmware_msix_ack waits "until received cmd process done   *)
(* msix": the ack that ends the wait of a command is that command's.        *)
AckIsOwn ==
  \A t \in Threads :
    pc[t] = "acked" /\ Request(t) # "ackOnly" => ackOf[DevOf[t]] = mine[t]

(* It is, unless an earlier wait on the device gave up (five timeouts, a    *)
(* signal, an abort) or the ack of the boot had not been taken.             *)
AckIsOwnUnlessLeft ==
  \A t \in Threads :
    pc[t] = "acked" /\ Request(t) # "ackOnly" =>
      ackOf[DevOf[t]] \in {mine[t], 0} \/ left[DevOf[t]]

(* The hardware information and the download status an ioctl reads, after   *)
(* the semaphore is free again, are the result of its own command, however  *)
(* many users call: memx_dev->mutex protects what the semaphore no longer   *)
(* does.  It does so from users only: probe or resume may have sent a       *)
(* command of their own since.                                              *)
ResultIsOwn ==
  \A t \in Users :
    LET d == DevOf[t] IN
    pc[t] = "result" /\ Request(t) = "query" =>
      \/ buffer[d] = [of |-> mine[t], result |-> TRUE]
      \/ left[d]
      \/ \E p \in Drivers : DevOf[p] = d /\ mine[p] > mine[t]

(* When the firmware answers the doorbell the buffer holds the command that *)
(* was sent last, and neither a result nor what a vendor call put there.    *)
(* A vendor call fills the buffer without the semaphore, so this is not     *)
(* promised while probe or resume are in a call.                            *)
FirmwareSeesTheCommand ==
  [][\A d \in Devices :
       running'[d] # {} /\ running[d] = {} =>
         \/ buffer[d] = [of |-> sent[d], result |-> FALSE]
         \/ left[d]
         \/ \E p \in Drivers : DevOf[p] = d /\ pc[p] # "idle"]_vars

(* A call comes back even if the firmware of its device, or of the device   *)
(* of the call that has the semaphore, is silent.                           *)
CallReturns == \A t \in Threads : pc[t] # "idle" ~> pc[t] = "idle"
=============================================================================
