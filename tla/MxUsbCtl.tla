------------------------------ MODULE MxUsbCtl ------------------------------
(***************************************************************************)
(* The control path of the USB driver: everything that memx_ioctl,         *)
(* memx_write, the feature node, probe, and the procfs, sysfs and hwmon    *)
(* files do on the wire while they hold cfglock.                           *)
(*                                                                         *)
(* A call is one or more sections, each under cfglock, and a section is a  *)
(* sequence of bulk transfers over three URBs that all calls share.  For   *)
(* each the driver fills the URB and its buffer, submits it and waits on a *)
(* completion, which the URB's callback counts up, for at most so many     *)
(* seconds.  What a call does when a transfer is late, and which of its    *)
(* later transfers and sections it then leaves out, differs from call to   *)
(* call and is all that is kept of it here.                                *)
(*   tx    txurb and tbuffer        commands, payloads, feature maps       *)
(*   ftx   fw_txurb and fw_wbuffer  admin commands                         *)
(*   frx   fw_rxurb and fw_rbuffer  the answers to all of them             *)
(***************************************************************************)
EXTENDS Integers, Sequences

CONSTANTS
  Threads,
  Casts,       \* a sequence of sets of calls: those of one behaviour are of one set
  MayTimeOut,  \* whether the device can need longer than a wait lasts
  MayRefuse,   \* whether usb_submit_urb can fail on an idle URB
  Erring,      \* in DOMAIN Casts: the casts in which an URB can end in an error
  MaxCalls,    \* bound: calls of the whole behaviour
  NoThread

Urbs == {"tx", "ftx", "frx"}
Comps == {"fw", "tx", "fwrx"}   \* fw_comp, tx_comp, fwrx_comp

(* late is what is done about a late transfer: nothing, usb_kill_urb, or    *)
(* that and reinit_completion; skip is how many of the following transfers  *)
(* are left out when this one fails, and the later sections with them if it *)
(* reaches beyond the section; asks says that the device owes an answer to  *)
(* it, or (debug commands only) what is in the slot where chip 0 keeps its  *)
(* last admin command, checked that actual_length is looked at.             *)
Transfers ==
  {x \in [urb : Urbs, comp : Comps, late : {"leave", "kill", "reinit"},
          skip : Nat, asks : {"nothing", "answer", "slot"}, checked : BOOLEAN] :
     x.asks = "slot" => x.urb = "tx"}

ASSUME CtlAssumption ==
  /\ Casts \in Seq(SUBSET (Seq(Seq(Transfers)) \ {<<>>}))
  /\ MayTimeOut \in BOOLEAN
  /\ MayRefuse \in BOOLEAN
  /\ Erring \subseteq DOMAIN Casts
  /\ MaxCalls \in Nat
  /\ NoThread \notin Threads

-----------------------------------------------------------------------------
(* The sections of the calls.                                               *)

Out(comp, skip) == [urb |-> "tx", comp |-> comp, late |-> "leave", skip |-> skip,
                    asks |-> "nothing", checked |-> FALSE]
In(late) == [urb |-> "frx", comp |-> "fwrx", late |-> late, skip |-> 0,
             asks |-> "nothing", checked |-> FALSE]
Asks(x)    == [x EXCEPT !.asks = "answer"]
Checked(x) == [x EXCEPT !.checked = TRUE]

(* clear_fw_id: the clear command and a packet of no length.                *)
Clear == <<Out("fw", 1), Out("fw", 0)>>

(* set_dfp_chip_id and set_wtmem_addr: a header and its value.              *)
SetValue == <<Out("fw", 3), Out("fw", 2)>> \o Clear

(* MEMX_DRIVER_MPU_IN_SIZE and MEMX_FW_MPU_OUT_SIZE.                        *)
MpuSize == SetValue

ConfigMpuGroup == <<Out("fw", 3), Out("tx", 2)>> \o Clear

ResetDevice == <<Out("fw", 2)>> \o Clear

(* memx_flash_download, with n pieces; a failure goes on to clear_fw_id.    *)
FlashDownload(n) ==
  [i \in 1 .. n |-> Out("fw", n + 2 - i)]
  \o <<Asks(Out("fw", 1)), In("leave")>> \o Clear

(* memx_seperate_dfp_download of one chip: a configuration, or one weight   *)
(* memory.  set_dfp_chip_id, set_wtmem_addr and set_wtmem_size do not say   *)
(* whether they failed.                                                     *)
SeparateConfig(n) ==
  SetValue \o <<Out("fw", n + 2)>> \o [i \in 1 .. n |-> Out("fw", n + 2 - i)] \o Clear
SeparateWtmem(n) ==
  SetValue \o SetValue \o <<Out("fw", 0)>> \o [i \in 1 .. n |-> Out("fw", n + 2 - i)] \o Clear

(* memx_reg_operation.                                                      *)
WriteReg(n) == <<Out("fw", n + 2)>> \o [i \in 1 .. n |-> Out("tx", n - i)] \o Clear
ReadReg ==
  <<Out("fw", 8), Out("fw", 7)>> \o Clear \o <<Out("fw", 4), Asks(Out("fw", 3))>> \o Clear
  \o <<In("leave")>>

(* memx_get_fwupdate_status: only reads.                                    *)
FwUpdateStatus == <<Asks(Checked(In("leave")))>>

(* memx_send_memxcmd and memx_read_chip0; and those that are built alike.   *)
DebugCommand == <<Asks(Out("fw", 1)), Checked(In("kill"))>>
DbgfsEnable  == DebugCommand
GetLogbuffer == DebugCommand
FeatureReadChip0 == DebugCommand

ReadSlot == <<[Out("fw", 1) EXCEPT !.asks = "slot"], Checked(In("kill"))>>

(* memx_admin_trigger.                                                      *)
AdminOut(skip) == [urb |-> "ftx", comp |-> "fw", late |-> "reinit", skip |-> skip,
                   asks |-> "nothing", checked |-> FALSE]
\* Fault: the answer to an admin command is not read.
AdminUnread == <<AdminOut(2), Asks(AdminOut(1))>>
Admin == <<AdminOut(2), Asks(AdminOut(1)), In("reinit")>>

(* memx_write, in n pieces.                                                 *)
WritePieces(n) ==
  [i \in 1 .. n |-> [urb |-> "tx", comp |-> "tx", late |-> "reinit", skip |-> n - i,
                     asks |-> "nothing", checked |-> FALSE]]

(* A section whose failure ends the call.                                   *)
Strict(section) == [i \in DOMAIN section |-> [section[i] EXCEPT !.skip = @ + 1]]

(* An I2C command: the ioctl reads the slot if the command came through,    *)
(* the file i2ctrl in any case.                                             *)
I2cIoctl == <<Strict(Admin), ReadSlot>>
I2cFile  == <<Admin, ReadSlot>>

(* The files cmd and debug, and the utilization of the chips by ioctl;      *)
(* gpioctrl, read and written.                                              *)
FileCommand == <<DebugCommand>>
FileLog     == <<GetLogbuffer>>
Utilization == <<FeatureReadChip0>>
GpioFile    == <<Admin>>

(* verinfo, which reads five addresses, and thermalthrottling, which sends  *)
(* each chip a command, go on whatever becomes of the earlier ones.         *)
Several(n) == [i \in 1 .. n |-> DebugCommand]
SetThermal(n) == Several(n)

(* probe asks for the number of chips and then tells each its lanes, when   *)
(* the node is there already.                                               *)
EnableDebug(n) == <<Strict(DbgfsEnable)>> \o Several(n)

(* update_flash: n commands, then up to p looks for the outcome.            *)
UpdateFlash(n, p) == Several(n) \o [i \in 1 .. p |-> Strict(DebugCommand)]

-----------------------------------------------------------------------------
VARIABLES
  cast,      \* in DOMAIN Casts: the calls threads make
  pc,        \* [Threads -> PC]
  todo,      \* [Threads -> Seq(Transfers)]: what is left of the section
  more,      \* [Threads -> Seq(Seq(Transfers))]: the sections to come
  number,    \* [Threads -> Nat]: number of the call, 0 outside
  mine,      \* [Threads -> Nat]: number of the transfer t is at, 0 outside
  answers,   \* [Threads -> SUBSET Nat]: the calls t has read the answers of
  calls,     \* calls begun so far
  cfglock,   \* a thread, or NoThread
  transfers, \* transfers begun so far
  flying,    \* [Urbs -> Nat]: the transfer an URB is submitted for, 0 if it is idle
  asker,     \* [Urbs -> Nat \cup {Slot}]: the call to answer when the URB is done, 0 if
             \* none, Slot if what is in the slot is to be sent
  callback,  \* [Urbs -> Comps]: the completion its callback counts
  got,       \* fw_rxurb->actual_length # 0
  buffer,    \* [Urbs -> Nat]: whose bytes are in an URB's buffer: a transfer's, or for
             \* frx the answer to a call
  done,      \* [Comps -> Nat]: completions counted and not waited for
  through,   \* [Urbs -> Nat]: history: the last transfer the device finished
  owed,      \* Seq(Nat): calls whose answers the device has ready, in order
  slot,      \* Nat: the call whose admin command is in chip 0's slot
  since,     \* history: [Threads -> SUBSET Nat]: the calls whose admin commands the
             \* device took after that of t's call
  left,      \* history: a late transfer was left behind
  spoilt     \* history: some transfer failed

callVars   == <<todo, more, mine>>
threadVars == <<cast, number, answers, calls, cfglock>>
deviceVars == <<through, owed, slot, since>>
urbVars    == <<flying, asker, callback, got, buffer>>
vars == <<cast, pc, todo, more, number, mine, answers, calls, cfglock, transfers, flying, asker,
          callback, got, buffer, done, through, owed, slot, since, left, spoilt>>

Slot == -1

InLock == {"next", "wait", "late", "done"}
PC == {"idle", "lock"} \cup InLock

Goto(t, from, to) == pc[t] = from /\ pc' = [pc EXCEPT ![t] = to]
Transfer(t) == Head(todo[t])

Init ==
  /\ cast \in DOMAIN Casts
  /\ pc = [t \in Threads |-> "idle"]
  /\ todo = [t \in Threads |-> <<>>]
  /\ more = [t \in Threads |-> <<>>]
  /\ number = [t \in Threads |-> 0]
  /\ mine = [t \in Threads |-> 0]
  /\ answers = [t \in Threads |-> {}]
  /\ calls = 0
  /\ cfglock = NoThread
  /\ transfers = 0
  /\ flying = [u \in Urbs |-> 0]
  /\ asker = [u \in Urbs |-> 0]
  /\ callback = [u \in Urbs |-> "fw"]
  /\ got = FALSE
  /\ buffer = [u \in Urbs |-> 0]
  /\ done = [c \in Comps |-> 0]
  /\ through = [u \in Urbs |-> 0]
  /\ owed = <<>>
  /\ slot = 0
  /\ since = [t \in Threads |-> {}]
  /\ left = FALSE
  /\ spoilt = FALSE

Begin(t) ==
  /\ Goto(t, "idle", "lock")
  /\ calls < MaxCalls
  /\ calls' = calls + 1
  /\ number' = [number EXCEPT ![t] = calls + 1]
  /\ \E c \in Casts[cast] :
       /\ todo' = [todo EXCEPT ![t] = Head(c)]
       /\ more' = [more EXCEPT ![t] = Tail(c)]
  /\ UNCHANGED <<cast, mine, answers, cfglock, transfers, urbVars, done, deviceVars, left, spoilt>>

\* Fault: the call does not take cfglock.
LockNothing(t) ==
  /\ Goto(t, "lock", "next")
  /\ UNCHANGED <<callVars, threadVars, transfers, urbVars, done, deviceVars, left, spoilt>>

(* mutex_lock(&data->cfglock) cannot be interrupted.                        *)
Lock(t) ==
  /\ Goto(t, "lock", "next")
  /\ cfglock = NoThread
  /\ cfglock' = t
  /\ UNCHANGED <<callVars, cast, number, answers, calls, transfers, urbVars, done, deviceVars,
                 left, spoilt>>

(* What is left of the call once its current transfer has failed.           *)
Skip(t) ==
  LET s == todo[t] IN
  /\ todo' = [todo EXCEPT ![t] = SubSeq(s, 2 + Head(s).skip, Len(s))]
  /\ more' = [more EXCEPT ![t] = IF Head(s).skip < Len(s) THEN @ ELSE <<>>]

(* memcpy, usb_fill_bulk_urb, usb_submit_urb.  Buffer and callback are set  *)
(* before an URB that is still under way is refused.  A copy_from_user that *)
(* fails ends a call like a refusal.                                        *)
Submit(t) ==
  LET x == Transfer(t)
      u == x.urb
      n == transfers + 1
  IN
  /\ pc[t] = "next" /\ todo[t] # <<>>
  /\ transfers' = n
  /\ mine' = [mine EXCEPT ![t] = n]
  /\ callback' = [callback EXCEPT ![u] = x.comp]
  /\ buffer' = IF u = "frx" THEN buffer ELSE [buffer EXCEPT ![u] = n]
  /\ \/ /\ flying[u] # 0 \/ MayRefuse
        /\ Skip(t)
        /\ spoilt' = TRUE
        /\ UNCHANGED <<pc, flying, asker, got, owed>>
     \/ /\ flying[u] = 0
        /\ pc' = [pc EXCEPT ![t] = "wait"]
        /\ flying' = [flying EXCEPT ![u] = n]
        /\ asker' = [asker EXCEPT ![u] = IF x.asks = "slot" THEN Slot
                                           ELSE IF x.asks = "answer" /\ u # "frx" THEN number[t]
                                           ELSE 0]
        /\ got' = (got /\ u # "frx")
        /\ owed' = IF x.asks = "answer" /\ u = "frx" THEN Append(owed, number[t]) ELSE owed
        /\ UNCHANGED <<todo, more, spoilt>>
  /\ UNCHANGED <<threadVars, done, through, slot, since, left>>

\* Fault: a completion is taken that was not counted.
WaitDoneAnyway(t) ==
  LET c == Transfer(t).comp IN
  /\ Goto(t, "wait", "done")
  /\ done' = [done EXCEPT ![c] = @ - 1]
  /\ UNCHANGED <<callVars, threadVars, transfers, urbVars, deviceVars, left, spoilt>>

(* wait_for_completion_timeout takes whatever has been counted.             *)
WaitDone(t) ==
  LET c == Transfer(t).comp IN
  /\ Goto(t, "wait", "done")
  /\ done[c] > 0
  /\ done' = [done EXCEPT ![c] = @ - 1]
  /\ UNCHANGED <<callVars, threadVars, transfers, urbVars, deviceVars, left, spoilt>>

\* Fault: a wait lasts as long as its transfer.
WaitLateDone(t) ==
  /\ Goto(t, "wait", "late")
  /\ MayTimeOut
  /\ done[Transfer(t).comp] = 0 /\ flying[Transfer(t).urb] = 0
  /\ UNCHANGED <<callVars, threadVars, transfers, urbVars, done, deviceVars, left, spoilt>>

WaitLate(t) ==
  /\ Goto(t, "wait", "late")
  /\ MayTimeOut
  /\ done[Transfer(t).comp] = 0
  /\ UNCHANGED <<callVars, threadVars, transfers, urbVars, done, deviceVars, left, spoilt>>

\* Fault: the completion that usb_kill_urb causes is never taken back.
GiveUpNoReinit(t) ==
  LET x == Transfer(t) IN
  /\ Goto(t, "late", "next")
  /\ Skip(t)
  /\ \/ x.late = "leave" /\ UNCHANGED <<flying, done>>
     \/ /\ x.late # "leave"
        /\ flying' = [flying EXCEPT ![x.urb] = 0]
        /\ done' = IF flying[x.urb] = 0 THEN done ELSE [done EXCEPT ![callback[x.urb]] = @ + 1]
  /\ left' = (left \/ x.late # "reinit")
  /\ spoilt' = TRUE
  /\ UNCHANGED <<mine, threadVars, transfers, asker, callback, got, buffer, deviceVars>>

(* The call goes on without the transfer.  usb_kill_urb runs the callback   *)
(* of an URB that was under way.                                            *)
GiveUp(t) ==
  LET x == Transfer(t)
      u == x.urb
      killed == IF flying[u] = 0 THEN done ELSE [done EXCEPT ![callback[u]] = @ + 1]
  IN
  /\ Goto(t, "late", "next")
  /\ Skip(t)
  /\ \/ /\ x.late = "leave"
        /\ UNCHANGED <<flying, done>>
     \/ /\ x.late = "kill"
        /\ flying' = [flying EXCEPT ![u] = 0]
        /\ done' = killed
     \/ /\ x.late = "reinit"
        /\ flying' = [flying EXCEPT ![u] = 0]
        /\ done' = [killed EXCEPT ![x.comp] = 0]
  /\ left' = (left \/ x.late # "reinit")
  /\ spoilt' = TRUE
  /\ UNCHANGED <<mine, threadVars, transfers, asker, callback, got, buffer, deviceVars>>

(* The transfer counts as done, unless its length is looked at and there is *)
(* none; an answer is copied to the caller.                                 *)
Accept(t) ==
  /\ Goto(t, "done", "next")
  /\ \/ /\ Transfer(t).checked /\ ~got
        /\ Skip(t)
        /\ UNCHANGED answers
     \/ /\ Transfer(t).checked => got
        /\ todo' = [todo EXCEPT ![t] = Tail(@)]
        /\ answers' = IF Transfer(t).urb = "frx"
                      THEN [answers EXCEPT ![t] = @ \cup {buffer["frx"]}]
                      ELSE answers
        /\ UNCHANGED more
  /\ UNCHANGED <<cast, number, mine, calls, cfglock, transfers, urbVars, done, deviceVars, left,
                 spoilt>>

(* The section ends: the call goes on to the next one, or returns.          *)
Unlock(t) ==
  /\ todo[t] = <<>>
  /\ cfglock' = NoThread
  /\ mine' = [mine EXCEPT ![t] = 0]
  /\ \/ /\ more[t] # <<>>
        /\ Goto(t, "next", "lock")
        /\ todo' = [todo EXCEPT ![t] = Head(more[t])]
        /\ more' = [more EXCEPT ![t] = Tail(@)]
        /\ UNCHANGED <<number, answers, since>>
     \/ /\ more[t] = <<>>
        /\ Goto(t, "next", "idle")
        /\ number' = [number EXCEPT ![t] = 0]
        /\ answers' = [answers EXCEPT ![t] = {}]
        /\ since' = [since EXCEPT ![t] = {}]
        /\ UNCHANGED <<todo, more>>
  /\ UNCHANGED <<cast, calls, transfers, urbVars, done, through, owed, slot, left, spoilt>>

-----------------------------------------------------------------------------
(* The device.                                                              *)

(* The slot gets a command: those whose own was there before may miss it.   *)
TakeCommand(n) ==
  /\ slot' = n
  /\ since' = [t \in Threads |-> IF number[t] \in {0, n} THEN {} ELSE since[t] \cup {n}]

(* It takes what is in the buffer, and the URB's callback runs.             *)
OutDone(u) ==
  /\ flying[u] # 0
  /\ flying' = [flying EXCEPT ![u] = 0]
  /\ through' = [through EXCEPT ![u] = flying[u]]
  /\ done' = [done EXCEPT ![callback[u]] = @ + 1]
  /\ owed' = IF asker[u] = 0 THEN owed
             ELSE Append(owed, IF asker[u] = Slot THEN slot ELSE asker[u])
  /\ IF u = "ftx" /\ asker[u] # 0 THEN TakeCommand(asker[u]) ELSE UNCHANGED <<slot, since>>
  /\ UNCHANGED <<pc, callVars, threadVars, transfers, asker, callback, got, buffer, left, spoilt>>

(* It answers with the oldest answer it has.                                *)
InDone ==
  /\ flying["frx"] # 0 /\ owed # <<>>
  /\ flying' = [flying EXCEPT !["frx"] = 0]
  /\ through' = [through EXCEPT !["frx"] = flying["frx"]]
  /\ buffer' = [buffer EXCEPT !["frx"] = Head(owed)]
  /\ got' = TRUE
  /\ owed' = Tail(owed)
  /\ done' = [done EXCEPT ![callback["frx"]] = @ + 1]
  /\ UNCHANGED <<pc, callVars, threadVars, transfers, asker, callback, slot, since, left, spoilt>>

(* An URB ends in an error.  The callbacks do not look at urb->status, so   *)
(* for the caller the transfer is done.  A command has not reached the      *)
(* device; of an answer nothing has come, and what is in fw_rbuffer stays,  *)
(* or a part, and the rest is lost.                                         *)
UrbError(u) ==
  /\ cast \in Erring
  /\ flying[u] # 0
  /\ flying' = [flying EXCEPT ![u] = 0]
  /\ through' = [through EXCEPT ![u] = flying[u]]
  /\ done' = [done EXCEPT ![callback[u]] = @ + 1]
  /\ spoilt' = TRUE
  /\ \/ UNCHANGED <<got, owed>>
     \/ /\ u = "frx" /\ owed # <<>>
        /\ got' = TRUE
        /\ owed' = Tail(owed)
  /\ UNCHANGED <<pc, callVars, threadVars, transfers, asker, callback, buffer, slot, since, left>>

Run(t) == Submit(t) \/ WaitDone(t) \/ WaitLate(t) \/ GiveUp(t) \/ Accept(t) \/ Unlock(t)

\* All calls the bound allows have been made and have returned.
Quiesce == calls = MaxCalls /\ (\A t \in Threads : pc[t] = "idle") /\ UNCHANGED vars

Next ==
  \/ \E t \in Threads : Begin(t) \/ Lock(t) \/ Run(t)
  \/ \E u \in {"tx", "ftx"} : OutDone(u)
  \/ InDone
  \/ \E u \in Urbs : UrbError(u)
  \/ Quiesce

Spec == Init /\ [][Next]_vars

(* Every wait of a caller ends by itself, and a kernel mutex serves its     *)
(* waiters in turn; the device owes nothing.                                *)
FairSpec == Spec /\ \A t \in Threads : WF_vars(Run(t)) /\ SF_vars(Lock(t))

-----------------------------------------------------------------------------
TypeOK ==
  /\ cast \in DOMAIN Casts
  /\ pc \in [Threads -> PC]
  /\ todo \in [Threads -> Seq(Transfers)]
  /\ more \in [Threads -> Seq(Seq(Transfers))]
  /\ number \in [Threads -> Nat]
  /\ mine \in [Threads -> Nat]
  /\ answers \in [Threads -> SUBSET Nat]
  /\ calls \in Nat
  /\ cfglock \in Threads \cup {NoThread}
  /\ transfers \in Nat
  /\ flying \in [Urbs -> Nat]
  /\ asker \in [Urbs -> Nat \cup {Slot}]
  /\ callback \in [Urbs -> Comps]
  /\ got \in BOOLEAN
  /\ buffer \in [Urbs -> Nat]
  /\ done \in [Comps -> Nat]
  /\ through \in [Urbs -> Nat]
  /\ owed \in Seq(Nat)
  /\ slot \in Nat
  /\ since \in [Threads -> SUBSET Nat]
  /\ left \in BOOLEAN
  /\ spoilt \in BOOLEAN

(* A wait that reports a transfer done was ended by that transfer, not by   *)
(* an earlier one that was given up, unless a late one was left behind.     *)
DoneIsDone ==
  left \/ \A t \in Threads :
            pc[t] = "done" => through[Transfer(t).urb] = mine[t] /\ flying[Transfer(t).urb] = 0

(* What the device takes from a buffer is what the URB was submitted for:   *)
(* the driver does not write a buffer under way.                            *)
SentIntact == left \/ \A u \in {"tx", "ftx"} : flying[u] # 0 => buffer[u] = flying[u]

(* What a caller reads is the answer to its own call, until a transfer of   *)
(* somebody fails.  Only what an I2C call reads of chip 0's slot, after it  *)
(* has let go of cfglock, can be an admin command that came in between.     *)
AnswerIsOwnUnlessSpoilt ==
  spoilt \/ \A t \in Threads : answers[t] \subseteq {number[t]} \cup since[t]

(* usb/memx_cascade_debugfs.c:135 "Can't wait memxcmd 0x%X response": what  *)
(* a caller waits for, and then reads (141), is the response to the command *)
(* it has sent.                                                             *)
AnswerIsOwn == \A t \in Threads : answers[t] \subseteq {number[t]}

(* The lock is handed on with every URB idle and nothing counted: the       *)
(* clean-up of memx_write and of admin commands is complete.                *)
NoResidue ==
  cfglock = NoThread /\ ~left =>
    (\A u \in Urbs : flying[u] = 0) /\ (\A c \in Comps : done[c] = 0)

(* Every call returns, whatever the device does.                            *)
CallReturns == \A t \in Threads : pc[t] # "idle" ~> pc[t] = "idle"
=============================================================================
