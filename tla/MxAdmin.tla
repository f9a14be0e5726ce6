------------------------------ MODULE MxAdmin -------------------------------
(***************************************************************************)
(* The admin command mailbox of the PCIe driver (memx_feature.c): one slot *)
(* per chip in the DMA buffer, polled by the firmware of that chip.        *)
(*                                                                         *)
(* A caller copies its command into the slot, sets the slot's status to    *)
(* RECEIVE and polls the status until the firmware, which sets PROCESS     *)
(* while it works, has set COMPLETE, or for three seconds; either way it   *)
(* sets IDLE.  memx_dev->adminlock is held for the whole call.  Kinds of   *)
(* call:                                                                   *)
(*   one    get or set feature, selftest, i2c: one chip, which must exist  *)
(*   fs     the gpio files of procfs and sysfs: one chip, not checked      *)
(*   dfp    download: up to four chips at once, not checked when the       *)
(*          command is put in the slot and only awaited if they exist      *)
(*   local  answered from driver memory, or refused: no slot is used       *)
(***************************************************************************)
EXTENDS Naturals, Sequences

CONSTANTS
  Threads,
  Slots,       \* chip numbers a caller can name
  Chips,       \* chips that exist: below total_chip_cnt
  Given,       \* the calls users make: a kind, and the chips it names in order
  MayTimeOut,  \* whether the firmware of a chip can need more than 3 s
  MaxCalls,    \* bound: calls of the whole behaviour
  NoThread

NoCall == [kind |-> "local", chips |-> <<>>]

ASSUME AdminAssumption ==
  /\ Chips \subseteq Slots
  /\ Given \subseteq [kind : {"one", "fs"}, chips : {<<c>> : c \in Slots}]
                    \cup [kind : {"dfp"}, chips : Seq(Slots)] \cup {NoCall}
  /\ MayTimeOut \in BOOLEAN
  /\ MaxCalls \in Nat
  /\ NoThread \notin Threads

VARIABLES
  pc,         \* [Threads -> PC]
  call,       \* [Threads -> Calls]: the call t is in, or NoCall
  number,     \* [Threads -> Nat]: number of the call, 0 outside
  calls,      \* calls begun so far
  k,          \* [Threads -> Nat]: position in the call's list of chips
  replies,    \* [Threads -> SUBSET Replies]: the successes of the call
  adminlock,  \* a thread, or NoThread
  slot,       \* [Slots -> Mail]
  working,    \* [Chips -> SUBSET Commands]: what the firmware processes, if anything
  ran,        \* history: commands some firmware has begun
  twice,      \* history: a firmware has begun a command again
  spoilt      \* history: a command was given up, or a download named a chip twice

callerVars   == <<call, number, calls, k, replies>>
firmwareVars == <<working, ran, twice>>
vars == <<pc, call, number, calls, k, replies, adminlock, slot, working, ran, twice, spoilt>>

InLock == {"copy", "arm", "poll", "unlock"}
PC == {"idle", "lock"} \cup InLock

Calls == Given \cup {NoCall}

\* A command is known by the number of its call and its place in the call.
Commands == Nat \X Nat
Replies == [at : Nat, from : SUBSET Commands]

\* A slot: the status word, the command in it, and whose answer is in its second half.
Mail == [status : {"IDLE", "RECEIVE", "PROCESS", "COMPLETE"},
         cmd : SUBSET Commands, answer : SUBSET Commands, error : BOOLEAN]

Command(t) == <<number[t], k[t]>>
Chip(t) == call[t].chips[k[t]]

(* chip_id < total_chip_cnt, of the calls that check it.                    *)
Refused(c) == c.kind = "one" /\ c.chips[1] \notin Chips

NamesTwice(list) == \E i, j \in DOMAIN list : i # j /\ list[i] = list[j]

(* Only a download leaves chips it cannot have an answer from unpolled.     *)
Awaited(c, i) == c.kind = "dfp" => c.chips[i] \in Chips

-----------------------------------------------------------------------------
Init ==
  /\ pc = [t \in Threads |-> "idle"]
  /\ call = [t \in Threads |-> NoCall]
  /\ number = [t \in Threads |-> 0]
  /\ calls = 0
  /\ k = [t \in Threads |-> 1]
  /\ replies = [t \in Threads |-> {}]
  /\ adminlock = NoThread
  /\ slot = [c \in Slots |-> [status |-> "IDLE", cmd |-> {}, answer |-> {}, error |-> FALSE]]
  /\ working = [c \in Chips |-> {}]
  /\ ran = {}
  /\ twice = FALSE
  /\ spoilt = FALSE

Goto(t, from, to) == pc[t] = from /\ pc' = [pc EXCEPT ![t] = to]

(* memx_admin_ioctl, or a read or write of a gpio file.                     *)
Begin(t) ==
  /\ Goto(t, "idle", "lock")
  /\ calls < MaxCalls
  /\ calls' = calls + 1
  /\ number' = [number EXCEPT ![t] = calls + 1]
  /\ \E c \in Given : call' = [call EXCEPT ![t] = c]
  /\ UNCHANGED <<k, replies, adminlock, slot, firmwareVars, spoilt>>

\* Fault: the mailbox is not locked.
LockNothing(t) ==
  /\ Goto(t, "lock", IF Refused(call[t]) \/ call[t].chips = <<>> THEN "unlock" ELSE "copy")
  /\ spoilt' = (spoilt \/ NamesTwice(call[t].chips))
  /\ UNCHANGED <<callerVars, adminlock, slot, firmwareVars>>

Lock(t) ==
  /\ Goto(t, "lock", IF Refused(call[t]) \/ call[t].chips = <<>> THEN "unlock" ELSE "copy")
  /\ adminlock = NoThread
  /\ adminlock' = t
  /\ spoilt' = (spoilt \/ NamesTwice(call[t].chips))
  /\ UNCHANGED <<callerVars, slot, firmwareVars>>

\* Fault: the copy covers the status as well, which the caller has set.
CopyArmed(t) ==
  /\ Goto(t, "copy", "arm")
  /\ slot' = [slot EXCEPT ![Chip(t)] = [status |-> "RECEIVE", cmd |-> {Command(t)},
                                       answer |-> {}, error |-> FALSE]]
  /\ UNCHANGED <<callerVars, adminlock, firmwareVars, spoilt>>

(* memx_admin_trigger: the copy covers the command and the answer, not the  *)
(* status.                                                                  *)
Copy(t) ==
  /\ Goto(t, "copy", "arm")
  /\ slot' = [slot EXCEPT ![Chip(t)].cmd = {Command(t)}, ![Chip(t)].answer = {},
                          ![Chip(t)].error = FALSE]
  /\ UNCHANGED <<callerVars, adminlock, firmwareVars, spoilt>>

(* The second half of memx_admin_trigger; a download goes on to its next    *)
(* chip and awaits the answers when all are triggered.                      *)
Arm(t) ==
  /\ pc[t] = "arm"
  /\ slot' = [slot EXCEPT ![Chip(t)].status = "RECEIVE"]
  /\ IF k[t] < Len(call[t].chips)
     THEN pc' = [pc EXCEPT ![t] = "copy"] /\ k' = [k EXCEPT ![t] = @ + 1]
     ELSE pc' = [pc EXCEPT ![t] = "poll"] /\ k' = [k EXCEPT ![t] = 1]
  /\ UNCHANGED <<call, number, calls, replies, adminlock, firmwareVars, spoilt>>

Advance(t) ==
  IF k[t] < Len(call[t].chips)
  THEN k' = [k EXCEPT ![t] = @ + 1] /\ UNCHANGED pc
  ELSE pc' = [pc EXCEPT ![t] = "unlock"] /\ UNCHANGED k

(* A later chip of the download has not completed, and will not be awaited. *)
Abandons(t) ==
  \E i \in DOMAIN call[t].chips :
    /\ i > k[t]
    /\ call[t].chips[i] \in Chips
    /\ slot[call[t].chips[i]].status # "COMPLETE"

SkipAbsent(t) ==
  /\ pc[t] = "poll"
  /\ ~Awaited(call[t], k[t])
  /\ Advance(t)
  /\ UNCHANGED <<call, number, calls, replies, adminlock, slot, firmwareVars, spoilt>>

(* memx_admin_fetch_result sees COMPLETE.  An error ends the call: nobody   *)
(* awaits the chips that come later in a download.                          *)
Fetch(t) ==
  /\ pc[t] = "poll"
  /\ Awaited(call[t], k[t])
  /\ slot[Chip(t)].status = "COMPLETE"
  /\ slot' = [slot EXCEPT ![Chip(t)].status = "IDLE"]
  /\ IF slot[Chip(t)].error
     THEN /\ pc' = [pc EXCEPT ![t] = "unlock"]
          /\ spoilt' = (spoilt \/ Abandons(t))
          /\ UNCHANGED <<k, replies>>
     ELSE /\ Advance(t)
          /\ replies' = [replies EXCEPT ![t] =
                           @ \cup {[at |-> k[t], from |-> slot[Chip(t)].answer]}]
          /\ UNCHANGED spoilt
  /\ UNCHANGED <<call, number, calls, adminlock, firmwareVars>>

\* Fault: a command that timed out is sent again.
Resend(t) ==
  /\ Goto(t, "poll", "copy")
  /\ Awaited(call[t], k[t])
  /\ slot[Chip(t)].status # "COMPLETE"
  /\ MayTimeOut \/ Chip(t) \notin Chips
  /\ slot' = [slot EXCEPT ![Chip(t)].status = "IDLE"]
  /\ spoilt' = (spoilt \/ Chip(t) \in Chips)
  /\ UNCHANGED <<callerVars, adminlock, firmwareVars>>

(* Three seconds have passed.                                               *)
GiveUp(t) ==
  /\ Goto(t, "poll", "unlock")
  /\ Awaited(call[t], k[t])
  /\ slot[Chip(t)].status # "COMPLETE"
  /\ MayTimeOut \/ Chip(t) \notin Chips
  /\ slot' = [slot EXCEPT ![Chip(t)].status = "IDLE"]
  /\ spoilt' = (spoilt \/ Chip(t) \in Chips)
  /\ UNCHANGED <<callerVars, adminlock, firmwareVars>>

(* The call returns; its command and answers are the user's now.            *)
Unlock(t) ==
  /\ Goto(t, "unlock", "idle")
  /\ adminlock' = NoThread
  /\ call' = [call EXCEPT ![t] = NoCall]
  /\ number' = [number EXCEPT ![t] = 0]
  /\ k' = [k EXCEPT ![t] = 1]
  /\ replies' = [replies EXCEPT ![t] = {}]
  /\ UNCHANGED <<calls, slot, firmwareVars, spoilt>>

-----------------------------------------------------------------------------
(* The firmware of chip c: it finds RECEIVE in its slot ...                 *)
FwTake(c) ==
  /\ slot[c].status = "RECEIVE"
  /\ working[c] = {}
  /\ working' = [working EXCEPT ![c] = slot[c].cmd]
  /\ slot' = [slot EXCEPT ![c].status = "PROCESS"]
  /\ ran' = ran \cup slot[c].cmd
  /\ twice' = (twice \/ slot[c].cmd \cap ran # {})
  /\ UNCHANGED <<pc, callerVars, adminlock, spoilt>>

(* ... and, whatever the driver has done to the slot since, writes its      *)
(* answer and COMPLETE.                                                     *)
FwDone(c) ==
  /\ working[c] # {}
  /\ working' = [working EXCEPT ![c] = {}]
  /\ \E e \in BOOLEAN :
       slot' = [slot EXCEPT ![c].status = "COMPLETE", ![c].answer = working[c], ![c].error = e]
  /\ UNCHANGED <<pc, callerVars, adminlock, ran, twice, spoilt>>

Run(t) ==
  Copy(t) \/ Arm(t) \/ SkipAbsent(t) \/ Fetch(t) \/ GiveUp(t) \/ Unlock(t)

\* All calls the bound allows have been made and have returned.
Rest == calls = MaxCalls /\ (\A t \in Threads : pc[t] = "idle") /\ UNCHANGED vars

Next ==
  \/ \E t \in Threads : Begin(t) \/ Lock(t) \/ Run(t)
  \/ \E c \in Chips : FwTake(c) \/ FwDone(c)
  \/ Rest

Spec == Init /\ [][Next]_vars

(* A caller polls until the time is up, and a kernel mutex serves its       *)
(* waiters in turn; the firmware owes nothing.                              *)
FairSpec == Spec /\ \A t \in Threads : WF_vars(Run(t)) /\ SF_vars(Lock(t))

-----------------------------------------------------------------------------
TypeOK ==
  /\ pc \in [Threads -> PC]
  /\ call \in [Threads -> Calls]
  /\ number \in [Threads -> Nat]
  /\ calls \in Nat
  /\ k \in [Threads -> Nat] /\ \A t \in Threads : k[t] \in DOMAIN call[t].chips \cup {1}
  /\ replies \in [Threads -> SUBSET Replies]
  /\ adminlock \in Threads \cup {NoThread}
  /\ slot \in [Slots -> Mail]
  /\ working \in [Chips -> SUBSET Commands]
  /\ ran \in SUBSET Commands
  /\ twice \in BOOLEAN
  /\ spoilt \in BOOLEAN

(* Every success memx_admin_fetch_result has reported carries the answer to *)
(* the very command it was asked for, whoever else calls, until a command   *)
(* is given up while its chip may still answer.                             *)
AnswerIsOwnUnlessSpoilt ==
  spoilt \/ \A t \in Threads : \A r \in replies[t] : r.from = {<<number[t], r.at>>}

(* Even then no caller takes the bytes it copied into the slot itself, or   *)
(* those of a command nobody ran, for an answer.                            *)
AnswerIsSomeones ==
  \A t \in Threads : \A r \in replies[t] : r.from # {} /\ r.from \subseteq ran

(* A chip runs each command it is given once, until one is given up.        *)
RunsOnceUnlessSpoilt == spoilt \/ ~twice

(* When the lock is free no chip has, or will find, a command: what was     *)
(* sent has been answered.                                                  *)
QuietWhenFree ==
  adminlock = NoThread /\ ~spoilt =>
    \A c \in Chips : working[c] = {} /\ slot[c].status \in {"IDLE", "COMPLETE"}

(* memx_feature.c:205 "polling admin command done, require all command      *)
(* done": when a download has ended no chip still has a command of it.      *)
DownloadEndsDone ==
  \A t \in Threads :
    pc[t] = "unlock" /\ call[t].kind = "dfp" =>
      \A i \in DOMAIN call[t].chips :
        call[t].chips[i] \in Chips =>
          slot[call[t].chips[i]].status \in {"IDLE", "COMPLETE"}

(* Every call returns, whatever the chips do.                               *)
CallReturns == \A t \in Threads : pc[t] # "idle" ~> pc[t] = "idle"
=============================================================================
