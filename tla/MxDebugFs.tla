------------------------------ MODULE MxDebugFs -----------------------------
(***************************************************************************)
(* The files a device has under /proc or /sys: cmd and debug, which send   *)
(* commands to the firmware of a chip and print its log, thermalthrottling,*)
(* update_flash and gpioctrl (memx_fs.c, memx_fs_proc.c, memx_fs_sys.c,    *)
(* memx_fw_log.c).  The handlers of /proc and of /sys take the same steps. *)
(*                                                                         *)
(* A file is used by any number of processes at once.  What they share is  *)
(* in memory that the firmware reads: for each chip one command slot (two  *)
(* parameter words and the command word, which the firmware clears when it *)
(* takes the command) and one log; and, in the device's SRAM, one image    *)
(* and one word that says how writing it to the flash went.  Only the      *)
(* GPIO's admin command is under a lock.  A chip takes commands and logs   *)
(* while its log is connected, by a register that MxXflow reaches.         *)
(***************************************************************************)
EXTENDS MxXflow

CONSTANTS
  LogSize,     \* bound: cells of a chip's log, one of which stays empty
  Casts        \* bound: the kinds of job that are run together, and how many;
               \* "register" is any call of MxXflow, "connect" one that connects
               \* a log, "unplug" the loss of the device

ASSUME DebugFsAssumption ==
  /\ LogSize \in Nat \ {0, 1}
  /\ IsFiniteSet(Casts)
  /\ \A k \in Casts : IsFiniteSet(k.kinds) /\ k.jobs \in 0 .. MaxJobs

VARIABLES
  cast,       \* the member of Casts this behaviour draws from
  job,        \* [Users -> Job]: what a user's read or write of a file does
  work,       \* [Users -> Seq]: the steps it has left
  seen,       \* [Users -> pairs]: what it read before: wp and rp, or a pin
  slot,       \* [Chips -> [Fields -> Job]]: the words of the command slots
  throttle,   \* [Chips -> 0 .. 1]: whether the chip throttles when it is hot
  disabled,   \* ThermalThrottlingDisable
  remote,     \* history: chips whose last thermal command was an rmtcmd's
  log,        \* [Chips -> Log]: the firmware's log and what was printed of it
  sram,       \* the image in SRAM, its outcome word, and the firmware's orders
  flash,      \* the job whose image is in the flash
  gpio,       \* gpio_r: the pin the next read of gpioctrl is about
  pending,    \* history: [Chips -> SUBSET ids]: commands begun and not taken
  crossed,    \* history: ids of jobs that met another in a slot, or whose
              \* words one to another number overwrote
  muddled,    \* history: chips a dump of whose log met another, or a reset, or
              \* whose write pointer a command overwrote
  flashSpoilt,\* history: two updates met, or one timed out
  moved,      \* history: users in whose read of gpioctrl another pin was chosen
  failed      \* history: users the admin command of whose read failed, or took
              \* the late answer of one that timed out

slotVars  == <<slot, pending, crossed>>
heatVars  == <<throttle, disabled, remote>>
flashVars == <<sram, flash, flashSpoilt>>
gpioVars  == <<gpio, moved, failed>>
logVars   == <<log, muddled>>
dvars == <<cast, job, work, seen, slotVars, heatVars, logVars, flashVars, gpioVars>>
vars  == <<xvars, dvars>>

Ids    == 0 .. MaxJobs
Fields == {"param", "param2", "command"}
\* MaxChip + 1 stands for the numbers that no chip has.
Pins   == {<<c, n>> : c \in 0 .. MaxChip + 1, n \in 0 .. 1}
Kinds  == {"none", "read", "write", "memx", "rmtcmd", "stray", "pointer", "thermal",
           "fwlog", "update", "choose", "show"}
Job    == [kind : Kinds, id : Ids, value : 0 .. 1]
NoJob  == [kind |-> "none", id |-> 0, value |-> 0]
Log    == [wp : 0 .. LogSize - 1, rp : 0 .. LogSize - 1, made : Nat,
           cells : [0 .. LogSize - 1 -> Nat], printed : Seq(Nat)]

-----------------------------------------------------------------------------
(* The steps of each kind of job.                                          *)
Step(kind, c) == [kind |-> kind, chip |-> c]

\* memx_fs_cmd_handler: "read" has a parameter, "write" has two, and the memx
\* commands none.  "rmtcmd" sends any command word with a parameter: here the
\* thermal one, and with any other word it is as "read".
Uses(kind) == CASE kind \in {"read", "thermal", "rmtcmd"} -> {"param"}
                [] kind \in {"write", "update"} -> {"param", "param2"}
                [] OTHER -> {}

\* Fault: the command word goes first.
SendCommandFirst(kind, c) ==
  <<Step("command", c)>>
    \o (IF "param" \in Uses(kind) THEN <<Step("param", c)>> ELSE <<>>)
    \o (IF "param2" \in Uses(kind) THEN <<Step("param2", c)>> ELSE <<>>)

Send(kind, c) ==
  (IF "param" \in Uses(kind) THEN <<Step("param", c)>> ELSE <<>>)
    \o (IF "param2" \in Uses(kind) THEN <<Step("param2", c)>> ELSE <<>>)
    \o <<Step("command", c)>>

\* A chip's number is any byte: the check refuses none (memx_fs.c:50-55, "&&"
\* where "||" is meant), and the words of a number are 8 bytes apart, its second
\* parameter 16.  So the command word of number 64 + 2c, whatever the command,
\* is the second parameter of chip c, and the second parameter of 224 + c / 2
\* is the write pointer of the log of chip c, if c is even.  The other words of
\* the numbers that no chip has are no one's.
StrayWords == {Step("stray", c) : c \in Chips} \cup
          {Step("pointer", c) : c \in {d \in Chips : d % 2 = 0}}

\* memx_proc_write_thermal: every chip in turn, and then the driver's flag.  A
\* "thermal" command has two words.
SendUpTo(n) ==
  [i \in 1 .. 2 * n |-> LET c == (i - 1) \div 2 IN Send("thermal", c)[i - 2 * c]]

\* Fault: the loop ends before the last chip.
SetThermalButLast == SendUpTo(MaxChip) \o <<Step("flag", 0)>>

SetThermal == SendUpTo(MaxChip + 1) \o <<Step("flag", 0)>>

\* memx_fw_log_dump
DumpLog(c) == <<Step("wp", c), Step("rp", c), Step("print", c), Step("advance", c)>>

\* Fault: the outcome of the update before is not cleared.
UpdateFlashUncleared(ok) ==
  Send("update", 0) \o
  (IF ok THEN <<Step("image", 0), Step("order", 0), Step("poll", 0), Step("report", 0)>>
         ELSE <<>>)

\* memx_proc_qspi_usage: a command to chip 0; the image, unless there is none
\* or it fails its checks; an order to write it; the outcome.
UpdateFlash(ok) ==
  Send("update", 0) \o
  (IF ok THEN <<Step("image", 0), Step("clear", 0), Step("order", 0),
                Step("poll", 0), Step("report", 0)>>
         ELSE <<>>)

\* memx_proc_gpioctrl_usage
ShowPin == <<Step("pin", 0), Step("ask", 0), Step("fetch", 0), Step("label", 0)>>

-----------------------------------------------------------------------------
DInit ==
  /\ XInit /\ cast \in Casts
  \* the layout matters to register calls only
  /\ "register" \notin cast.kinds => mode = CHOOSE m \in Modes : TRUE
  /\ job = [u \in Users |-> NoJob] /\ work = [u \in Users |-> <<>>]
  /\ seen = [u \in Users |-> <<0, 0>>]
  /\ slot = [c \in Chips |-> [f \in Fields |-> NoJob]]
  /\ throttle = [c \in Chips |-> 1] /\ disabled = 0 /\ remote = {}
  \* a log that has been in use: the next entry but one wraps
  /\ LET p == IF "fwlog" \in cast.kinds THEN LogSize - 1 ELSE 0 IN
     log = [c \in Chips |-> [wp |-> p, rp |-> p, made |-> 0,
                            cells |-> [i \in 0 .. LogSize - 1 |-> 0],
                            printed |-> <<>>]]
  /\ sram = [image |-> 0, outcome |-> 0, order |-> FALSE] /\ flash = 0
  /\ gpio = <<0, 0>>
  /\ pending = [c \in Chips |-> {}] /\ crossed = {} /\ muddled = {}
  /\ flashSpoilt = FALSE /\ moved = {} /\ failed = {}

Working(kind) == {u \in Users : job[u].kind = kind}
Free(u) == call[u] = NoCall /\ job[u] = NoJob

Now(u) == Head(work[u])
At(u, kinds) == work[u] # <<>> /\ Now(u).kind \in kinds

\* A job ends with its last step.
Proceed(u) ==
  /\ work' = [work EXCEPT ![u] = Tail(@)]
  /\ job' = IF Tail(work[u]) = <<>> THEN [job EXCEPT ![u] = NoJob] ELSE job
Stop(u) ==
  /\ work' = [work EXCEPT ![u] = <<>>] /\ job' = [job EXCEPT ![u] = NoJob]

\* A process writes or reads a file.
Start(u, kind, v, steps) ==
  /\ Free(u) /\ ~gone /\ jobs < cast.jobs /\ jobs' = jobs + 1
  /\ job' = [job EXCEPT ![u] = [kind |-> kind, id |-> jobs', value |-> v]]
  /\ work' = [work EXCEPT ![u] = steps]
  /\ UNCHANGED <<mode, gone, reg, windows, box, call, todo, got, spoilt, left>>
  /\ kind \in cast.kinds
  /\ UNCHANGED <<cast, seen, slot, pending, heatVars, log, sram, flash>>

WriteCmd(u) ==
  /\ \/ \E kind \in {"read", "write", "memx"}, c \in Chips : Start(u, kind, 0, Send(kind, c))
     \/ \E v \in 0 .. 1, c \in Chips : Start(u, "rmtcmd", v, Send("rmtcmd", c))
     \/ \E s \in StrayWords : Start(u, s.kind, 0, <<s>>)
  /\ UNCHANGED <<crossed, muddled, flashSpoilt, gpioVars>>

\* Two that write the file at once leave chips and flag to chance.
WriteThermal(u) == \E v \in 0 .. 1 :
  /\ Start(u, "thermal", v, SetThermal)
  /\ crossed' = IF Working("thermal") = {} THEN crossed
                ELSE crossed \cup {jobs'} \cup {job[w].id : w \in Working("thermal")}
  /\ UNCHANGED <<muddled, flashSpoilt, gpioVars>>

WriteFwlog(u) == \E c \in Chips :
  /\ Start(u, "fwlog", 0, DumpLog(c))
  /\ muddled' = IF \E w \in Working("fwlog") : Now(w).chip = c
                THEN muddled \cup {c} ELSE muddled
  /\ UNCHANGED <<crossed, flashSpoilt, gpioVars>>

ReadUpdateFlash(u) == \E ok \in BOOLEAN :
  /\ Start(u, "update", 0, UpdateFlash(ok))
  /\ flashSpoilt' = (flashSpoilt \/ Working("update") # {})
  /\ UNCHANGED <<crossed, muddled, gpioVars>>

WriteGpio(u) == \E p \in Pins :
  /\ Free(u) /\ ~gone /\ "choose" \in cast.kinds /\ jobs < cast.jobs /\ jobs' = jobs + 1
  /\ gpio' = p /\ moved' = moved \cup Working("show") /\ failed' = failed
  /\ UNCHANGED <<mode, gone, reg, windows, box, call, todo, got, spoilt, left>>
  /\ UNCHANGED <<cast, job, work, seen, slotVars, heatVars, logVars, flashVars>>

ReadGpio(u) ==
  /\ Start(u, "show", 0, ShowPin)
  /\ moved' = moved \ {u} /\ failed' = failed \ {u}
  /\ UNCHANGED <<crossed, muddled, flashSpoilt, gpio>>

-----------------------------------------------------------------------------
\* The commands that a chip takes as one about its heat.
Heats == {"thermal", "rmtcmd"}

\* The words of a command slot.  A command is begun with its first word and
\* meets those that are begun and that the chip has not taken.
SlotWrite(u) ==
  LET c == Now(u).chip
      id == job[u].id
      others == pending[c] \ {id}
  IN
  /\ At(u, Fields) /\ Proceed(u)
  /\ slot' = [slot EXCEPT ![c][Now(u).kind] = job[u]]
  /\ pending' = [pending EXCEPT ![c] = @ \cup {id}]
  /\ crossed' = IF others = {} THEN crossed ELSE crossed \cup others \cup {id}
  /\ remote' = IF Now(u).kind # "command" \/ job[u].kind \notin Heats THEN remote
               ELSE IF job[u].kind = "rmtcmd" THEN remote \cup {c} ELSE remote \ {c}
  /\ UNCHANGED <<xvars, cast, seen, throttle, disabled, logVars, flashVars, gpioVars>>

\* It meets the command whose parameter it overwrites.
StrayWrite(u) ==
  LET c == Now(u).chip IN
  /\ At(u, {"stray"}) /\ Proceed(u)
  /\ slot' = [slot EXCEPT ![c].param2 = job[u]]
  /\ crossed' = crossed \cup ({slot[c].param2.id} \cap pending[c])
  /\ UNCHANGED <<xvars, cast, seen, pending, heatVars, logVars, flashVars, gpioVars>>

\* The value is any; those beyond the log are left out.
PointerWrite(u) == \E p \in 0 .. LogSize - 1 :
  LET c == Now(u).chip IN
  /\ At(u, {"pointer"}) /\ Proceed(u)
  /\ log' = [log EXCEPT ![c].wp = p] /\ muddled' = muddled \cup {c}
  /\ UNCHANGED <<xvars, cast, seen, slotVars, heatVars, flashVars, gpioVars>>

SetFlag(u) ==
  /\ At(u, {"flag"}) /\ Proceed(u)
  /\ disabled' = 1 - job[u].value
  /\ UNCHANGED <<xvars, cast, seen, slotVars, throttle, remote, logVars, flashVars, gpioVars>>

\* memx_fw_log_dump, from the pointers' reads to the new read pointer.
Unread(c, wp, rp) ==
  [i \in 1 .. (wp - rp) % LogSize |-> log[c].cells[(rp + i - 1) % LogSize]]

\* Fault: the write pointer is read once more at the end.
NewRpReread(u, c) == log[c].wp

NewRp(u, c) == seen[u][1]

LogStep(u) ==
  LET k == Now(u).kind
      c == Now(u).chip
  IN
  /\ At(u, {"wp", "rp", "print", "advance"}) /\ Proceed(u)
  /\ seen' = IF k = "wp" THEN [seen EXCEPT ![u][1] = log[c].wp]
             ELSE IF k = "rp" THEN [seen EXCEPT ![u][2] = log[c].rp] ELSE seen
  /\ log' = IF k = "print"
              THEN [log EXCEPT ![c].printed = @ \o Unread(c, seen[u][1], seen[u][2])]
            ELSE IF k = "advance" THEN [log EXCEPT ![c].rp = NewRp(u, c)] ELSE log
  /\ UNCHANGED <<xvars, cast, slotVars, heatVars, muddled, flashVars, gpioVars>>

FlashStep(u) ==
  LET k == Now(u).kind IN
  /\ At(u, {"image", "clear", "order"}) /\ Proceed(u)
  /\ sram' = IF gone THEN sram
             ELSE IF k = "image" THEN [sram EXCEPT !.image = job[u].id]
             ELSE IF k = "clear" THEN [sram EXCEPT !.outcome = 0]
             ELSE [sram EXCEPT !.order = TRUE]
  /\ UNCHANGED <<xvars, cast, seen, slotVars, heatVars, logVars, flash, flashSpoilt, gpioVars>>

FlashPoll(u) ==
  /\ At(u, {"poll"}) /\ (sram.outcome # 0 \/ gone) /\ Proceed(u)
  /\ UNCHANGED <<xvars, cast, seen, slotVars, heatVars, logVars, flashVars, gpioVars>>

\* Five seconds are over.
FlashTimeOut(u) ==
  /\ At(u, {"poll"}) /\ sram.outcome = 0 /\ ~gone /\ Stop(u)
  /\ flashSpoilt' = TRUE
  /\ UNCHANGED <<xvars, cast, seen, slotVars, heatVars, logVars, sram, flash, gpioVars>>

\* The word is read again for what is printed: PASS when it is 1.
Passes == sram.outcome = 1 /\ ~gone

FlashReport(u) ==
  /\ At(u, {"report"}) /\ Proceed(u)
  /\ UNCHANGED <<xvars, cast, seen, slotVars, heatVars, logVars, flashVars, gpioVars>>

\* Fault: the chip is dropped from the pin's number.
AskedChipZero == 0

AskedChip == gpio[1]

\* The pin's number is taken before the admin lock, its chip twice under it,
\* and both once more for what is printed.  The command times out after 3 s, as
\* it does when no chip has the number, or ends with an error, or takes what a
\* chip answers late to one before it (MxAdmin): its status is not looked at.
GpioStep(u) ==
  LET k == Now(u).kind IN
  /\ At(u, {"pin", "ask", "fetch", "label"}) /\ Proceed(u)
  /\ k = "ask" => \A w \in Users : ~At(w, {"fetch"})
  /\ failed' \in {failed} \cup (IF k = "fetch" THEN {failed \cup {u}} ELSE {})
  /\ k = "fetch" /\ AskedChip \notin Chips => u \in failed'
  /\ seen' = IF k = "pin" THEN [seen EXCEPT ![u][2] = gpio[2]]
             ELSE IF k = "ask" THEN [seen EXCEPT ![u][1] = AskedChip]
             ELSE IF k = "fetch" /\ (seen[u][1] # AskedChip \/ u \in failed')
                  THEN [seen EXCEPT ![u] = <<AskedChip, 2>>]   \* of no pin
             ELSE seen
  /\ UNCHANGED <<xvars, cast, slotVars, heatVars, logVars, flashVars, gpio, moved>>

-----------------------------------------------------------------------------
\* The firmware of a chip whose log is connected takes the command, clears its
\* word, carries it out with the parameters it finds, and logs what it did
\* when the log has room.
Connected(c) == reg[c]["log"] = Data(1) /\ ~gone

\* Fault: the write pointer does not wrap.
LoggedPastEnd(c) ==
  LET l == log[c] IN
  IF l.wp + 1 = l.rp THEN l
  ELSE [l EXCEPT !.cells[l.wp] = l.made + 1, !.wp = l.wp + 1, !.made = @ + 1]

Logged(c) ==
  LET l == log[c] IN
  IF (l.wp + 1) % LogSize = l.rp THEN l
  ELSE [l EXCEPT !.cells[l.wp] = l.made + 1, !.wp = (l.wp + 1) % LogSize,
                 !.made = @ + 1]

FwTake(c) ==
  LET k == slot[c].command IN
  /\ Connected(c) /\ k # NoJob
  /\ slot' = [slot EXCEPT ![c].command = NoJob]
  /\ throttle' = IF k.kind \in Heats THEN [throttle EXCEPT ![c] = slot[c].param.value]
                 ELSE throttle
  /\ log' = [log EXCEPT ![c] = Logged(c)]
  /\ pending' = [pending EXCEPT ![c] = {job[u].id : u \in
                    {w \in Users : /\ job[w].id \in pending[c]
                                   /\ \E i \in DOMAIN work[w] :
                                        work[w][i].kind \in Fields /\ work[w][i].chip = c}}]
  /\ UNCHANGED <<xvars, cast, job, work, seen, crossed, disabled, remote, muddled, flashVars,
                 gpioVars>>

FwFlash == \E outcome \in 1 .. 2 :
  /\ sram.order /\ ~gone
  /\ flash' = IF outcome = 1 THEN sram.image ELSE 0
  /\ sram' = [sram EXCEPT !.order = FALSE, !.outcome = outcome]
  /\ UNCHANGED <<xvars, cast, job, work, seen, slotVars, heatVars, logVars, flashSpoilt, gpioVars>>

Handler(u) ==
  \/ WriteCmd(u) \/ WriteThermal(u) \/ WriteFwlog(u) \/ ReadUpdateFlash(u)
  \/ WriteGpio(u) \/ ReadGpio(u)
  \/ SlotWrite(u) \/ StrayWrite(u) \/ PointerWrite(u) \/ SetFlag(u) \/ LogStep(u)
  \/ FlashStep(u) \/ FlashPoll(u) \/ FlashTimeOut(u) \/ FlashReport(u) \/ GpioStep(u)

\* memx_fw_log_init empties a log before it connects it, memx_fw_log_deinit
\* after: the logs that a step of the register calls empties.
Emptied ==
  {c \in Chips : \E u \in Users :
     \/ call[u] = NoCall /\ call'[u] = Call("write", c, "log", Data(1))
     \/ call[u] = Call("write", c, "log", Data(0)) /\ call'[u] = NoCall}

RegisterCalls ==
  /\ \/ \E u \in Users : Access(u)
     \/ \E u \in Users, k \in XCalls :
          /\ jobs < cast.jobs /\ Free(u) /\ Begin(u, k)
          /\ \/ "register" \in cast.kinds
             \/ "connect" \in cast.kinds /\ k \in Connections
     \/ Execute \/ ("unplug" \in cast.kinds /\ Unplug)
  /\ log' = [c \in Chips |->
              IF c \in Emptied
              THEN [log[c] EXCEPT !.wp = 0, !.rp = 0, !.made = 0, !.printed = <<>>]
              ELSE log[c]]
  /\ muddled' = muddled \cup
                  {Now(w).chip : w \in {v \in Working("fwlog") : Now(v).chip \in Emptied}}
  /\ UNCHANGED <<cast, job, work, seen, slotVars, heatVars, flashVars, gpioVars>>

DNext ==
  \/ \E u \in Users : Handler(u)
  \/ (\E c \in Chips : FwTake(c)) \/ FwFlash
  \/ RegisterCalls

DSpec == DInit /\ [][DNext]_vars

-----------------------------------------------------------------------------
TypeOK ==
  /\ XTypeOK
  /\ job \in [Users -> Job] /\ slot \in [Chips -> [Fields -> Job]]
  /\ \A u \in Users : job[u] = NoJob <=> work[u] = <<>>
  /\ throttle \in [Chips -> 0 .. 1] /\ disabled \in 0 .. 1 /\ remote \subseteq Chips
  /\ log \in [Chips -> Log] /\ muddled \subseteq Chips
  /\ sram \in [image : Ids, outcome : 0 .. 2, order : BOOLEAN] /\ flash \in Ids
  /\ gpio \in Pins /\ moved \subseteq Users /\ failed \subseteq Users
  /\ pending \in [Chips -> SUBSET Ids] /\ crossed \subseteq Ids

(* A command in a slot has the parameters written with it, and none is     *)
(* lost, unless it was begun before the chip took the one before, or one   *)
(* to a number that no chip has fell on its second parameter               *)
(* (memx_fs.c:84-111: nothing looks whether the chip did, nor at 50-55     *)
(* whether there is one).                                                  *)
CommandIsWhole ==
  \A c \in Chips :
    /\ LET k == slot[c].command IN
       (k # NoJob /\ k.id \notin crossed) =>
         \A f \in Uses(k.kind) : slot[c][f] = k
    /\ \A id \in pending[c] \ crossed :
         \/ slot[c].command.id = id
         \/ \E u \in Users : job[u].id = id /\ At(u, Fields) /\ Now(u).chip = c

(* Every entry a chip has logged since it was connected is printed once,   *)
(* in order, however the firmware logs during a dump; unless two dumps of  *)
(* it ran at once, it was connected or unconnected during one, or a        *)
(* command to a number that no chip has moved its write pointer            *)
(* (memx_fw_log.c:41-72).                                                  *)
LogPrintedOnce ==
  \A c \in Chips \ muddled :
    (\A u \in Working("fwlog") : Now(u).chip # c) =>
      log[c].printed \o Unread(c, log[c].wp, log[c].rp) = [i \in 1 .. log[c].made |-> i]

(* An update that reports PASS has its own image in the flash, unless two  *)
(* updates ran at once or one timed out (memx_fs_proc.c:148-165).          *)
PassIsWritten ==
  \A u \in Users :
    (At(u, {"report"}) /\ Passes /\ ~flashSpoilt) => flash = job[u].id

(* When no one writes the file thermalthrottling, every chip does what the *)
(* file shows, or will when it takes the command in its slot; unless       *)
(* commands met, and but for the chips that an rmtcmd told otherwise since *)
(* the file was last written (memx_fs_proc.c:450-463, memx_fs.c:110-111).  *)
ThermalAgrees ==
  (Working("thermal") = {} /\ crossed = {}) =>
    \A c \in Chips \ remote :
      disabled = 1 - (IF slot[c].command.kind \in Heats THEN slot[c].param.value
                      ELSE throttle[c])

(* The level gpioctrl prints is that of the pin it prints, unless a pin    *)
(* was chosen meanwhile or the admin command failed, which the print does  *)
(* not tell (memx_fs_proc.c:90-97).                                        *)
PinIsLabelled ==
  \A u \in Users \ (moved \cup failed) : At(u, {"label"}) => seen[u] = gpio
=============================================================================
