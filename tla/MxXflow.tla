------------------------------ MODULE MxXflow ------------------------------
(***************************************************************************)
(* The accessors of chip registers (memx_xflow.c).  A register is reached  *)
(* in one of three ways, as the device's BARs are laid out:                *)
(*   "direct", "short"  each chip has a window of its own: a control word  *)
(*              says whether it shows the MPU or the chip's configuration, *)
(*              a base word which address, and the virtual buffer is that  *)
(*              register.  In "short" the chips from Reach on have none.   *)
(*   "fourBar"  only chip 0 has a window; the control and base words and   *)
(*              the buffer of a chip behind it are themselves reached      *)
(*              through chip 0's window, one word at a time.               *)
(*   "mailbox"  the driver writes a command to the device's SRAM, the      *)
(*              firmware carries it out.                                   *)
(* No accessor takes a lock, and their callers hold different ones: every  *)
(* access to the bus is a step of its own.                                 *)
(*                                                                         *)
(* A word is <<kind, n>>.  An address in a base word names the register it *)
(* stands for; where an address that no call set would lead is "nowhere".  *)
(***************************************************************************)
EXTENDS Integers, Sequences, FiniteSets

CONSTANTS
  Users,
  MaxChip,    \* bound: last chip of the cascade, 15 in the code
  Reach,      \* chips with a window of their own in "short", 4 in the code
  MaxJobs,    \* bound: calls made
  Modes,      \* layouts to consider
  NoCall

ASSUME XflowAssumption ==
  /\ MaxChip \in Nat /\ Reach \in Nat \ {0} /\ MaxJobs \in Nat
  /\ Modes \subseteq {"direct", "short", "fourBar", "mailbox"}

Chips == 0 .. MaxChip
MpuRegisters == {"irq"}
Registers    == MpuRegisters \cup {"log", "loc"}

Data(v)    == <<"data", v>>
Control(c) == <<"control", c>>
Base(c)    == <<"base", c>>
Window(c)  == <<"buffer", c>>
Address(r) == <<r, 0>>
Nowhere    == <<"nowhere", 0>>
Ones       == <<"data", 2>>     \* what a device that left answers
Words == {Data(v) : v \in 0 .. 2} \cup {Address(r) : r \in Registers}
         \cup {Control(c) : c \in Chips} \cup {Base(c) : c \in Chips}
         \cup {Window(c) : c \in Chips} \cup {Nowhere}

Call(op, c, r, v) == [op |-> op, chip |-> c, name |-> r, value |-> v]

VARIABLES
  mode,     \* the layout: bar_mode
  gone,     \* the device has been unplugged
  reg,      \* [Chips -> [Registers -> Words]]: the chips' registers
  ctl,      \* [Chips -> Words]: control words, Data(0) shows the MPU
  base,     \* [Chips -> Words]: base address words
  box,      \* the mailbox in SRAM: command, address and data words
  call,     \* [Users -> calls]: the accessor call a user is in, or NoCall
  todo,     \* [Users -> Seq]: the bus accesses it has left
  got,      \* [Users -> Words]: what its last read returned
  jobs,     \* calls made so far
  spoilt,   \* history: users whose call met another in the same window
  left      \* history: the call given up on whose command is in the mailbox

windows == <<ctl, base>>
xvars == <<mode, gone, reg, ctl, base, box, call, todo, got, jobs, spoilt, left>>

Wild == Call("write", 0, "nowhere", Nowhere)
Complete == NoCall     \* the command word when the firmware is done

-----------------------------------------------------------------------------
(* The calls the driver makes: the doorbell of a chip, which has a BAR of  *)
(* its own in "fourBar"; the firmware log's connection, made and unmade    *)
(* for every chip; chip 0's local interrupts, read and cleared during a    *)
(* download.                                                               *)
Doorbells == {Call("write", c, "irq", Data(1)) : c \in Chips}
Connections == {Call("write", c, "log", Data(v)) : c \in Chips, v \in 0 .. 1}
LocalInterrupts ==
  {Call("read", 0, "loc", Data(0)), Call("write", 0, "loc", Data(1))}
XCalls == Doorbells \cup Connections \cup LocalInterrupts

ASSUME NoCallAssumption == NoCall \notin XCalls \cup {Wild}

-----------------------------------------------------------------------------
(* The bus accesses of a call, in order.                                   *)
Op(kind, c, w) == [kind |-> kind, chip |-> c, word |-> w]

Own(c) == c = 0 \/ mode # "fourBar"

\* A word of a chip behind chip 0, through chip 0's window.
Through(a, op) ==
  <<Op("control", 0, Data(1)), Op("base", 0, a), op>>

\* memx_xflow_set_access_mode
SetMode(c, w) ==
  IF Own(c) THEN <<Op("control", c, w)>>
            ELSE Through(Control(c), Op("poke", 0, w))

\* memx_xflow_set_base_address
SetBase(c, a) ==
  IF Own(c) THEN <<Op("base", c, a)>> ELSE Through(Base(c), Op("poke", 0, a))

\* Fault: the base of chip 0's window is left at the word set before.
WriteBufferUnbased(c, w) == <<Op("put", IF Own(c) THEN c ELSE 0, w)>>

\* memx_xflow_write_virtual_buffer_address
WriteBuffer(c, w) ==
  IF Own(c) THEN <<Op("put", c, w)>> ELSE Through(Window(c), Op("put", 0, w))

\* memx_xflow_read_virtual_buffer_address
ReadBuffer(c) ==
  IF Own(c) THEN <<Op("get", c, Data(0))>>
            ELSE Through(Window(c), Op("get", 0, Data(0)))

Mpu(r) == r \in MpuRegisters

Before(k) ==
  SetMode(k.chip, Data(IF Mpu(k.name) THEN 0 ELSE 1)) \o SetBase(k.chip, Address(k.name))

\* Fault: chip 0's window is left in configuration mode.
AfterOwnOnly(k) == IF Mpu(k.name) THEN <<>> ELSE SetMode(k.chip, Data(0))

After(k) ==
  (IF Mpu(k.name) THEN <<>> ELSE SetMode(k.chip, Data(0)))
    \o (IF mode = "fourBar" /\ k.chip > 0 THEN SetMode(0, Data(0)) ELSE <<>>)

Await == Op("await", 0, Nowhere)

\* memx_xflow_write
XflowWrite(k) ==
  IF mode = "mailbox"
  THEN <<Await, Op("address", 0, Address(k.name)), Op("data", 0, k.value),
         Op("issue", k.chip, Nowhere), Await>>
  ELSE Before(k) \o WriteBuffer(k.chip, k.value) \o After(k)

\* memx_xflow_read
XflowRead(k) ==
  IF mode = "mailbox"
  THEN <<Await, Op("address", 0, Address(k.name)),
         Op("issue", k.chip, Nowhere), Await, Op("fetch", 0, Nowhere)>>
  ELSE Before(k) \o ReadBuffer(k.chip) \o After(k)

\* memx_xflow_basic_check
Refused(k) == mode = "short" /\ k.chip >= Reach

Program(k) ==
  IF Refused(k) THEN <<Op("refuse", 0, Nowhere)>>
  ELSE IF k.op = "write" THEN XflowWrite(k) ELSE XflowRead(k)

-----------------------------------------------------------------------------
(* Where the buffer of chip c's window leads.                              *)
Shown(c) ==
  LET b == base[c]
      mpu == ctl[c] = Data(0)
  IN IF b[1] \in Registers
     THEN IF mpu = Mpu(b[1]) THEN <<b[1], c>> ELSE Nowhere
     ELSE IF mpu THEN Nowhere ELSE b

Target(c) ==
  LET t == Shown(c)
  IN IF t[1] = "buffer" /\ t[2] # c THEN Shown(t[2]) ELSE t

Load(t) ==
  IF gone THEN Ones
  ELSE IF t[1] \in Registers THEN reg[t[2]][t[1]] ELSE Nowhere

Store(t, w) ==
  /\ reg' = IF t[1] \in Registers /\ ~gone THEN [reg EXCEPT ![t[2]][t[1]] = w] ELSE reg
  /\ ctl' = IF t[1] = "control" /\ ~gone THEN [ctl EXCEPT ![t[2]] = w] ELSE ctl
  /\ base' = IF t[1] = "base" /\ ~gone THEN [base EXCEPT ![t[2]] = w] ELSE base

-----------------------------------------------------------------------------
XInit ==
  /\ mode \in Modes /\ gone = FALSE
  /\ reg = [c \in Chips |-> [r \in Registers |-> Data(IF r = "log" THEN 1 ELSE 0)]]
  /\ ctl = [c \in Chips |-> Data(0)] /\ base = [c \in Chips |-> Data(0)]
  /\ box = [command |-> Complete, address |-> Data(0), data |-> Data(0)]
  /\ call = [u \in Users |-> NoCall] /\ todo = [u \in Users |-> <<>>]
  /\ got = [u \in Users |-> Data(0)] /\ jobs = 0
  /\ spoilt = {} /\ left = NoCall

Calling == {u \in Users : call[u] # NoCall}

\* Two calls meet when one window serves both chips.
Meet(a, b) == mode \in {"fourBar", "mailbox"} \/ a.chip = b.chip

Begin(u, k) ==
  LET met == {v \in Calling : Meet(call[v], k)} IN
  /\ k \in Doorbells => mode # "fourBar"
  /\ call[u] = NoCall /\ ~gone /\ jobs < MaxJobs /\ jobs' = jobs + 1
  /\ call' = [call EXCEPT ![u] = k]
  /\ todo' = [todo EXCEPT ![u] = Program(k)]
  /\ spoilt' = spoilt \cup met \cup (IF met # {} THEN {u} ELSE {})
  /\ UNCHANGED <<mode, gone, reg, windows, box, got, left>>

Ready(u, kinds) == todo[u] # <<>> /\ Head(todo[u]).kind \in kinds
Done(u) == todo' = [todo EXCEPT ![u] = Tail(@)]

\* A store to a control or base word of a window, or through a window.
Write(u) ==
  LET op == Head(todo[u]) IN
  /\ Ready(u, {"control", "base", "poke", "put"}) /\ Done(u)
  /\ Store(IF op.kind \in {"poke", "put"} THEN Target(op.chip)
           ELSE <<op.kind, op.chip>>, op.word)
  /\ UNCHANGED <<mode, gone, box, call, got, jobs, spoilt, left>>

Read(u) ==
  /\ Ready(u, {"get"}) /\ Done(u)
  /\ got' = [got EXCEPT ![u] = Load(Target(Head(todo[u]).chip))]
  /\ UNCHANGED <<mode, gone, reg, windows, box, call, jobs, spoilt, left>>

\* The mailbox's words: its command names the chip, what to do and the mode.
Post(u) ==
  LET op == Head(todo[u]) IN
  /\ Ready(u, {"address", "data", "issue"}) /\ Done(u)
  /\ box' = IF gone THEN box
            ELSE IF op.kind = "address" THEN [box EXCEPT !.address = op.word]
            ELSE IF op.kind = "data" THEN [box EXCEPT !.data = op.word]
            ELSE [box EXCEPT !.command = call[u]]
  /\ UNCHANGED <<mode, gone, reg, windows, call, got, jobs, spoilt, left>>

Completed(u) ==
  /\ Ready(u, {"await"}) /\ Done(u)
  /\ box.command = Complete /\ ~gone
  /\ UNCHANGED <<mode, gone, reg, windows, box, call, got, jobs, spoilt, left>>

Fetch(u) ==
  /\ Ready(u, {"fetch"}) /\ Done(u)
  /\ got' = [got EXCEPT ![u] = IF gone THEN Ones ELSE box.data]
  /\ UNCHANGED <<mode, gone, reg, windows, box, call, jobs, spoilt, left>>

Leave(u) ==
  /\ call' = [call EXCEPT ![u] = NoCall]
  /\ todo' = [todo EXCEPT ![u] = <<>>]
  /\ spoilt' = spoilt \ {u}
  /\ UNCHANGED <<mode, gone, reg, windows, box, jobs>>

Return(u) == call[u] # NoCall /\ todo[u] = <<>> /\ Leave(u) /\ UNCHANGED <<got, left>>

\* After a second of polling, or at once when the device is gone, or a chip
\* that has no window: a read returns 0.  Behind the second wait the command
\* stays in the mailbox.
TimeOut(u) ==
  /\ Ready(u, {"refuse", "await"})
  /\ Head(todo[u]).kind = "await" => box.command # Complete \/ gone
  /\ got' = IF call[u].op = "write" THEN got ELSE [got EXCEPT ![u] = Data(0)]
  /\ left' = IF gone \/ (\E i \in DOMAIN todo[u] : todo[u][i].kind = "issue")
                \/ Head(todo[u]).kind = "refuse" THEN left
             ELSE IF u \in spoilt THEN Wild ELSE call[u]
  /\ Leave(u)

\* The firmware carries out the command with the words it finds.
Execute ==
  LET k == box.command
      r == box.address[1]
      hit == r \in Registers /\ Mpu(r) = Mpu(k.name)
  IN
  /\ k # Complete /\ ~gone
  /\ reg' = IF hit /\ k.op = "write" THEN [reg EXCEPT ![k.chip][r] = box.data] ELSE reg
  /\ box' = [box EXCEPT !.command = Complete,
                        !.data = IF k.op = "write" THEN @
                                 ELSE IF hit THEN reg[k.chip][r] ELSE Nowhere]
  /\ left' = NoCall
  /\ UNCHANGED <<mode, gone, windows, call, todo, got, jobs, spoilt>>

Unplug ==
  /\ ~gone /\ gone' = TRUE
  /\ spoilt' = Calling
  /\ UNCHANGED <<mode, reg, windows, box, call, todo, got, jobs, left>>

Access(u) ==
  \/ Write(u) \/ Read(u) \/ Post(u) \/ Completed(u) \/ Fetch(u)
  \/ Return(u) \/ TimeOut(u)

XNext ==
  \/ \E u \in Users : Access(u) \/ (\E k \in XCalls : Begin(u, k))
  \/ Execute \/ Unplug

XSpec == XInit /\ [][XNext]_xvars

-----------------------------------------------------------------------------
XTypeOK ==
  /\ mode \in Modes /\ gone \in BOOLEAN
  /\ reg \in [Chips -> [Registers -> Words]]
  /\ ctl \in [Chips -> Words] /\ base \in [Chips -> Words]
  /\ call \in [Users -> XCalls \cup {NoCall}]
  /\ box.command \in XCalls \cup {Complete}
  /\ box.address \in Words /\ box.data \in Words
  /\ got \in [Users -> Words] /\ jobs \in 0 .. MaxJobs
  /\ spoilt \subseteq Calling /\ left \in XCalls \cup {NoCall, Wild}

(* Whatever calls ran side by side, once no call is under way the windows  *)
(* that calls use directly show the MPU again, as the mappings of the user *)
(* library and the firmware expect (memx_xflow.c:205 and :208).            *)
WindowsAtRest ==
  (Calling = {} /\ ~gone) =>
    \A c \in Chips : Own(c) => ctl[c] = Data(0)

\* A call has taken effect once its access to the register is behind it.
Acted ==
  {u \in Calling \ spoilt :
     /\ ~Refused(call[u])
     /\ \A i \in DOMAIN todo[u] : todo[u][i].kind \notin {"put", "get", "issue"}
     /\ mode = "mailbox" => box.command = Complete}

Got(u) == IF Ready(u, {"fetch"}) \/ (Ready(u, {"await"}) /\ Len(todo[u]) = 2
                                     /\ box.command = Complete)
          THEN box.data ELSE got[u]

(* A call that meets no other in its window reads and writes exactly the   *)
(* register it names, at one moment, in every BAR layout, whatever the     *)
(* windows were left at and whatever a call given up on does later         *)
(* (memx_xflow.c:167-253).                                                 *)
Promise == INSTANCE MxRegisters WITH
  Zero <- Data(0), Calls <- XCalls,
  apart <- mode \in {"direct", "short"},
  quits <- IF mode = "mailbox" THEN Chips
           ELSE IF mode = "short" THEN {c \in Chips : c >= Reach} ELSE {},
  acted <- Acted, got <- [u \in Users |-> Got(u)], late <- left

RegistersRefined == Promise!RSpec
=============================================================================
