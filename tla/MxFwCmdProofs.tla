---------------------------- MODULE MxFwCmdProofs ----------------------------
(* Theorems about the firmware command channel, for any number of users,    *)
(* of probes and resumes, of devices and of calls.                          *)
EXTENDS MxFwCmd, TLAPS

USE DEF Goto, callVars, lockVars, deviceVars, ackVars

-----------------------------------------------------------------------------
(* Type correctness.                                                        *)

Waiting == {"wait", "woke", "timeout", "signal", "failed", "acked"}

LEMMA Locations ==
  /\ InChannel = {"fill", "ring"} \cup Waiting
  /\ PC = {"idle", "next", "lock", "result"} \cup InChannel
BY DEF PC, InChannel, Waiting

(* A thread at a request has it in front of it, and only a command rings;   *)
(* probe and resume make no vendor call.                                    *)
DriverTodo == {<<>>, <<"query">>, <<"cmd", "query">>, <<"ackOnly", "cmd", "query">>}
TodoInv ==
  /\ \A t \in Threads : pc[t] \in {"lock", "result"} \cup InChannel => todo[t] # <<>>
  /\ \A t \in Threads : pc[t] = "ring" => Request(t) # "ackOnly"
  /\ \A t \in Drivers : todo[t] \in DriverTodo

LEMMA DevOfType ==
  ASSUME NEW t \in Threads
  PROVE  DevOf[t] \in Devices
BY FwCmdAssumption DEF FwCmdAssumption

LEMMA RequestType ==
  ASSUME TypeOK, NEW t \in Threads, todo[t] # <<>>
  PROVE  Request(t) \in Requests /\ Tail(todo[t]) \in Seq(Requests)
<1>1. todo[t] \in Seq(Requests)
  BY DEF TypeOK
<1> QED BY <1>1 DEF Request

LEMMA CallTypes ==
  /\ IoctlCalls \subseteq Seq(Requests) /\ DriverCalls \subseteq Seq(Requests)
  /\ DriverCalls \subseteq DriverTodo
  /\ \A s \in DriverTodo : s # <<>> => Tail(s) \in DriverTodo /\ Head(s) # "vendor"
<1>1. IoctlCalls \subseteq Seq(Requests) /\ DriverCalls \subseteq Seq(Requests)
  BY DEF IoctlCalls, DriverCalls, Requests
<1>2. DriverCalls \subseteq DriverTodo
  BY DEF DriverCalls, DriverTodo
<1>3. \A s \in DriverTodo : s # <<>> => Tail(s) \in DriverTodo /\ Head(s) # "vendor"
  <2>1. /\ Tail(<<"query">>) = <<>> /\ Tail(<<"cmd", "query">>) = <<"query">>
        /\ Tail(<<"ackOnly", "cmd", "query">>) = <<"cmd", "query">>
    OBVIOUS
  <2>2. /\ Head(<<"query">>) = "query" /\ Head(<<"cmd", "query">>) = "cmd"
        /\ Head(<<"ackOnly", "cmd", "query">>) = "ackOnly"
    OBVIOUS
  <2> QED BY <2>1, <2>2 DEF DriverTodo
<1> QED BY <1>1, <1>2, <1>3

LEMMA TypeInit == Init => TypeOK /\ TodoInv
<1> SUFFICES ASSUME Init PROVE TypeOK /\ TodoInv
  OBVIOUS
<1>1. todo \in [Threads -> Seq(Requests)] /\ fails \in [Threads -> 0 .. FailAckCount]
  BY FwCmdAssumption DEF FwCmdAssumption, Init
<1>2. TypeOK
  BY <1>1, FwCmdAssumption DEF FwCmdAssumption, Init, TypeOK, PC, Contents
<1>3. TodoInv
  BY DEF Init, TodoInv, DriverTodo, Threads, InChannel
<1> QED BY <1>2, <1>3

LEMMA BeginType ==
  ASSUME TypeOK, NEW t \in Threads, Begin(t)
  PROVE  TypeOK'
<1>1. PICK c \in IoctlCalls \cup DriverCalls : todo' = [todo EXCEPT ![t] = c]
  BY DEF Begin
<1>2. todo' \in [Threads -> Seq(Requests)]
  BY <1>1, CallTypes DEF TypeOK
<1>3. devMutex' \in [Devices -> Users \cup {Nobody}]
  BY DevOfType DEF TypeOK, Begin
<1>4. pc' \in [Threads -> PC] /\ calls' \in Nat
  BY Locations DEF TypeOK, Begin
<1> QED BY <1>2, <1>3, <1>4 DEF TypeOK, Begin

LEMMA RequestStepType ==
  ASSUME TypeOK, TodoInv, NEW t \in Threads,
         NextRequest(t) \/ LockChannel(t) \/ FillBuffer(t) \/ RingBell(t) \/ ReadResult(t)
  PROVE  TypeOK'
<1>1. DevOf[t] \in Devices
  BY DevOfType
<1>2. CASE NextRequest(t)
  <2>1. buffer' \in [Devices -> Contents] /\ pc' \in [Threads -> PC]
    BY <1>1, <1>2, Locations DEF TypeOK, NextRequest, Contents
  <2> QED BY <1>2, <2>1 DEF TypeOK, NextRequest
<1>3. CASE LockChannel(t)
  BY <1>3, Locations DEF TypeOK, LockChannel
<1>4. CASE FillBuffer(t)
  <2>1. pc' \in [Threads -> PC]
    BY <1>4, Locations, ZenonT(30) DEF TypeOK, FillBuffer, Waiting
  <2>2. sent[DevOf[t]] + 1 \in Nat /\ [of |-> sent[DevOf[t]] + 1, result |-> FALSE] \in Contents
    BY <1>1 DEF TypeOK, Contents
  <2>3. sent' \in [Devices -> Nat]
    BY <1>4, <2>2 DEF TypeOK, FillBuffer
  <2>4. mine' \in [Threads -> Nat]
    BY <1>4, <2>2 DEF TypeOK, FillBuffer
  <2>5. buffer' \in [Devices -> Contents]
    BY <1>4, <2>2 DEF TypeOK, FillBuffer
  <2> QED BY <1>4, <2>1, <2>3, <2>4, <2>5 DEF TypeOK, FillBuffer
<1>5. CASE RingBell(t)
  BY <1>1, <1>5, Locations DEF TypeOK, RingBell, Waiting
<1>6. CASE ReadResult(t)
  <2>1. Tail(todo[t]) \in Seq(Requests)
    BY <1>6, RequestType DEF TodoInv, ReadResult, Finish
  <2> QED BY <1>6, <2>1, Locations DEF TypeOK, ReadResult, Finish
<1> QED BY <1>2, <1>3, <1>4, <1>5, <1>6

LEMMA WaitStepType ==
  ASSUME TypeOK, NEW t \in Threads, WaitEnd(t) \/ WaitAborted(t) \/ WaitCheck(t)
  PROVE  TypeOK'
<1>1. pc' \in [Threads -> PC]
  BY Locations DEF TypeOK, WaitEnd, WaitAborted, WaitCheck, Waiting
<1>2. isAbort' \in [Devices -> BOOLEAN]
  BY DevOfType DEF TypeOK, WaitEnd, WaitAborted, WaitCheck
<1>3. fails' \in [Threads -> 0 .. FailAckCount]
  <2>1. UNCHANGED fails \/ (fails[t] + 1 <= FailAckCount /\ fails' = [fails EXCEPT ![t] = @ + 1])
    <3>1. FailAckCount \in Nat /\ fails[t] \in Nat
      BY FwCmdAssumption DEF FwCmdAssumption, TypeOK
    <3>2. \/ UNCHANGED fails
          \/ /\ fails[t] + 1 < FailAckCount \/ fails[t] + 1 = FailAckCount
             /\ fails' = [fails EXCEPT ![t] = @ + 1]
      BY DEF WaitEnd, WaitAborted, WaitCheck
    <3> QED BY <3>1, <3>2
  <2>2. fails \in [Threads -> 0 .. FailAckCount] /\ FailAckCount \in Nat
    BY FwCmdAssumption DEF FwCmdAssumption, TypeOK
  <2>3. fails[t] + 1 <= FailAckCount => fails[t] + 1 \in 0 .. FailAckCount
    BY <2>2
  <2> QED BY <2>1, <2>2, <2>3
<1> QED BY <1>1, <1>2, <1>3 DEF TypeOK, WaitEnd, WaitAborted, WaitCheck

LEMMA EndType ==
  ASSUME TypeOK, TodoInv, NEW t \in Threads, TakeAck(t) \/ FailRequest(t) \/ End(t)
  PROVE  TypeOK'
<1>1. DevOf[t] \in Devices /\ 0 \in 0 .. FailAckCount
  BY DevOfType, FwCmdAssumption DEF FwCmdAssumption
<1>2. pc' \in [Threads -> PC] /\ fails' \in [Threads -> 0 .. FailAckCount]
  <2>1. UNCHANGED fails \/ fails' = [fails EXCEPT ![t] = 0]
    BY DEF TakeAck, FailRequest, End
  <2>2. \E to \in {"idle", "next", "result"} : pc' = [pc EXCEPT ![t] = to]
    BY DEF TakeAck, FailRequest, End, Finish
  <2>3. {"idle", "next", "result"} \subseteq PC
    BY Locations
  <2> QED BY <1>1, <2>1, <2>2, <2>3 DEF TypeOK
<1>3. todo' \in [Threads -> Seq(Requests)]
  <2>1. UNCHANGED todo \/ (todo[t] # <<>> /\ todo' = [todo EXCEPT ![t] = Tail(@)])
    BY Locations DEF TodoInv, TakeAck, FailRequest, End, Finish, Waiting
  <2>2. todo[t] # <<>> => Tail(todo[t]) \in Seq(Requests)
    BY RequestType
  <2> QED BY <2>1, <2>2 DEF TypeOK
<1>4. left' \in [Devices -> BOOLEAN]
  <2>1. \A b : [left EXCEPT ![DevOf[t]] = @ \/ (b /\ TRUE)] \in [Devices -> BOOLEAN]
    BY <1>1, Zenon DEF TypeOK
  <2> QED BY <1>1, <2>1 DEF TypeOK, TakeAck, FailRequest, End
<1>5. indicator' \in [Devices -> BOOLEAN]
  BY <1>1 DEF TypeOK, TakeAck, FailRequest, End
<1>6. mine' \in [Threads -> Nat]
  <2>1. UNCHANGED mine \/ mine' = [mine EXCEPT ![t] = IF t \in Users THEN 0 ELSE @]
    BY DEF TakeAck, FailRequest, End
  <2>2. mine \in [Threads -> Nat]
    BY DEF TypeOK
  <2> QED BY <2>1, <2>2
<1>7. devMutex' \in [Devices -> Users \cup {Nobody}] /\ cmdMutex' \in Threads \cup {Nobody}
  BY DEF TypeOK, TakeAck, FailRequest, End
<1> QED BY <1>2, <1>3, <1>4, <1>5, <1>6, <1>7 DEF TypeOK, TakeAck, FailRequest, End

LEMMA DeviceType ==
  ASSUME TypeOK, NEW d \in Devices, Device(d)
  PROVE  TypeOK'
<1>1. CASE AbortTransfer(d) \/ ReaderTakesAbort(d)
  BY <1>1 DEF TypeOK, AbortTransfer, ReaderTakesAbort
<1>2. CASE FwAckIsr(d)
  BY <1>2 DEF TypeOK, FwAckIsr
<1>3. CASE FwTake(d)
  <2>1. buffer[d].of \in Nat
    BY DEF TypeOK, Contents
  <2> QED BY <1>3, <2>1 DEF TypeOK, FwTake
<1>4. CASE FwDone(d)
  <2>1. PICK n \in running[d] : /\ buffer' = [buffer EXCEPT ![d] = [of |-> n, result |-> TRUE]]
                                /\ msi' = [msi EXCEPT ![d] = @ \cup {n}]
    BY <1>4 DEF FwDone
  <2>2. n \in Nat /\ [of |-> n, result |-> TRUE] \in Contents
    BY DEF TypeOK, Contents
  <2> QED BY <1>4, <2>1, <2>2, ZenonT(30) DEF TypeOK, FwDone
<1> QED BY <1>1, <1>2, <1>3, <1>4 DEF Device

(* What a step of a thread does to the places and calls of the others.      *)
LEMMA OthersStay ==
  ASSUME TypeOK, NEW t \in Threads, Begin(t) \/ LockChannel(t) \/ Run(t)
  PROVE  \A s \in Threads \ {t} : /\ pc'[s] = pc[s] /\ todo'[s] = todo[s]
                                  /\ fails'[s] = fails[s] /\ mine'[s] = mine[s]
<1>1. CASE Begin(t) \/ LockChannel(t) \/ NextRequest(t)
  BY <1>1 DEF TypeOK, Begin, LockChannel, NextRequest
<1>2. CASE FillBuffer(t) \/ RingBell(t)
  BY <1>2 DEF TypeOK, FillBuffer, RingBell
<1>3. CASE WaitEnd(t) \/ WaitAborted(t)
  BY <1>3 DEF TypeOK, WaitEnd, WaitAborted
<1>4. CASE WaitCheck(t)
  BY <1>4 DEF TypeOK, WaitCheck
<1>5. CASE TakeAck(t)
  BY <1>5 DEF TypeOK, TakeAck, Finish
<1>6. CASE FailRequest(t) \/ ReadResult(t)
  BY <1>6 DEF TypeOK, FailRequest, ReadResult, Finish
<1>7. CASE End(t)
  BY <1>7 DEF TypeOK, End
<1> QED BY <1>1, <1>2, <1>3, <1>4, <1>5, <1>6, <1>7 DEF Run

LEMMA DeviceStays ==
  ASSUME NEW d \in Devices, Device(d)
  PROVE  UNCHANGED <<pc, todo, mine, fails, calls, devMutex, cmdMutex, sent>>
BY DEF Device, AbortTransfer, ReaderTakesAbort, FwAckIsr, FwTake, FwDone

(* A thread comes to a request at NextRequest and is done with it in Finish.*)
LEMMA TodoStep ==
  ASSUME TypeOK, TodoInv, NEW t \in Threads, Begin(t) \/ LockChannel(t) \/ Run(t)
  PROVE  TodoInv'
<1>1. CASE Begin(t)
  <2>1. PICK c \in IoctlCalls \cup DriverCalls : /\ todo' = [todo EXCEPT ![t] = c]
                                                 /\ t \in Drivers => c \in DriverCalls
    BY <1>1, FwCmdAssumption DEF FwCmdAssumption, Begin
  <2>2. pc'[t] = "next"
    BY <1>1 DEF TypeOK, Begin
  <2>3. todo'[t] = c
    BY <2>1 DEF TypeOK
  <2> QED BY <1>1, <2>1, <2>2, <2>3, OthersStay, CallTypes, Locations
      DEF TodoInv, Request, Waiting, Threads
<1>2. CASE LockChannel(t) \/ NextRequest(t)
  <2>1. UNCHANGED todo /\ pc'[t] \in {"lock", "fill"} /\ todo[t] # <<>>
    BY <1>2, Locations DEF TypeOK, TodoInv, LockChannel, NextRequest
  <2> QED BY <1>2, <2>1, OthersStay DEF TodoInv, Request, Run
<1>3. CASE FillBuffer(t) \/ RingBell(t)
  <2>1. /\ UNCHANGED todo /\ todo[t] # <<>> /\ pc'[t] \in {"ring", "wait"}
        /\ pc'[t] = "ring" => Request(t) # "ackOnly"
    BY <1>3, Locations DEF TypeOK, TodoInv, FillBuffer, RingBell
  <2> QED BY <1>3, <2>1, OthersStay DEF TodoInv, Request, Run
<1>4. CASE WaitEnd(t) \/ WaitAborted(t) \/ WaitCheck(t)
  <2>1. UNCHANGED todo /\ todo[t] # <<>> /\ pc'[t] # "ring"
    BY <1>4, Locations DEF TypeOK, TodoInv, Waiting, WaitEnd, WaitAborted, WaitCheck
  <2> QED BY <1>4, <2>1, OthersStay DEF TodoInv, Request, Run
<1>5. CASE TakeAck(t) \/ FailRequest(t) \/ ReadResult(t)
  <2>1. todo[t] # <<>>
    BY <1>5, Locations DEF TodoInv, Waiting, TakeAck, FailRequest, ReadResult, Finish
  <2>2. \/ UNCHANGED todo /\ pc'[t] = "result"
        \/ todo' = [todo EXCEPT ![t] = Tail(@)] /\ pc'[t] = "next"
    BY <1>5 DEF TypeOK, TakeAck, FailRequest, ReadResult, Finish
  <2>3. t \in Drivers => todo'[t] \in DriverTodo
    BY <2>1, <2>2, CallTypes, ZenonT(30) DEF TypeOK, TodoInv
  <2> QED BY <1>5, <2>1, <2>2, <2>3, OthersStay, Locations
      DEF TodoInv, Request, Run, Waiting, Threads
<1>6. CASE End(t)
  <2>1. UNCHANGED todo /\ pc'[t] = "idle"
    BY <1>6 DEF TypeOK, End
  <2> QED BY <1>6, <2>1, OthersStay, Locations DEF TodoInv, Request, Run, Waiting
<1> QED BY <1>1, <1>2, <1>3, <1>4, <1>5, <1>6 DEF Run

TypeInv == TypeOK /\ TodoInv

LEMMA TypeStep == TypeInv /\ [Next]_vars => TypeInv'
<1> SUFFICES ASSUME TypeInv, [Next]_vars PROVE TypeInv'
  OBVIOUS
<1> USE DEF TypeInv
<1>1. ASSUME NEW t \in Threads, Begin(t) \/ LockChannel(t) \/ Run(t)
      PROVE  TypeInv'
  BY <1>1, BeginType, RequestStepType, WaitStepType, EndType, TodoStep DEF Run
<1>2. ASSUME NEW d \in Devices, Device(d)
      PROVE  TypeInv'
  <2>1. TodoInv'
    BY <1>2, DeviceStays DEF TodoInv, Request
  <2> QED BY <1>2, <2>1, DeviceType
<1>3. ASSUME UNCHANGED vars
      PROVE  TypeInv'
  BY <1>3 DEF vars, TypeOK, TodoInv, Request
<1> QED BY <1>1, <1>2, <1>3 DEF Next

LEMMA TypeInvariant == Spec => []TypeInv
<1>1. Init => TypeInv
  BY TypeInit DEF TypeInv
<1> QED BY <1>1, TypeStep, PTL DEF Spec

(* Every variable of the channel keeps its type: in particular fail_count   *)
(* never passes FAIL_ACK_COUNT.                                             *)
THEOREM TypeCorrect == Spec => []TypeOK
BY TypeInvariant, PTL DEF TypeInv

-----------------------------------------------------------------------------
(* The locks.                                                               *)

(* A thread in the channel has g_memx_fw_cmd_mutex; a user in a call has    *)
(* the mutex of its device.                                                 *)
LockInv ==
  /\ \A t \in Threads : pc[t] \in InChannel => cmdMutex = t
  /\ \A t \in Users : pc[t] # "idle" => devMutex[DevOf[t]] = t

(* Commands of a device are numbered, each number is somebody's once.       *)
NumberInv ==
  /\ \A t \in Threads : mine[t] <= sent[DevOf[t]]
  /\ \A s, t \in Threads : s # t /\ DevOf[s] = DevOf[t] /\ mine[s] = mine[t] => mine[t] = 0
  /\ \A d \in Devices : /\ ackOf[d] <= sent[d]
                        /\ \A n \in msi[d] \cup running[d] : n <= sent[d]
                        /\ buffer[d].of <= sent[d]

LEMMA LockStep ==
  ASSUME TypeInv, LockInv, [Next]_vars
  PROVE  LockInv'
<1> USE DEF TypeInv
<1>1. ASSUME NEW t \in Threads, Begin(t)
      PROVE  LockInv'
  <2>1. UNCHANGED cmdMutex /\ pc'[t] = "next"
    BY <1>1 DEF TypeOK, Begin
  <2>2. \A s \in Threads : pc'[s] \in InChannel => cmdMutex' = s
    BY <1>1, <2>1, OthersStay, Locations DEF LockInv, Waiting
  <2>3. ASSUME NEW s \in Users, pc'[s] # "idle"
        PROVE  devMutex'[DevOf[s]] = s
    <3>1. s \in Threads /\ s # Nobody /\ DevOf[s] \in Devices /\ DevOf[t] \in Devices
      BY DevOfType, FwCmdAssumption DEF FwCmdAssumption, Threads
    <3>2. CASE s = t
      BY <1>1, <3>1, <3>2, FwCmdAssumption DEF FwCmdAssumption, TypeOK, Begin
    <3>3. CASE s # t
      <4>1. pc[s] # "idle"
        BY <1>1, <2>3, <3>1, <3>3, OthersStay
      <4>2. devMutex[DevOf[s]] = s
        BY <4>1 DEF LockInv
      <4> QED BY <1>1, <3>1, <4>2 DEF TypeOK, Begin
    <3> QED BY <3>2, <3>3
  <2> QED BY <2>2, <2>3 DEF LockInv
<1>2. ASSUME NEW t \in Threads, LockChannel(t)
      PROVE  LockInv'
  <2>1. /\ cmdMutex = Nobody /\ cmdMutex' = t /\ UNCHANGED devMutex
        /\ pc[t] = "lock" /\ pc'[t] = "fill"
    BY <1>2 DEF TypeOK, LockChannel
  <2>2. \A s \in Threads \ {t} : pc'[s] = pc[s] /\ pc[s] \notin InChannel
    BY <1>2, <2>1, OthersStay, FwCmdAssumption DEF LockInv, FwCmdAssumption
  <2> QED BY <2>1, <2>2 DEF LockInv, Threads
<1>3. ASSUME NEW t \in Threads,
             FillBuffer(t) \/ RingBell(t) \/ WaitEnd(t) \/ WaitAborted(t) \/ WaitCheck(t)
      PROVE  LockInv'
  <2>1. /\ UNCHANGED <<devMutex, cmdMutex>> /\ pc[t] \in InChannel /\ pc'[t] \in InChannel
    BY <1>3, Locations
    DEF TypeOK, Waiting, FillBuffer, RingBell, WaitEnd, WaitAborted, WaitCheck
  <2>2. pc[t] # "idle"
    BY <2>1, Locations DEF Waiting
  <2> QED BY <1>3, <2>1, <2>2, OthersStay DEF LockInv, Run, Threads
<1>4. ASSUME NEW t \in Threads, TakeAck(t) \/ FailRequest(t)
      PROVE  LockInv'
  <2>1. /\ UNCHANGED devMutex /\ pc[t] \in InChannel /\ pc[t] # "idle"
        /\ pc'[t] \in {"next", "result"}
    BY <1>4, Locations DEF TypeOK, Waiting, TakeAck, FailRequest, Finish
  <2>2. \A s \in Threads \ {t} : pc'[s] = pc[s] /\ pc[s] \notin InChannel
    BY <1>4, <2>1, OthersStay DEF LockInv, Run
  <2>3. pc'[t] \notin InChannel
    BY <2>1, Locations DEF Waiting
  <2> QED BY <2>1, <2>2, <2>3 DEF LockInv, Threads
<1>5. ASSUME NEW t \in Threads, NextRequest(t) \/ ReadResult(t)
      PROVE  LockInv'
  <2>1. /\ UNCHANGED <<devMutex, cmdMutex>> /\ pc[t] # "idle" /\ pc'[t] \notin InChannel
    BY <1>5, Locations DEF TypeOK, Waiting, NextRequest, ReadResult, Finish
  <2> QED BY <1>5, <2>1, OthersStay DEF LockInv, Run, Threads
<1>6. ASSUME NEW t \in Threads, End(t)
      PROVE  LockInv'
  <2>1. /\ UNCHANGED cmdMutex /\ pc'[t] = "idle" /\ pc'[t] \notin InChannel
        /\ devMutex' = [d \in Devices |-> IF devMutex[d] = t THEN Nobody ELSE devMutex[d]]
    BY <1>6, Locations DEF TypeOK, Waiting, End
  <2>2. ASSUME NEW s \in Users, s # t, pc[s] # "idle"
        PROVE  devMutex'[DevOf[s]] = s
    BY <2>1, <2>2, DevOfType DEF LockInv, Threads
  <2> QED BY <1>6, <2>1, <2>2, OthersStay DEF LockInv, Run, Threads
<1>7. ASSUME NEW d \in Devices, Device(d)
      PROVE  LockInv'
  BY <1>7, DeviceStays DEF LockInv
<1>8. CASE UNCHANGED vars
  BY <1>8 DEF vars, LockInv
<1> QED BY <1>1, <1>2, <1>3, <1>4, <1>5, <1>6, <1>7, <1>8 DEF Next, Run

LEMMA NumberType ==
  ASSUME TypeOK
  PROVE  /\ \A t \in Threads : mine[t] \in Nat /\ sent[DevOf[t]] \in Nat
         /\ \A d \in Devices : /\ sent[d] \in Nat /\ ackOf[d] \in Nat /\ buffer[d].of \in Nat
                               /\ msi[d] \subseteq Nat /\ running[d] \subseteq Nat
BY DevOfType DEF TypeOK, Contents

LEMMA NumberStep ==
  ASSUME TypeInv, NumberInv, [Next]_vars
  PROVE  NumberInv'
<1> USE DEF TypeInv
<1>1. ASSUME NEW t \in Threads,
             \/ Begin(t) \/ LockChannel(t) \/ RingBell(t) \/ WaitEnd(t) \/ WaitAborted(t)
             \/ WaitCheck(t) \/ TakeAck(t) \/ FailRequest(t) \/ ReadResult(t)
      PROVE  NumberInv'
  <2>1. UNCHANGED <<mine, sent, ackOf, msi, running, buffer>>
    BY <1>1 DEF Begin, LockChannel, RingBell, WaitEnd, WaitAborted, WaitCheck, TakeAck,
                FailRequest, ReadResult
  <2> QED BY <2>1 DEF NumberInv
<1>2. ASSUME NEW t \in Threads, NextRequest(t)
      PROVE  NumberInv'
  <2>1. /\ UNCHANGED <<mine, sent, ackOf, msi, running>>
        /\ \A d \in Devices : buffer'[d].of \in {0, buffer[d].of}
    BY <1>2 DEF TypeOK, NextRequest
  <2> QED BY <2>1, NumberType DEF NumberInv
<1>3. ASSUME NEW t \in Threads, FillBuffer(t)
      PROVE  NumberInv'
  <2>1. CASE UNCHANGED <<mine, sent, buffer>>
    BY <1>3, <2>1 DEF NumberInv, FillBuffer
  <2>2. CASE /\ sent' = [sent EXCEPT ![DevOf[t]] = @ + 1]
             /\ mine' = [mine EXCEPT ![t] = sent[DevOf[t]] + 1]
             /\ buffer' = [buffer EXCEPT ![DevOf[t]] = [of |-> sent[DevOf[t]] + 1, result |-> FALSE]]
    <3>1. UNCHANGED <<ackOf, msi, running>>
      BY <1>3 DEF FillBuffer
    <3>2. /\ \A d \in Devices : sent'[d] = IF d = DevOf[t] THEN sent[d] + 1 ELSE sent[d]
          /\ \A s \in Threads : mine'[s] = IF s = t THEN sent[DevOf[t]] + 1 ELSE mine[s]
          /\ \A d \in Devices : buffer'[d].of = IF d = DevOf[t] THEN sent[d] + 1 ELSE buffer[d].of
      BY <2>2, DevOfType DEF TypeOK
    <3>3. \A s \in Threads : mine'[s] <= sent'[DevOf[s]]
      BY <3>2, NumberType, DevOfType DEF NumberInv
    <3>4. \A r, s \in Threads :
            r # s /\ DevOf[r] = DevOf[s] /\ mine'[r] = mine'[s] => mine'[s] = 0
      BY <3>2, NumberType DEF NumberInv
    <3>5. \A d \in Devices : /\ ackOf'[d] <= sent'[d] /\ buffer'[d].of <= sent'[d]
                             /\ \A n \in msi'[d] \cup running'[d] : n <= sent'[d]
      BY <3>1, <3>2, NumberType DEF NumberInv
    <3> QED BY <3>3, <3>4, <3>5 DEF NumberInv
  <2> QED BY <1>3, <2>1, <2>2 DEF FillBuffer
<1>4. ASSUME NEW t \in Threads, End(t)
      PROVE  NumberInv'
  <2>1. /\ UNCHANGED <<sent, ackOf, msi, running, buffer>>
        /\ \A s \in Threads : mine'[s] \in {0, mine[s]}
    BY <1>4 DEF TypeOK, End
  <2> QED BY <2>1, NumberType DEF NumberInv
<1>5. ASSUME NEW d \in Devices, Device(d)
      PROVE  NumberInv'
  <2>1. UNCHANGED <<mine, sent>>
    BY <1>5, DeviceStays
  <2>2. \A e \in Devices : /\ ackOf'[e] \in {ackOf[e]} \cup msi[e]
                           /\ buffer'[e].of \in {buffer[e].of} \cup running[e]
                           /\ msi'[e] \subseteq msi[e] \cup running[e]
                           /\ running'[e] \subseteq running[e] \cup {buffer[e].of}
    <3>1. CASE AbortTransfer(d) \/ ReaderTakesAbort(d)
      BY <3>1 DEF AbortTransfer, ReaderTakesAbort
    <3>2. CASE FwAckIsr(d)
      BY <3>2 DEF TypeOK, FwAckIsr
    <3>3. CASE FwTake(d)
      BY <3>3 DEF TypeOK, FwTake
    <3>4. CASE FwDone(d)
      BY <3>4 DEF TypeOK, FwDone
    <3> QED BY <1>5, <3>1, <3>2, <3>3, <3>4 DEF Device
  <2> QED BY <2>1, <2>2, NumberType DEF NumberInv
<1>6. CASE UNCHANGED vars
  BY <1>6 DEF vars, NumberInv
<1> QED BY <1>1, <1>2, <1>3, <1>4, <1>5, <1>6 DEF Next, Run

-----------------------------------------------------------------------------
(* The way of a command: buffer, doorbell, firmware, MSI-X, indicator.      *)

(* The caller whose command is on this way.                                 *)
Sender(h, d) ==
  /\ DevOf[h] = d
  /\ pc[h] \in {"ring"} \cup Waiting
  /\ Request(h) # "ackOnly"

(* Nothing is on the way but the ack of the boot.                           *)
Quiet(d) ==
  /\ ~bell[d] /\ running[d] = {} /\ msi[d] \subseteq {0}
  /\ indicator[d] => ackOf[d] = 0

(* In the buffer is the command h sent, or, while h is probe or resume, what*)
(* a vendor call put there; later the result of it.                         *)
Asked(h, d) ==
  /\ buffer[d].of \in {0, mine[h]}
  /\ h \in Users => buffer[d] = [of |-> mine[h], result |-> FALSE]
Answered(h, d) == h \in Users => buffer[d] = [of |-> mine[h], result |-> TRUE]

(* The four stretches of the way.                                           *)
InBuffer(h, d) ==
  /\ bell[d] /\ running[d] = {} /\ msi[d] \subseteq {0}
  /\ ackOf[d] # mine[h] /\ (indicator[d] => ackOf[d] = 0)
  /\ Asked(h, d)
InFirmware(h, d) ==
  /\ ~bell[d] /\ (running[d] = {0} \/ running[d] = {mine[h]}) /\ msi[d] \subseteq {0}
  /\ ackOf[d] # mine[h] /\ (indicator[d] => ackOf[d] = 0)
  /\ h \in Users => running[d] = {mine[h]}
InMsi(h, d) ==
  /\ ~bell[d] /\ running[d] = {} /\ msi[d] \subseteq {0, mine[h]}
  /\ ackOf[d] # mine[h] /\ (indicator[d] => ackOf[d] = 0)
  /\ Answered(h, d)
InIndicator(h, d) ==
  /\ ~bell[d] /\ running[d] = {} /\ msi[d] \subseteq {0}
  /\ indicator[d] => ackOf[d] \in {0, mine[h]}
  /\ Answered(h, d)

OnWay(h, d) ==
  /\ mine[h] = sent[d] /\ mine[h] # 0
  /\ pc[h] = "ring" => Quiet(d) /\ Asked(h, d) /\ ackOf[d] # mine[h]
  /\ pc[h] # "ring" =>
       InBuffer(h, d) \/ InFirmware(h, d) \/ InMsi(h, d) \/ InIndicator(h, d)
  /\ pc[h] \in {"woke", "acked"} => ackOf[d] \in {0, mine[h]}

WayInv ==
  \A d \in Devices :
    \/ left[d]
    \/ /\ \A h \in Threads : Sender(h, d) => OnWay(h, d)
       /\ (\A h \in Threads : ~Sender(h, d)) => Quiet(d)

(* What a user reads after it has given the semaphore back.                 *)
ResultInv ==
  \A t \in Users :
    LET d == DevOf[t] IN
    pc[t] = "result" /\ Request(t) = "query" =>
      \/ buffer[d] = [of |-> mine[t], result |-> TRUE] /\ mine[t] # 0
      \/ left[d]
      \/ \E p \in Drivers : DevOf[p] = d /\ mine[p] > mine[t]

FwInv == TypeInv /\ LockInv /\ NumberInv /\ WayInv /\ ResultInv

(* left is never taken back.                                                *)
LEMMA LeftStays ==
  ASSUME TypeOK, [Next]_vars
  PROVE  \A d \in Devices : left[d] => left'[d]
<1>1. ASSUME NEW t \in Threads, TakeAck(t) \/ FailRequest(t)
      PROVE  \A d \in Devices : left[d] => left'[d]
  <2>1. \E b : left' = [left EXCEPT ![DevOf[t]] = @ \/ b] \/ left' = [left EXCEPT ![DevOf[t]] = TRUE]
    BY <1>1 DEF TakeAck, FailRequest
  <2>2. left \in [Devices -> BOOLEAN]
    BY DEF TypeOK
  <2> QED BY <2>1, <2>2, Zenon
<1>2. ASSUME NEW t \in Threads,
             \/ Begin(t) \/ LockChannel(t) \/ NextRequest(t) \/ FillBuffer(t) \/ RingBell(t)
             \/ WaitEnd(t) \/ WaitAborted(t) \/ WaitCheck(t) \/ ReadResult(t) \/ End(t)
      PROVE  UNCHANGED left
  BY <1>2 DEF Begin, LockChannel, NextRequest, FillBuffer, RingBell, WaitEnd, WaitAborted,
              WaitCheck, ReadResult, End
<1>3. ASSUME NEW d \in Devices, Device(d)
      PROVE  UNCHANGED left
  BY <1>3 DEF Device, AbortTransfer, ReaderTakesAbort, FwAckIsr, FwTake, FwDone
<1>4. CASE UNCHANGED vars
  BY <1>4 DEF vars
<1> QED BY <1>1, <1>2, <1>3, <1>4 DEF Next, Run

(* Only the holder of the semaphore can be a sender.                        *)
LEMMA OneSender ==
  ASSUME LockInv, NEW t \in Threads, pc[t] \in InChannel
  PROVE  \A h \in Threads, d \in Devices : Sender(h, d) => h = t
BY Locations DEF LockInv, Sender

(* A step that changes nothing on the way of a device, and of its sender's  *)
(* place nothing that matters.                                              *)
SameWay(d) ==
  /\ bell'[d] = bell[d] /\ running'[d] = running[d] /\ msi'[d] = msi[d]
  /\ indicator'[d] = indicator[d] /\ ackOf'[d] = ackOf[d] /\ sent'[d] = sent[d]

LEMMA WayKept ==
  ASSUME NEW d \in Devices, NEW h \in Threads, SameWay(d), buffer'[d] = buffer[d],
         mine'[h] = mine[h], OnWay(h, d),
         (pc'[h] = "ring") <=> (pc[h] = "ring"),
         pc'[h] \in {"woke", "acked"} => pc[h] \in {"woke", "acked"}
  PROVE  OnWay(h, d)'
<1>1. /\ (Quiet(d) => Quiet(d)') /\ (Asked(h, d) => Asked(h, d)')
      /\ Answered(h, d) => Answered(h, d)'
  BY DEF SameWay, Quiet, Asked, Answered
<1>2. /\ (InBuffer(h, d) => InBuffer(h, d)') /\ (InFirmware(h, d) => InFirmware(h, d)')
      /\ (InMsi(h, d) => InMsi(h, d)') /\ (InIndicator(h, d) => InIndicator(h, d)')
  BY <1>1 DEF SameWay, InBuffer, InFirmware, InMsi, InIndicator
<1> QED BY <1>1, <1>2 DEF SameWay, OnWay

LEMMA QuietKept ==
  ASSUME NEW d \in Devices, SameWay(d), Quiet(d)
  PROVE  Quiet(d)'
BY DEF SameWay, Quiet

(* Steps outside the channel, except that a vendor call fills the buffer.   *)
LEMMA OutsideWay ==
  ASSUME FwInv, NEW t \in Threads,
         Begin(t) \/ LockChannel(t) \/ ReadResult(t) \/ End(t)
  PROVE  WayInv'
<1> USE DEF FwInv, TypeInv
<1>1. /\ UNCHANGED <<sent, buffer, bell, running, msi, indicator, ackOf, left>>
      /\ pc[t] \notin {"ring"} \cup Waiting /\ pc'[t] \notin {"ring"} \cup Waiting
  BY DEF TypeOK, Begin, LockChannel, ReadResult, End, Finish, Waiting
<1>2. \A h \in Threads, d \in Devices : Sender(h, d)' <=> Sender(h, d)
  BY <1>1, OthersStay DEF Sender, Request, Run
<1>3. ASSUME NEW d \in Devices, NEW h \in Threads, Sender(h, d), OnWay(h, d)
      PROVE  OnWay(h, d)'
  <2>1. h # t
    BY <1>1, <1>3 DEF Sender
  <2>2. pc'[h] = pc[h] /\ mine'[h] = mine[h]
    BY <2>1, OthersStay DEF Run
  <2> QED BY <1>1, <1>3, <2>2, WayKept DEF SameWay
<1>4. \A d \in Devices : Quiet(d) => Quiet(d)'
  BY <1>1 DEF Quiet
<1> QED BY <1>1, <1>2, <1>3, <1>4 DEF WayInv

(* While a user is in a call no other user is, on its device.               *)
LEMMA OneUser ==
  ASSUME FwInv, NEW s \in Users, NEW t \in Users, DevOf[s] = DevOf[t],
         pc[s] # "idle", pc[t] # "idle"
  PROVE  s = t
BY DEF FwInv, LockInv

(* Probe and resume make no vendor call.                                    *)
LEMMA VendorIsUser ==
  ASSUME FwInv, NEW t \in Threads, NextRequest(t), Request(t) = "vendor"
  PROVE  t \in Users
BY CallTypes DEF FwInv, TypeInv, TodoInv, NextRequest, Request, Threads

LEMMA VendorWay ==
  ASSUME FwInv, NEW t \in Threads, NextRequest(t)
  PROVE  WayInv'
<1> USE DEF FwInv, TypeInv
<1>1. /\ UNCHANGED <<sent, bell, running, msi, indicator, ackOf, left>>
      /\ pc[t] = "next" /\ pc'[t] = "lock"
  BY DEF TypeOK, NextRequest
<1>2. \A h \in Threads, d \in Devices : Sender(h, d)' <=> Sender(h, d)
  BY <1>1, OthersStay DEF Sender, Request, Run, Waiting
<1>3. ASSUME NEW d \in Devices, NEW h \in Threads, Sender(h, d), OnWay(h, d)
      PROVE  OnWay(h, d)'
  <2>1. h # t /\ DevOf[h] = d
    BY <1>1, <1>3 DEF Sender, Waiting
  <2>2. pc'[h] = pc[h] /\ mine'[h] = mine[h] /\ pc[h] # "idle"
    BY <1>3, <2>1, OthersStay DEF Run, Sender, Waiting
  <2>3. CASE buffer'[d] = buffer[d]
    BY <1>1, <1>3, <2>2, <2>3, WayKept DEF SameWay
  <2>4. CASE buffer'[d] # buffer[d]
    <3>1. /\ Request(t) = "vendor" /\ d = DevOf[t]
          /\ buffer'[d] = [of |-> 0, result |-> FALSE]
      BY <2>4 DEF TypeOK, NextRequest
    <3>2. h \notin Users
      BY <1>1, <2>1, <2>2, <3>1, OneUser, VendorIsUser
    <3>3. /\ Asked(h, d)' /\ Answered(h, d)' /\ (Quiet(d) => Quiet(d)')
      BY <1>1, <3>1, <3>2 DEF Asked, Answered, Quiet
    <3>4. /\ (InBuffer(h, d) => InBuffer(h, d)') /\ (InFirmware(h, d) => InFirmware(h, d)')
          /\ (InMsi(h, d) => InMsi(h, d)') /\ (InIndicator(h, d) => InIndicator(h, d)')
      BY <1>1, <2>2, <3>2, <3>3 DEF InBuffer, InFirmware, InMsi, InIndicator
    <3> QED BY <1>1, <1>3, <2>2, <3>3, <3>4 DEF OnWay
  <2> QED BY <2>3, <2>4
<1>4. \A d \in Devices : Quiet(d) => Quiet(d)'
  BY <1>1 DEF Quiet
<1> QED BY <1>1, <1>2, <1>3, <1>4 DEF WayInv

LEMMA FillWay ==
  ASSUME FwInv, NEW t \in Threads, FillBuffer(t)
  PROVE  WayInv'
<1> USE DEF FwInv, TypeInv
<1> DEFINE e == DevOf[t]
<1>1. /\ UNCHANGED <<todo, bell, running, msi, indicator, ackOf, left>> /\ pc[t] = "fill"
      /\ e \in Devices
  BY DevOfType DEF FillBuffer
<1>2. \A h \in Threads, d \in Devices : ~Sender(h, d)
  BY <1>1, OneSender, Locations DEF Sender, Waiting
<1>3. \A h \in Threads, d \in Devices : h # t => ~Sender(h, d)'
  BY <1>2, OthersStay DEF Sender, Request, Run
<1>4. \A d \in Devices : left[d] \/ (Quiet(d) /\ Quiet(d)')
  BY <1>1, <1>2 DEF WayInv, Quiet
<1>5. CASE Request(t) = "ackOnly"
  <2>1. \A d \in Devices : ~Sender(t, d)'
    BY <1>1, <1>5 DEF Sender, Request
  <2> QED BY <1>1, <1>3, <1>4, <2>1 DEF WayInv
<1>6. CASE Request(t) # "ackOnly"
  <2>1. /\ pc'[t] = "ring" /\ sent'[e] = sent[e] + 1 /\ mine'[t] = sent[e] + 1
        /\ buffer'[e] = [of |-> sent[e] + 1, result |-> FALSE]
    BY <1>1, <1>6 DEF TypeOK, FillBuffer
  <2>2. ackOf[e] <= sent[e] /\ ackOf[e] \in Nat /\ sent[e] \in Nat
    BY <1>1, NumberType DEF NumberInv
  <2>3. Quiet(e)' => OnWay(t, e)'
    BY <1>1, <2>1, <2>2 DEF OnWay, Asked
  <2>4. \A d \in Devices : Sender(t, d)' => d = e
    BY DEF Sender
  <2> QED BY <1>1, <1>3, <1>4, <2>3, <2>4 DEF WayInv
<1> QED BY <1>5, <1>6

LEMMA RingWay ==
  ASSUME FwInv, NEW t \in Threads, RingBell(t)
  PROVE  WayInv'
<1> USE DEF FwInv, TypeInv
<1> DEFINE e == DevOf[t]
<1>1. /\ UNCHANGED <<todo, mine, sent, buffer, running, msi, indicator, ackOf, left>>
      /\ pc[t] = "ring" /\ pc'[t] = "wait" /\ bell' = [bell EXCEPT ![e] = TRUE]
      /\ e \in Devices /\ Request(t) # "ackOnly"
  BY DevOfType DEF TypeOK, TodoInv, RingBell
<1>2. Sender(t, e) /\ Sender(t, e)' /\ \A d \in Devices : Sender(t, d) <=> d = e
  BY <1>1 DEF Sender, Request, Waiting
<1>3. \A h \in Threads, d \in Devices : h # t => ~Sender(h, d) /\ ~Sender(h, d)'
  BY <1>1, OneSender, Locations, OthersStay DEF Sender, Request, Run
<1>4. left[e] \/ OnWay(t, e)'
  <2>1. left[e] \/ (OnWay(t, e) /\ Quiet(e) /\ Asked(t, e) /\ ackOf[e] # mine[t])
    BY <1>1, <1>2 DEF WayInv, OnWay
  <2>2. bell'[e]
    BY <1>1 DEF TypeOK
  <2>3. left[e] \/ InBuffer(t, e)'
    BY <1>1, <2>1, <2>2 DEF Quiet, Asked, InBuffer
  <2> QED BY <1>1, <2>1, <2>3 DEF OnWay
<1>5. \A d \in Devices : d # e => bell'[d] = bell[d]
  BY <1>1 DEF TypeOK
<1>6. \A d \in Devices : d # e => (Quiet(d) => Quiet(d)')
  BY <1>1, <1>5 DEF Quiet
<1>7. \A d \in Devices : Sender(t, d)' => d = e
  BY DEF Sender
<1> QED BY <1>1, <1>2, <1>3, <1>4, <1>6, <1>7 DEF WayInv

LEMMA WaitWay ==
  ASSUME FwInv, NEW t \in Threads, WaitEnd(t) \/ WaitAborted(t) \/ WaitCheck(t)
  PROVE  WayInv'
<1> USE DEF FwInv, TypeInv
<1> DEFINE e == DevOf[t]
<1>1. /\ UNCHANGED <<todo, mine, sent, buffer, bell, running, msi, indicator, ackOf, left>>
      /\ pc[t] \in Waiting /\ pc'[t] \in Waiting /\ e \in Devices
  BY DevOfType DEF TypeOK, WaitEnd, WaitAborted, WaitCheck, Waiting
<1>2. \A h \in Threads, d \in Devices : Sender(h, d)' <=> Sender(h, d)
  BY <1>1, OthersStay DEF Sender, Request, Run
<1>3. ASSUME NEW d \in Devices, NEW h \in Threads, Sender(h, d), OnWay(h, d)
      PROVE  OnWay(h, d)'
  <2>1. h = t /\ d = e
    BY <1>1, <1>3, OneSender, Locations DEF Sender
  <2>2. pc[t] # "ring" /\ pc'[t] # "ring"
    BY <1>1 DEF Waiting
  <2>3. /\ (InBuffer(t, e) => InBuffer(t, e)') /\ (InFirmware(t, e) => InFirmware(t, e)')
        /\ (InMsi(t, e) => InMsi(t, e)') /\ (InIndicator(t, e) => InIndicator(t, e)')
    BY <1>1 DEF InBuffer, InFirmware, InMsi, InIndicator, Asked, Answered
  <2>4. \/ pc'[t] \in {"woke", "acked"} => pc[t] \in {"woke", "acked"}
        \/ indicator[e]
    BY DEF TypeOK, WaitEnd, WaitAborted, WaitCheck
  <2>5. indicator[e] => ackOf[e] \in {0, mine[t]}
    BY <1>3, <2>1, <2>2 DEF OnWay, InBuffer, InFirmware, InMsi, InIndicator
  <2> QED BY <1>1, <1>3, <2>1, <2>2, <2>3, <2>4, <2>5 DEF OnWay
<1>4. \A d \in Devices : Quiet(d) => Quiet(d)'
  BY <1>1 DEF Quiet
<1> QED BY <1>1, <1>2, <1>3, <1>4 DEF WayInv

(* A wait that takes its own ack leaves the way as it found it.             *)
LEMMA AckWay ==
  ASSUME FwInv, NEW t \in Threads, TakeAck(t) \/ FailRequest(t)
  PROVE  WayInv'
<1> USE DEF FwInv, TypeInv
<1> DEFINE e == DevOf[t]
<1>1. /\ UNCHANGED <<sent, buffer, bell, running, msi, ackOf>> /\ e \in Devices
      /\ pc[t] \in Waiting /\ pc'[t] \notin {"ring"} \cup Waiting
  BY DevOfType DEF TypeOK, TakeAck, FailRequest, Finish, Waiting
<1>2. \A h \in Threads, d \in Devices : ~Sender(h, d)' /\ (Sender(h, d) => h = t /\ d = e)
  BY <1>1, OneSender, OthersStay, Locations DEF Sender, Request, Run
<1>3. ASSUME NEW d \in Devices, d # e
      PROVE  left'[d] \/ Quiet(d)'
  <2>1. left[d] \/ Quiet(d)
    BY <1>2, <1>3 DEF WayInv
  <2>2. indicator'[d] = indicator[d]
    BY <1>3 DEF TypeOK, TakeAck, FailRequest
  <2>3. left[d] => left'[d]
    BY LeftStays DEF Next, Run
  <2> QED BY <1>1, <2>1, <2>2, <2>3 DEF Quiet
<1>4. left'[e] \/ Quiet(e)'
  <2>1. CASE FailRequest(t)
    BY <1>1, <2>1 DEF TypeOK, FailRequest
  <2>2. CASE TakeAck(t)
    <3>1. /\ pc[t] = "acked" /\ ~indicator'[e]
          /\ left'[e] = (left[e] \/ (Request(t) # "ackOnly" /\ ackOf[e] # mine[t]))
      BY <1>1, <2>2 DEF TypeOK, TakeAck
    <3>2. CASE Request(t) = "ackOnly"
      <4>1. \A h \in Threads : ~Sender(h, e)
        BY <1>1, <1>2, <3>2 DEF Sender
      <4>2. left[e] \/ Quiet(e)
        BY <1>1, <4>1 DEF WayInv
      <4> QED BY <1>1, <3>1, <4>2 DEF Quiet
    <3>3. CASE Request(t) # "ackOnly" /\ ~left[e] /\ ackOf[e] = mine[t]
      <4>1. Sender(t, e)
        BY <1>1, <3>3 DEF Sender
      <4>2. OnWay(t, e) /\ pc[t] # "ring"
        BY <1>1, <3>1, <3>3, <4>1 DEF WayInv
      <4>3. InIndicator(t, e)
        BY <3>3, <4>2 DEF OnWay, InBuffer, InFirmware, InMsi
      <4> QED BY <1>1, <3>1, <4>3 DEF InIndicator, Quiet
    <3> QED BY <3>1, <3>2, <3>3
  <2> QED BY <2>1, <2>2
<1> QED BY <1>2, <1>3, <1>4 DEF WayInv

(* What the device, the interrupt and the aborts do to one device.          *)
LEMMA DeviceQuiet ==
  ASSUME FwInv, NEW d \in Devices, Device(d), Quiet(d)
  PROVE  Quiet(d)'
<1> USE DEF FwInv, TypeInv
<1>1. CASE AbortTransfer(d) \/ ReaderTakesAbort(d)
  BY <1>1 DEF TypeOK, AbortTransfer, ReaderTakesAbort, Quiet
<1>2. CASE FwAckIsr(d)
  BY <1>2 DEF TypeOK, FwAckIsr, Quiet
<1>3. CASE FwTake(d) \/ FwDone(d)
  BY <1>3 DEF FwTake, FwDone, Quiet
<1> QED BY <1>1, <1>2, <1>3 DEF Device

LEMMA AbortKeeps ==
  ASSUME FwInv, NEW d \in Devices, NEW h \in Threads, OnWay(h, d),
         AbortTransfer(d) \/ ReaderTakesAbort(d)
  PROVE  OnWay(h, d)'
<1> USE DEF FwInv, TypeInv
<1>1. /\ UNCHANGED <<pc, mine, sent, buffer, bell, running, msi, ackOf>>
      /\ indicator'[d] => indicator[d]
  BY DEF TypeOK, AbortTransfer, ReaderTakesAbort
<1>2. (Quiet(d) => Quiet(d)') /\ (Asked(h, d) => Asked(h, d)')
      /\ (Answered(h, d) => Answered(h, d)')
  BY <1>1 DEF Quiet, Asked, Answered
<1>3. /\ (InBuffer(h, d) => InBuffer(h, d)') /\ (InFirmware(h, d) => InFirmware(h, d)')
      /\ (InMsi(h, d) => InMsi(h, d)') /\ (InIndicator(h, d) => InIndicator(h, d)')
  BY <1>1, <1>2 DEF InBuffer, InFirmware, InMsi, InIndicator
<1> QED BY <1>1, <1>2, <1>3 DEF OnWay

LEMMA IsrKeeps ==
  ASSUME FwInv, NEW d \in Devices, NEW h \in Threads, OnWay(h, d), FwAckIsr(d)
  PROVE  OnWay(h, d)'
<1> USE DEF FwInv, TypeInv
<1>1. PICK n \in msi[d] : msi' = [msi EXCEPT ![d] = @ \ {n}] /\ ackOf' = [ackOf EXCEPT ![d] = n]
  BY DEF FwAckIsr
<1>2. /\ UNCHANGED <<pc, mine, sent, buffer, bell, running>>
      /\ indicator'[d] /\ ackOf'[d] = n /\ msi'[d] = msi[d] \ {n}
  BY <1>1 DEF TypeOK, FwAckIsr
<1>3. (Quiet(d) => Quiet(d)') /\ (Asked(h, d) => Asked(h, d)')
      /\ (Answered(h, d) => Answered(h, d)')
  BY <1>2 DEF Quiet, Asked, Answered
<1>4. mine[h] # 0
  BY DEF OnWay
<1>5. /\ (InBuffer(h, d) => InBuffer(h, d)') /\ (InFirmware(h, d) => InFirmware(h, d)')
      /\ (InMsi(h, d) => InMsi(h, d)' \/ InIndicator(h, d)')
      /\ (InIndicator(h, d) => InIndicator(h, d)')
  BY <1>2, <1>3, <1>4 DEF InBuffer, InFirmware, InMsi, InIndicator
<1>6. pc[h] # "ring" => n \in {0, mine[h]}
  BY DEF OnWay, InBuffer, InFirmware, InMsi, InIndicator
<1>7. pc[h] = "ring" => n = 0
  BY DEF OnWay, Quiet
<1> QED BY <1>2, <1>3, <1>4, <1>5, <1>6, <1>7 DEF OnWay

LEMMA TakeKeeps ==
  ASSUME FwInv, NEW d \in Devices, NEW h \in Threads, OnWay(h, d), FwTake(d)
  PROVE  OnWay(h, d)'
<1> USE DEF FwInv, TypeInv
<1>1. /\ UNCHANGED <<pc, mine, sent, buffer, msi, ackOf, indicator>>
      /\ bell[d] /\ ~bell'[d] /\ running'[d] = {buffer[d].of}
  BY DEF TypeOK, FwTake
<1>2. pc[h] # "ring" /\ InBuffer(h, d)
  BY <1>1 DEF OnWay, Quiet, InFirmware, InMsi, InIndicator
<1>3. InFirmware(h, d)'
  BY <1>1, <1>2 DEF InBuffer, InFirmware, Asked
<1> QED BY <1>1, <1>2, <1>3 DEF OnWay

LEMMA DoneKeeps ==
  ASSUME FwInv, NEW d \in Devices, NEW h \in Threads, OnWay(h, d), FwDone(d)
  PROVE  OnWay(h, d)'
<1> USE DEF FwInv, TypeInv
<1>1. PICK n \in running[d] : /\ buffer' = [buffer EXCEPT ![d] = [of |-> n, result |-> TRUE]]
                              /\ msi' = [msi EXCEPT ![d] = @ \cup {n}]
  BY DEF FwDone
<1>2. /\ UNCHANGED <<pc, mine, sent, bell, ackOf, indicator>> /\ running'[d] = {}
      /\ buffer'[d] = [of |-> n, result |-> TRUE] /\ msi'[d] = msi[d] \cup {n}
  BY <1>1 DEF TypeOK, FwDone
<1>3. pc[h] # "ring" /\ InFirmware(h, d)
  BY <1>1 DEF OnWay, Quiet, InBuffer, InMsi, InIndicator
<1>4. InMsi(h, d)'
  BY <1>1, <1>2, <1>3 DEF InFirmware, InMsi, Answered
<1> QED BY <1>2, <1>3, <1>4 DEF OnWay

LEMMA DeviceWay ==
  ASSUME FwInv, NEW e \in Devices, Device(e)
  PROVE  WayInv'
<1> USE DEF FwInv, TypeInv
<1>1. /\ UNCHANGED <<pc, todo, mine, sent, left>>
      /\ \A d \in Devices : d # e => SameWay(d) /\ buffer'[d] = buffer[d]
  BY DEF TypeOK, Device, AbortTransfer, ReaderTakesAbort, FwAckIsr, FwTake, FwDone, SameWay
<1>2. \A h \in Threads, d \in Devices : Sender(h, d)' <=> Sender(h, d)
  BY <1>1 DEF Sender, Request
<1>3. ASSUME NEW d \in Devices, Quiet(d)
      PROVE  Quiet(d)'
  BY <1>1, <1>3, DeviceQuiet, QuietKept
<1>4. ASSUME NEW d \in Devices, NEW h \in Threads, Sender(h, d), OnWay(h, d)
      PROVE  OnWay(h, d)'
  <2>1. CASE d = e
    BY <1>4, <2>1, AbortKeeps, IsrKeeps, TakeKeeps, DoneKeeps DEF Device
  <2>2. CASE d # e
    BY <1>1, <1>4, <2>2, WayKept
  <2> QED BY <2>1, <2>2
<1> QED BY <1>1, <1>2, <1>3, <1>4 DEF WayInv

LEMMA WayStep ==
  ASSUME FwInv, [Next]_vars
  PROVE  WayInv'
<1>1. ASSUME NEW t \in Threads, Begin(t) \/ LockChannel(t) \/ Run(t)
      PROVE  WayInv'
  BY <1>1, OutsideWay, VendorWay, FillWay, RingWay, WaitWay, AckWay DEF Run
<1>2. ASSUME UNCHANGED vars
      PROVE  WayInv'
  BY <1>2 DEF vars, FwInv, WayInv, OnWay, Sender, Request, Quiet, InBuffer, InFirmware, InMsi,
              InIndicator, Asked, Answered
<1> QED BY <1>1, <1>2, DeviceWay DEF Next

-----------------------------------------------------------------------------
(* Results.                                                                 *)

(* What TakeAck leaves a user that made a query.                            *)
LEMMA OwnResult ==
  ASSUME FwInv, NEW t \in Users, TakeAck(t), Request(t) = "query", ~left'[DevOf[t]]
  PROVE  buffer'[DevOf[t]] = [of |-> mine'[t], result |-> TRUE] /\ mine'[t] # 0
<1> USE DEF FwInv, TypeInv
<1> DEFINE e == DevOf[t]
<1>1. t \in Threads /\ e \in Devices
  BY DevOfType DEF Threads
<1>2. /\ UNCHANGED <<buffer, mine>> /\ pc[t] = "acked"
      /\ left'[e] = (left[e] \/ (Request(t) # "ackOnly" /\ ackOf[e] # mine[t]))
  BY <1>1 DEF TypeOK, TakeAck
<1>3. ~left[e] /\ ackOf[e] = mine[t]
  BY <1>2
<1>4. OnWay(t, e)
  BY <1>1, <1>2, <1>3 DEF WayInv, Sender, Waiting
<1>5. InIndicator(t, e) /\ mine[t] # 0
  BY <1>2, <1>3, <1>4 DEF OnWay, InBuffer, InFirmware, InMsi
<1> QED BY <1>2, <1>5 DEF InIndicator, Answered

(* The numbers of probe's and resume's commands only grow.                  *)
LEMMA DriverNumbers ==
  ASSUME FwInv, [Next]_vars, NEW p \in Drivers
  PROVE  mine[p] \in Nat /\ mine'[p] \in Nat /\ mine'[p] >= mine[p]
<1> USE DEF FwInv, TypeInv
<1>1. p \in Threads /\ p \notin Users
  BY FwCmdAssumption DEF FwCmdAssumption, Threads
<1>2. mine[p] \in Nat /\ mine[p] <= sent[DevOf[p]] /\ sent[DevOf[p]] \in Nat
  BY <1>1, NumberType DEF NumberInv
<1>3. ASSUME NEW t \in Threads, Begin(t) \/ LockChannel(t) \/ Run(t)
      PROVE  mine'[p] = mine[p] \/ mine'[p] = sent[DevOf[p]] + 1
  <2>1. CASE t # p
    BY <1>1, <1>3, <2>1, OthersStay
  <2>2. CASE t = p /\ FillBuffer(t)
    BY <2>2 DEF TypeOK, FillBuffer
  <2>3. CASE t = p /\ End(t)
    BY <1>1, <2>3 DEF TypeOK, End
  <2>4. CASE t = p /\ ~FillBuffer(t) /\ ~End(t)
    BY <1>3, <2>4 DEF Begin, LockChannel, Run, NextRequest, RingBell, WaitEnd, WaitAborted,
                      WaitCheck, TakeAck, FailRequest, ReadResult
  <2> QED BY <2>1, <2>2, <2>3, <2>4
<1>4. CASE (\E d \in Devices : Device(d)) \/ UNCHANGED vars
  BY <1>2, <1>4, DeviceStays DEF vars
<1> QED BY <1>2, <1>3, <1>4 DEF Next

(* While a user holds its result, only probe and resume get at the buffer.  *)
LEMMA BufferKept ==
  ASSUME FwInv, [Next]_vars, NEW t \in Users, pc[t] = "result", pc'[t] = "result",
         mine[t] # 0, ~left[DevOf[t]],
         buffer'[DevOf[t]] # buffer[DevOf[t]]
  PROVE  \E p \in Drivers : DevOf[p] = DevOf[t] /\ mine'[p] > mine[t]
<1> USE DEF FwInv, TypeInv
<1> DEFINE e == DevOf[t]
<1>1. t \in Threads /\ e \in Devices /\ mine[t] \in Nat /\ mine[t] <= sent[e] /\ sent[e] \in Nat
  BY DevOfType, NumberType DEF Threads, NumberInv
<1>2. ASSUME NEW s \in Threads, Begin(s) \/ LockChannel(s) \/ Run(s)
      PROVE  s \in Drivers /\ DevOf[s] = e /\ mine'[s] > mine[t]
  <2>1. NextRequest(s) \/ FillBuffer(s)
    BY <1>2 DEF Begin, LockChannel, Run, RingBell, WaitEnd, WaitAborted, WaitCheck, TakeAck,
                FailRequest, ReadResult, End
  <2>2. DevOf[s] = e /\ pc[s] # "idle" /\ pc[s] # "result"
    BY <1>1, <2>1 DEF TypeOK, NextRequest, FillBuffer
  <2>3. s \notin Users
    BY <2>2, OneUser
  <2>4. FillBuffer(s)
    BY <2>1, <2>3, VendorIsUser DEF NextRequest
  <2>5. mine'[s] = sent[e] + 1
    BY <1>1, <2>2, <2>4 DEF TypeOK, FillBuffer
  <2> QED BY <1>1, <2>2, <2>3, <2>5 DEF Threads
<1>3. ASSUME NEW d \in Devices, Device(d)
      PROVE  \E p \in Drivers : DevOf[p] = e /\ mine'[p] > mine[t]
  <2>1. d = e /\ FwDone(d) /\ running[e] # {}
    <3>1. ~(AbortTransfer(d) \/ ReaderTakesAbort(d) \/ FwAckIsr(d) \/ FwTake(d))
      BY DEF AbortTransfer, ReaderTakesAbort, FwAckIsr, FwTake
    <3>2. FwDone(d)
      BY <1>3, <3>1 DEF Device
    <3>3. d = e
      BY <1>1, <3>2 DEF TypeOK, FwDone
    <3> QED BY <3>2, <3>3 DEF FwDone
  <2>2. PICK h \in Threads : Sender(h, e) /\ OnWay(h, e)
    BY <1>1, <2>1 DEF WayInv, Quiet
  <2>3. DevOf[h] = e /\ pc[h] # "idle" /\ pc[h] # "result" /\ mine[h] = sent[e]
    BY <2>2 DEF Sender, OnWay, Waiting
  <2>4. h \in Drivers
    BY <2>3, OneUser DEF Threads
  <2>5. mine[h] # mine[t]
    BY <1>1, <2>3 DEF NumberInv
  <2>6. mine'[h] = mine[h]
    BY <1>3, DeviceStays
  <2> QED BY <1>1, <2>3, <2>4, <2>5, <2>6
<1>4. CASE UNCHANGED vars
  BY <1>4 DEF vars
<1> QED BY <1>2, <1>3, <1>4 DEF Next

LEMMA ResultStep ==
  ASSUME FwInv, [Next]_vars
  PROVE  ResultInv'
<1> USE DEF FwInv, TypeInv
<1> SUFFICES ASSUME NEW t \in Users, pc'[t] = "result", Request(t)' = "query",
                    ~left'[DevOf[t]]
             PROVE  \/ /\ buffer'[DevOf[t]] = [of |-> mine'[t], result |-> TRUE]
                       /\ mine'[t] # 0
                    \/ \E p \in Drivers : DevOf[p] = DevOf[t] /\ mine'[p] > mine'[t]
  BY Zenon DEF ResultInv
<1>1. t \in Threads /\ DevOf[t] \in Devices /\ ~left[DevOf[t]]
  BY DevOfType, LeftStays DEF Threads
<1>2. CASE pc[t] # "result"
  <2>1. TakeAck(t) \/ FailRequest(t)
    <3>1. ASSUME NEW s \in Threads, s # t
          PROVE  ~(Begin(s) \/ LockChannel(s) \/ Run(s))
      BY <1>1, <1>2, <3>1, OthersStay
    <3>2. \A d \in Devices : ~Device(d)
      BY <1>2, DeviceStays
    <3>3. Begin(t) \/ LockChannel(t) \/ Run(t)
      BY <1>2, <3>1, <3>2 DEF Next, vars
    <3>4. ~(Begin(t) \/ LockChannel(t) \/ NextRequest(t) \/ FillBuffer(t) \/ RingBell(t))
      BY <1>1 DEF TypeOK, Begin, LockChannel, NextRequest, FillBuffer, RingBell
    <3>5. ~(WaitEnd(t) \/ WaitAborted(t) \/ WaitCheck(t) \/ ReadResult(t) \/ End(t))
      BY <1>1 DEF TypeOK, WaitEnd, WaitAborted, WaitCheck, ReadResult, End, Finish
    <3> QED BY <3>3, <3>4, <3>5 DEF Run
  <2>2. UNCHANGED todo
    BY <1>1, <2>1 DEF TypeOK, TakeAck, FailRequest, Finish
  <2>3. Request(t) = "query"
    BY <2>2 DEF Request
  <2>4. TakeAck(t)
    BY <1>1, <2>1, <2>3 DEF TypeOK, FailRequest, Finish
  <2> QED BY <2>3, <2>4, OwnResult
<1>3. CASE pc[t] = "result"
  <2>1. mine'[t] = mine[t] /\ todo'[t] = todo[t]
    <3>1. ~(Begin(t) \/ LockChannel(t) \/ Run(t))
      BY <1>1, <1>3 DEF TypeOK, Begin, LockChannel, Run, NextRequest, FillBuffer, RingBell, WaitEnd,
           WaitAborted, WaitCheck, TakeAck, FailRequest, ReadResult, End, Finish
    <3> QED BY <1>1, <3>1, OthersStay, DeviceStays DEF Next, vars
  <2>2. Request(t) = "query"
    BY <2>1 DEF Request
  <2>3. \/ /\ buffer[DevOf[t]] = [of |-> mine[t], result |-> TRUE]
           /\ mine[t] # 0
        \/ \E p \in Drivers : DevOf[p] = DevOf[t] /\ mine[p] > mine[t]
    BY <1>1, <1>3, <2>2, Zenon DEF ResultInv
  <2>4. CASE \E p \in Drivers : DevOf[p] = DevOf[t] /\ mine[p] > mine[t]
    <3>1. PICK p \in Drivers : DevOf[p] = DevOf[t] /\ mine[p] > mine[t]
      BY <2>4
    <3>2. mine[t] \in Nat
      BY <1>1 DEF TypeOK
    <3> QED BY <2>1, <3>1, <3>2, DriverNumbers
  <2>5. CASE buffer[DevOf[t]] = [of |-> mine[t], result |-> TRUE] /\ mine[t] # 0
    BY <1>1, <1>3, <2>1, <2>5, BufferKept
  <2> QED BY <2>3, <2>4, <2>5
<1> QED BY <1>2, <1>3

LEMMA FwInvariant == Spec => []FwInv
<1>1. Init => FwInv
  <2> SUFFICES ASSUME Init PROVE FwInv
    OBVIOUS
  <2>1. TypeInv
    BY TypeInit DEF TypeInv
  <2>2. LockInv
    BY DEF Init, LockInv, InChannel, Threads
  <2>3. NumberInv
    BY DevOfType DEF Init, NumberInv
  <2>4. WayInv
    BY DEF Init, WayInv, Quiet, Sender, Waiting
  <2>5. ResultInv
    BY DEF Init, ResultInv, Threads
  <2> QED BY <2>1, <2>2, <2>3, <2>4, <2>5 DEF FwInv
<1>2. FwInv /\ [Next]_vars => FwInv'
  <2> SUFFICES ASSUME FwInv, [Next]_vars PROVE FwInv'
    OBVIOUS
  <2>1. TypeInv' /\ LockInv' /\ NumberInv'
    BY TypeStep, LockStep, NumberStep DEF FwInv
  <2> QED BY <2>1, WayStep, ResultStep DEF FwInv
<1> QED BY <1>1, <1>2, PTL DEF Spec

(* As long as no wait on a device gave up, and none took another's ack, the *)
(* ack that ends the wait of a command is the command's own, or is that of  *)
(* the boot or of a vendor call that wrote over the buffer.                 *)
THEOREM OwnAckCorrect == Spec => []AckIsOwnUnlessLeft
<1>1. FwInv => AckIsOwnUnlessLeft
  <2> SUFFICES ASSUME FwInv, NEW t \in Threads, pc[t] = "acked", Request(t) # "ackOnly",
                      ~left[DevOf[t]]
               PROVE  ackOf[DevOf[t]] \in {mine[t], 0}
    BY DEF AckIsOwnUnlessLeft
  <2>1. OnWay(t, DevOf[t])
    BY DevOfType DEF FwInv, WayInv, Sender, Waiting
  <2> QED BY <2>1 DEF OnWay
<1> QED BY <1>1, FwInvariant, PTL

(* What a user reads with the semaphore already given back is the result of *)
(* its own command, unless probe or resume have sent one since.             *)
THEOREM OwnResultCorrect == Spec => []ResultIsOwn
<1>1. FwInv => ResultIsOwn
  BY Zenon DEF FwInv, ResultInv, ResultIsOwn
<1> QED BY <1>1, FwInvariant, PTL

(* The firmware that answers a doorbell finds the command sent last.        *)
THEOREM FirmwareCorrect == Spec => FirmwareSeesTheCommand
<1> DEFINE Seen == \A d \in Devices :
                     running'[d] # {} /\ running[d] = {} =>
                       \/ buffer[d] = [of |-> sent[d], result |-> FALSE]
                       \/ left[d]
                       \/ \E p \in Drivers : DevOf[p] = d /\ pc[p] # "idle"
<1>1. FwInv /\ [Next]_vars => [Seen]_vars
  <2> SUFFICES ASSUME FwInv, Next, NEW d \in Devices, running'[d] # {}, running[d] = {},
                      ~left[d], ~\E p \in Drivers : DevOf[p] = d /\ pc[p] # "idle"
               PROVE  buffer[d] = [of |-> sent[d], result |-> FALSE]
    BY Zenon
  <2>1. FwTake(d)
    <3>1. ASSUME NEW t \in Threads, Begin(t) \/ LockChannel(t) \/ Run(t)
          PROVE  UNCHANGED running
      BY <3>1 DEF Begin, LockChannel, Run, NextRequest, FillBuffer, RingBell, WaitEnd, WaitAborted,
           WaitCheck, TakeAck, FailRequest, ReadResult, End
    <3>2. PICK e \in Devices : Device(e)
      BY <3>1 DEF Next
    <3> QED BY <3>2 DEF FwInv, TypeInv, TypeOK, Device, AbortTransfer, ReaderTakesAbort, FwAckIsr,
                        FwTake, FwDone
  <2>2. PICK h \in Threads : Sender(h, d) /\ OnWay(h, d)
    BY <2>1 DEF FwInv, WayInv, Quiet, FwTake
  <2>3. h \in Users
    BY <2>2 DEF Sender, Waiting, Threads
  <2>4. InBuffer(h, d)
    BY <2>1, <2>2 DEF OnWay, Quiet, InFirmware, InMsi, InIndicator, FwTake
  <2> QED BY <2>2, <2>3, <2>4 DEF OnWay, InBuffer, Asked
<1>2. Spec => [][Seen]_vars
  BY <1>1, FwInvariant, PTL DEF Spec
<1> QED BY <1>2 DEF FirmwareSeesTheCommand
=============================================================================
