---------------------------- MODULE MxRegisters ----------------------------
(***************************************************************************)
(* What the register accessors of memx_xflow.c give their callers: the     *)
(* registers of every chip of the cascade, read and written one at a time  *)
(* by calls that take effect at one moment between being made and being    *)
(* answered.                                                               *)
(*                                                                         *)
(* The accessors take no lock.  What is promised is therefore promised to  *)
(* a call that meets no other call in the windows both go through: two     *)
(* calls clash when they are under way together and their windows are not  *)
(* apart, and a call that clashed (a "spoilt" one) may read anything and   *)
(* write anything anywhere.  A call may be given up on and be carried out  *)
(* later ("late"), or never.  Nothing is promised of a device that left.   *)
(*                                                                         *)
(* MxXflow implements this module: see RegistersRefined there.             *)
(***************************************************************************)
CONSTANTS
  Users, Chips, Registers,
  Words,      \* what a register can hold
  Zero,       \* the word 0
  Calls,      \* [op, chip, name, value]
  NoCall, Wild

VARIABLES apart,     \* do the calls to two chips use two windows?
          quits,     \* the chips a call to which may be given up on
          gone,      \* has the device left?
          reg,       \* reg[c][r], the register r of the chip c
          call,      \* call[u], the call u has under way, or NoCall
          acted,     \* the users whose call has taken effect
          got,       \* got[u], what the last read of u brought
          spoilt,    \* the users whose call clashed with another
          late       \* the call given up on that may still act, NoCall, Wild

rvars == <<apart, quits, gone, reg, call, acted, got, spoilt, late>>

UnderWay == {u \in Users : call[u] # NoCall}

Clashes(a, b) == ~apart \/ a.chip = b.chip

Apply(c) ==
  IF c.op = "write" THEN [reg EXCEPT ![c.chip][c.name] = c.value] ELSE reg

RInit ==
  /\ apart \in BOOLEAN /\ quits \subseteq Chips /\ gone = FALSE
  /\ reg \in [Chips -> [Registers -> Words]]
  /\ call = [u \in Users |-> NoCall] /\ acted = {}
  /\ got = [u \in Users |-> Zero] /\ spoilt = {} /\ late = NoCall

Ask(u) == \E c \in Calls :
  LET met == {v \in UnderWay : Clashes(call[v], c)} IN
  /\ call[u] = NoCall /\ ~gone /\ call' = [call EXCEPT ![u] = c]
  /\ spoilt' = spoilt \cup met \cup (IF met # {} THEN {u} ELSE {})
  /\ acted' = acted \ spoilt'
  /\ UNCHANGED <<apart, quits, gone, reg, got, late>>

\* The one moment at which a call that met no other takes effect.
Act(u) ==
  /\ u \in UnderWay \ (spoilt \cup acted)
  /\ acted' = acted \cup {u} /\ reg' = Apply(call[u])
  /\ got' = IF call[u].op = "write" THEN got
            ELSE [got EXCEPT ![u] = reg[call[u].chip][call[u].name]]
  /\ UNCHANGED <<apart, quits, gone, call, spoilt, late>>

\* What clashing calls do, to the registers and to one another.
Stray ==
  /\ spoilt # {}
  /\ reg' \in [Chips -> [Registers -> Words]]
  /\ got' \in [Users -> Words]
  /\ \A u \in Users \ spoilt : got'[u] = got[u]
  /\ late' \in {late, NoCall}
  /\ UNCHANGED <<apart, quits, gone, call, acted, spoilt>>

Finish(u) ==
  /\ call' = [call EXCEPT ![u] = NoCall]
  /\ acted' = acted \ {u} /\ spoilt' = spoilt \ {u}
  /\ UNCHANGED <<apart, quits, gone, reg>>

Answer(u) ==
  /\ u \in UnderWay /\ u \in acted \cup spoilt /\ Finish(u)
  /\ IF u \in spoilt
     THEN /\ \E w \in Words : got' = [got EXCEPT ![u] = w]
          /\ late' \in {late, Wild}
     ELSE UNCHANGED <<got, late>>

\* An answer that did not come in time: a read is told 0, and the call may
\* still be carried out.
GiveUp(u) ==
  /\ u \in UnderWay \ (acted \cup spoilt) /\ call[u].chip \in quits
  /\ Finish(u)
  /\ got' = IF call[u].op = "write" THEN got ELSE [got EXCEPT ![u] = Zero]
  /\ late' \in {late, call[u]}

LateAct ==
  /\ late # NoCall /\ late' = NoCall
  /\ IF late = Wild THEN reg' \in [Chips -> [Registers -> Words]]
     ELSE reg' = Apply(late)
  /\ UNCHANGED <<apart, quits, gone, call, acted, got, spoilt>>

Leaves ==
  /\ ~gone /\ gone' = TRUE
  /\ spoilt' = spoilt \cup UnderWay
  /\ acted' = {}
  /\ UNCHANGED <<apart, quits, reg, call, got, late>>

RNext ==
  \/ \E u \in Users : Ask(u) \/ Act(u) \/ Answer(u) \/ GiveUp(u)
  \/ Stray \/ LateAct \/ Leaves

RSpec == RInit /\ [][RNext]_rvars
=============================================================================
