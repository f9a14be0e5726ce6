--------------------------- MODULE MxPcieLifeProofs --------------------------
(* Theorems about MxPcieLife, for any number of devices: the list of minor  *)
(* numbers, the types, what a device holds and leaves, the nodes and the    *)
(* files.                                                                   *)
EXTENDS MxPcieLife, FiniteSetTheorems, WellFoundedInduction, TLAPS

(* The stages in which a device is on the list.                             *)
Listed == {"charNode", "featureNode", "fsScan", "fsDir", "fsFiles", "irqs", "load", "log",
           "bound", "rmFs", "rmList", "errFs", "errFeature", "errChar", "errList"}

Shapes ==
  /\ at \in [Devices -> Stage]
  /\ list \in Seq(Devices)
  /\ minor \in [Devices -> Nat]

OnList(d) == \E i \in DOMAIN list : list[i] = d

ListInv ==
  /\ Shapes
  /\ \A d \in Devices : OnList(d) <=> at[d] \in Listed
  /\ ListOrdered

LEMMA NatOrder ==
  \E R : IsWellFoundedOn(R, Nat) /\ \A x, y \in Nat : y < x => <<y, x>> \in R
<1>1. \A x, y \in Nat : y < x => <<y, x>> \in OpToRel(<, Nat)
  BY DEF OpToRel
<1> QED BY <1>1, NatLessThanWellFounded

LEMMA Smallest ==
  ASSUME NEW T, T \subseteq Nat, T # {}
  PROVE  \E x \in T : \A y \in T : x <= y
<1>1. PICK R : IsWellFoundedOn(R, Nat) /\ \A x, y \in Nat : y < x => <<y, x>> \in R
  BY NatOrder
<1>2. PICK x \in T : \A y \in T : <<y, x>> \notin R
  BY <1>1, WFMin
<1>3. \A y \in T : ~ (y < x)
  BY <1>1, <1>2
<1> QED BY <1>3

(* The walk over the list stops, and at a gap.                              *)
LEMMA StopAtGap ==
  ASSUME list \in Seq(Devices), list # <<>>
  PROVE  /\ Stop \in DOMAIN list /\ FollowsGap(Stop)
         /\ \A j \in 1 .. Stop - 1 : ~FollowsGap(j)
<1> DEFINE T == {i \in DOMAIN list : FollowsGap(i)}
<1>1. Len(list) \in T /\ T \subseteq Nat /\ DOMAIN list = 1 .. Len(list)
  BY DEF FollowsGap
<1>2. PICK x \in T : \A y \in T : x <= y
  <2> HIDE DEF T
  <2> QED BY <1>1, Smallest
<1>3. x \in DOMAIN list /\ FollowsGap(x) /\ \A j \in 1 .. x - 1 : ~FollowsGap(j)
  BY <1>1, <1>2
<1>4. \E i \in DOMAIN list : FollowsGap(i) /\ \A j \in 1 .. i - 1 : ~FollowsGap(j)
  BY <1>3
<1> QED BY <1>4, Zenon DEF Stop

LEMMA Inserted ==
  ASSUME NEW S, NEW s \in Seq(S), NEW e \in S, NEW i \in 1 .. Len(s) + 1
  PROVE  /\ InsertAt(s, i, e) \in Seq(S) /\ Len(InsertAt(s, i, e)) = Len(s) + 1
         /\ \A j \in 1 .. Len(s) + 1 :
              InsertAt(s, i, e)[j] = IF j < i THEN s[j] ELSE IF j = i THEN e ELSE s[j - 1]
<1> DEFINE a == SubSeq(s, 1, i - 1)
           b == SubSeq(s, i, Len(s))
<1>1. /\ a \in Seq(S) /\ Len(a) = i - 1
      /\ \A j \in 1 .. i - 1 : a[j] = s[j]
  OBVIOUS
<1>2. /\ b \in Seq(S) /\ Len(b) = Len(s) - i + 1
      /\ \A j \in 1 .. Len(s) - i + 1 : b[j] = s[i + j - 1]
  OBVIOUS
<1>3. InsertAt(s, i, e) = a \o <<e>> \o b
  BY DEF InsertAt
<1> HIDE DEF a, b
<1>4. /\ a \o <<e>> \in Seq(S) /\ Len(a \o <<e>>) = i
      /\ \A j \in 1 .. i : (a \o <<e>>)[j] = IF j < i THEN a[j] ELSE e
  BY <1>1
<1> DEFINE c == a \o <<e>>
<1> HIDE DEF c
<1>5. /\ c \o b \in Seq(S) /\ Len(c \o b) = Len(s) + 1
      /\ \A j \in 1 .. Len(s) + 1 : (c \o b)[j] = IF j <= i THEN c[j] ELSE b[j - i]
  BY <1>2, <1>4 DEF c
<1> QED BY <1>1, <1>2, <1>3, <1>4, <1>5 DEF c

LEMMA Removed ==
  ASSUME NEW S, NEW s \in Seq(S), NEW i \in DOMAIN s
  PROVE  /\ RemoveAt(s, i) \in Seq(S) /\ Len(RemoveAt(s, i)) = Len(s) - 1
         /\ \A j \in 1 .. Len(s) - 1 : RemoveAt(s, i)[j] = IF j < i THEN s[j] ELSE s[j + 1]
<1> DEFINE a == SubSeq(s, 1, i - 1)
           b == SubSeq(s, i + 1, Len(s))
<1>1. /\ a \in Seq(S) /\ Len(a) = i - 1
      /\ \A j \in 1 .. i - 1 : a[j] = s[j]
  OBVIOUS
<1>2. /\ b \in Seq(S) /\ Len(b) = Len(s) - i
      /\ \A j \in 1 .. Len(s) - i : b[j] = s[i + j]
  OBVIOUS
<1>3. RemoveAt(s, i) = a \o b
  BY DEF RemoveAt
<1>4. i \in Nat /\ 1 <= i /\ i <= Len(s) /\ Len(s) \in Nat
  OBVIOUS
<1> HIDE DEF a, b
<1>5. /\ a \o b \in Seq(S) /\ Len(a \o b) = Len(a) + Len(b)
      /\ \A j \in 1 .. Len(a) + Len(b) :
           (a \o b)[j] = IF j <= Len(a) THEN a[j] ELSE b[j - Len(a)]
  BY <1>1, <1>2, SMTT(20)
<1>6. a \o b \in Seq(S) /\ Len(a \o b) = Len(s) - 1
  BY <1>1, <1>2, <1>4, <1>5
<1>7. ASSUME NEW j \in 1 .. Len(s) - 1
      PROVE  (a \o b)[j] = IF j < i THEN s[j] ELSE s[j + 1]
  <2>1. (a \o b)[j] = IF j <= i - 1 THEN a[j] ELSE b[j - (i - 1)]
    <3>1. Len(a) + Len(b) = Len(s) - 1
      BY <1>1, <1>2, <1>4
    <3> QED BY <1>1, <1>5, <3>1
  <2>2. CASE j < i
    BY <1>1, <1>4, <2>1, <2>2
  <2>3. CASE ~(j < i)
    <3>1. j - (i - 1) \in 1 .. Len(s) - i /\ i + (j - (i - 1)) = j + 1 /\ ~(j <= i - 1)
      BY <1>4, <2>3
    <3> QED BY <1>2, <2>1, <2>3, <3>1
  <2> QED BY <2>2, <2>3
<1> QED BY <1>3, <1>6, <1>7

-----------------------------------------------------------------------------
(* The steps that leave the list alone.                                     *)
LEMMA ListQuiet ==
  ASSUME ListInv, UNCHANGED listVars, NEW d \in Devices, NEW s \in Stage,
         at' = [at EXCEPT ![d] = s], (s \in Listed) <=> (at[d] \in Listed)
  PROVE  ListInv'
<1>1. Shapes'
  BY DEF ListInv, Shapes, listVars
<1>2. \A e : OnList(e)' <=> OnList(e)
  BY DEF OnList, listVars
<1>3. \A e \in Devices : OnList(e)' <=> at'[e] \in Listed
  BY <1>2 DEF ListInv, Shapes
<1>4. ListOrdered'
  BY DEF ListInv, ListOrdered, listVars
<1> QED BY <1>1, <1>3, <1>4 DEF ListInv

LEMMA ListStutter == ListInv /\ UNCHANGED <<at, list, minor>> => ListInv'
BY DEF ListInv, Shapes, OnList, ListOrdered

(* No device is on the list twice.                                          *)
LEMMA OnListOnce ==
  ASSUME ListInv, NEW i \in DOMAIN list, NEW j \in DOMAIN list, list[i] = list[j]
  PROVE  i = j
<1>1. i \in Nat /\ j \in Nat /\ list[i] \in Devices /\ minor[list[i]] \in Nat
  BY DEF ListInv, Shapes
<1>2. ~(i < j) /\ ~(j < i)
  BY <1>1 DEF ListInv, ListOrdered
<1> QED BY <1>1, <1>2

(* A device that is not on the list gets a number that is free, at its      *)
(* place in the order.                                                      *)
LEMMA ListInsert ==
  ASSUME ListInv, NEW d \in Devices, Insert(d)
  PROVE  ListInv'
<1>1. at[d] = "insert" /\ at' = [at EXCEPT ![d] = "charNode"] /\ ~OnList(d)
  BY DEF Insert, Goto, ListInv, Listed
<1>2. PICK k \in 1 .. Len(list) + 1, n \in Nat :
        /\ list' = InsertAt(list, k, d) /\ minor' = [minor EXCEPT ![d] = n]
        /\ \A j \in DOMAIN list : /\ j < k => minor[list[j]] < n
                                  /\ j >= k => n < minor[list[j]]
  <2>0. /\ list \in Seq(Devices) /\ minor \in [Devices -> Nat]
        /\ Len(list) \in Nat /\ DOMAIN list = 1 .. Len(list)
    BY DEF ListInv, Shapes
  <2>1. CASE list = <<>> \/ minor[Head(list)] > 0
    <3>1. list' = InsertAt(list, 1, d) /\ minor' = [minor EXCEPT ![d] = 0]
      BY <2>1 DEF Insert
    <3>2. \A j \in DOMAIN list : 0 < minor[list[j]]
      <4> SUFFICES ASSUME NEW j \in DOMAIN list PROVE 0 < minor[list[j]]
        OBVIOUS
      <4>1. list # <<>> /\ Head(list) = list[1] /\ 1 \in DOMAIN list /\ j \in Nat /\ 1 <= j
        BY <2>0
      <4>2. 1 < j => minor[list[1]] < minor[list[j]]
        BY <4>1 DEF ListInv, ListOrdered
      <4>3. list[j] \in Devices /\ list[1] \in Devices
        BY <2>0, <4>1
      <4> QED BY <2>0, <2>1, <4>1, <4>2, <4>3
    <3>3. 1 \in 1 .. Len(list) + 1 /\ 0 \in Nat
      BY <2>0
    <3>4. \A j \in DOMAIN list : ~(j < 1)
      BY <2>0
    <3> QED BY <3>1, <3>2, <3>3, <3>4
  <2>2. CASE ~(list = <<>> \/ minor[Head(list)] > 0)
    <3>1. Stop \in DOMAIN list /\ FollowsGap(Stop)
      BY <2>0, <2>2, StopAtGap
    <3> DEFINE k == Stop
               n == minor[list[k]] + 1
    <3>2. list' = InsertAt(list, k + 1, d) /\ minor' = [minor EXCEPT ![d] = n]
      BY <2>2 DEF Insert
    <3>3. k + 1 \in 1 .. Len(list) + 1 /\ n \in Nat /\ k \in Nat /\ minor[list[k]] \in Nat
      BY <2>0, <3>1
    <3> HIDE DEF k
    <3>4. ASSUME NEW j \in DOMAIN list, j < k + 1 PROVE minor[list[j]] < n
      <4>1. j = k \/ j < k
        BY <2>0, <3>3, <3>4
      <4>2. j < k => minor[list[j]] < minor[list[k]]
        BY <3>1 DEF ListInv, ListOrdered, k
      <4>3. minor[list[j]] \in Nat
        BY <2>0
      <4> QED BY <3>3, <4>1, <4>2, <4>3
    <3>5. ASSUME NEW j \in DOMAIN list, j >= k + 1 PROVE n < minor[list[j]]
      <4>1. k + 1 \in DOMAIN list /\ minor[list[k + 1]] # n
        <5>1. k # Len(list)
          <6>1. j \in Nat /\ j <= Len(list) /\ k + 1 <= j
            BY <2>0, <3>3, <3>5
          <6>2. \A x, m \in Nat : x <= m /\ k + 1 <= x => k # m
            BY <3>3
          <6> QED BY <2>0, <6>1, <6>2
        <5>2. k + 1 \in DOMAIN list
          BY <2>0, <3>1, <3>3, <5>1 DEF k
        <5> QED BY <3>1, <5>1, <5>2 DEF FollowsGap, k
      <4>2. minor[list[k]] < minor[list[k + 1]]
        BY <3>1, <3>3, <4>1 DEF ListInv, ListOrdered, k
      <4>3. minor[list[k + 1]] \in Nat /\ minor[list[j]] \in Nat
        BY <2>0, <4>1
      <4>4. k + 1 < j => minor[list[k + 1]] < minor[list[j]]
        BY <4>1 DEF ListInv, ListOrdered
      <4>5. j = k + 1 \/ k + 1 < j
        BY <2>0, <3>3, <3>5
      <4> QED BY <3>3, <4>1, <4>2, <4>3, <4>4, <4>5
    <3> QED BY <3>2, <3>3, <3>4, <3>5
  <2> QED BY <2>1, <2>2
<1>3. /\ list \in Seq(Devices) /\ minor \in [Devices -> Nat] /\ at \in [Devices -> Stage]
      /\ Len(list) \in Nat /\ DOMAIN list = 1 .. Len(list)
  BY DEF ListInv, Shapes
<1>4. /\ list' \in Seq(Devices) /\ DOMAIN list' = 1 .. Len(list) + 1
      /\ \A j \in 1 .. Len(list) + 1 :
           list'[j] = IF j < k THEN list[j] ELSE IF j = k THEN d ELSE list[j - 1]
  <2>1. /\ InsertAt(list, k, d) \in Seq(Devices)
        /\ Len(InsertAt(list, k, d)) = Len(list) + 1
        /\ \A j \in 1 .. Len(list) + 1 :
             InsertAt(list, k, d)[j]
               = IF j < k THEN list[j] ELSE IF j = k THEN d ELSE list[j - 1]
    <3>1. k \in 1 .. Len(list) + 1
      BY <1>2
    <3>2. list \in Seq(Devices)
      BY <1>3
    <3>3. d \in Devices
      OBVIOUS
    <3>4. \A s \in Seq(Devices), e \in Devices : \A i \in 1 .. Len(s) + 1 :
            /\ InsertAt(s, i, e) \in Seq(Devices) /\ Len(InsertAt(s, i, e)) = Len(s) + 1
            /\ \A j \in 1 .. Len(s) + 1 :
                 InsertAt(s, i, e)[j]
                   = IF j < i THEN s[j] ELSE IF j = i THEN e ELSE s[j - 1]
      BY Inserted
    <3> QED BY <3>1, <3>2, <3>3, <3>4, ZenonT(30)
  <2> QED BY <1>2, <2>1
<1>5. Shapes'
  BY <1>1, <1>2, <1>3, <1>4 DEF Shapes, Stage, Rest
<1>6. \A e \in Devices : OnList(e)' <=> (e = d \/ OnList(e))
  <2>1. ASSUME NEW i \in DOMAIN list
        PROVE  \E j \in DOMAIN list' : list'[j] = list[i]
    <3>1. CASE i < k
      <4>1. i \in DOMAIN list' /\ list'[i] = list[i]
        BY <1>3, <1>4, <3>1
      <4> QED BY <4>1
    <3>2. CASE ~(i < k)
      <4>1. /\ i + 1 \in 1 .. Len(list) + 1 /\ ~(i + 1 < k) /\ i + 1 # k /\ (i + 1) - 1 = i
        BY <1>3, <3>2
      <4>2. i + 1 \in DOMAIN list' /\ list'[i + 1] = list[i]
        BY <1>4, <4>1
      <4> QED BY <4>2
    <3> QED BY <3>1, <3>2
  <2>2. list'[k] = d /\ k \in DOMAIN list'
    BY <1>4
  <2>3. \A j \in DOMAIN list' : list'[j] = d \/ \E i \in DOMAIN list : list'[j] = list[i]
    <3> SUFFICES ASSUME NEW j \in 1 .. Len(list) + 1, list'[j] # d
                 PROVE  \E i \in DOMAIN list : list'[j] = list[i]
      BY <1>4
    <3>1. j < k => j \in DOMAIN list /\ list'[j] = list[j]
      BY <1>3, <1>4
    <3>2. ~(j < k) => j - 1 \in DOMAIN list /\ list'[j] = list[j - 1]
      BY <1>3, <1>4
    <3> QED BY <3>1, <3>2
  <2> QED BY <2>1, <2>2, <2>3 DEF OnList
<1>7. \A e \in Devices : OnList(e)' <=> at'[e] \in Listed
  BY <1>1, <1>3, <1>6 DEF ListInv, Listed
<1>8. ListOrdered'
  <2> SUFFICES ASSUME NEW i \in DOMAIN list', NEW j \in DOMAIN list', i < j
               PROVE  minor'[list'[i]] < minor'[list'[j]]
    BY DEF ListOrdered
  <2>1. \A x \in DOMAIN list : list[x] \in Devices /\ minor'[list[x]] = minor[list[x]]
    BY <1>1, <1>2, <1>3 DEF OnList
  <2>2. minor'[d] = n
    BY <1>2, <1>3
  <2>3. i \in 1 .. Len(list) + 1 /\ j \in 1 .. Len(list) + 1
    BY <1>4
  <2>4. CASE j < k
    <3>1. i \in DOMAIN list /\ j \in DOMAIN list /\ list'[i] = list[i] /\ list'[j] = list[j]
      BY <1>3, <1>4, <2>3, <2>4
    <3> QED BY <2>1, <3>1 DEF ListInv, ListOrdered
  <2>5. CASE j = k
    <3>1. i \in DOMAIN list /\ list'[i] = list[i] /\ list'[j] = d
      BY <1>3, <1>4, <2>3, <2>5
    <3> QED BY <1>2, <2>1, <2>2, <2>5, <3>1
  <2>6. CASE j > k /\ i < k
    <3>1. i \in DOMAIN list /\ j - 1 \in DOMAIN list /\ i < j - 1
          /\ list'[i] = list[i] /\ list'[j] = list[j - 1]
      BY <1>3, <1>4, <2>3, <2>6, SMTT(20)
    <3> QED BY <2>1, <3>1 DEF ListInv, ListOrdered
  <2>7. CASE j > k /\ i = k
    <3>1. j - 1 \in DOMAIN list /\ j - 1 >= k /\ list'[i] = d /\ list'[j] = list[j - 1]
      BY <1>3, <1>4, <2>3, <2>7
    <3> QED BY <1>2, <2>1, <2>2, <3>1
  <2>8. CASE j > k /\ i > k
    <3>1. i - 1 \in DOMAIN list /\ j - 1 \in DOMAIN list /\ i - 1 < j - 1
      BY <1>3, <2>3, <2>8, SMTT(20)
    <3>2. ~(i < k) /\ i # k /\ ~(j < k) /\ j # k
      BY <1>3, <2>3, <2>8
    <3>3. list'[i] = list[i - 1] /\ list'[j] = list[j - 1]
      BY <1>4, <2>3, <3>2
    <3> QED BY <2>1, <3>1, <3>3 DEF ListInv, ListOrdered
  <2> QED BY <2>3, <2>4, <2>5, <2>6, <2>7, <2>8
<1> QED BY <1>5, <1>7, <1>8 DEF ListInv

LEMMA ListLeave ==
  ASSUME ListInv, NEW d \in Devices, LeaveList(d)
  PROVE  ListInv'
<1>1. /\ at[d] \in Listed /\ UNCHANGED minor
      /\ \E s \in Stage \ Listed : at' = [at EXCEPT ![d] = s]
  BY DEF LeaveList, Goto, Listed, Stage, Rest, Failing
<1>2. /\ list \in Seq(Devices) /\ minor \in [Devices -> Nat] /\ at \in [Devices -> Stage]
      /\ Len(list) \in Nat /\ DOMAIN list = 1 .. Len(list)
  BY DEF ListInv, Shapes
<1> DEFINE k == CHOOSE i \in DOMAIN list : list[i] = d
<1>3. k \in DOMAIN list /\ list[k] = d /\ list' = RemoveAt(list, k)
  <2>1. \E i \in DOMAIN list : list[i] = d
    BY <1>1 DEF ListInv, OnList
  <2>2. k \in DOMAIN list /\ list[k] = d
    BY <2>1, Zenon
  <2> QED BY <2>2 DEF LeaveList
<1> HIDE DEF k
<1>4. /\ list' \in Seq(Devices) /\ DOMAIN list' = 1 .. Len(list) - 1
      /\ \A j \in 1 .. Len(list) - 1 : list'[j] = IF j < k THEN list[j] ELSE list[j + 1]
  <2>1. /\ RemoveAt(list, k) \in Seq(Devices) /\ Len(RemoveAt(list, k)) = Len(list) - 1
        /\ \A j \in 1 .. Len(list) - 1 :
             RemoveAt(list, k)[j] = IF j < k THEN list[j] ELSE list[j + 1]
    BY <1>2, <1>3, Removed
  <2> QED BY <1>3, <2>1
<1>5. Shapes'
  BY <1>1, <1>2, <1>4 DEF Shapes
<1>6. \A j \in DOMAIN list' : \E i \in DOMAIN list : i # k /\ list'[j] = list[i]
  <2> SUFFICES ASSUME NEW j \in 1 .. Len(list) - 1
               PROVE  \E i \in DOMAIN list : i # k /\ list'[j] = list[i]
    BY <1>4
  <2>1. j < k => j \in DOMAIN list /\ j # k /\ list'[j] = list[j]
    BY <1>2, <1>3, <1>4, SMTT(30)
  <2>2. ~(j < k) => j + 1 \in DOMAIN list /\ j + 1 # k /\ list'[j] = list[j + 1]
    BY <1>2, <1>3, <1>4
  <2> QED BY <2>1, <2>2
<1>7. \A i \in DOMAIN list : i # k => \E j \in DOMAIN list' : list'[j] = list[i]
  <2> SUFFICES ASSUME NEW i \in DOMAIN list, i # k
               PROVE  \E j \in DOMAIN list' : list'[j] = list[i]
    OBVIOUS
  <2>1. CASE i < k
    <3>1. i \in 1 .. Len(list) - 1
      BY <1>2, <1>3, <2>1
    <3>2. i \in DOMAIN list' /\ list'[i] = list[i]
      BY <1>4, <2>1, <3>1
    <3> QED BY <3>2
  <2>2. CASE i > k
    <3>1. i - 1 \in DOMAIN list' /\ ~(i - 1 < k) /\ (i - 1) + 1 = i
      BY <1>2, <1>3, <1>4, <2>2, SMTT(20)
    <3> QED BY <1>2, <1>4, <3>1
  <2> QED BY <1>2, <1>3, <2>1, <2>2
<1>8. \A e \in Devices : OnList(e)' <=> (e # d /\ OnList(e))
  <2>1. \A i \in DOMAIN list : list[i] = d => i = k
    BY <1>3, OnListOnce
  <2> QED BY <1>3, <1>6, <1>7, <2>1 DEF OnList
<1>9. \A e \in Devices : OnList(e)' <=> at'[e] \in Listed
  BY <1>1, <1>2, <1>8 DEF ListInv
<1>10. ListOrdered'
  <2> SUFFICES ASSUME NEW i \in DOMAIN list', NEW j \in DOMAIN list', i < j
               PROVE  minor[list'[i]] < minor[list'[j]]
    BY <1>1 DEF ListOrdered
  <2>1. PICK x \in DOMAIN list, y \in DOMAIN list :
          x < y /\ list'[i] = list[x] /\ list'[j] = list[y]
    <3>1. i \in 1 .. Len(list) - 1 /\ j \in 1 .. Len(list) - 1
      BY <1>4
    <3>2. CASE j < k
      <4>1. i \in DOMAIN list /\ j \in DOMAIN list /\ i < k
        BY <1>2, <1>3, <3>1, <3>2
      <4>2. list'[i] = list[i] /\ list'[j] = list[j]
        BY <1>4, <3>1, <3>2, <4>1
      <4> QED BY <4>1, <4>2
    <3>3. CASE ~(j < k) /\ i < k
      <4>1. j + 1 \in DOMAIN list /\ i \in DOMAIN list /\ i < j + 1
        BY <1>2, <1>3, <3>1, <3>3
      <4> QED BY <1>4, <3>1, <3>3, <4>1
    <3>4. CASE ~(j < k) /\ ~(i < k)
      <4>1. j + 1 \in DOMAIN list /\ i + 1 \in DOMAIN list /\ i + 1 < j + 1
        BY <1>2, <1>3, <3>1, <3>4, SMTT(20)
      <4> QED BY <1>4, <3>1, <3>4, <4>1
    <3> QED BY <3>2, <3>3, <3>4
  <2> QED BY <2>1 DEF ListInv, ListOrdered
<1> QED BY <1>5, <1>9, <1>10 DEF ListInv

(* What a device forgets when it returns is not looked at any more.         *)
LEMMA ListReturn ==
  ASSUME ListInv, NEW d \in Devices, Return(d)
  PROVE  ListInv'
<1>1. /\ at[d] = "return" /\ at' = [at EXCEPT ![d] = "unbound"] /\ UNCHANGED list
      /\ minor' = [minor EXCEPT ![d] = 0]
  BY DEF Return, Goto
<1>2. Shapes'
  BY <1>1 DEF ListInv, Shapes, Stage, Rest
<1>3. \A e : OnList(e)' <=> OnList(e)
  BY <1>1 DEF OnList
<1>4. \A e \in Devices : OnList(e)' <=> at'[e] \in Listed
  BY <1>1, <1>3 DEF ListInv, Shapes, Listed
<1>5. ~OnList(d)
  BY <1>1 DEF ListInv, Listed
<1>6. \A i \in DOMAIN list : list[i] \in Devices /\ minor'[list[i]] = minor[list[i]]
  BY <1>1, <1>5 DEF ListInv, Shapes, OnList
<1>7. ListOrdered'
  BY <1>1, <1>6 DEF ListInv, ListOrdered
<1> QED BY <1>2, <1>4, <1>7 DEF ListInv

-----------------------------------------------------------------------------
LEMMA StepCount == Len(Step) = 7 /\ DOMAIN Step = 1 .. 7
BY DEF Step

LEMMA AcquireStep ==
  ASSUME NEW d \in Devices, Acquire(d)
  PROVE  \E i \in 1 .. 8 :
           /\ GetPages(d, i) /\ Take(d, Got(i))
           /\ Goto(d, "enable", IF i > 7 THEN "insert" ELSE Step[i].fail)
           /\ leaked' = [leaked EXCEPT ![d] = IF i = 7 THEN {"fifo"} ELSE @]
<1>1. \E i \in 1 .. Len(Step) + 1 :
        /\ GetPages(d, i) /\ Take(d, Got(i))
        /\ Goto(d, "enable", IF i > Len(Step) THEN "insert" ELSE Step[i].fail)
        /\ leaked' = [leaked EXCEPT ![d] = IF i = Len(Step) THEN {"fifo"} ELSE @]
  BY Zenon DEF Acquire
<1>2. Len(Step) = 7 /\ 7 + 1 = 8
  BY StepCount
<1> HIDE DEF Step, GetPages, Take, Goto, Got
<1> QED BY <1>1, <1>2

(* Where the steps of Acquire lead.                                         *)
LEMMA Acquired ==
  ASSUME NEW d \in Devices, Acquire(d)
  PROVE  /\ at[d] = "enable"
         /\ \E s \in {"insert", "errDevm", "errDma", "errPcie", "errBar"} : at' = [at EXCEPT ![d] = s]
<1>1. \A i \in DOMAIN Step : Step[i].fail \in {"errDevm", "errDma", "errPcie", "errBar"}
  BY DEF Step
<1>2. at[d] = "enable"
  BY DEF Acquire
<1>3. PICK i \in 1 .. 8 : Goto(d, "enable", IF i > 7 THEN "insert" ELSE Step[i].fail)
  BY AcquireStep
<1>4. i > 7 \/ i \in DOMAIN Step
  BY StepCount
<1> QED BY <1>1, <1>2, <1>3, <1>4 DEF Goto

LEMMA ListDevice ==
  ASSUME ListInv, NEW d \in Devices, Device(d)
  PROVE  ListInv'
<1> USE DEF Goto, Stage, Rest, FwStages, Failing, Listed
<1>1. CASE Insert(d)
  BY <1>1, ListInsert
<1>2. CASE LeaveList(d)
  BY <1>2, ListLeave
<1>3. CASE Return(d)
  BY <1>3, ListReturn
<1>4. CASE Probe(d) \/ Unplug(d) \/ Resume(d)
  BY <1>4, ListQuiet DEF Probe, Unplug, Resume
<1>5. CASE Acquire(d)
  <2>1. UNCHANGED listVars
    BY <1>5 DEF Acquire
  <2> QED BY <1>5, <2>1, Acquired, ListQuiet
<1>6. CASE CharNode(d) \/ FeatureNode(d)
  <2>1. \E s \in {"errFeature", "featureNode", "irqs", "fsScan"} :
          /\ at[d] \in {"charNode", "featureNode"} /\ at' = [at EXCEPT ![d] = s]
          /\ UNCHANGED listVars
    BY <1>6 DEF CharNode, FeatureNode, CreateNode
  <2> QED BY <2>1, ListQuiet
<1>7. CASE FsScan(d) \/ FsDir(d)
  <2>1. \E s \in {"fsDir", "fsFiles", "errFeature"} :
          /\ at[d] \in {"fsScan", "fsDir"} /\ at' = [at EXCEPT ![d] = s]
          /\ UNCHANGED listVars
    BY <1>7 DEF FsScan, FsDir
  <2> QED BY <2>1, ListQuiet
<1>8. CASE FsFiles(d)
  <2>1. \E s \in {"irqs", "errFeature"} :
          at[d] = "fsFiles" /\ at' = [at EXCEPT ![d] = s] /\ UNCHANGED listVars
    BY <1>8 DEF FsFiles, FilesMade, ProcFileFails, SysFileFails
  <2> QED BY <2>1, ListQuiet
<1>9. CASE InitIrqs(d) \/ LoadFirmware(d) \/ ConnectLog(d)
  <2>1. \E s \in {"load", "log", "bound", "errFs"} :
          /\ at[d] \in {"irqs", "load", "log"} /\ at' = [at EXCEPT ![d] = s]
          /\ UNCHANGED listVars
    BY <1>9 DEF InitIrqs, LoadFirmware, ConnectLog, FwFails
  <2> QED BY <2>1, ListQuiet
<1>10. CASE Suspend(d)
  BY <1>10, ListStutter DEF Suspend, listVars
<1>11. CASE DropTree(d) \/ DropFeatureNode(d) \/ DropCharNode(d) \/ DropIrqs(d)
  BY <1>11, ListQuiet DEF DropTree, DropFeatureNode, DropCharNode, DropIrqs
<1>12. CASE Release(d)
  <2>1. \E s \in {"hollow", "return"} :
          /\ at[d] \in {"errDevm", "errDma", "errPcie", "errBar", "rmFree"}
          /\ at' = [at EXCEPT ![d] = s] /\ UNCHANGED listVars
    BY <1>12 DEF Release, Frees
  <2> QED BY <2>1, ListQuiet
<1> QED BY <1>1, <1>2, <1>3, <1>4, <1>5, <1>6, <1>7, <1>8, <1>9, <1>10, <1>11, <1>12 DEF Device

LEMMA ListNext == ListInv /\ [Next]_vars => ListInv'
<1> SUFFICES ASSUME ListInv, [Next]_vars PROVE ListInv'
  OBVIOUS
<1>1. CASE Load \/ Unload \/ UNCHANGED vars
  BY <1>1, ListStutter DEF Load, Unload, vars, listVars
<1>2. CASE \E d \in Devices : Device(d)
  BY <1>2, ListDevice
<1> QED BY <1>1, <1>2 DEF Next

LEMMA ListInit == Init => ListInv
BY DEF Init, ListInv, Shapes, OnList, ListOrdered, Listed, Stage, Rest

(* However many devices come and go side by side, and wherever their probes *)
(* fail, the list is in the order of the minor numbers and no number is     *)
(* handed out twice (memx_pcie_dev_list_ctrl.c).                            *)
THEOREM OrderCorrect == Spec => []ListOrdered
<1>1. ListInv => ListOrdered
  BY DEF ListInv
<1> QED BY ListInit, ListNext, <1>1, PTL DEF Spec

-----------------------------------------------------------------------------
(* The numbers before the first gap are 0, 1, ... and all of them are taken.*)
LEMMA BeforeGap ==
  ASSUME ListInv, list # <<>>, minor[Head(list)] = 0
  PROVE  \A i \in 1 .. Stop : i \in DOMAIN list /\ minor[list[i]] = i - 1
<1> DEFINE s == Stop
           Bad == {i \in 1 .. s : minor[list[i]] # i - 1}
<1>1. /\ list \in Seq(Devices) /\ minor \in [Devices -> Nat]
      /\ Len(list) \in Nat /\ DOMAIN list = 1 .. Len(list) /\ Head(list) = list[1]
  BY DEF ListInv, Shapes
<1>2. s \in DOMAIN list /\ \A j \in 1 .. s - 1 : ~FollowsGap(j)
  BY <1>1, StopAtGap
<1> HIDE DEF s
<1>3. Bad = {}
  <2> SUFFICES ASSUME Bad # {} PROVE FALSE
    OBVIOUS
  <2>1. Bad \subseteq Nat
    BY <1>1, <1>2
  <2>2. PICK x \in Bad : \A y \in Bad : x <= y
    <3> HIDE DEF Bad
    <3> QED BY <2>1, Smallest
  <2>3. x \in 1 .. s /\ minor[list[x]] # x - 1
    OBVIOUS
  <2>4. x # 1
    BY <1>1, <2>3
  <2>5. x - 1 \in 1 .. s - 1 /\ x - 1 \in 1 .. s /\ x \in Nat /\ s \in Nat
    BY <1>1, <1>2, <2>3, <2>4
  <2>6. x - 1 \notin Bad
    BY <2>2, <2>5
  <2>7. minor[list[x - 1]] = (x - 1) - 1
    BY <2>5, <2>6
  <2>8. ~FollowsGap(x - 1)
    BY <1>2, <2>5
  <2>9. minor[list[(x - 1) + 1]] = minor[list[x - 1]] + 1
    BY <2>8 DEF FollowsGap
  <2> QED BY <2>3, <2>5, <2>7, <2>9
<1>4. \A i \in 1 .. s : i \in DOMAIN list
  BY <1>1, <1>2
<1>5. \A i \in 1 .. s : minor[list[i]] = i - 1
  BY <1>3
<1> QED BY <1>4, <1>5 DEF s

(* A device that is inserted gets the least number that is free.            *)
LEMMA LeastFree ==
  ASSUME ListInv, NEW d \in Devices, Insert(d)
  PROVE  /\ minor'[d] \in Nat
         /\ \A m \in Nat : m < minor'[d] =>
              \E i \in DOMAIN list : list[i] # d /\ minor[list[i]] = m
         /\ minor'[d] <= Len(list)
<1>0. ~OnList(d)
  BY DEF ListInv, Insert, Goto, Listed
<1>1. /\ list \in Seq(Devices) /\ minor \in [Devices -> Nat]
      /\ Len(list) \in Nat /\ DOMAIN list = 1 .. Len(list)
      /\ \A i \in DOMAIN list : list[i] # d
  BY <1>0 DEF ListInv, Shapes, OnList
<1>2. CASE list = <<>> \/ minor[Head(list)] > 0
  <2>1. minor'[d] = 0
    BY <1>1, <1>2 DEF Insert
  <2> QED BY <1>1, <2>1
<1>3. CASE ~(list = <<>> \/ minor[Head(list)] > 0)
  <2> DEFINE s == Stop
  <2>1. minor'[d] = minor[list[s]] + 1
    BY <1>1, <1>3 DEF Insert
  <2>2. Head(list) \in Devices /\ minor[Head(list)] \in Nat
    BY <1>1, <1>3
  <2>3. minor[Head(list)] = 0
    BY <1>3, <2>2
  <2>4. s \in DOMAIN list /\ \A i \in 1 .. s : i \in DOMAIN list /\ minor[list[i]] = i - 1
    BY <1>1, <1>3, <2>3, StopAtGap, BeforeGap
  <2> HIDE DEF s
  <2>5. s \in 1 .. Len(list) /\ s \in 1 .. s /\ s \in Nat
    BY <1>1, <2>4
  <2>6. minor'[d] = s
    BY <2>1, <2>4, <2>5
  <2>7. ASSUME NEW m \in Nat, m < s
        PROVE  \E i \in DOMAIN list : list[i] # d /\ minor[list[i]] = m
    <3>1. m + 1 \in 1 .. s /\ (m + 1) - 1 = m
      BY <2>5, <2>7
    <3> QED BY <1>1, <2>4, <3>1
  <2> QED BY <2>5, <2>6, <2>7
<1> QED BY <1>2, <1>3

(* There is a number for every device.                                      *)
LEMMA EnoughMinors ==
  ASSUME ListInv, NEW d \in Devices, Insert(d)
  PROVE  minor'[d] \in Minors
<1>0. ~OnList(d)
  BY DEF ListInv, Insert, Goto, Listed
<1>1. /\ list \in Seq(Devices) /\ Len(list) \in Nat /\ DOMAIN list = 1 .. Len(list)
      /\ \A i \in DOMAIN list : list[i] # d
  BY <1>0 DEF ListInv, Shapes, OnList
<1> DEFINE others == Devices \ {d}
<1>2. /\ IsFiniteSet(others) /\ Cardinality(others) = Cardinality(Devices) - 1
      /\ Cardinality(others) \in Nat /\ Cardinality(Devices) \in Nat
  BY PcieLifeAssumption, FS_RemoveElement, FS_CardinalityType DEF PcieLifeAssumption
<1>3. IsFiniteSet(1 .. Len(list)) /\ Cardinality(1 .. Len(list)) = Len(list)
  BY <1>1, FS_Interval
<1>4. list \in [1 .. Len(list) -> others]
  BY <1>1
<1>5. ~(Cardinality(others) < Len(list))
  <2> SUFFICES ASSUME Cardinality(others) < Len(list) PROVE FALSE
    OBVIOUS
  <2>1. \E x, y \in 1 .. Len(list) : x # y /\ list[x] = list[y]
    <3> HIDE DEF others
    <3> QED BY <1>2, <1>3, <1>4, FS_PigeonHole
  <2> QED BY <1>1, <2>1, OnListOnce
<1>6. Len(list) <= Cardinality(Devices) - 1
  BY <1>1, <1>2, <1>5
<1> QED BY <1>1, <1>2, <1>6, LeastFree DEF Minors

-----------------------------------------------------------------------------
(* Types.  Only the number of a device that is inserted needs the list.     *)
LEMMA TypeInit == Init => TypeOK
<1> SUFFICES ASSUME Init PROVE TypeOK
  OBVIOUS
<1>1. Devices # {} => 0 \in Minors
  <2> SUFFICES ASSUME NEW d \in Devices PROVE 0 \in Minors
    OBVIOUS
  <2>1. Cardinality(Devices) \in Nat /\ Cardinality(Devices) # 0
    BY PcieLifeAssumption, FS_CardinalityType, FS_EmptySet DEF PcieLifeAssumption
  <2> QED BY <2>1 DEF Minors
<1>2. 0 \in Names
  BY PcieLifeAssumption DEF PcieLifeAssumption, Names
<1>3. minor \in [Devices -> Minors] /\ dir \in [Devices -> Names]
  BY <1>1, <1>2 DEF Init
<1>4. /\ node \in [Nodes \X Minors -> Devices \cup {Nobody}]
      /\ dirs \in [Names -> {"free", "bare", "open"}]
      /\ kobj \in [Names -> Kobjects \cup {Nobody}]
      /\ entry \in [Minors -> Entry]
  BY DEF Init, Entry
<1>5. /\ held \in [Devices -> SUBSET Resource] /\ leaked \in [Devices -> SUBSET Resource]
      /\ handlers \in [Devices -> SUBSET Handler]
  BY DEF Init
<1>6. loads \in 0 .. MaxLoads /\ probes \in 0 .. MaxProbes
  BY PcieLifeAssumption DEF Init, PcieLifeAssumption
<1>7. /\ at \in [Devices -> Stage] /\ ret \in [Devices -> {0, -1}]
      /\ vectors \in [Devices -> {"none", "one", "many"}]
  BY DEF Init, Stage, Rest
<1>8. driver \in {"out", "in"} /\ globals \subseteq Global /\ fsType \in FsTypes /\ list \in Seq(Devices)
  BY DEF Init
<1>10. disturbed \in BOOLEAN /\ uneven \in BOOLEAN
  BY Zenon DEF Init
<1>11. dmaSize \in {1, 2} /\ pages \in [Devices -> 0 .. 2]
  BY DEF Init
<1>9. /\ initDone \in [Devices -> BOOLEAN] /\ asleep \in [Devices -> BOOLEAN]
      /\ rival \in [Devices -> BOOLEAN]
  BY DEF Init
<1> QED BY <1>3, <1>4, <1>5, <1>6, <1>7, <1>8, <1>9, <1>10, <1>11 DEF TypeOK

LEMMA HeldType ==
  ASSUME TypeOK, NEW d \in Devices,
         \/ UNCHANGED held
         \/ \E r : held' = [held EXCEPT ![d] = @ \ r]
         \/ \E r \in SUBSET Resource : held' = [held EXCEPT ![d] = @ \cup r]
  PROVE  held' \in [Devices -> SUBSET Resource]
<1>1. ASSUME NEW r, held' = [held EXCEPT ![d] = @ \ r] PROVE held' \in [Devices -> SUBSET Resource]
  BY <1>1 DEF TypeOK
<1>2. ASSUME NEW r \in SUBSET Resource, held' = [held EXCEPT ![d] = @ \cup r]
      PROVE held' \in [Devices -> SUBSET Resource]
  BY <1>2 DEF TypeOK
<1> QED BY <1>1, <1>2 DEF TypeOK

LEMMA TypeModule ==
  ASSUME TypeOK, Load \/ Unload \/ UNCHANGED vars
  PROVE  TypeOK'
<1> USE DEF moduleVars, pageVars, listVars, treeVars, irqVars, ghostVars
<1>1. CASE Load
  <2>1. globals' \subseteq Global /\ driver' \in {"out", "in"}
    BY <1>1 DEF TypeOK, Load, Global
  <2>2. loads' \in 0 .. MaxLoads
    BY <1>1, PcieLifeAssumption DEF TypeOK, Load, PcieLifeAssumption
  <2> QED BY <1>1, <2>1, <2>2 DEF TypeOK, Load
<1>2. CASE Unload
  <2>1. entry' \in [Minors -> Entry] /\ globals' \subseteq Global
    BY <1>2 DEF Unload, Entry
  <2> QED BY <1>2, <2>1 DEF TypeOK, Unload
<1>3. CASE UNCHANGED vars
  BY <1>3 DEF TypeOK, vars
<1> QED BY <1>1, <1>2, <1>3

LEMMA TypeProbe ==
  ASSUME TypeOK, NEW d \in Devices, at' \in [Devices -> Stage],
         Probe(d) \/ Acquire(d) \/ CharNode(d) \/ FeatureNode(d)
  PROVE  TypeOK'
<1> USE DEF moduleVars, pageVars, listVars, treeVars, irqVars, ghostVars, Take, Fail
<1>1. CASE Probe(d)
  <2>1. probes' \in 0 .. MaxProbes
    BY <1>1, PcieLifeAssumption DEF Probe, TypeOK, PcieLifeAssumption
  <2>2. held' \in [Devices -> SUBSET Resource] /\ leaked' \in [Devices -> SUBSET Resource]
    BY <1>1 DEF Probe, TypeOK, Resource
  <2>3. rival' \in [Devices -> BOOLEAN] /\ disturbed' \in BOOLEAN
    BY <1>1, Zenon DEF Probe, Enter, TypeOK
  <2> QED BY <1>1, <2>1, <2>2, <2>3 DEF Probe, TypeOK
<1>2. CASE Acquire(d)
  <2>1. \A i \in DOMAIN Step : Step[i].gets \subseteq Resource
    BY DEF Step, Resource
  <2>2. \A i \in 1 .. 8 : Got(i) \subseteq Resource
    BY <2>1, StepCount DEF Got
  <2>3. \E i \in 1 .. 8 : GetPages(d, i)
    BY <1>2, AcquireStep
  <2>7. dmaSize' \in {1, 2} /\ pages' \in [Devices -> 0 .. 2]
    BY <2>3 DEF GetPages, TypeOK
  <2>8. uneven' \in BOOLEAN
    BY <2>3, Zenon DEF GetPages, TypeOK
  <2>4. held' \in [Devices -> SUBSET Resource]
    <3>1. PICK i \in 1 .. 8 : Take(d, Got(i))
      BY <1>2, AcquireStep
    <3>2. \E r \in SUBSET Resource : Take(d, r)
      BY <2>2, <3>1
    <3> QED BY <3>2, HeldType
  <2>5. ret' \in [Devices -> {0, -1}]
    BY <1>2 DEF Acquire, TypeOK
  <2>6. leaked' \in [Devices -> SUBSET Resource]
    <3>1. \E x : leaked' = [leaked EXCEPT ![d] = IF x THEN {"fifo"} ELSE @]
      BY <1>2 DEF Acquire
    <3>2. {"fifo"} \in SUBSET Resource
      BY DEF Resource
    <3> QED BY <3>1, <3>2 DEF TypeOK
  <2> QED BY <1>2, <2>4, <2>5, <2>6, <2>7, <2>8 DEF Acquire, TypeOK
<1>3. CASE CharNode(d) \/ FeatureNode(d)
  <2>1. PICK kind \in Nodes : CreateNode(d, kind)
    BY <1>3 DEF CharNode, FeatureNode, Nodes
  <2>2. node' \in [Nodes \X Minors -> Devices \cup {Nobody}] /\ ret' \in [Devices -> {0, -1}]
    <3>1. /\ UNCHANGED node \/ node' = [node EXCEPT ![<<kind, minor[d]>>] = d]
          /\ UNCHANGED ret \/ ret' = [ret EXCEPT ![d] = -1]
      BY <2>1 DEF CreateNode
    <3>2. node' \in [Nodes \X Minors -> Devices \cup {Nobody}]
      BY <3>1 DEF TypeOK
    <3>3. ret' \in [Devices -> {0, -1}]
      BY <3>1 DEF TypeOK
    <3> QED BY <3>2, <3>3
  <2>3. held' \in [Devices -> SUBSET Resource]
    BY <2>1 DEF CreateNode, TypeOK, Resource
  <2> QED BY <2>1, <2>2, <2>3 DEF CreateNode, TypeOK
<1> QED BY <1>1, <1>2, <1>3

LEMMA LeastUntaken ==
  ASSUME TypeOK
  PROVE  \E n \in Untaken : \A m \in Untaken : n <= m
<1>1. MaxName \in Untaken /\ Untaken \subseteq Nat
  BY PcieLifeAssumption DEF PcieLifeAssumption, Untaken, Names
<1> QED BY <1>1, Smallest

LEMMA TypeFiles ==
  ASSUME TypeOK, NEW d \in Devices, at' \in [Devices -> Stage],
         FsScan(d) \/ FsDir(d) \/ FsFiles(d) \/ DropTree(d)
  PROVE  TypeOK'
<1> USE DEF moduleVars, pageVars, listVars, treeVars, irqVars, ghostVars, Take, Give, Fail
<1>1. CASE FsScan(d)
  <2>1. dir' \in [Devices -> Names]
    <3>1. (CHOOSE n \in Untaken : \A m \in Untaken : n <= m) \in Untaken
      BY LeastUntaken, Zenon
    <3> QED BY <1>1, <3>1 DEF FsScan, TypeOK, Untaken
  <2> QED BY <1>1, <2>1 DEF FsScan, TypeOK
<1>2. CASE FsDir(d)
  <2>1. /\ dirs' \in [Names -> {"free", "bare", "open"}] /\ ret' \in [Devices -> {0, -1}]
        /\ kobj' \in [Names -> Kobjects \cup {Nobody}]
    <3>1. \/ UNCHANGED dirs
          \/ dirs' = [dirs EXCEPT ![dir[d]] = "bare"]
      BY <1>2 DEF FsDir
    <3>2. UNCHANGED ret \/ Fail(d)
      BY <1>2 DEF FsDir
    <3>3. UNCHANGED kobj \/ \E k \in Kobjects : kobj' = [kobj EXCEPT ![dir[d]] = k]
      BY <1>2 DEF FsDir
    <3>4. dirs' \in [Names -> {"free", "bare", "open"}]
      BY <3>1 DEF TypeOK
    <3>5. ret' \in [Devices -> {0, -1}]
      BY <3>2 DEF TypeOK
    <3>6. kobj' \in [Names -> Kobjects \cup {Nobody}]
      BY <3>3 DEF TypeOK
    <3> QED BY <3>4, <3>5, <3>6
  <2>2. held' \in [Devices -> SUBSET Resource]
    <3>1. Take(d, {"tree"}) \/ UNCHANGED held
      BY <1>2 DEF FsDir
    <3> QED BY <3>1, HeldType DEF Resource
  <2> QED BY <1>2, <2>1, <2>2 DEF FsDir, TypeOK
<1>3. CASE FsFiles(d)
  <2>1. dirs' \in [Names -> {"free", "bare", "open"}] /\ ret' \in [Devices -> {0, -1}]
    <3>1. CASE FilesMade(d)
      BY <3>1 DEF FilesMade, TypeOK
    <3>2. CASE ProcFileFails(d)
      BY <3>2 DEF ProcFileFails, TypeOK
    <3>3. CASE SysFileFails(d)
      BY <3>3 DEF SysFileFails, TypeOK
    <3> QED BY <1>3, <3>1, <3>2, <3>3 DEF FsFiles
  <2>2. held' \in [Devices -> SUBSET Resource]
    <3>1. Take(d, {"hwmon"}) \/ Give(d, {"tree"}) \/ UNCHANGED held
      BY <1>3 DEF FsFiles, FilesMade, ProcFileFails, SysFileFails, HwmonInit
    <3> QED BY <3>1, HeldType DEF Resource
  <2>4. leaked' \in [Devices -> SUBSET Resource] /\ disturbed' \in BOOLEAN
    <3>1. leaked' = leaked \/ leaked' = [leaked EXCEPT ![d] = @ \cup {"tree"}]
      BY <1>3 DEF FsFiles, FilesMade, ProcFileFails, SysFileFails
    <3>2. disturbed' = disturbed \/ disturbed' = TRUE
      BY <1>3 DEF FsFiles, FilesMade, ProcFileFails, SysFileFails
    <3>3. leaked' \in [Devices -> SUBSET Resource]
      <4>1. "tree" \in Resource
        BY DEF Resource
      <4>2. leaked \in [Devices -> SUBSET Resource]
        BY DEF TypeOK
      <4>3. leaked[d] \cup {"tree"} \in SUBSET Resource
        BY <4>1, <4>2
      <4> QED BY <3>1, <4>2, <4>3
    <3>4. disturbed' \in BOOLEAN
      BY <3>2, Zenon DEF TypeOK
    <3> QED BY <3>3, <3>4
  <2>3. entry' \in [Minors -> Entry]
    <3>1. [kobj |-> kobj[dir[d]], dev |-> d] \in Entry
      BY DEF TypeOK, Entry
    <3>2. \/ entry' = entry
          \/ entry' = [entry EXCEPT ![minor[d]] = [kobj |-> kobj[dir[d]], dev |-> d]]
      BY <1>3 DEF FsFiles, FilesMade, ProcFileFails, SysFileFails
    <3> QED BY <3>1, <3>2 DEF TypeOK
  <2> QED BY <1>3, <2>1, <2>2, <2>3, <2>4 DEF FsFiles, TypeOK
<1>4. CASE DropTree(d)
  <2>1. dirs' \in [Names -> {"free", "bare", "open"}] /\ kobj' \in [Names -> Kobjects \cup {Nobody}]
    <3>1. /\ UNCHANGED dirs \/ dirs' = [dirs EXCEPT ![dir[d]] = "free"]
          /\ UNCHANGED kobj \/ kobj' = [kobj EXCEPT ![dir[d]] = Nobody]
      BY <1>4 DEF DropTree, FsDeinit, DropKobject
    <3>2. dirs' \in [Names -> {"free", "bare", "open"}]
      BY <3>1 DEF TypeOK
    <3>3. kobj' \in [Names -> Kobjects \cup {Nobody}]
      BY <3>1 DEF TypeOK
    <3> QED BY <3>2, <3>3
  <2>2. held' \in [Devices -> SUBSET Resource]
    <3>1. \E r : Give(d, r)
      BY <1>4 DEF DropTree
    <3> QED BY <3>1, HeldType
  <2> QED BY <1>4, <2>1, <2>2 DEF DropTree, TypeOK
<1> QED BY <1>1, <1>2, <1>3, <1>4

LEMMA TypeFirmware ==
  ASSUME TypeOK, NEW d \in Devices, at' \in [Devices -> Stage],
         InitIrqs(d) \/ LoadFirmware(d) \/ ConnectLog(d) \/ Suspend(d) \/ Resume(d) \/ DropIrqs(d)
  PROVE  TypeOK'
<1> USE DEF moduleVars, pageVars, listVars, treeVars, irqVars, ghostVars, Take, Fail, Goto
<1>1. CASE InitIrqs(d)
  <2>1. ret' \in [Devices -> {0, -1}] /\ initDone' \in [Devices -> BOOLEAN]
    BY <1>1 DEF InitIrqs, FwFails, TypeOK
  <2>2. vectors' \in [Devices -> {"none", "one", "many"}]
    BY <1>1 DEF InitIrqs, TypeOK
  <2>3. handlers' \in [Devices -> SUBSET Handler]
    BY <1>1 DEF InitIrqs, TypeOK, Handler
  <2> QED BY <1>1, <2>1, <2>2, <2>3 DEF InitIrqs, TypeOK
<1>2. CASE LoadFirmware(d)
  BY <1>2 DEF LoadFirmware, FwFails, TypeOK
<1>3. CASE ConnectLog(d)
  <2>1. held' \in [Devices -> SUBSET Resource]
    BY <1>3 DEF ConnectLog, TypeOK, Resource
  <2>2. asleep' \in [Devices -> BOOLEAN]
    BY <1>3, Zenon DEF ConnectLog, TypeOK
  <2> QED BY <1>3, <2>1, <2>2 DEF ConnectLog, TypeOK
<1>4. CASE Suspend(d)
  BY <1>4 DEF Suspend, DeinitIrqs, TypeOK
<1>5. CASE Resume(d)
  BY <1>5 DEF Resume, TypeOK
<1>6. CASE DropIrqs(d)
  BY <1>6 DEF DropIrqs, DeinitIrqs, TypeOK
<1> QED BY <1>1, <1>2, <1>3, <1>4, <1>5, <1>6

LEMMA TypeLeave ==
  ASSUME TypeOK, NEW d \in Devices, at' \in [Devices -> Stage], list' \in Seq(Devices),
         \/ Unplug(d) \/ LeaveList(d) \/ DropFeatureNode(d) \/ DropCharNode(d)
         \/ Release(d) \/ Return(d)
  PROVE  TypeOK'
<1> USE DEF moduleVars, pageVars, listVars, treeVars, irqVars, ghostVars, Give
<1>1. CASE Unplug(d)
  <2>1. rival' \in [Devices -> BOOLEAN] /\ disturbed' \in BOOLEAN
    BY <1>1, Zenon DEF Unplug, Enter, TypeOK
  <2> QED BY <1>1, <2>1 DEF Unplug, TypeOK
<1>2. CASE LeaveList(d)
  BY <1>2 DEF LeaveList, TypeOK
<1>3. CASE DropFeatureNode(d) \/ DropCharNode(d)
  <2>1. node' \in [Nodes \X Minors -> Devices \cup {Nobody}]
    BY <1>3 DEF DropFeatureNode, DropCharNode, TypeOK
  <2>2. held' \in [Devices -> SUBSET Resource]
    <3>1. UNCHANGED held \/ \E r : Give(d, r)
      BY <1>3 DEF DropFeatureNode, DropCharNode
    <3> QED BY <3>1, HeldType
  <2> QED BY <1>3, <2>1, <2>2 DEF DropFeatureNode, DropCharNode, TypeOK
<1>4. CASE Release(d)
  <2>1. held' \in [Devices -> SUBSET Resource]
    BY <1>4 DEF Release, TypeOK
  <2> QED BY <1>4, <2>1 DEF Release, TypeOK
<1>5. CASE Return(d)
  <2>1. entry' \in [Minors -> Entry]
    <3>1. \A x \in Entry : [x EXCEPT !.dev = Nobody] \in Entry
      BY DEF Entry
    <3> QED BY <1>5, <3>1 DEF Return, TypeOK
  <2>2. held' \in [Devices -> SUBSET Resource] /\ handlers' \in [Devices -> SUBSET Handler]
    BY <1>5 DEF Return, TypeOK
  <2>3. minor' \in [Devices -> Minors] /\ dir' \in [Devices -> Names]
    <3>1. 0 \in Names
      BY PcieLifeAssumption DEF PcieLifeAssumption, Names
    <3>2. 0 \in Minors
      <4>1. minor[d] \in Minors
        BY DEF TypeOK
      <4>2. Cardinality(Devices) \in Nat
        BY PcieLifeAssumption, FS_CardinalityType DEF PcieLifeAssumption
      <4> QED BY <4>1, <4>2 DEF Minors
    <3> QED BY <1>5, <3>1, <3>2 DEF Return, TypeOK
  <2>4. /\ ret' \in [Devices -> {0, -1}] /\ vectors' \in [Devices -> {"none", "one", "many"}]
        /\ initDone' \in [Devices -> BOOLEAN] /\ asleep' \in [Devices -> BOOLEAN]
        /\ rival' \in [Devices -> BOOLEAN]
    BY <1>5 DEF Return, TypeOK
  <2> QED BY <1>5, <2>1, <2>2, <2>3, <2>4 DEF Return, TypeOK
<1> QED BY <1>1, <1>2, <1>3, <1>4, <1>5

TypeInv == TypeOK /\ ListInv

LEMMA TypeNext == TypeInv /\ [Next]_vars => TypeInv'
<1> SUFFICES ASSUME TypeInv, [Next]_vars PROVE TypeInv'
  OBVIOUS
<1> USE DEF TypeInv
<1>1. ListInv'
  BY ListNext
<1>2. at' \in [Devices -> Stage] /\ list' \in Seq(Devices)
  BY <1>1 DEF ListInv, Shapes
<1>3. CASE Load \/ Unload \/ UNCHANGED vars
  BY <1>1, <1>3, TypeModule
<1>4. ASSUME NEW d \in Devices, Insert(d) PROVE TypeOK'
  <2>1. minor'[d] \in Minors
    BY <1>4, EnoughMinors
  <2>2. \E n : minor' = [minor EXCEPT ![d] = n]
    BY <1>4 DEF Insert
  <2>3. minor' \in [Devices -> Minors]
    BY <2>1, <2>2 DEF TypeOK
  <2> QED BY <1>2, <1>4, <2>3 DEF Insert, TypeOK, moduleVars, pageVars, treeVars, irqVars, ghostVars
<1>5. ASSUME NEW d \in Devices, Device(d), ~Insert(d) PROVE TypeOK'
  BY <1>2, <1>5, TypeProbe, TypeFiles, TypeFirmware, TypeLeave DEF Device
<1> QED BY <1>1, <1>3, <1>4, <1>5 DEF Next

LEMMA TypeAlways == Spec => []TypeInv
<1>1. Init => TypeInv
  BY TypeInit, ListInit DEF TypeInv
<1> QED BY <1>1, TypeNext, PTL DEF Spec

(* There is a minor number for every device and a name to try for every     *)
(* directory, and no error code or stage but those of the code.             *)
THEOREM TypeCorrect == Spec => []TypeOK
<1>1. TypeInv => TypeOK
  BY DEF TypeInv
<1> QED BY <1>1, TypeAlways, PTL

-----------------------------------------------------------------------------
(* What a step of one device leaves to the others.                          *)
Alike(e) ==
  /\ at'[e] = at[e] /\ ret'[e] = ret[e] /\ held'[e] = held[e] /\ leaked'[e] = leaked[e]
  /\ asleep'[e] = asleep[e] /\ handlers'[e] = handlers[e] /\ initDone'[e] = initDone[e]
  /\ minor'[e] = minor[e] /\ dir'[e] = dir[e] /\ fsType' = fsType
  /\ pages'[e] = pages[e]

LEMMA OthersAlike ==
  ASSUME TypeOK, NEW d \in Devices, Device(d), NEW e \in Devices, e # d
  PROVE  Alike(e)
<1> USE DEF Alike, TypeOK, moduleVars, pageVars, listVars, treeVars, irqVars, ghostVars, Goto, Take, Give, Fail
<1>1. CASE Probe(d)
  BY <1>1 DEF Probe
<1>2. CASE Acquire(d)
  BY <1>2 DEF Acquire, GetPages
<1>3. CASE Insert(d)
  BY <1>3 DEF Insert
<1>4. CASE CharNode(d)
  BY <1>4 DEF CharNode, CreateNode
<1>5. CASE FeatureNode(d)
  BY <1>5 DEF FeatureNode, CreateNode
<1>6. CASE FsScan(d)
  BY <1>6 DEF FsScan
<1>7. CASE FsDir(d)
  BY <1>7 DEF FsDir
<1>8. CASE FsFiles(d)
  BY <1>8 DEF FsFiles, FilesMade, ProcFileFails, SysFileFails, HwmonInit
<1>9. CASE InitIrqs(d)
  BY <1>9 DEF InitIrqs, FwFails
<1>10. CASE LoadFirmware(d)
  BY <1>10 DEF LoadFirmware, FwFails
<1>11. CASE ConnectLog(d)
  BY <1>11 DEF ConnectLog
<1>12. CASE Suspend(d)
  BY <1>12 DEF Suspend, DeinitIrqs
<1>13. CASE Resume(d)
  BY <1>13 DEF Resume
<1>14. CASE Unplug(d)
  BY <1>14 DEF Unplug
<1>15. CASE DropTree(d)
  BY <1>15 DEF DropTree
<1>16. CASE LeaveList(d)
  BY <1>16 DEF LeaveList
<1>17. CASE DropFeatureNode(d)
  BY <1>17 DEF DropFeatureNode
<1>18. CASE DropCharNode(d)
  BY <1>18 DEF DropCharNode
<1>19. CASE DropIrqs(d)
  BY <1>19 DEF DropIrqs, DeinitIrqs
<1>20. CASE Release(d)
  BY <1>20 DEF Release
<1>21. CASE Return(d)
  BY <1>21 DEF Return
<1> QED BY <1>1, <1>2, <1>3, <1>4, <1>5, <1>6, <1>7, <1>8, <1>9, <1>10, <1>11, <1>12, <1>13,
           <1>14, <1>15, <1>16, <1>17, <1>18, <1>19, <1>20, <1>21 DEF Device

LEMMA FsTypeSame ==
  ASSUME NEW d \in Devices, Device(d)
  PROVE  fsType' = fsType
BY DEF Device, moduleVars, pageVars, Probe, Acquire, Insert, CharNode, FeatureNode, CreateNode, FsScan,
   FsDir, FsFiles, InitIrqs, LoadFirmware, ConnectLog, Suspend, Resume, Unplug, DropTree,
   LeaveList, DropFeatureNode, DropCharNode, DropIrqs, Release, Return

LEMMA ModuleAlike ==
  ASSUME Load \/ Unload \/ UNCHANGED vars, NEW e \in Devices
  PROVE  Alike(e) /\ asleep' = asleep
BY DEF Alike, Load, Unload, vars, moduleVars, pageVars, listVars, treeVars, irqVars, ghostVars

-----------------------------------------------------------------------------
(* What a device gets for itself before it is on the list, and its nodes.   *)
Own   == {"object", "enabled", "dma", "regions", "bars", "barInfo", "fifo", "drvdata"}
Cdevs == {"charCdev", "featureCdev"}

(* The stages from which probe's labels and remove undo all of Own; those   *)
(* of probe's labels; those in which a device may be asleep.                *)
Whole == {"insert", "charNode", "featureNode", "fsScan", "fsDir", "fsFiles", "irqs", "load", "log",
          "bound", "rmFs", "rmList", "rmFeature", "rmChar", "rmIrq", "rmFree",
          "errFs", "errFeature", "errChar"}
Undoing == {"errFs", "errFeature", "errChar", "errList"}
Late == {"irqs", "load", "log", "bound", "rmFs", "rmList", "rmFeature", "rmChar", "rmIrq",
         "rmFree", "return"}

(* What is certainly held at a stage, and what may be, apart from what is   *)
(* known to be left.                                                        *)
Surely(s) == IF s \in Whole THEN Own ELSE IF s = "errList" THEN Own \ {"fifo"} ELSE {}

Perhaps(s) ==
  CASE s = "unbound"                    -> {}
    [] s = "hollow"                     -> Managed \ {"hwmon"}
    [] s = "return"                     -> Managed
    [] s = "errDevm"                    -> {"object"}
    [] s = "errDma"                     -> {"object", "enabled"}
    [] s = "errPcie"                    -> {"object", "enabled", "dma"}
    [] s \in {"errBar", "errList"}      -> (Own \ {"fifo"}) \cup {"hwmon"}
    [] s \in {"insert", "charNode"}     -> Own
    [] s \in {"rmIrq", "rmFree"}        -> Own \cup {"hwmon"}
    [] s \in {"featureNode", "fsScan", "fsDir"} -> Own \cup Cdevs
    [] s = "fsFiles"                    -> Own \cup Cdevs \cup {"tree"}
    [] s \in {"rmList", "rmFeature", "rmChar", "errFeature", "errChar"} ->
         Own \cup Cdevs \cup {"hwmon"}
    [] OTHER                            -> Resource

Extra(d) == leaked[d] \cup (IF fsType = "none" THEN {"log"} ELSE {})

HeldOK(d) ==
  /\ Surely(at[d]) \subseteq held[d]
  /\ held[d] \subseteq Perhaps(at[d]) \cup Extra(d)
  /\ at[d] = "enable" => held[d] = {"object"} /\ leaked[d] = {}

(* The log is connected last, and only a device that slept keeps it through *)
(* the firmware's start; a tree is its device's until remove or a failure.  *)
LogOK(d) ==
  /\ leaked[d] \subseteq {"fifo", "tree"}
  /\ asleep[d] => at[d] \in Late
  /\ "log" \in held[d] => asleep[d] \/ at[d] \in {"unbound"} \cup (Late \ FwStages)
  /\ "log" \in held[d] /\ fsType # "none" => at[d] \in {"irqs", "load", "log", "bound", "rmFs"}

TreeOK(d) ==
  /\ "tree" \in held[d] \ leaked[d] =>
       at[d] \in {"fsFiles", "irqs", "load", "log", "bound", "rmFs", "errFs"}
  /\ at[d] \in {"fsScan", "fsDir", "fsFiles"} \/ "tree" \in held[d] \cup leaked[d] =>
       fsType # "none"

(* Probe's labels leave the handlers to the kernel, remove does so only if  *)
(* a resume has failed to set them all up.                                  *)
IrqOK(d) ==
  /\ "single" \in handlers[d] => initDone[d]
  /\ initDone[d] => handlers[d] # {} /\ at[d] # "rmFree"
  /\ handlers[d] # {} => at[d] \in Late \cup Undoing \cup {"errBar"}
  /\ at[d] = "return" /\ handlers[d] # {} =>
       "drvdata" \in held[d] \/ ("object" \in held[d] /\ ~initDone[d])
  /\ at[d] \in Undoing => ret[d] # 0
  /\ at[d] = "errBar" /\ "drvdata" \in held[d] => ret[d] # 0
  /\ at[d] = "errBar" /\ handlers[d] # {} => "drvdata" \in held[d]
  /\ at[d] = "errBar" /\ "hwmon" \in held[d] => ret[d] # 0 /\ {"object", "bars"} \subseteq held[d]

Sound(d) == HeldOK(d) /\ LogOK(d) /\ TreeOK(d) /\ IrqOK(d)

HeldInv == \A d \in Devices : Sound(d)

LEMMA Tables ==
  /\ \A s \in Whole : Surely(s) = Own
  /\ Surely("errList") = Own \ {"fifo"}
  /\ \A s \in {"unbound", "hollow", "return", "enable", "errDevm", "errDma", "errPcie", "errBar"} :
       Surely(s) = {}
  /\ Perhaps("unbound") = {} /\ Perhaps("hollow") = Managed \ {"hwmon"} /\ Perhaps("return") = Managed
  /\ Perhaps("errDevm") = {"object"} /\ Perhaps("errDma") = {"object", "enabled"}
  /\ Perhaps("errPcie") = {"object", "enabled", "dma"}
  /\ \A s \in {"errBar", "errList"} : Perhaps(s) = (Own \ {"fifo"}) \cup {"hwmon"}
  /\ \A s \in {"insert", "charNode"} : Perhaps(s) = Own
  /\ \A s \in {"rmIrq", "rmFree"} : Perhaps(s) = Own \cup {"hwmon"}
  /\ \A s \in {"featureNode", "fsScan", "fsDir"} : Perhaps(s) = Own \cup Cdevs
  /\ Perhaps("fsFiles") = Own \cup Cdevs \cup {"tree"}
  /\ \A s \in {"rmList", "rmFeature", "rmChar", "errFeature", "errChar"} :
       Perhaps(s) = Own \cup Cdevs \cup {"hwmon"}
  /\ \A s \in {"enable", "irqs", "load", "log", "bound", "rmFs", "errFs"} : Perhaps(s) = Resource
<1>1. /\ \A s \in Whole : Surely(s) = Own
      /\ Surely("errList") = Own \ {"fifo"}
      /\ \A s \in {"unbound", "hollow", "return", "enable", "errDevm", "errDma", "errPcie", "errBar"} :
           Surely(s) = {}
  BY DEF Surely, Whole
<1>2. Perhaps("unbound") = {} /\ Perhaps("hollow") = Managed \ {"hwmon"} /\ Perhaps("return") = Managed
  BY DEF Perhaps
<1>3. /\ Perhaps("errDevm") = {"object"} /\ Perhaps("errDma") = {"object", "enabled"}
      /\ Perhaps("errPcie") = {"object", "enabled", "dma"}
  BY DEF Perhaps
<1>4. \A s \in {"errBar", "errList"} : Perhaps(s) = (Own \ {"fifo"}) \cup {"hwmon"}
  BY DEF Perhaps
<1>5. \A s \in {"insert", "charNode"} : Perhaps(s) = Own
  BY DEF Perhaps
<1>6. \A s \in {"rmIrq", "rmFree"} : Perhaps(s) = Own \cup {"hwmon"}
  BY DEF Perhaps
<1>7. \A s \in {"featureNode", "fsScan", "fsDir"} : Perhaps(s) = Own \cup Cdevs
  BY DEF Perhaps
<1>8. Perhaps("fsFiles") = Own \cup Cdevs \cup {"tree"}
  BY DEF Perhaps
<1>9. \A s \in {"rmList", "rmFeature", "rmChar", "errFeature", "errChar"} :
        Perhaps(s) = Own \cup Cdevs \cup {"hwmon"}
  BY DEF Perhaps
<1>10. \A s \in {"enable", "irqs", "load", "log", "bound", "rmFs", "errFs"} : Perhaps(s) = Resource
  BY DEF Perhaps
<1> QED BY <1>1, <1>2, <1>3, <1>4, <1>5, <1>6, <1>7, <1>8, <1>9, <1>10

(* What has been got when a step of Acquire fails, and when none does.       *)
LEMMA GotBefore ==
  ASSUME NEW i \in DOMAIN Step
  PROVE  \/ Step[i].fail = "errDevm" /\ Got(i) = {}
         \/ Step[i].fail = "errDma" /\ Got(i) = {"enabled"}
         \/ Step[i].fail = "errPcie" /\ Got(i) = {"enabled", "dma"}
         \/ Step[i].fail = "errBar" /\ Got(i) \subseteq {"enabled", "dma", "regions", "bars"} /\ i # 7
         \/ /\ Step[i].fail = "errBar" /\ i = 7
            /\ Got(i) = {"enabled", "dma", "regions", "bars", "fifo", "barInfo"}
<1>1. /\ DOMAIN Step = 1 .. 7
      /\ Step[1].gets = {"enabled"} /\ Step[2].gets = {} /\ Step[3].gets = {"dma"}
      /\ Step[4].gets = {"regions"} /\ Step[5].gets = {"bars"}
      /\ Step[6].gets = {"fifo", "barInfo"}
      /\ Step[1].fail = "errDevm" /\ Step[2].fail = "errDma" /\ Step[3].fail = "errDma"
      /\ Step[4].fail = "errPcie" /\ Step[5].fail = "errBar" /\ Step[6].fail = "errBar"
      /\ Step[7].fail = "errBar"
  BY DEF Step
<1>2. \A x : x \in Got(i) <=> \E j \in 1 .. i - 1 : x \in Step[j].gets
  BY DEF Got
<1>3. CASE i = 1
  BY <1>1, <1>2, <1>3
<1>4. CASE i = 2 \/ i = 3
  <2>1. \A x : x \in Got(i) <=> x = "enabled"
    BY <1>1, <1>2, <1>4
  <2> QED BY <1>1, <1>4, <2>1
<1>5. CASE i = 4
  <2>1. \A x : x \in Got(i) <=> x \in {"enabled", "dma"}
    <3>1. \A j : j \in 1 .. i - 1 <=> j = 1 \/ j = 2 \/ j = 3
      BY <1>5
    <3> QED BY <1>1, <1>2, <3>1
  <2> QED BY <1>1, <1>5, <2>1
<1>6. CASE i = 5 \/ i = 6
  <2>1. \A j : j \in 1 .. i - 1 => j = 1 \/ j = 2 \/ j = 3 \/ j = 4 \/ j = 5
    BY <1>6
  <2>2. \A x : x \in Got(i) => x \in {"enabled", "dma", "regions", "bars"}
    BY <1>1, <1>2, <2>1
  <2> QED BY <1>1, <1>6, <2>2
<1>7. CASE i = 7
  <2>1. \A j : j \in 1 .. i - 1 <=> j = 1 \/ j = 2 \/ j = 3 \/ j = 4 \/ j = 5 \/ j = 6
    BY <1>7
  <2>2. \A x : x \in Got(i) <=> x \in {"enabled", "dma", "regions", "bars", "fifo", "barInfo"}
    BY <1>1, <1>2, <2>1
  <2> QED BY <1>1, <1>7, <2>2
<1> QED BY <1>1, <1>3, <1>4, <1>5, <1>6, <1>7

LEMMA GotAll == Got(8) = Own \ {"object"}
<1>1. /\ Step[1].gets = {"enabled"} /\ Step[2].gets = {} /\ Step[3].gets = {"dma"}
      /\ Step[4].gets = {"regions"} /\ Step[5].gets = {"bars"}
      /\ Step[6].gets = {"fifo", "barInfo"} /\ Step[7].gets = {"drvdata"}
  BY DEF Step
<1>2. \A j : j \in 1 .. 8 - 1 <=> j = 1 \/ j = 2 \/ j = 3 \/ j = 4 \/ j = 5 \/ j = 6 \/ j = 7
  OBVIOUS
<1>3. \A x : x \in Got(8) <=> \E j \in 1 .. 8 - 1 : x \in Step[j].gets
  BY DEF Got
<1>4. \A x : x \in Got(8) <=> x \in Own \ {"object"}
  BY <1>1, <1>2, <1>3 DEF Own
<1> QED BY <1>4

-----------------------------------------------------------------------------
(* Before the device is on the list.                                        *)
LEMMA SoundStart ==
  ASSUME TypeOK, NEW d \in Devices, Sound(d), Probe(d) \/ Acquire(d) \/ Insert(d)
  PROVE  Sound(d)'
<1> USE DEF TypeOK, Sound, Goto, Take, Give, Fail
<1>1. CASE Probe(d)
  <2>1. /\ at'[d] = "enable" /\ held'[d] = {"object"} /\ leaked'[d] = {} /\ at[d] = "unbound"
        /\ asleep'[d] = asleep[d] /\ handlers'[d] = handlers[d] /\ initDone'[d] = initDone[d]
    BY <1>1 DEF Probe, irqVars
  <2>2. ~asleep[d] /\ handlers[d] = {} /\ ~initDone[d]
    BY <2>1 DEF LogOK, IrqOK, Late, Undoing
  <2>3. HeldOK(d)'
    BY <2>1, Tables DEF HeldOK, Extra, Resource
  <2>4. LogOK(d)' /\ TreeOK(d)'
    BY <2>1, <2>2 DEF LogOK, TreeOK
  <2>5. IrqOK(d)'
    BY <2>1, <2>2 DEF IrqOK, Undoing
  <2> QED BY <2>3, <2>4, <2>5
<1>2. CASE Acquire(d)
  <2>1. /\ at[d] = "enable" /\ held[d] = {"object"} /\ leaked[d] = {} /\ fsType' = fsType
        /\ asleep'[d] = asleep[d] /\ handlers'[d] = handlers[d] /\ initDone'[d] = initDone[d]
    BY <1>2 DEF Acquire, irqVars, moduleVars, pageVars, HeldOK
  <2>2. ~asleep[d] /\ handlers[d] = {} /\ ~initDone[d]
    BY <2>1 DEF LogOK, IrqOK, Late, Undoing
  <2>3. \/ at'[d] = "insert" /\ held'[d] = Own /\ leaked'[d] = {}
        \/ at'[d] = "errDevm" /\ held'[d] = {"object"} /\ leaked'[d] = {}
        \/ at'[d] = "errDma" /\ held'[d] = {"object", "enabled"} /\ leaked'[d] = {}
        \/ at'[d] = "errPcie" /\ held'[d] = {"object", "enabled", "dma"} /\ leaked'[d] = {}
        \/ /\ at'[d] = "errBar" /\ leaked'[d] \subseteq {"fifo"} /\ "drvdata" \notin held'[d]
           /\ held'[d] \subseteq Own /\ ("fifo" \in held'[d] => "fifo" \in leaked'[d])
    <3>1. CASE Goto(d, "enable", "insert") /\ Take(d, Got(8)) /\ leaked'[d] = leaked[d]
      BY <2>1, <3>1, GotAll DEF Own
    <3>2. ASSUME NEW i \in DOMAIN Step, Goto(d, "enable", Step[i].fail), Take(d, Got(i)),
                 leaked'[d] = IF i = 7 THEN {"fifo"} ELSE leaked[d]
          PROVE  \/ at'[d] = "errDevm" /\ held'[d] = {"object"} /\ leaked'[d] = {}
                 \/ at'[d] = "errDma" /\ held'[d] = {"object", "enabled"} /\ leaked'[d] = {}
                 \/ at'[d] = "errPcie" /\ held'[d] = {"object", "enabled", "dma"} /\ leaked'[d] = {}
                 \/ /\ at'[d] = "errBar" /\ leaked'[d] \subseteq {"fifo"} /\ "drvdata" \notin held'[d]
                    /\ held'[d] \subseteq Own /\ ("fifo" \in held'[d] => "fifo" \in leaked'[d])
      <4>1. /\ at'[d] = Step[i].fail /\ held'[d] = {"object"} \cup Got(i)
            /\ leaked'[d] = IF i = 7 THEN {"fifo"} ELSE {}
        BY <2>1, <3>2
      <4>2. Step[7].fail = "errBar"
        BY DEF Step
      <4>3. CASE i = 7
        <5>1. Got(i) = {"enabled", "dma", "regions", "bars", "fifo", "barInfo"}
          BY <4>2, <4>3, GotBefore
        <5> QED BY <4>1, <4>2, <4>3, <5>1 DEF Own
      <4>4. CASE Step[i].fail = "errBar" /\ i # 7
        <5>1. Got(i) \subseteq {"enabled", "dma", "regions", "bars"}
          BY <4>4, GotBefore
        <5> QED BY <4>1, <4>4, <5>1 DEF Own
      <4>5. CASE Step[i].fail # "errBar"
        <5>1. i # 7
          BY <4>2, <4>5
        <5>2. \/ Step[i].fail = "errDevm" /\ Got(i) = {}
              \/ Step[i].fail = "errDma" /\ Got(i) = {"enabled"}
              \/ Step[i].fail = "errPcie" /\ Got(i) = {"enabled", "dma"}
          BY <4>5, GotBefore
        <5> QED BY <4>1, <5>1, <5>2
      <4> QED BY <4>3, <4>4, <4>5
    <3>3. PICK i \in 1 .. 8 :
            /\ Goto(d, "enable", IF i > 7 THEN "insert" ELSE Step[i].fail) /\ Take(d, Got(i))
            /\ leaked' = [leaked EXCEPT ![d] = IF i = 7 THEN {"fifo"} ELSE @]
      BY <1>2, AcquireStep
    <3>4. leaked'[d] = IF i = 7 THEN {"fifo"} ELSE leaked[d]
      BY <3>3
    <3>5. CASE i = 8
      BY <3>1, <3>3, <3>4, <3>5
    <3>6. CASE i \in 1 .. 7
      <4>1. i \in DOMAIN Step /\ ~(i > 7)
        BY <3>6, StepCount
      <4>2. Goto(d, "enable", Step[i].fail) /\ Take(d, Got(i))
        BY <3>3, <4>1
      <4> HIDE DEF Goto, Take
      <4> QED BY <3>2, <3>4, <4>1, <4>2
    <3> QED BY <3>5, <3>6
  <2>4. HeldOK(d)'
    <3>1. CASE at'[d] = "insert" /\ held'[d] = Own /\ leaked'[d] = {}
      BY <3>1, Tables DEF HeldOK, Whole
    <3>2. CASE at'[d] = "errBar"
      BY <2>3, <3>2, Tables DEF HeldOK, Extra
    <3>3. CASE at'[d] \in {"errDevm", "errDma", "errPcie"}
      BY <2>3, <3>3, Tables DEF HeldOK
    <3> QED BY <2>3, <3>1, <3>2, <3>3
  <2>5. LogOK(d)' /\ TreeOK(d)'
    BY <2>1, <2>2, <2>3 DEF LogOK, TreeOK, Own
  <2>6. IrqOK(d)'
    BY <2>1, <2>2, <2>3 DEF IrqOK, Undoing, Own
  <2> QED BY <2>4, <2>5, <2>6
<1>3. CASE Insert(d)
  <2>1. /\ at[d] = "insert" /\ at'[d] = "charNode" /\ held'[d] = held[d] /\ leaked'[d] = leaked[d]
        /\ asleep'[d] = asleep[d] /\ handlers'[d] = handlers[d] /\ initDone'[d] = initDone[d]
        /\ fsType' = fsType
    BY <1>3 DEF Insert, moduleVars, pageVars, irqVars, ghostVars
  <2>2. HeldOK(d)'
    BY <2>1, Tables DEF HeldOK, Extra, Whole
  <2>3. LogOK(d)' /\ TreeOK(d)'
    BY <2>1 DEF LogOK, TreeOK, Late
  <2>4. IrqOK(d)'
    BY <2>1 DEF IrqOK, Undoing, Late
  <2> QED BY <2>2, <2>3, <2>4
<1> QED BY <1>1, <1>2, <1>3

(* The nodes and the tree.                                                  *)
LEMMA SoundTree ==
  ASSUME TypeOK, NEW d \in Devices, Sound(d),
         CharNode(d) \/ FeatureNode(d) \/ FsScan(d) \/ FsDir(d) \/ FsFiles(d)
  PROVE  Sound(d)'
<1> USE DEF TypeOK, Sound, Goto, Take, Give, Fail
<1>0. /\ asleep'[d] = asleep[d] /\ handlers'[d] = handlers[d] /\ initDone'[d] = initDone[d]
      /\ fsType' = fsType
  BY DEF CharNode, FeatureNode, CreateNode, FsScan, FsDir, FsFiles, FilesMade, ProcFileFails,
         SysFileFails, irqVars, moduleVars, pageVars
<1>1. at[d] \in {"charNode", "featureNode", "fsScan", "fsDir", "fsFiles"}
  BY DEF CharNode, FeatureNode, FsScan, FsDir, FsFiles, FilesMade, ProcFileFails, SysFileFails
<1>2. ~asleep[d] /\ handlers[d] = {} /\ ~initDone[d] /\ "log" \notin held[d]
  BY <1>1 DEF LogOK, IrqOK, Late, Undoing
<1>3. /\ "tree" \in held[d] \ leaked[d] => at[d] = "fsFiles"
      /\ at[d] \in {"fsScan", "fsDir", "fsFiles"} \/ "tree" \in held[d] \cup leaked[d] =>
           fsType # "none"
      /\ leaked[d] \subseteq {"fifo", "tree"}
  BY <1>1 DEF TreeOK, LogOK
<1>4. Own \subseteq held[d] /\ held[d] \subseteq Perhaps(at[d]) \cup Extra(d)
  BY <1>1, Tables DEF HeldOK, Whole
<1>5. CASE CharNode(d)
  <2>1. /\ at'[d] \in {"errFeature", "featureNode"} /\ (at'[d] = "errFeature" => ret'[d] # 0)
        /\ held'[d] = held[d] \cup {"charCdev"} /\ leaked'[d] = leaked[d] /\ at[d] = "charNode"
    BY <1>5 DEF CharNode, CreateNode, ghostVars
  <2>2. HeldOK(d)'
    BY <1>0, <1>4, <2>1, Tables DEF HeldOK, Extra, Whole, Cdevs
  <2>3. LogOK(d)' /\ TreeOK(d)'
    BY <1>0, <1>2, <1>3, <2>1 DEF LogOK, TreeOK
  <2>4. IrqOK(d)'
    BY <1>0, <1>2, <2>1 DEF IrqOK, Undoing
  <2> QED BY <2>2, <2>3, <2>4
<1>6. CASE FeatureNode(d)
  <2>1. /\ at'[d] \in {"errFeature", "irqs", "fsScan"} /\ (at'[d] = "errFeature" => ret'[d] # 0)
        /\ held'[d] = held[d] \cup {"featureCdev"} /\ leaked'[d] = leaked[d]
        /\ at[d] = "featureNode" /\ (at'[d] = "fsScan" => fsType # "none")
    BY <1>6 DEF FeatureNode, CreateNode, ghostVars
  <2>2. HeldOK(d)'
    <3>1. Own \subseteq held'[d] /\ held'[d] \subseteq Own \cup Cdevs \cup Extra(d)
      BY <1>4, <2>1, Tables DEF Cdevs
    <3>2. Surely(at'[d]) = Own /\ Own \cup Cdevs \subseteq Perhaps(at'[d]) /\ Extra(d)' = Extra(d)
      BY <1>0, <2>1, Tables DEF Whole, Own, Cdevs, Resource, Extra
    <3> QED BY <2>1, <3>1, <3>2 DEF HeldOK
  <2>3. LogOK(d)' /\ TreeOK(d)'
    BY <1>0, <1>2, <1>3, <2>1 DEF LogOK, TreeOK
  <2>4. IrqOK(d)'
    BY <1>0, <1>2, <2>1 DEF IrqOK, Undoing
  <2> QED BY <2>2, <2>3, <2>4
<1>7. CASE FsScan(d)
  <2>1. at[d] = "fsScan" /\ at'[d] = "fsDir" /\ held'[d] = held[d] /\ leaked'[d] = leaked[d]
    BY <1>7 DEF FsScan, ghostVars
  <2>2. HeldOK(d)'
    BY <1>0, <1>4, <2>1, Tables DEF HeldOK, Extra, Whole
  <2>3. LogOK(d)' /\ TreeOK(d)'
    BY <1>0, <1>2, <1>3, <2>1 DEF LogOK, TreeOK
  <2>4. IrqOK(d)'
    BY <1>0, <1>2, <2>1 DEF IrqOK, Undoing
  <2> QED BY <2>2, <2>3, <2>4
<1>8. CASE FsDir(d)
  <2>1. /\ at[d] = "fsDir" /\ leaked'[d] = leaked[d]
        /\ \/ at'[d] = "fsFiles" /\ held'[d] = held[d] \cup {"tree"}
           \/ at'[d] = "errFeature" /\ held'[d] = held[d] /\ ret'[d] # 0
    BY <1>8 DEF FsDir, ghostVars
  <2>2. HeldOK(d)'
    BY <1>0, <1>4, <2>1, Tables DEF HeldOK, Extra, Whole
  <2>3. LogOK(d)' /\ TreeOK(d)'
    BY <1>0, <1>2, <1>3, <2>1 DEF LogOK, TreeOK
  <2>4. IrqOK(d)'
    BY <1>0, <1>2, <2>1 DEF IrqOK, Undoing
  <2> QED BY <2>2, <2>3, <2>4
<1>9. CASE FsFiles(d)
  <2>1. /\ at[d] = "fsFiles"
        /\ \/ at'[d] = "irqs" /\ held'[d] = held[d] \cup {"hwmon"} /\ leaked'[d] = leaked[d]
           \/ /\ at'[d] = "errFeature" /\ held'[d] = held[d] \ {"tree"} /\ leaked'[d] = leaked[d]
              /\ ret'[d] # 0
           \/ /\ at'[d] = "errFeature" /\ held'[d] = held[d] /\ leaked'[d] = leaked[d] \cup {"tree"}
              /\ ret'[d] # 0
    BY <1>9 DEF FsFiles, FilesMade, ProcFileFails, SysFileFails, HwmonInit
  <2>2. HeldOK(d)'
    <3>1. held[d] \subseteq Own \cup Cdevs \cup {"tree"} \cup Extra(d)
      BY <1>4, <2>1, Tables
    <3>2. Surely(at'[d]) \subseteq held'[d]
      <4>1. Surely(at'[d]) = Own
        BY <2>1, Tables DEF Whole
      <4>2. "tree" \notin Own
        BY DEF Own
      <4> QED BY <1>4, <2>1, <4>1, <4>2
    <3>3. held'[d] \subseteq Perhaps(at'[d]) \cup Extra(d)'
      BY <1>0, <2>1, <3>1, Tables DEF Own, Cdevs, Resource, Extra
    <3> QED BY <2>1, <3>2, <3>3 DEF HeldOK
  <2>3. LogOK(d)' /\ TreeOK(d)'
    BY <1>0, <1>2, <1>3, <2>1 DEF LogOK, TreeOK
  <2>4. IrqOK(d)'
    BY <1>0, <1>2, <2>1 DEF IrqOK, Undoing
  <2> QED BY <2>2, <2>3, <2>4
<1> QED BY <1>5, <1>6, <1>7, <1>8, <1>9

(* The firmware's start, suspend and resume.                                *)
LEMMA SoundFirmware ==
  ASSUME TypeOK, NEW d \in Devices, Sound(d),
         InitIrqs(d) \/ LoadFirmware(d) \/ ConnectLog(d) \/ Suspend(d) \/ Resume(d)
  PROVE  Sound(d)'
<1> USE DEF TypeOK, Sound, Goto, Take, Fail
<1>0. leaked'[d] = leaked[d] /\ fsType' = fsType
  BY DEF InitIrqs, LoadFirmware, ConnectLog, Suspend, Resume, ghostVars, moduleVars, pageVars
<1>1. CASE InitIrqs(d)
  <2>1. /\ at[d] = "irqs" /\ held'[d] = held[d] /\ asleep'[d] = asleep[d]
        /\ \/ at'[d] = "load"
           \/ at'[d] = (IF asleep[d] THEN "log" ELSE "errFs") /\ ret'[d] # 0
    <3>1. Goto(d, "irqs", "load") \/ FwFails(d)
      BY <1>1 DEF InitIrqs
    <3> QED BY <1>1, <3>1 DEF InitIrqs, FwFails
  <2>2. \/ UNCHANGED <<handlers, initDone>> /\ (at'[d] = "load" => initDone[d])
        \/ initDone'[d] /\ handlers'[d] # {} /\ at'[d] = "load"
        \/ /\ initDone'[d] = initDone[d] /\ ~initDone[d] /\ at'[d] # "load"
           /\ \E some \in SUBSET {"fw", "data"} : handlers'[d] = handlers[d] \cup some
    <3>1. CASE initDone[d]
      BY <1>1, <3>1 DEF InitIrqs, irqVars
    <3>2. CASE ~initDone[d] /\ UNCHANGED irqVars /\ FwFails(d)
      BY <3>2 DEF irqVars, FwFails
    <3>3. ASSUME NEW n, ~initDone[d],
                 handlers' = [handlers EXCEPT ![d] = IF n = "one" THEN {"single"} ELSE {"fw", "data"}],
                 Goto(d, "irqs", "load"), initDone' = [initDone EXCEPT ![d] = TRUE]
          PROVE  initDone'[d] /\ handlers'[d] # {} /\ at'[d] = "load"
      BY <3>3
    <3>4. ASSUME NEW some \in {{}, {"fw"}, {"fw", "data"}}, ~initDone[d], FwFails(d),
                 handlers' = [handlers EXCEPT ![d] = @ \cup some], UNCHANGED initDone
          PROVE  /\ initDone'[d] = initDone[d] /\ ~initDone[d] /\ at'[d] # "load"
                 /\ \E more \in SUBSET {"fw", "data"} : handlers'[d] = handlers[d] \cup more
      <4>1. some \in SUBSET {"fw", "data"} /\ handlers'[d] = handlers[d] \cup some
        BY <3>4
      <4>2. at'[d] # "load"
        BY <3>4 DEF FwFails
      <4> QED BY <3>4, <4>1, <4>2
    <3> QED BY <1>1, <3>1, <3>2, <3>3, <3>4 DEF InitIrqs
  <2>3. at'[d] \in {"load", "log", "errFs"} /\ (at'[d] = "log" => asleep[d]) /\ (at'[d] = "errFs" => ~asleep[d])
    BY <2>1
  <2>4. HeldOK(d)'
    BY <1>0, <2>1, <2>3, Tables DEF HeldOK, Extra, Whole
  <2>5. LogOK(d)' /\ TreeOK(d)'
    BY <1>0, <2>1, <2>3 DEF LogOK, TreeOK, Late, FwStages
  <2>6. IrqOK(d)'
    BY <2>1, <2>2, <2>3 DEF IrqOK, Undoing, Late
  <2> QED BY <2>4, <2>5, <2>6
<1>2. CASE LoadFirmware(d)
  <2>1. /\ at[d] = "load" /\ held'[d] = held[d] /\ asleep'[d] = asleep[d]
        /\ handlers'[d] = handlers[d] /\ initDone'[d] = initDone[d]
        /\ \/ at'[d] = IF fsType = "none" /\ ~asleep[d] THEN "bound" ELSE "log"
           \/ at'[d] = (IF asleep[d] THEN "log" ELSE "errFs") /\ ret'[d] # 0
    BY <1>2 DEF LoadFirmware, FwFails, irqVars
  <2>2. HeldOK(d)'
    BY <1>0, <2>1, Tables DEF HeldOK, Extra, Whole
  <2>3. LogOK(d)' /\ TreeOK(d)'
    BY <1>0, <2>1 DEF LogOK, TreeOK, Late, FwStages
  <2>4. IrqOK(d)'
    BY <2>1 DEF IrqOK, Undoing, Late
  <2> QED BY <2>2, <2>3, <2>4
<1>3. CASE ConnectLog(d)
  <2>1. /\ at[d] = "log" /\ at'[d] = "bound" /\ held'[d] = held[d] \cup {"log"}
        /\ handlers'[d] = handlers[d] /\ initDone'[d] = initDone[d]
    BY <1>3 DEF ConnectLog, irqVars
  <2>2. HeldOK(d)'
    BY <1>0, <2>1, Tables DEF HeldOK, Extra, Whole, Resource
  <2>3. LogOK(d)' /\ TreeOK(d)'
    BY <1>0, <2>1 DEF LogOK, TreeOK, Late, FwStages
  <2>4. IrqOK(d)'
    BY <2>1 DEF IrqOK, Undoing, Late
  <2> QED BY <2>2, <2>3, <2>4
<1>4. CASE Suspend(d)
  <2>1. /\ at[d] = "bound" /\ at'[d] = "bound" /\ held'[d] = held[d] /\ ret'[d] = ret[d]
        /\ \/ initDone[d] /\ handlers'[d] = {} /\ ~initDone'[d]
           \/ ~initDone[d] /\ handlers'[d] = handlers[d] /\ ~initDone'[d]
    BY <1>4 DEF Suspend, DeinitIrqs
  <2>2. HeldOK(d)'
    BY <1>0, <2>1 DEF HeldOK, Extra
  <2>3. LogOK(d)' /\ TreeOK(d)'
    BY <1>0, <2>1 DEF LogOK, TreeOK, Late, FwStages
  <2>4. IrqOK(d)'
    BY <2>1 DEF IrqOK, Undoing, Late
  <2> QED BY <2>2, <2>3, <2>4
<1>5. CASE Resume(d)
  <2>1. /\ at[d] = "bound" /\ at'[d] = "irqs" /\ held'[d] = held[d] /\ asleep[d] /\ asleep'[d] = asleep[d]
        /\ handlers'[d] = handlers[d] /\ initDone'[d] = initDone[d]
    BY <1>5 DEF Resume, irqVars
  <2>2. HeldOK(d)'
    BY <1>0, <2>1, Tables DEF HeldOK, Extra, Whole
  <2>3. LogOK(d)' /\ TreeOK(d)'
    BY <1>0, <2>1 DEF LogOK, TreeOK, Late, FwStages
  <2>4. IrqOK(d)'
    BY <2>1 DEF IrqOK, Undoing, Late
  <2> QED BY <2>2, <2>3, <2>4
<1> QED BY <1>1, <1>2, <1>3, <1>4, <1>5

(* Probe's labels and remove.                                               *)
LEMMA SoundLeave ==
  ASSUME TypeOK, NEW d \in Devices, Sound(d),
         \/ Unplug(d) \/ DropTree(d) \/ LeaveList(d) \/ DropFeatureNode(d) \/ DropCharNode(d)
         \/ DropIrqs(d)
  PROVE  Sound(d)'
<1> USE DEF TypeOK, Sound, Goto, Give
<1>0. /\ leaked'[d] = leaked[d] /\ fsType' = fsType /\ ret'[d] = ret[d] /\ asleep'[d] = asleep[d]
  BY DEF Unplug, DropTree, LeaveList, DropFeatureNode, DropCharNode, DropIrqs, ghostVars, moduleVars, pageVars
<1>1. CASE Unplug(d)
  <2>1. /\ \/ at[d] = "hollow" /\ at'[d] = "return"
           \/ at[d] = "bound" /\ at'[d] = "rmFs"
        /\ held'[d] = held[d] /\ handlers'[d] = handlers[d] /\ initDone'[d] = initDone[d]
    BY <1>1 DEF Unplug, irqVars
  <2>2. HeldOK(d)'
    BY <1>0, <2>1, Tables DEF HeldOK, Extra, Whole
  <2>3. LogOK(d)' /\ TreeOK(d)'
    BY <1>0, <2>1 DEF LogOK, TreeOK, Late, FwStages
  <2>4. IrqOK(d)'
    BY <1>0, <2>1 DEF IrqOK, Undoing, Late
  <2> QED BY <2>2, <2>3, <2>4
<1>2. CASE DropTree(d)
  <2>1. /\ \/ /\ at[d] = "rmFs" /\ at'[d] = "rmList"
              /\ held'[d] = held[d] \ (IF fsType = "none" THEN {} ELSE {"log", "tree"})
           \/ at[d] = "errFs" /\ at'[d] = "errFeature" /\ held'[d] = held[d] \ {"tree"}
        /\ handlers'[d] = handlers[d] /\ initDone'[d] = initDone[d]
    BY <1>2 DEF DropTree, irqVars
  <2>2. "log" \in held[d] => at[d] # "errFs"
    BY <2>1 DEF LogOK, Late
  <2>3. "tree" \notin held'[d] /\ ("log" \in held'[d] => fsType = "none")
    BY <2>1, <2>2 DEF TreeOK
  <2>4. HeldOK(d)'
    <3>1. held'[d] \subseteq Own \cup Cdevs \cup {"hwmon"} \cup Extra(d)'
      BY <1>0, <2>1, <2>3 DEF Resource, Own, Cdevs, Extra
    <3>2. Own \subseteq held'[d]
      <4>1. Own \subseteq held[d]
        BY <2>1, Tables DEF HeldOK, Whole
      <4> QED BY <2>1, <4>1 DEF Own
    <3> QED BY <2>1, <3>1, <3>2, Tables DEF HeldOK, Whole
  <2>5. LogOK(d)' /\ TreeOK(d)'
    BY <1>0, <2>1, <2>2, <2>3 DEF LogOK, TreeOK, Late, FwStages
  <2>6. IrqOK(d)'
    BY <1>0, <2>1 DEF IrqOK, Undoing, Late
  <2> QED BY <2>4, <2>5, <2>6
<1>3. CASE LeaveList(d)
  <2>1. /\ \/ at[d] = "rmList" /\ at'[d] = "rmFeature"
           \/ at[d] = "errList" /\ at'[d] = "errBar"
        /\ held'[d] = held[d] /\ handlers'[d] = handlers[d] /\ initDone'[d] = initDone[d]
    BY <1>3 DEF LeaveList, irqVars
  <2>2. HeldOK(d)'
    BY <1>0, <2>1, Tables DEF HeldOK, Extra, Whole
  <2>3. LogOK(d)' /\ TreeOK(d)'
    BY <1>0, <2>1 DEF LogOK, TreeOK, Late, FwStages
  <2>4. IrqOK(d)'
    <3>1. at[d] = "errList" => {"drvdata", "object", "bars"} \subseteq held[d]
      BY Tables DEF HeldOK, Own
    <3> QED BY <1>0, <2>1, <3>1 DEF IrqOK, Undoing, Late
  <2> QED BY <2>2, <2>3, <2>4
<1>4. CASE DropFeatureNode(d)
  <2>1. /\ \/ at[d] = "rmFeature" /\ at'[d] = "rmChar"
           \/ at[d] = "errFeature" /\ at'[d] = "errChar"
        /\ held'[d] = held[d] /\ handlers'[d] = handlers[d] /\ initDone'[d] = initDone[d]
    BY <1>4 DEF DropFeatureNode, irqVars
  <2>2. HeldOK(d)'
    BY <1>0, <2>1, Tables DEF HeldOK, Extra, Whole
  <2>3. LogOK(d)' /\ TreeOK(d)'
    BY <1>0, <2>1 DEF LogOK, TreeOK, Late, FwStages
  <2>4. IrqOK(d)'
    BY <1>0, <2>1 DEF IrqOK, Undoing, Late
  <2> QED BY <2>2, <2>3, <2>4
<1>5. CASE DropCharNode(d)
  <2>1. /\ \/ at[d] = "rmChar" /\ at'[d] = "rmIrq" /\ held'[d] = held[d] \ Cdevs
           \/ /\ at[d] = "errChar" /\ at'[d] = "errList"
              /\ held'[d] = held[d] \ (Cdevs \cup {"fifo"})
        /\ handlers'[d] = handlers[d] /\ initDone'[d] = initDone[d]
    BY <1>5 DEF DropCharNode, irqVars, Cdevs
  <2>2. HeldOK(d)'
    <3>1. Own \subseteq held[d] /\ held[d] \subseteq Own \cup Cdevs \cup {"hwmon"} \cup Extra(d)
      BY <2>1, Tables DEF HeldOK, Whole
    <3>2. Own \cap Cdevs = {}
      BY DEF Own, Cdevs
    <3>3. CASE at'[d] = "rmIrq"
      BY <1>0, <2>1, <3>1, <3>2, <3>3, Tables DEF HeldOK, Whole, Extra
    <3>4. CASE at'[d] = "errList"
      BY <1>0, <2>1, <3>1, <3>2, <3>4, Tables DEF HeldOK, Extra
    <3> QED BY <2>1, <3>3, <3>4
  <2>3. LogOK(d)' /\ TreeOK(d)'
    BY <1>0, <2>1 DEF LogOK, TreeOK, Late, FwStages
  <2>4. IrqOK(d)'
    BY <1>0, <2>1 DEF IrqOK, Undoing, Late
  <2> QED BY <2>2, <2>3, <2>4
<1>6. CASE DropIrqs(d)
  <2>1. /\ at[d] = "rmIrq" /\ at'[d] = "rmFree" /\ held'[d] = held[d]
        /\ \/ initDone[d] /\ handlers'[d] = {} /\ ~initDone'[d]
           \/ ~initDone[d] /\ handlers'[d] = handlers[d] /\ ~initDone'[d]
    BY <1>6 DEF DropIrqs, DeinitIrqs
  <2>2. HeldOK(d)'
    BY <1>0, <2>1, Tables DEF HeldOK, Extra, Whole
  <2>3. LogOK(d)' /\ TreeOK(d)'
    BY <1>0, <2>1 DEF LogOK, TreeOK, Late, FwStages
  <2>4. IrqOK(d)'
    BY <1>0, <2>1 DEF IrqOK, Undoing, Late
  <2> QED BY <2>2, <2>3, <2>4
<1> QED BY <1>1, <1>2, <1>3, <1>4, <1>5, <1>6

(* The last free and the kernel's own releases.                             *)
LEMMA SoundFree ==
  ASSUME TypeOK, NEW d \in Devices, Sound(d), Release(d) \/ Return(d)
  PROVE  Sound(d)'
<1> USE DEF TypeOK, Sound, Goto, Give
<1>0. leaked'[d] = leaked[d] /\ fsType' = fsType
  BY DEF Release, Return, ghostVars, moduleVars, pageVars
<1>1. CASE Release(d)
  <2>1. /\ at[d] \in {"errDevm", "errDma", "errPcie", "errBar", "rmFree"}
        /\ at'[d] = (IF at[d] # "rmFree" /\ ret[d] = 0 THEN "hollow" ELSE "return")
        /\ held'[d] = held[d] \ (IF "barInfo" \in held[d] THEN Frees[at[d]] ELSE Frees[at[d]] \ {"bars"})
        /\ handlers'[d] = handlers[d] /\ initDone'[d] = initDone[d] /\ asleep'[d] = asleep[d]
    BY <1>1 DEF Release, Frees, irqVars
  <2>2. /\ Frees["errDevm"] = {"object", "barInfo"}
        /\ Frees["errDma"] = {"enabled", "object", "barInfo"}
        /\ Frees["errPcie"] = {"dma", "enabled", "object", "barInfo"}
        /\ Frees["errBar"] = {"bars", "regions", "dma", "enabled", "object", "barInfo"}
        /\ Frees["rmFree"] = {"fifo", "bars", "regions", "dma", "enabled", "drvdata"}
    BY DEF Frees
  <2>3. held'[d] \subseteq Managed \cup Extra(d)
    <3>1. CASE at[d] = "errDevm" \/ at[d] = "errDma"
      BY <2>1, <3>1, Tables DEF HeldOK, Managed
    <3>2. CASE at[d] = "errPcie"
      BY <2>1, <2>2, <3>2, Tables DEF HeldOK, Managed
    <3>3. CASE at[d] = "errBar"
      BY <2>1, <2>2, <3>3, Tables DEF HeldOK, Managed, Own
    <3>4. CASE at[d] = "rmFree"
      BY <2>1, <2>2, <3>4, Tables DEF HeldOK, Managed, Own, Whole
    <3> QED BY <2>1, <3>1, <3>2, <3>3, <3>4
  <2>7. at'[d] = "hollow" => "hwmon" \notin held'[d]
    <3>1. at[d] \in {"errDevm", "errDma", "errPcie"} => "hwmon" \notin held[d]
      <4>1. leaked[d] \subseteq {"fifo", "tree"}
        BY DEF LogOK
      <4>2. "hwmon" \in held[d] => "hwmon" \in Perhaps(at[d])
        <5>1. Extra(d) \subseteq {"fifo", "tree", "log"}
          BY <4>1 DEF Extra
        <5>2. held[d] \subseteq Perhaps(at[d]) \cup Extra(d)
          BY DEF HeldOK
        <5> HIDE DEF TypeOK, Sound
        <5> QED BY <5>1, <5>2
      <4> QED BY <4>2, Tables
    <3>2. at[d] = "errBar" /\ ret[d] = 0 => "hwmon" \notin held[d]
      BY DEF IrqOK
    <3> QED BY <2>1, <3>1, <3>2
  <2>4. HeldOK(d)'
    BY <1>0, <2>1, <2>3, <2>7, Tables DEF HeldOK, Extra
  <2>5. LogOK(d)' /\ TreeOK(d)'
    BY <1>0, <2>1 DEF LogOK, TreeOK, Late, FwStages
  <2>6. IrqOK(d)'
    <3>1. CASE at[d] = "rmFree"
      <4>1. "object" \in held'[d] /\ ~initDone[d]
        <5>1. "object" \in held[d]
          BY <3>1, Tables DEF HeldOK, Whole, Own
        <5> QED BY <2>1, <2>2, <3>1, <5>1 DEF IrqOK
      <4> QED BY <2>1, <3>1, <4>1 DEF IrqOK, Undoing, Late
    <3>2. CASE at[d] = "errBar"
      <4>1. "drvdata" \in held[d] => "drvdata" \in held'[d]
        BY <2>1, <2>2, <3>2
      <4> QED BY <2>1, <3>2, <4>1 DEF IrqOK, Undoing, Late
    <3>3. CASE at[d] \in {"errDevm", "errDma", "errPcie"}
      BY <2>1, <3>3 DEF IrqOK, Undoing, Late
    <3> QED BY <2>1, <3>1, <3>2, <3>3
  <2> QED BY <2>4, <2>5, <2>6
<1>2. CASE Return(d)
  <2>1. /\ at[d] = "return" /\ at'[d] = "unbound" /\ held'[d] = held[d] \ Managed
        /\ handlers'[d] = {} /\ ~initDone'[d] /\ ~asleep'[d]
    BY <1>2 DEF Return
  <2>2. HeldOK(d)'
    BY <1>0, <2>1, Tables DEF HeldOK, Extra
  <2>3. LogOK(d)' /\ TreeOK(d)'
    BY <1>0, <2>1 DEF LogOK, TreeOK, Late, FwStages
  <2>4. IrqOK(d)'
    BY <2>1 DEF IrqOK, Undoing
  <2> QED BY <2>2, <2>3, <2>4
<1> QED BY <1>1, <1>2

(* The pages: a device has some when it holds them, and as many as will be  *)
(* given back unless a probe that got more beside it, or moved a base, has  *)
(* been seen.                                                               *)
PagesInv ==
  \A d \in Devices :
    /\ pages[d] # 0 <=> "dma" \in held[d]
    /\ uneven \/ pages[d] \in {0, dmaSize}

LEMMA PagesKept ==
  ASSUME PagesInv, NEW d \in Devices,
         \A e \in Devices \ {d} : pages'[e] = pages[e] /\ held'[e] = held[e],
         pages'[d] = pages[d], "dma" \in held'[d] <=> "dma" \in held[d],
         UNCHANGED <<dmaSize, uneven>>
  PROVE  PagesInv'
BY DEF PagesInv

LEMMA PagesAcquired ==
  ASSUME TypeOK, PagesInv, NEW d \in Devices, Sound(d), Acquire(d)
  PROVE  PagesInv'
<1>1. PICK i \in 1 .. 8 : GetPages(d, i) /\ Take(d, Got(i))
  BY AcquireStep
<1>2. held[d] = {"object"}
  BY DEF Acquire, Sound, HeldOK
<1>3. "dma" \in held'[d] <=> "dma" \in Got(i)
  BY <1>1, <1>2 DEF Take, TypeOK
<1>4. /\ pages'[d] = IF "dma" \in Got(i) THEN dmaSize' ELSE 0
      /\ dmaSize' \in {1, 2} /\ (uneven => uneven')
      /\ \A e \in Devices \ {d} : pages'[e] = pages[e]
  BY <1>1 DEF GetPages, TypeOK
<1>5. \A e \in Devices \ {d} : held'[e] = held[e]
  BY <1>1 DEF Take, TypeOK
<1>6. dmaSize' = dmaSize \/ uneven' \/ \A e \in Devices \ {d} : pages[e] = 0
  <2>1. CASE UNCHANGED <<dmaSize, uneven>>
    BY <2>1
  <2>2. CASE dmaSize = 1 /\ uneven' = (uneven \/ (dmaSize = 1 /\ \E e \in Devices \ {d} :
                                            pages[e] # 0 \/ at[e] = "enable"))
    BY <2>2
  <2>3. CASE uneven' = TRUE
    BY <2>3
  <2> QED BY <1>1, <2>1, <2>2, <2>3 DEF GetPages, TypeOK
<1> QED BY <1>3, <1>4, <1>5, <1>6 DEF PagesInv

LEMMA PagesFreed ==
  ASSUME TypeOK, PagesInv, NEW d \in Devices, Release(d)
  PROVE  PagesInv'
<1>1. at[d] \in {"errDevm", "errDma", "errPcie", "errBar", "rmFree"}
  BY DEF Release, Frees
<1>2. /\ Frees["errDevm"] = {"object", "barInfo"}
      /\ Frees["errDma"] = {"enabled", "object", "barInfo"}
      /\ Frees["errPcie"] = {"dma", "enabled", "object", "barInfo"}
      /\ Frees["errBar"] = {"bars", "regions", "dma", "enabled", "object", "barInfo"}
      /\ Frees["rmFree"] = {"fifo", "bars", "regions", "dma", "enabled", "drvdata"}
  BY DEF Frees
<1>3. /\ "dma" \in held'[d] <=> "dma" \in held[d] /\ "dma" \notin Frees[at[d]]
      /\ pages'[d] = IF "dma" \in Frees[at[d]] THEN 0 ELSE pages[d]
  BY <1>1, <1>2 DEF Release, Give, TypeOK
<1>4. \A e \in Devices \ {d} : pages'[e] = pages[e] /\ held'[e] = held[e]
  BY DEF Release, Give, TypeOK
<1>5. UNCHANGED <<dmaSize, uneven>>
  BY DEF Release
<1> QED BY <1>3, <1>4, <1>5 DEF PagesInv

LEMMA PagesDevice ==
  ASSUME TypeOK, PagesInv, NEW d \in Devices, Sound(d), Device(d)
  PROVE  PagesInv'
<1>1. \A e \in Devices \ {d} : pages'[e] = pages[e] /\ held'[e] = held[e]
  BY OthersAlike DEF Alike
<1>2. CASE Acquire(d)
  BY <1>2, PagesAcquired
<1>3. CASE Release(d)
  BY <1>3, PagesFreed
<1>4. CASE ~Acquire(d) /\ ~Release(d)
  <2>1. UNCHANGED pageVars
    BY <1>4 DEF Device, Probe, Insert, CharNode, FeatureNode, CreateNode, FsScan, FsDir, FsFiles,
       InitIrqs, LoadFirmware, ConnectLog, Suspend, Resume, Unplug, DropTree, LeaveList,
       DropFeatureNode, DropCharNode, DropIrqs, Return
  <2>2. "dma" \in held'[d] <=> "dma" \in held[d]
    <3>1. CASE Probe(d)
      <4>1. "dma" \notin held[d] /\ held'[d] = {"object"}
        <5>1. at[d] = "unbound" /\ held'[d] = {"object"}
          BY <3>1 DEF Probe, Goto, TypeOK
        <5>2. held[d] \subseteq leaked[d] \cup {"log"} /\ leaked[d] \subseteq {"fifo", "tree"}
          BY <5>1, Tables DEF Sound, HeldOK, LogOK, Extra
        <5> QED BY <5>1, <5>2
      <4> QED BY <4>1
    <3>2. CASE UNCHANGED held
      BY <3>2
    <3>3. CASE CharNode(d) \/ FeatureNode(d) \/ DropCharNode(d)
      <4>1. \E r : (Take(d, r) \/ Give(d, r)) /\ "dma" \notin r
        BY <3>3 DEF CharNode, FeatureNode, CreateNode, DropCharNode
      <4> QED BY <4>1 DEF Take, Give, TypeOK
    <3>4. CASE FsDir(d) \/ FsFiles(d) \/ DropTree(d)
      BY <3>4 DEF FsDir, FsFiles, FilesMade, HwmonInit, ProcFileFails, SysFileFails, DropTree,
         Take, Give, TypeOK
    <3>5. CASE ConnectLog(d) \/ Return(d)
      <4>1. \E r : (Take(d, r) \/ Give(d, r)) /\ "dma" \notin r
        BY <3>5 DEF ConnectLog, Return, Managed
      <4> QED BY <4>1 DEF Take, Give, TypeOK
    <3> QED BY <1>4, <3>1, <3>2, <3>3, <3>4, <3>5 DEF Device, Insert, FsScan, InitIrqs, LoadFirmware,
            Suspend, Resume, Unplug, LeaveList, DropFeatureNode, DropIrqs
  <2> QED BY <1>1, <2>1, <2>2, PagesKept DEF pageVars
<1> QED BY <1>2, <1>3, <1>4

LEMMA SoundAlike ==
  ASSUME NEW e \in Devices, Sound(e), Alike(e)
  PROVE  Sound(e)'
<1>1. HeldOK(e)'
  BY DEF Sound, HeldOK, Extra, Alike
<1>2. LogOK(e)' /\ TreeOK(e)'
  BY DEF Sound, LogOK, TreeOK, Alike
<1>3. IrqOK(e)'
  BY DEF Sound, IrqOK, Alike
<1> QED BY <1>1, <1>2, <1>3 DEF Sound

LEMMA PagesInit == Init => PagesInv
BY DEF Init, PagesInv

LEMMA PagesNext == TypeOK /\ HeldInv /\ PagesInv /\ [Next]_vars => PagesInv'
<1> SUFFICES ASSUME TypeOK, HeldInv, PagesInv, [Next]_vars PROVE PagesInv'
  OBVIOUS
<1>1. CASE Load \/ UNCHANGED vars
  BY <1>1 DEF PagesInv, Load, pageVars, vars
<1>2. CASE Unload
  <2>1. \A d \in Devices : "dma" \notin held[d]
    BY <1>2, Tables DEF Unload, HeldInv, Sound, HeldOK, LogOK, Extra
  <2> QED BY <1>2, <2>1 DEF PagesInv, Unload
<1>3. ASSUME NEW d \in Devices, Device(d) PROVE PagesInv'
  BY <1>3, PagesDevice DEF HeldInv
<1> QED BY <1>1, <1>2, <1>3 DEF Next

LEMMA HeldInit == Init => HeldInv
<1> SUFFICES ASSUME Init, NEW d \in Devices PROVE Sound(d)
  BY DEF HeldInv
<1>1. /\ at[d] = "unbound" /\ held[d] = {} /\ leaked[d] = {} /\ ~asleep[d] /\ handlers[d] = {}
      /\ ~initDone[d]
  BY DEF Init
<1> QED BY <1>1, Tables DEF Sound, HeldOK, LogOK, TreeOK, IrqOK, Undoing

LEMMA HeldNext == TypeOK /\ HeldInv /\ [Next]_vars => HeldInv'
<1> SUFFICES ASSUME TypeOK, HeldInv, [Next]_vars, NEW e \in Devices PROVE Sound(e)'
  BY DEF HeldInv
<1>1. Sound(e)
  BY DEF HeldInv
<1>2. CASE Load \/ Unload \/ UNCHANGED vars
  BY <1>1, <1>2, ModuleAlike, SoundAlike
<1>3. ASSUME NEW d \in Devices, Device(d), d # e PROVE Sound(e)'
  BY <1>1, <1>3, OthersAlike, SoundAlike
<1>4. CASE Device(e)
  BY <1>1, <1>4, SoundStart, SoundTree, SoundFirmware, SoundLeave, SoundFree DEF Device
<1> QED BY <1>2, <1>3, <1>4 DEF Next

LEMMA HeldAlways == Spec => [](HeldInv /\ PagesInv)
<1>1. TypeInv => TypeOK
  BY DEF TypeInv
<1> QED BY HeldInit, HeldNext, PagesInit, PagesNext, TypeAlways, <1>1, PTL DEF Spec

(* However probes fail, devices sleep and resumes fail on the way: what an  *)
(* interrupt handler, a file of the tree or of hwmon, or a chip that logs   *)
(* works on is still allocated when it can do so, and the pages are given   *)
(* back as they were got unless a probe has changed what is given back.     *)
THEOREM LiveCorrect == Spec => []ReachableIsLive
<1>1. TypeOK /\ HeldInv /\ PagesInv => ReachableIsLive
  <2> SUFFICES ASSUME TypeOK, HeldInv, PagesInv, NEW d \in Devices
               PROVE  /\ handlers[d] # {} /\ ~GivingUp(d) =>
                           /\ "object" \in held[d]
                           /\ "single" \in handlers[d] => {"bars", "fifo"} \subseteq held[d]
                           /\ initDone[d] => "fifo" \in held[d]
                      /\ "tree" \in held[d] \ leaked[d] => {"object", "bars", "dma"} \subseteq held[d]
                      /\ "hwmon" \in held[d] /\ at[d] # "return" =>
                           {"object", "bars"} \subseteq held[d]
                      /\ "log" \in held[d] => "dma" \in held[d] \/ fsType = "none"
                      /\ ~uneven /\ "dma" \in held[d] => pages[d] = dmaSize
    BY DEF ReachableIsLive
  <2>1. at[d] \in Whole => Own \subseteq held[d]
    BY Tables DEF HeldInv, Sound, HeldOK
  <2>2. ASSUME handlers[d] # {}, ~GivingUp(d)
        PROVE  /\ "object" \in held[d]
               /\ "single" \in handlers[d] => {"bars", "fifo"} \subseteq held[d]
               /\ initDone[d] => "fifo" \in held[d]
    <3>1. at[d] \in Late
      BY <2>2 DEF HeldInv, Sound, IrqOK, GivingUp, Failing, Undoing
    <3>2. CASE at[d] = "return"
      BY <2>2, <3>2 DEF HeldInv, Sound, IrqOK, GivingUp
    <3>3. CASE at[d] # "return"
      BY <2>1, <3>1, <3>3 DEF Late, Whole, Own
    <3> QED BY <3>2, <3>3
  <2>3. ASSUME "tree" \in held[d] \ leaked[d] PROVE {"object", "bars", "dma"} \subseteq held[d]
    <3>1. at[d] \in Whole
      BY <2>3 DEF HeldInv, Sound, TreeOK, Whole
    <3> QED BY <2>1, <3>1 DEF Own
  <2>4. ASSUME "log" \in held[d], fsType # "none" PROVE "dma" \in held[d]
    <3>1. at[d] \in Whole
      BY <2>4 DEF HeldInv, Sound, LogOK, Whole
    <3> QED BY <2>1, <3>1 DEF Own
  <2>5. ASSUME "hwmon" \in held[d], at[d] # "return" PROVE {"object", "bars"} \subseteq held[d]
    <3>1. CASE at[d] \in Whole
      BY <2>1, <3>1 DEF Own
    <3>2. CASE at[d] = "errList"
      BY <3>2, Tables DEF HeldInv, Sound, HeldOK, Own
    <3>3. CASE at[d] = "errBar"
      BY <2>5, <3>3 DEF HeldInv, Sound, IrqOK
    <3>4. CASE at[d] \in {"unbound", "hollow", "enable", "errDevm", "errDma", "errPcie"}
      <4>1. "hwmon" \notin held[d]
        BY <3>4, Tables DEF HeldInv, Sound, HeldOK, LogOK, Extra
      <4> QED BY <2>5, <4>1
    <3> QED BY <2>5, <3>1, <3>2, <3>3, <3>4 DEF TypeOK, Stage, Rest, FwStages, Failing, Whole
  <2>6. ASSUME ~uneven, "dma" \in held[d] PROVE pages[d] = dmaSize
    BY <2>6 DEF PagesInv
  <2> QED BY <2>2, <2>3, <2>4, <2>5, <2>6
<1>2. TypeInv => TypeOK
  BY DEF TypeInv
<1> QED BY HeldAlways, TypeAlways, <1>1, <1>2, PTL

-----------------------------------------------------------------------------
(* The stages in which a node may be there, those of a probe that has not   *)
(* failed and its device, and those in which remove has given the minor     *)
(* number back and still destroys what goes by it.                          *)
CharStages == {"featureNode", "fsScan", "fsDir", "fsFiles", "irqs", "load", "log", "bound",
               "rmFs", "rmList", "rmFeature", "rmChar", "errFs", "errFeature", "errChar"}
NodeStages(k) == IF k = "char" THEN CharStages ELSE CharStages \ {"featureNode", "rmChar", "errChar"}
Up == {"charNode", "featureNode", "fsScan", "fsDir", "fsFiles", "irqs", "load", "log", "bound"}
Unlisted == {"rmFeature", "rmChar"}

(* A node that a device made goes by its number, which it still has.        *)
MadeBy ==
  \A k \in Nodes, m \in Minors, d \in Devices :
    node[<<k, m>>] = d => m = minor[d] /\ at[d] \in NodeStages(k)

ClassOK ==
  /\ driver = "in" => globals = Global
  /\ driver = "out" => \A d \in Devices : at[d] = "unbound"

(* The steps that are about neither the list nor the nodes.                 *)
NodeQuiet(d) ==
  /\ UNCHANGED <<list, node, driver, globals>> /\ minor'[d] = minor[d]
  /\ \A k \in Nodes : at[d] \in NodeStages(k) <=> at'[d] \in NodeStages(k)
  /\ at'[d] \in Up => at[d] \in Up
  /\ at'[d] \in Unlisted => at[d] \in Unlisted
  /\ at[d] # "unbound" \/ driver = "in"

LEMMA NodeStep ==
  ASSUME TypeOK, NEW d \in Devices, Device(d)
  PROVE  \/ NodeQuiet(d) \/ Insert(d) \/ CharNode(d) \/ FeatureNode(d) \/ LeaveList(d)
         \/ DropFeatureNode(d) \/ DropCharNode(d) \/ Return(d)
<1> USE DEF TypeOK, Goto, moduleVars, pageVars, listVars
<1>1. CASE Probe(d)
  <2>1. at[d] = "unbound" /\ at'[d] = "enable" /\ UNCHANGED <<list, node, driver, globals, minor>>
    BY <1>1 DEF Probe
  <2> QED BY <1>1, <2>1 DEF NodeQuiet, NodeStages, CharStages, Up, Unlisted, Probe
<1>2. CASE Acquire(d)
  <2>1. at[d] = "enable" /\ at'[d] \in {"insert", "errDevm", "errDma", "errPcie", "errBar"}
    BY <1>2, Acquired
  <2>2. UNCHANGED <<list, node, driver, globals, minor>>
    BY <1>2 DEF Acquire
  <2> QED BY <2>1, <2>2 DEF NodeQuiet, NodeStages, CharStages, Up, Unlisted
<1>3. CASE FsScan(d) \/ FsDir(d) \/ FsFiles(d)
  <2>1. at[d] \in {"fsScan", "fsDir", "fsFiles"} /\ at'[d] \in {"fsDir", "fsFiles", "irqs", "errFeature"}
    BY <1>3 DEF FsScan, FsDir, FsFiles, FilesMade, ProcFileFails, SysFileFails
  <2>2. UNCHANGED <<list, node, driver, globals, minor>>
    BY <1>3 DEF FsScan, FsDir, FsFiles
  <2> QED BY <2>1, <2>2 DEF NodeQuiet, NodeStages, CharStages, Up, Unlisted
<1>4. CASE InitIrqs(d) \/ LoadFirmware(d) \/ ConnectLog(d) \/ Suspend(d) \/ Resume(d)
  <2>1. /\ at[d] \in {"irqs", "load", "log", "bound"}
        /\ at'[d] \in {"irqs", "load", "log", "bound", "errFs"}
    BY <1>4 DEF InitIrqs, LoadFirmware, ConnectLog, Suspend, Resume, FwFails
  <2>2. UNCHANGED <<list, node, driver, globals, minor>>
    BY <1>4 DEF InitIrqs, LoadFirmware, ConnectLog, Suspend, Resume
  <2> QED BY <2>1, <2>2 DEF NodeQuiet, NodeStages, CharStages, Up, Unlisted
<1>5. CASE Unplug(d)
  <2>1. \/ at[d] = "hollow" /\ at'[d] = "return"
        \/ at[d] = "bound" /\ at'[d] = "rmFs"
    BY <1>5 DEF Unplug
  <2>2. UNCHANGED <<list, node, driver, globals, minor>>
    BY <1>5 DEF Unplug
  <2> QED BY <2>1, <2>2 DEF NodeQuiet, NodeStages, CharStages, Up, Unlisted
<1>6. CASE DropTree(d)
  <2>1. at[d] \in {"rmFs", "errFs"} /\ at'[d] \in {"rmList", "errFeature"}
    BY <1>6 DEF DropTree
  <2>2. UNCHANGED <<list, node, driver, globals, minor>>
    BY <1>6 DEF DropTree
  <2> QED BY <2>1, <2>2 DEF NodeQuiet, NodeStages, CharStages, Up, Unlisted
<1>7. CASE DropIrqs(d) \/ Release(d)
  <2>1. /\ at[d] \in {"rmIrq", "errDevm", "errDma", "errPcie", "errBar", "rmFree"}
        /\ at'[d] \in {"rmFree", "hollow", "return"}
    BY <1>7 DEF DropIrqs, Release, Frees
  <2>2. UNCHANGED <<list, node, driver, globals, minor>>
    BY <1>7 DEF DropIrqs, Release
  <2> QED BY <2>1, <2>2 DEF NodeQuiet, NodeStages, CharStages, Up, Unlisted
<1> QED BY <1>1, <1>2, <1>3, <1>4, <1>5, <1>6, <1>7 DEF Device

(* Making a node, and taking away whatever goes by the number.              *)
LEMMA NodeMade ==
  ASSUME TypeOK, NEW d \in Devices, CharNode(d) \/ FeatureNode(d)
  PROVE  \E k \in Nodes :
           /\ UNCHANGED <<list, minor, driver, globals>> /\ at[d] \in Up /\ at'[d] \notin Unlisted
           /\ \A l \in Nodes : at[d] \in NodeStages(l) => at'[d] \in NodeStages(l)
           /\ \/ at'[d] = "errFeature" /\ UNCHANGED node
              \/ /\ node[<<k, minor[d]>>] = Nobody /\ node' = [node EXCEPT ![<<k, minor[d]>>] = d]
                 /\ at'[d] \in NodeStages(k)
                 /\ \A l \in Nodes : at'[d] \in NodeStages(l) \cap Up => l = k \/ at[d] \in NodeStages(l)
<1> USE DEF TypeOK, moduleVars, pageVars, listVars, Fail, Up, Unlisted, Nodes, NodeStages, CharStages
<1>1. CASE CharNode(d)
  <2>1. at[d] = "charNode" /\ UNCHANGED <<list, minor, driver, globals>>
    BY <1>1 DEF CharNode, CreateNode
  <2>2. /\ at'[d] \in {"errFeature", "featureNode"}
        /\ \/ node[<<"char", minor[d]>>] = Nobody /\ node' = [node EXCEPT ![<<"char", minor[d]>>] = d]
           \/ at'[d] = "errFeature" /\ UNCHANGED node
    BY <1>1, <2>1 DEF CharNode, CreateNode
  <2> QED BY <2>1, <2>2
<1>2. CASE FeatureNode(d)
  <2>1. at[d] = "featureNode" /\ UNCHANGED <<list, minor, driver, globals>>
    BY <1>2 DEF FeatureNode, CreateNode
  <2>2. /\ at'[d] \in {"errFeature", "irqs", "fsScan"}
        /\ \/ node[<<"feature", minor[d]>>] = Nobody /\ node' = [node EXCEPT ![<<"feature", minor[d]>>] = d]
           \/ at'[d] = "errFeature" /\ UNCHANGED node
    BY <1>2, <2>1 DEF FeatureNode, CreateNode
  <2> QED BY <2>1, <2>2
<1> QED BY <1>1, <1>2

LEMMA NodeDropped ==
  ASSUME TypeOK, NEW d \in Devices, DropFeatureNode(d) \/ DropCharNode(d)
  PROVE  \E k \in Nodes :
           /\ UNCHANGED <<list, minor, driver, globals>>
           /\ node' = [node EXCEPT ![<<k, minor[d]>>] = Nobody]
           /\ at[d] \in Unlisted \/ at[d] \in {"errFeature", "errChar"}
           /\ at'[d] \in {"rmChar", "errChar", "rmIrq", "errList"}
           /\ at'[d] \in Unlisted => at[d] \in Unlisted
           /\ \A l \in Nodes : at[d] \in NodeStages(l) /\ l # k => at'[d] \in NodeStages(l)
<1> USE DEF TypeOK, moduleVars, pageVars, listVars, Goto, Unlisted, Nodes, NodeStages, CharStages
<1>1. CASE DropFeatureNode(d)
  BY <1>1 DEF DropFeatureNode
<1>2. CASE DropCharNode(d)
  BY <1>2 DEF DropCharNode
<1> QED BY <1>1, <1>2

LEMMA MadeByNext ==
  ASSUME TypeOK, MadeBy, [Next]_vars
  PROVE  MadeBy'
<1> SUFFICES ASSUME NEW k \in Nodes, NEW m \in Minors, NEW e \in Devices, node'[<<k, m>>] = e
             PROVE  m = minor'[e] /\ at'[e] \in NodeStages(k)
  BY DEF MadeBy
<1>1. CASE Load \/ Unload \/ UNCHANGED vars
  BY <1>1 DEF MadeBy, Load, Unload, vars, listVars
<1>2. ASSUME NEW d \in Devices, Device(d)
      PROVE  m = minor'[e] /\ at'[e] \in NodeStages(k)
  <2>1. e # d => minor'[e] = minor[e] /\ at'[e] = at[e]
    BY <1>2, OthersAlike DEF Alike
  <2>2. CASE NodeQuiet(d)
    BY <2>1, <2>2 DEF MadeBy, NodeQuiet
  <2>3. CASE CharNode(d) \/ FeatureNode(d)
    <3>1. PICK l \in Nodes :
            /\ UNCHANGED minor
            /\ \A n \in Nodes : at[d] \in NodeStages(n) => at'[d] \in NodeStages(n)
            /\ \/ UNCHANGED node
               \/ node' = [node EXCEPT ![<<l, minor[d]>>] = d] /\ at'[d] \in NodeStages(l)
      BY <2>3, NodeMade
    <3>2. CASE node[<<k, m>>] = e
      BY <2>1, <3>1, <3>2 DEF MadeBy
    <3>3. CASE node[<<k, m>>] # e
      <4>1. e = d /\ k = l /\ m = minor[d] /\ at'[d] \in NodeStages(l)
        BY <3>1, <3>3 DEF TypeOK
      <4> QED BY <3>1, <4>1
    <3> QED BY <3>2, <3>3
  <2>4. CASE DropFeatureNode(d) \/ DropCharNode(d)
    <3>1. PICK l \in Nodes :
            /\ UNCHANGED minor /\ node' = [node EXCEPT ![<<l, minor[d]>>] = Nobody]
            /\ \A n \in Nodes : at[d] \in NodeStages(n) /\ n # l => at'[d] \in NodeStages(n)
      BY <2>4, NodeDropped
    <3>2. <<l, minor[d]>> # <<k, m>> /\ node[<<k, m>>] = e
      BY <3>1, PcieLifeAssumption DEF TypeOK, PcieLifeAssumption
    <3>3. m = minor[e] /\ at[e] \in NodeStages(k)
      BY <3>2 DEF MadeBy
    <3> QED BY <2>1, <3>1, <3>2, <3>3
  <2>5. CASE LeaveList(d)
    <3>1. UNCHANGED <<node, minor>> /\ at[d] \in {"rmList", "errList"}
          /\ at' = [at EXCEPT ![d] = IF at[d] = "rmList" THEN "rmFeature" ELSE "errBar"]
      BY <2>5 DEF LeaveList, Goto
    <3>2. \A n \in Nodes : at[d] \in NodeStages(n) => at'[d] \in NodeStages(n)
      BY <3>1 DEF NodeStages, CharStages, TypeOK
    <3> QED BY <2>1, <3>1, <3>2 DEF MadeBy
  <2>6. CASE Insert(d) \/ Return(d)
    <3>1. at[d] \in {"insert", "return"} /\ UNCHANGED node
      BY <2>6 DEF Insert, Return, Goto
    <3>2. e # d
      BY <3>1 DEF MadeBy, NodeStages, CharStages
    <3> QED BY <2>1, <3>1, <3>2 DEF MadeBy
  <2> QED BY <1>2, <2>2, <2>3, <2>4, <2>5, <2>6, NodeStep
<1> QED BY <1>1, <1>2 DEF Next

LEMMA ClassNext ==
  ASSUME TypeOK, ClassOK, [Next]_vars
  PROVE  ClassOK'
<1>1. CASE Load \/ Unload \/ UNCHANGED vars
  BY <1>1 DEF ClassOK, Load, Unload, vars
<1>2. ASSUME NEW d \in Devices, Device(d) PROVE ClassOK'
  <2>1. UNCHANGED <<driver, globals>> /\ (at[d] # "unbound" \/ driver = "in")
    <3>1. CASE NodeQuiet(d)
      BY <3>1 DEF NodeQuiet
    <3>2. CASE CharNode(d) \/ FeatureNode(d)
      BY <3>2, NodeMade DEF Up
    <3>3. CASE DropFeatureNode(d) \/ DropCharNode(d)
      BY <3>3, NodeDropped DEF Unlisted
    <3>4. CASE Insert(d) \/ LeaveList(d) \/ Return(d)
      BY <3>4 DEF Insert, LeaveList, Return, Goto, moduleVars, pageVars
    <3> QED BY <1>2, <3>1, <3>2, <3>3, <3>4, NodeStep
  <2>2. driver = "in"
    BY <2>1 DEF ClassOK, TypeOK
  <2> QED BY <2>1, <2>2 DEF ClassOK
<1> QED BY <1>1, <1>2 DEF Next

LeftInv == TypeInv /\ HeldInv /\ MadeBy /\ ClassOK

LEMMA LeftAlways == Spec => []LeftInv
<1>1. Init => MadeBy /\ ClassOK
  <2> SUFFICES ASSUME Init PROVE MadeBy /\ ClassOK
    OBVIOUS
  <2>1. MadeBy
    BY PcieLifeAssumption DEF Init, MadeBy, PcieLifeAssumption
  <2>2. ClassOK
    BY DEF Init, ClassOK
  <2> QED BY <2>1, <2>2
<1>2. TypeInv /\ MadeBy /\ ClassOK /\ [Next]_vars => (MadeBy /\ ClassOK)'
  BY MadeByNext, ClassNext DEF TypeInv
<1> QED BY <1>1, <1>2, TypeAlways, HeldAlways, PTL DEF Spec, LeftInv

(* A device that is not bound has given back all but what a failed probe is *)
(* known to leave, is on no list and in no node, and no node outlives the   *)
(* class it was made in.                                                    *)
THEOREM LeftCorrect == Spec => []NothingLeft
<1>1. LeftInv => NothingLeft
  <2> SUFFICES ASSUME LeftInv PROVE NothingLeft
    OBVIOUS
  <2>1. ASSUME NEW d \in Devices, at[d] = "unbound"
        PROVE  /\ held[d] \subseteq leaked[d] \cup (IF fsType = "none" THEN {"log"} ELSE {})
               /\ d \notin {list[i] : i \in DOMAIN list}
               /\ \A n \in DOMAIN node : node[n] # d
    <3>1. held[d] \subseteq Extra(d)
      BY <2>1, Tables DEF LeftInv, HeldInv, Sound, HeldOK
    <3>2. ~OnList(d)
      BY <2>1 DEF LeftInv, TypeInv, ListInv, Listed
    <3>3. ASSUME NEW n \in DOMAIN node, node[n] = d PROVE FALSE
      <4>1. PICK k \in Nodes, m \in Minors : n = <<k, m>>
        BY <3>3 DEF LeftInv, TypeInv, TypeOK
      <4>2. at[d] \in NodeStages(k)
        BY <3>3, <4>1 DEF LeftInv, MadeBy
      <4> QED BY <2>1, <4>2 DEF NodeStages, CharStages
    <3> QED BY <3>1, <3>2, <3>3 DEF Extra, OnList
  <2>2. ASSUME NEW n \in DOMAIN node, node[n] # Nobody
        PROVE  "class" \in globals
    <3>1. PICK k \in Nodes, m \in Minors : n = <<k, m>>
      BY DEF LeftInv, TypeInv, TypeOK
    <3>2. node[n] \in Devices
      BY <2>2, <3>1 DEF LeftInv, TypeInv, TypeOK
    <3>3. at[node[n]] # "unbound"
      BY <2>1, <3>2
    <3> QED BY <3>2, <3>3 DEF LeftInv, TypeInv, TypeOK, ClassOK, Global
  <2> QED BY <2>1, <2>2 DEF NothingLeft
<1> QED BY <1>1, LeftAlways, PTL

-----------------------------------------------------------------------------
(* A device whose probe or remove overlaps with no other's is the only one  *)
(* whose probe or remove is under way.                                      *)
Alone == \A d, e \in Devices : ~rival[d] /\ Busy(d) /\ Busy(e) => e = d

(* Only Probe and Unplug begin something.                                   *)
LEMMA BusyStep ==
  ASSUME TypeOK, NEW d \in Devices, Device(d), ~Probe(d), ~Unplug(d)
  PROVE  /\ Busy(d)' => Busy(d) /\ UNCHANGED rival
         /\ \A e \in Devices : rival'[e] = rival[e] \/ (e = d /\ ~Busy(d)')
<1> USE DEF TypeOK, Goto, ghostVars, Busy, Rest, FwStages
<1>1. CASE Acquire(d) \/ Insert(d) \/ CharNode(d) \/ FeatureNode(d)
  <2>1. at[d] \in {"enable", "insert", "charNode", "featureNode"} /\ UNCHANGED rival
    BY <1>1 DEF Acquire, Insert, CharNode, FeatureNode, CreateNode
  <2> QED BY <2>1
<1>2. CASE FsScan(d) \/ FsDir(d) \/ FsFiles(d)
  <2>1. at[d] \in {"fsScan", "fsDir", "fsFiles"} /\ UNCHANGED rival
    BY <1>2 DEF FsScan, FsDir, FsFiles, FilesMade, ProcFileFails, SysFileFails
  <2> QED BY <2>1
<1>3. CASE InitIrqs(d) \/ LoadFirmware(d)
  <2>1. /\ at[d] \in {"irqs", "load"} /\ UNCHANGED <<rival, asleep>>
        /\ at'[d] \in {"load", "log", "bound"} \/ ~asleep[d]
    BY <1>3 DEF InitIrqs, LoadFirmware, FwFails
  <2> QED BY <2>1
<1>4. CASE ConnectLog(d) \/ Suspend(d) \/ Resume(d)
  <2>1. /\ UNCHANGED rival
        /\ at'[d] = "bound" \/ (at'[d] = "irqs" /\ asleep'[d])
    BY <1>4 DEF ConnectLog, Suspend, Resume
  <2> QED BY <2>1
<1>5. CASE DropTree(d) \/ LeaveList(d) \/ DropFeatureNode(d) \/ DropCharNode(d) \/ DropIrqs(d) \/ Release(d)
  <2>1. /\ at[d] \in Failing \cup {"rmFs", "rmList", "rmFeature", "rmChar", "rmIrq", "rmFree"}
        /\ UNCHANGED rival
    BY <1>5 DEF DropTree, LeaveList, DropFeatureNode, DropCharNode, DropIrqs, Release, Frees, Failing
  <2> QED BY <2>1 DEF Failing
<1>6. CASE Return(d)
  <2>1. at'[d] = "unbound" /\ rival' = [rival EXCEPT ![d] = FALSE]
    BY <1>6 DEF Return
  <2> QED BY <2>1
<1> QED BY <1>1, <1>2, <1>3, <1>4, <1>5, <1>6 DEF Device

LEMMA BusyAlike ==
  ASSUME TypeOK, NEW d \in Devices, Device(d), NEW e \in Devices, e # d
  PROVE  Busy(e)' <=> Busy(e)
BY OthersAlike DEF Alike, Busy

(* What begins beside it makes a device that is busy a rival.               *)
LEMMA Entered ==
  ASSUME TypeOK, NEW d \in Devices, Probe(d) \/ Unplug(d)
  PROVE  /\ \A e \in Devices \ {d} : rival'[e] <=> rival[e] \/ Busy(e)
         /\ ~rival'[d] => \A e \in Devices \ {d} : ~Busy(e)
         /\ at'[d] \in {"enable", "return", "rmFs"}
<1>1. Enter(d)
  BY DEF Probe, Unplug
<1>2. /\ \A e \in Devices \ {d} : rival'[e] <=> rival[e] \/ Busy(e)
      /\ ~rival'[d] => \A e \in Devices \ {d} : ~Busy(e)
  BY <1>1 DEF Enter
<1>3. at'[d] \in {"enable", "return", "rmFs"}
  BY DEF Probe, Unplug, Goto, TypeOK
<1> QED BY <1>2, <1>3

LEMMA AloneNext ==
  ASSUME TypeOK, Alone, [Next]_vars
  PROVE  Alone'
<1>1. CASE Load \/ Unload \/ UNCHANGED vars
  BY <1>1 DEF Alone, Busy, Load, Unload, vars, ghostVars
<1>2. ASSUME NEW d \in Devices, Device(d) PROVE Alone'
  <2>1. CASE Probe(d) \/ Unplug(d)
    <3> SUFFICES ASSUME NEW a \in Devices, NEW b \in Devices, ~rival'[a], Busy(a)', Busy(b)', a # b
                 PROVE  FALSE
      BY DEF Alone
    <3>1. CASE a = d
      BY <1>2, <2>1, <3>1, Entered, BusyAlike
    <3>2. CASE a # d
      BY <1>2, <2>1, <3>2, Entered, BusyAlike
    <3> QED BY <3>1, <3>2
  <2>2. CASE ~Probe(d) /\ ~Unplug(d)
    <3> SUFFICES ASSUME NEW a \in Devices, NEW b \in Devices, ~rival'[a], Busy(a)', Busy(b)'
                 PROVE  b = a
      BY DEF Alone
    <3>1. Busy(a) /\ Busy(b)
      BY <1>2, <2>2, BusyStep, BusyAlike
    <3>2. ~rival[a]
      BY <1>2, <2>2, BusyStep
    <3> QED BY <3>1, <3>2 DEF Alone
  <2> QED BY <2>1, <2>2
<1> QED BY <1>1, <1>2 DEF Next

-----------------------------------------------------------------------------
(* While nothing has overlapped with its probe no other device is about to  *)
(* destroy what goes by the number of a device, and its nodes are its own.  *)
NumberFree ==
  \A d, e \in Devices :
    ~rival[d] /\ at[d] \in Up /\ at[e] \in Unlisted => minor[e] # minor[d]

OwnNodes ==
  \A d \in Devices, k \in Nodes :
    ~rival[d] /\ at[d] \in Up \cap NodeStages(k) => node[<<k, minor[d]>>] = d

NodeInv == TypeInv /\ Alone /\ NumberFree /\ OwnNodes

LEMMA ListedApart ==
  ASSUME TypeInv, NEW d \in Devices, NEW e \in Devices, at[d] \in Listed, at[e] \in Listed,
         minor[d] = minor[e]
  PROVE  d = e
<1>1. PICK i \in DOMAIN list, j \in DOMAIN list : list[i] = d /\ list[j] = e
  BY DEF TypeInv, ListInv, OnList
<1>2. i \in Nat /\ j \in Nat /\ minor[d] \in Nat
  BY DEF TypeInv, ListInv, Shapes
<1>3. ~(i < j) /\ ~(j < i)
  BY <1>1, <1>2 DEF TypeInv, ListInv, ListOrdered
<1> QED BY <1>1, <1>2, <1>3

(* A device that is up after a step was so before, or has just been         *)
(* inserted; and nobody has become its rival.                               *)
LEMMA UpBefore ==
  ASSUME TypeOK, NEW d \in Devices, Device(d), NEW a \in Devices, ~rival'[a], at'[a] \in Up
  PROVE  /\ ~rival[a]
         /\ at[a] \in Up \/ (a = d /\ Insert(d))
<1>1. CASE a # d
  <2>1. at'[a] = at[a]
    BY <1>1, OthersAlike DEF Alike
  <2>2. ~rival[a]
    BY <1>1, BusyStep, Entered
  <2> QED BY <2>1, <2>2
<1>2. CASE a = d
  <2>1. ~Probe(d) /\ ~Unplug(d)
    BY <1>2, Entered DEF Up
  <2>2. CASE Return(d)
    BY <1>2, <2>2 DEF Return, Goto, TypeOK, Up
  <2>3. CASE ~Return(d)
    <3>1. UNCHANGED rival
      BY <2>1, <2>3 DEF Device, ghostVars, Acquire, Insert, CharNode, FeatureNode, CreateNode,
         FsScan, FsDir, FsFiles, InitIrqs, LoadFirmware, ConnectLog, Suspend, Resume, DropTree,
         LeaveList, DropFeatureNode, DropCharNode, DropIrqs, Release
    <3>2. at[d] \in Up \/ Insert(d)
      <4>1. CASE NodeQuiet(d)
        BY <1>2, <4>1 DEF NodeQuiet
      <4>2. CASE CharNode(d) \/ FeatureNode(d)
        BY <4>2, NodeMade
      <4>3. CASE DropFeatureNode(d) \/ DropCharNode(d)
        BY <1>2, <4>3, NodeDropped DEF Up
      <4>4. CASE LeaveList(d)
        BY <1>2, <4>4 DEF LeaveList, Goto, TypeOK, Up
      <4> QED BY <2>3, <4>1, <4>2, <4>3, <4>4, NodeStep
    <3> QED BY <1>2, <3>1, <3>2
  <2> QED BY <2>2, <2>3
<1> QED BY <1>1, <1>2

LEMMA MinorStep ==
  ASSUME TypeOK, NEW d \in Devices, Device(d), NEW e \in Devices, e = d => ~Insert(d) /\ ~Return(d)
  PROVE  minor'[e] = minor[e]
<1>1. CASE e # d
  BY <1>1, OthersAlike DEF Alike
<1>2. CASE e = d
  BY <1>2, NodeStep, NodeMade, NodeDropped DEF NodeQuiet, LeaveList
<1> QED BY <1>1, <1>2

LEMMA NumberFreeNext ==
  ASSUME NodeInv, [Next]_vars
  PROVE  NumberFree'
<1> USE DEF NodeInv, TypeInv
<1>1. CASE Load \/ Unload \/ UNCHANGED vars
  BY <1>1 DEF NumberFree, Load, Unload, vars, listVars, ghostVars
<1>2. ASSUME NEW d \in Devices, Device(d) PROVE NumberFree'
  <2> SUFFICES ASSUME NEW a \in Devices, NEW b \in Devices, ~rival'[a], at'[a] \in Up,
                      at'[b] \in Unlisted
               PROVE  minor'[b] # minor'[a]
    BY DEF NumberFree
  <2>1. ~rival[a] /\ (at[a] \in Up \/ (a = d /\ Insert(d)))
    BY <1>2, UpBefore
  <2>2. CASE a = d /\ Insert(d)
    <3>1. at[d] = "insert" /\ at'[d] = "charNode"
      BY <2>2 DEF Insert, Goto, TypeOK
    <3>2. b # d /\ at[b] \in Unlisted
      <4>1. b # d
        BY <3>1 DEF Unlisted
      <4> QED BY <1>2, <4>1, OthersAlike DEF Alike
    <3>3. Busy(a) /\ Busy(b)
      BY <2>2, <3>1, <3>2 DEF Busy, Rest, FwStages, Unlisted
    <3> QED BY <2>1, <2>2, <3>2, <3>3 DEF Alone
  <2>3. CASE at[a] \in Up
    <3>1. a = d => ~Insert(d) /\ ~Return(d)
      BY <2>3 DEF Insert, Return, Goto, Up
    <3>2. b = d => ~Insert(d) /\ ~Return(d)
      BY DEF Insert, Return, Goto, TypeOK, Unlisted
    <3>3. minor'[a] = minor[a] /\ minor'[b] = minor[b]
      BY <1>2, <3>1, <3>2, MinorStep
    <3>4. CASE at[b] \in Unlisted
      BY <2>1, <2>3, <3>3, <3>4 DEF NumberFree
    <3>5. CASE at[b] \notin Unlisted
      <4>1. b = d
        BY <1>2, <3>5, OthersAlike DEF Alike
      <4>2. LeaveList(d)
        <5>1. ~NodeQuiet(d)
          BY <3>5, <4>1 DEF NodeQuiet
        <5>2. ~CharNode(d) /\ ~FeatureNode(d)
          BY <4>1, NodeMade
        <5>3. ~DropFeatureNode(d) /\ ~DropCharNode(d)
          BY <3>5, <4>1, NodeDropped
        <5> QED BY <1>2, <3>2, <4>1, <5>1, <5>2, <5>3, NodeStep
      <4>3. at[b] = "rmList"
        BY <4>1, <4>2 DEF LeaveList, Goto, TypeOK, Unlisted
      <4>4. a # b /\ at[a] \in Listed /\ at[b] \in Listed
        BY <2>3, <4>3 DEF Up, Listed
      <4> QED BY <3>3, <4>4, ListedApart
    <3> QED BY <3>4, <3>5
  <2> QED BY <2>1, <2>2, <2>3
<1> QED BY <1>1, <1>2 DEF Next

LEMMA OwnNodesNext ==
  ASSUME NodeInv, [Next]_vars
  PROVE  OwnNodes'
<1> USE DEF NodeInv, TypeInv
<1>1. CASE Load \/ Unload \/ UNCHANGED vars
  BY <1>1 DEF OwnNodes, Load, Unload, vars, listVars, ghostVars
<1>2. ASSUME NEW d \in Devices, Device(d) PROVE OwnNodes'
  <2> SUFFICES ASSUME NEW a \in Devices, NEW k \in Nodes, ~rival'[a], at'[a] \in Up, at'[a] \in NodeStages(k)
               PROVE  node'[<<k, minor'[a]>>] = a
    BY DEF OwnNodes
  <2>1. ~rival[a] /\ at[a] \in Up
    <3>1. ~(a = d /\ Insert(d))
      BY DEF Insert, Goto, TypeOK, NodeStages, CharStages
    <3> QED BY <1>2, <3>1, UpBefore
  <2>2. minor'[a] = minor[a]
    <3>1. a = d => ~Insert(d) /\ ~Return(d)
      BY <2>1 DEF Insert, Return, Goto, Up
    <3> QED BY <1>2, <3>1, MinorStep
  <2>3. /\ node \in [Nodes \X Minors -> Devices \cup {Nobody}] /\ <<k, minor[a]>> \in Nodes \X Minors
        /\ a # Nobody
    BY PcieLifeAssumption DEF TypeOK, PcieLifeAssumption
  <2>4. CASE at[a] \in NodeStages(k)
    <3>1. node[<<k, minor[a]>>] = a
      BY <2>1, <2>4 DEF OwnNodes
    <3>2. CASE UNCHANGED node
      BY <2>2, <3>1, <3>2
    <3>3. CASE CharNode(d) \/ FeatureNode(d)
      <4>1. \/ UNCHANGED node
            \/ \E l \in Nodes : /\ node[<<l, minor[d]>>] = Nobody
                                /\ node' = [node EXCEPT ![<<l, minor[d]>>] = d]
        BY <3>3, NodeMade
      <4> QED BY <2>2, <2>3, <3>1, <4>1
    <3>4. CASE DropFeatureNode(d) \/ DropCharNode(d)
      <4>1. PICK l \in Nodes :
              /\ node' = [node EXCEPT ![<<l, minor[d]>>] = Nobody]
              /\ at[d] \in Unlisted \/ at[d] \in {"errFeature", "errChar"}
        BY <3>4, NodeDropped
      <4>2. minor[d] # minor[a]
        <5>1. CASE at[d] \in Unlisted
          BY <2>1, <5>1 DEF NumberFree
        <5>2. CASE at[d] \in {"errFeature", "errChar"}
          <6>1. at[d] \in Listed /\ at[a] \in Listed /\ a # d
            BY <2>1, <5>2 DEF Listed, Up
          <6> QED BY <6>1, ListedApart
        <5> QED BY <4>1, <5>1, <5>2
      <4> QED BY <2>2, <2>3, <3>1, <4>1, <4>2
    <3>5. CASE NodeQuiet(d) \/ Insert(d) \/ LeaveList(d) \/ Return(d)
      BY <3>2, <3>5 DEF NodeQuiet, Insert, LeaveList, Return
    <3> QED BY <1>2, <3>3, <3>4, <3>5, NodeStep
  <2>5. CASE at[a] \notin NodeStages(k)
    <3>1. a = d
      BY <1>2, <2>5, OthersAlike DEF Alike
    <3>2. CharNode(d) \/ FeatureNode(d)
      <4>1. ~NodeQuiet(d)
        BY <2>5, <3>1 DEF NodeQuiet
      <4>2. ~DropFeatureNode(d) /\ ~DropCharNode(d)
        BY <3>1, NodeDropped DEF Up
      <4>3. ~Insert(d) /\ ~LeaveList(d) /\ ~Return(d)
        <5>1. at[d] \in Up /\ at'[d] \in Up /\ at'[d] # "charNode"
          BY <2>1, <3>1 DEF NodeStages, CharStages
        <5> QED BY <5>1 DEF Insert, LeaveList, Return, Goto, TypeOK, Up
      <4> QED BY <1>2, <4>1, <4>2, <4>3, NodeStep
    <3>3. node' = [node EXCEPT ![<<k, minor[d]>>] = d]
      BY <2>5, <3>1, <3>2, NodeMade DEF Up
    <3> QED BY <2>2, <2>3, <3>1, <3>3
  <2> QED BY <2>4, <2>5
<1> QED BY <1>1, <1>2 DEF Next

LEMMA NodeAlways == Spec => []NodeInv
<1>1. Init => Alone /\ NumberFree /\ OwnNodes
  BY DEF Init, Alone, Busy, Rest, NumberFree, OwnNodes, Up
<1>2. NodeInv /\ [Next]_vars => (Alone /\ NumberFree /\ OwnNodes)'
  BY AloneNext, NumberFreeNext, OwnNodesNext DEF NodeInv, TypeInv
<1> QED BY <1>1, <1>2, TypeAlways, PTL DEF Spec, NodeInv

(* Unless another probe or remove overlaps with its probe, the two nodes of *)
(* a bound device are those it made, and an open of them finds it in the    *)
(* list: device_destroy of another device goes by another number.           *)
THEOREM NodesCorrect == Spec => []NodesAreOwn
<1>1. NodeInv => NodesAreOwn
  <2> SUFFICES ASSUME NodeInv, NEW d \in Devices, at[d] = "bound", ~rival[d]
               PROVE  /\ \A k \in Nodes : node[<<k, minor[d]>>] = d
                      /\ ByIndex(minor[d]) = {d}
    BY DEF NodesAreOwn
  <2>1. \A k \in Nodes : at[d] \in Up /\ at[d] \in NodeStages(k)
    BY DEF Up, NodeStages, CharStages
  <2>2. \A k \in Nodes : node[<<k, minor[d]>>] = d
    BY <2>1 DEF NodeInv, OwnNodes
  <2>3. PICK i \in DOMAIN list : list[i] = d
    BY DEF NodeInv, TypeInv, ListInv, OnList, Listed
  <2>4. ASSUME NEW j \in DOMAIN list, minor[list[j]] = minor[d] PROVE list[j] = d
    <3>1. list[j] \in Devices /\ OnList(list[j])
      BY DEF NodeInv, TypeInv, TypeOK, OnList
    <3>2. at[list[j]] \in Listed /\ at[d] \in Listed
      BY <3>1 DEF NodeInv, TypeInv, ListInv, Listed
    <3> QED BY <2>4, <3>1, <3>2, ListedApart DEF NodeInv
  <2>5. ByIndex(minor[d]) = {d}
    BY <2>3, <2>4 DEF ByIndex
  <2> QED BY <2>2, <2>5
<1> QED BY <1>1, NodeAlways, PTL

-----------------------------------------------------------------------------
(* The devices that have a directory, and those whose files are there.      *)
OwnerStages == {"fsFiles", "irqs", "load", "log", "bound", "rmFs", "errFs"}
Owner(d)  == fsType # "none" /\ at[d] \in OwnerStages
Opened(d) == Owner(d) /\ at[d] # "fsFiles"

TreeInv ==
  /\ \A d \in Devices : Owner(d) => dirs[dir[d]] # "free"
  /\ \A d \in Devices : Opened(d) => dirs[dir[d]] = "open"
  /\ \A d, e \in Devices : Owner(d) /\ Owner(e) /\ dir[d] = dir[e] => d = e

(* A directory has a kobject that no other has.                             *)
KobjInv ==
  fsType = "sys" =>
    /\ \A n \in Names : dirs[n] # "free" => kobj[n] \in Kobjects
    /\ \A n, m \in Names :
         dirs[n] # "free" /\ dirs[m] # "free" /\ kobj[n] = kobj[m] => n = m

(* The steps that leave directories, names and the map alone.               *)
TreeQuiet(d) ==
  /\ UNCHANGED <<dirs, dir, kobj, entry, fsType>>
  /\ Owner(d)' <=> Owner(d)
  /\ Opened(d)' <=> Opened(d)
  /\ at'[d] # "fsDir"

LEMMA TreeStep ==
  ASSUME TypeOK, NEW d \in Devices, Device(d)
  PROVE  TreeQuiet(d) \/ FsScan(d) \/ FsDir(d) \/ FsFiles(d) \/ DropTree(d) \/ Return(d)
<1> USE DEF TypeOK, Goto, moduleVars, pageVars, treeVars, TreeQuiet, Owner, Opened, OwnerStages
<1>1. CASE Probe(d)
  BY <1>1 DEF Probe
<1>2. CASE Acquire(d)
  <2>1. at[d] = "enable" /\ at'[d] \in {"insert", "errDevm", "errDma", "errPcie", "errBar"}
    BY <1>2, Acquired
  <2> QED BY <1>2, <2>1 DEF Acquire
<1>3. CASE Insert(d)
  BY <1>3 DEF Insert
<1>4. CASE CharNode(d) \/ FeatureNode(d)
  <2>1. /\ at[d] \in {"charNode", "featureNode"}
        /\ at'[d] \in {"errFeature", "featureNode", "fsScan"} \/ (at'[d] = "irqs" /\ fsType = "none")
        /\ UNCHANGED <<treeVars, fsType>>
    BY <1>4 DEF CharNode, FeatureNode, CreateNode
  <2> QED BY <2>1
<1>5. CASE InitIrqs(d) \/ LoadFirmware(d) \/ ConnectLog(d) \/ Suspend(d) \/ Resume(d)
  <2>1. /\ at[d] \in {"irqs", "load", "log", "bound"}
        /\ at'[d] \in {"irqs", "load", "log", "bound", "errFs"}
        /\ UNCHANGED <<treeVars, fsType>>
    BY <1>5 DEF InitIrqs, LoadFirmware, ConnectLog, Suspend, Resume, FwFails
  <2> QED BY <2>1
<1>6. CASE Unplug(d)
  BY <1>6 DEF Unplug
<1>7. CASE LeaveList(d) \/ DropFeatureNode(d) \/ DropCharNode(d)
  BY <1>7 DEF LeaveList, DropFeatureNode, DropCharNode
<1>8. CASE DropIrqs(d) \/ Release(d)
  <2>1. /\ at[d] \in {"rmIrq", "errDevm", "errDma", "errPcie", "errBar", "rmFree"}
        /\ at'[d] \in {"rmFree", "hollow", "return"}
        /\ UNCHANGED <<treeVars, fsType>>
    BY <1>8 DEF DropIrqs, Release, Frees
  <2> QED BY <2>1
<1> QED BY <1>1, <1>2, <1>3, <1>4, <1>5, <1>6, <1>7, <1>8 DEF Device

LEMMA OwnerAlike ==
  ASSUME TypeOK, NEW d \in Devices, Device(d), NEW e \in Devices, e # d
  PROVE  /\ Owner(e)' <=> Owner(e)
         /\ Opened(e)' <=> Opened(e)
         /\ dir'[e] = dir[e] /\ minor'[e] = minor[e] /\ at'[e] = at[e] /\ fsType' = fsType
BY OthersAlike DEF Alike, Owner, Opened

(* What the steps that are not quiet do to the directories.                 *)
LEMMA DirMade ==
  ASSUME TypeOK, NEW d \in Devices, FsDir(d)
  PROVE  /\ UNCHANGED <<dir, minor, entry, fsType, disturbed, rival>>
         /\ at[d] = "fsDir" /\ dir[d] \in Names
         /\ \/ UNCHANGED <<dirs, kobj>> /\ at'[d] = "errFeature"
            \/ /\ at'[d] = "fsFiles" /\ dirs[dir[d]] = "free"
               /\ dirs' = [dirs EXCEPT ![dir[d]] = "bare"]
               /\ fsType = "sys" =>
                    \E k \in Kobjects \ InUse : kobj' = [kobj EXCEPT ![dir[d]] = k]
BY DEF FsDir, Goto, TypeOK, moduleVars, pageVars, listVars, ghostVars

LEMMA DirFilled ==
  ASSUME TypeOK, NEW d \in Devices, FsFiles(d)
  PROVE  /\ UNCHANGED <<dir, minor, kobj, fsType, rival>>
         /\ at[d] = "fsFiles" /\ dir[d] \in Names
         /\ \/ /\ at'[d] = "irqs" /\ dirs' = [dirs EXCEPT ![dir[d]] = "open"] /\ UNCHANGED disturbed
               /\ fsType = "sys" =>
                    entry' = [entry EXCEPT ![minor[d]] = [kobj |-> kobj[dir[d]], dev |-> d]]
            \/ /\ at'[d] = "errFeature" /\ UNCHANGED entry
               /\ \/ dirs' = [dirs EXCEPT ![dir[d]] = "free"] /\ fsType = "proc" /\ UNCHANGED disturbed
                  \/ \E s \in {"bare", "open"} : dirs' = [dirs EXCEPT ![dir[d]] = s] /\ disturbed'
<1> USE DEF Goto, TypeOK, moduleVars, pageVars, listVars
<1>1. UNCHANGED <<dir, minor, kobj, fsType, rival>>
  BY DEF FsFiles
<1>2. at[d] = "fsFiles" /\ dir[d] \in Names
  BY DEF FsFiles, FilesMade, ProcFileFails, SysFileFails
<1>3. CASE FilesMade(d)
  BY <1>1, <1>2, <1>3 DEF FilesMade
<1>4. CASE ProcFileFails(d)
  BY <1>1, <1>2, <1>4 DEF ProcFileFails
<1>5. CASE SysFileFails(d)
  BY <1>1, <1>2, <1>5 DEF SysFileFails
<1> QED BY <1>3, <1>4, <1>5 DEF FsFiles

LEMMA DirDropped ==
  ASSUME TypeOK, NEW d \in Devices, DropTree(d)
  PROVE  /\ UNCHANGED <<dir, minor, entry, fsType, disturbed, rival>>
         /\ at[d] \in {"rmFs", "errFs"} /\ at'[d] \in {"rmList", "errFeature"} /\ dir[d] \in Names
         /\ fsType = "none" => UNCHANGED <<dirs, kobj>>
         /\ fsType # "none" => /\ dirs' = [dirs EXCEPT ![dir[d]] = "free"]
                               /\ kobj' = [kobj EXCEPT ![dir[d]] = Nobody]
BY DEF DropTree, FsDeinit, DropKobject, Goto, TypeOK, moduleVars, pageVars, listVars, ghostVars

LEMMA TreeNext ==
  ASSUME TypeOK, HeldInv, TreeInv, [Next]_vars
  PROVE  TreeInv'
<1>1. CASE Load \/ Unload \/ UNCHANGED vars
  BY <1>1 DEF TreeInv, Owner, Opened, Load, Unload, vars, moduleVars, pageVars, treeVars
<1>2. ASSUME NEW d \in Devices, Device(d) PROVE TreeInv'
  <2>0. \A e \in Devices \ {d} : /\ Owner(e)' <=> Owner(e)
                                 /\ Opened(e)' <=> Opened(e)
                                 /\ dir'[e] = dir[e]
    BY <1>2, OwnerAlike
  <2>1. \A e \in Devices : dir[e] \in Names
    BY DEF TypeOK
  <2>2. CASE TreeQuiet(d)
    BY <2>0, <2>2 DEF TreeQuiet, TreeInv
  <2>3. CASE FsScan(d)
    <3>1. UNCHANGED dirs /\ at'[d] = "fsDir"
      BY <2>3 DEF FsScan, Goto, TypeOK
    <3>2. ~Owner(d)'
      BY <3>1 DEF Owner, OwnerStages
    <3> QED BY <2>0, <3>1, <3>2 DEF TreeInv, Opened
  <2>4. CASE FsDir(d)
    <3>1. CASE UNCHANGED dirs /\ at'[d] = "errFeature"
      <4>1. ~Owner(d)'
        BY <3>1 DEF Owner, OwnerStages
      <4> QED BY <2>0, <3>1, <4>1 DEF TreeInv, Opened
    <3>2. CASE at'[d] = "fsFiles" /\ dirs[dir[d]] = "free" /\ dirs' = [dirs EXCEPT ![dir[d]] = "bare"]
      <4>1. ~Opened(d)' /\ dir'[d] = dir[d]
        BY <2>4, <3>2, DirMade DEF Opened
      <4>2. \A e \in Devices \ {d} : Owner(e) => dir[e] # dir[d]
        BY <3>2 DEF TreeInv
      <4>3. dirs'[dir[d]] = "bare" /\ \A n \in Names : n # dir[d] => dirs'[n] = dirs[n]
        BY <2>1, <3>2 DEF TypeOK
      <4> QED BY <2>0, <2>1, <4>1, <4>2, <4>3 DEF TreeInv, Opened
    <3> QED BY <2>4, <3>1, <3>2, DirMade
  <2>5. CASE FsFiles(d)
    <3>1. PICK s \in {"free", "bare", "open"} :
            /\ dirs' = [dirs EXCEPT ![dir[d]] = s] /\ UNCHANGED dir
            /\ at'[d] \in {"irqs", "errFeature"} /\ (at'[d] = "irqs" => s = "open")
            /\ at[d] = "fsFiles"
      BY <2>5, DirFilled
    <3>2. Owner(d)
      BY <3>1 DEF HeldInv, Sound, TreeOK, Owner, OwnerStages
    <3>3. \A e \in Devices \ {d} : Owner(e) => dir[e] # dir[d]
      BY <3>2 DEF TreeInv
    <3>4. dirs'[dir[d]] = s /\ \A n \in Names : n # dir[d] => dirs'[n] = dirs[n]
      BY <2>1, <3>1 DEF TypeOK
    <3>5. Owner(d)' => s = "open"
      BY <3>1 DEF Owner, OwnerStages
    <3> QED BY <2>0, <2>1, <3>1, <3>3, <3>4, <3>5 DEF TreeInv, Opened
  <2>6. CASE DropTree(d)
    <3>1. ~Owner(d)'
      BY <2>6, DirDropped DEF Owner, OwnerStages
    <3>2. CASE fsType = "none"
      BY <2>0, <2>6, <3>2, DirDropped DEF TreeInv, Owner, Opened
    <3>3. CASE fsType # "none"
      <4>1. Owner(d)
        BY <2>6, <3>3, DirDropped DEF Owner, OwnerStages
      <4>2. \A e \in Devices \ {d} : Owner(e) => dir[e] # dir[d]
        BY <4>1 DEF TreeInv
      <4>3. \A n \in Names : n # dir[d] => dirs'[n] = dirs[n]
        BY <2>6, <3>3, DirDropped DEF TypeOK
      <4> QED BY <2>0, <2>1, <3>1, <4>2, <4>3 DEF TreeInv, Opened
    <3> QED BY <3>2, <3>3
  <2>7. CASE Return(d)
    <3>1. UNCHANGED dirs /\ at'[d] = "unbound"
      BY <2>7 DEF Return, Goto, TypeOK
    <3>2. ~Owner(d)'
      BY <3>1 DEF Owner, OwnerStages
    <3> QED BY <2>0, <3>1, <3>2 DEF TreeInv, Opened
  <2> QED BY <1>2, <2>2, <2>3, <2>4, <2>5, <2>6, <2>7, TreeStep
<1> QED BY <1>1, <1>2 DEF Next

LEMMA KobjNext ==
  ASSUME TypeOK, HeldInv, TreeInv, KobjInv, [Next]_vars
  PROVE  KobjInv'
<1>1. CASE Load \/ Unload \/ UNCHANGED vars
  BY <1>1 DEF KobjInv, Load, Unload, vars, moduleVars, pageVars, treeVars
<1>2. ASSUME NEW d \in Devices, Device(d) PROVE KobjInv'
  <2>0. fsType' = fsType
    BY <1>2, FsTypeSame
  <2> SUFFICES ASSUME fsType = "sys"
               PROVE  /\ \A n \in Names : dirs'[n] # "free" => kobj'[n] \in Kobjects
                      /\ \A n, m \in Names :
                           dirs'[n] # "free" /\ dirs'[m] # "free" /\ kobj'[n] = kobj'[m] => n = m
    BY <2>0 DEF KobjInv
  <2>1. dir[d] \in Names
    BY DEF TypeOK
  <2>2. CASE UNCHANGED <<dirs, kobj>>
    BY <2>2 DEF KobjInv
  <2>3. CASE FsDir(d)
    <3> SUFFICES ASSUME NEW k \in Kobjects \ InUse, kobj' = [kobj EXCEPT ![dir[d]] = k],
                        dirs' = [dirs EXCEPT ![dir[d]] = "bare"]
                 PROVE  /\ \A n \in Names : dirs'[n] # "free" => kobj'[n] \in Kobjects
                        /\ \A n, m \in Names :
                             dirs'[n] # "free" /\ dirs'[m] # "free" /\ kobj'[n] = kobj'[m] => n = m
      BY <2>2, <2>3, DirMade
    <3>1. kobj'[dir[d]] = k /\ \A n \in Names : n # dir[d] => kobj'[n] = kobj[n] /\ dirs'[n] = dirs[n]
      BY <2>1 DEF TypeOK
    <3>2. \A n \in Names : dirs[n] # "free" => kobj[n] # k
      BY DEF InUse
    <3> QED BY <3>1, <3>2 DEF KobjInv
  <2>4. CASE FsFiles(d)
    <3>1. PICK s : dirs' = [dirs EXCEPT ![dir[d]] = s] /\ UNCHANGED kobj /\ at[d] = "fsFiles"
      BY <2>4, DirFilled
    <3>2. dirs[dir[d]] # "free"
      BY <3>1 DEF TreeInv, Owner, OwnerStages
    <3>3. \A n \in Names : dirs'[n] # "free" => dirs[n] # "free"
      BY <2>1, <3>1, <3>2 DEF TypeOK
    <3> QED BY <3>1, <3>3 DEF KobjInv
  <2>5. CASE DropTree(d)
    <3>1. \A n \in Names : dirs'[n] # "free" => dirs[n] # "free" /\ kobj'[n] = kobj[n]
      BY <2>1, <2>5, DirDropped DEF TypeOK
    <3> QED BY <3>1 DEF KobjInv
  <2>6. CASE TreeQuiet(d) \/ FsScan(d) \/ Return(d)
    BY <2>2, <2>6 DEF TreeQuiet, FsScan, Return
  <2> QED BY <1>2, <2>3, <2>4, <2>5, <2>6, TreeStep
<1> QED BY <1>1, <1>2 DEF Next

-----------------------------------------------------------------------------
(* While a device has a number and not yet a directory, and nothing has     *)
(* overlapped, all lower numbers belong to devices on the list.             *)
Early == {"charNode", "featureNode", "fsScan", "fsDir"}

Taken ==
  \A d \in Devices :
    ~rival[d] /\ at[d] \in Early =>
      \A m \in Minors : m < minor[d] => \E e \in Devices : at[e] \in Listed /\ minor[e] = m

(* Beside a probe or remove that overlaps with none, a device can only      *)
(* sleep and wake up.                                                       *)
Idle == {"irqs", "load", "log", "bound"}

LEMMA IdleStep ==
  ASSUME TypeOK, NEW d \in Devices, Device(d), ~Busy(d), ~Probe(d), ~Unplug(d)
  PROVE  at[d] \in Idle /\ at'[d] \in Idle /\ UNCHANGED <<minor, list>>
<1> USE DEF Busy, Rest, FwStages, Goto, TypeOK, Idle, listVars
<1>1. CASE InitIrqs(d) \/ LoadFirmware(d) \/ ConnectLog(d) \/ Suspend(d) \/ Resume(d)
  <2>1. at[d] \in {"irqs", "load", "log", "bound"} /\ UNCHANGED <<minor, list>>
    BY <1>1 DEF InitIrqs, LoadFirmware, ConnectLog, Suspend, Resume
  <2>2. at'[d] \in {"irqs", "load", "log", "bound"} \/ (~asleep[d] /\ at[d] \in {"irqs", "load"})
    BY <1>1 DEF InitIrqs, LoadFirmware, ConnectLog, Suspend, Resume, FwFails
  <2> QED BY <2>1, <2>2
<1>2. CASE Acquire(d) \/ Insert(d) \/ CharNode(d) \/ FeatureNode(d) \/ FsScan(d) \/ FsDir(d) \/ FsFiles(d)
  BY <1>2 DEF Acquire, Insert, CharNode, FeatureNode, FsScan, FsDir, FsFiles, FilesMade,
     ProcFileFails, SysFileFails
<1>3. CASE \/ DropTree(d) \/ LeaveList(d) \/ DropFeatureNode(d) \/ DropCharNode(d) \/ DropIrqs(d)
           \/ Release(d) \/ Return(d)
  BY <1>3 DEF DropTree, LeaveList, DropFeatureNode, DropCharNode, DropIrqs, Release, Return, Frees
<1> QED BY <1>1, <1>2, <1>3 DEF Device

(* A device that is early after a step was so before, or was inserted.      *)
LEMMA EarlyBefore ==
  ASSUME TypeOK, NEW d \in Devices, Device(d), at'[d] \in Early
  PROVE  Insert(d) \/ (at[d] \in Early /\ minor'[d] = minor[d])
<1> USE DEF TypeOK, Goto, Early, listVars
<1>1. CASE CharNode(d) \/ FeatureNode(d) \/ FsScan(d) \/ FsDir(d) \/ Insert(d)
  BY <1>1 DEF CharNode, FeatureNode, CreateNode, FsScan, FsDir
<1>2. CASE Probe(d) \/ Acquire(d) \/ FsFiles(d) \/ InitIrqs(d) \/ LoadFirmware(d) \/ ConnectLog(d)
  <2>1. at'[d] \in {"enable", "insert", "irqs", "load", "log", "bound", "errDevm", "errDma",
                    "errPcie", "errBar", "errFeature", "errFs"}
    BY <1>2, Acquired DEF Probe, FsFiles, FilesMade, ProcFileFails, SysFileFails, InitIrqs,
       LoadFirmware, ConnectLog, FwFails
  <2> QED BY <2>1
<1>3. CASE \/ Suspend(d) \/ Resume(d) \/ Unplug(d) \/ DropTree(d) \/ LeaveList(d)
           \/ DropFeatureNode(d) \/ DropCharNode(d) \/ DropIrqs(d) \/ Release(d) \/ Return(d)
  BY <1>3 DEF Suspend, Resume, Unplug, DropTree, LeaveList, DropFeatureNode, DropCharNode,
     DropIrqs, Release, Return
<1> QED BY <1>1, <1>2, <1>3 DEF Device

LEMMA TakenNext ==
  ASSUME TypeInv, Alone, Taken, [Next]_vars
  PROVE  Taken'
<1> USE DEF TypeInv
<1>1. CASE Load \/ Unload \/ UNCHANGED vars
  BY <1>1 DEF Taken, Load, Unload, vars, listVars, ghostVars
<1>2. ASSUME NEW d \in Devices, Device(d) PROVE Taken'
  <2> SUFFICES ASSUME NEW a \in Devices, ~rival'[a], at'[a] \in Early, NEW m \in Minors, m < minor'[a]
               PROVE  \E e \in Devices : at'[e] \in Listed /\ minor'[e] = m
    BY DEF Taken
  <2>1. ~rival[a]
    BY <1>2, UpBefore DEF Early, Up
  <2>2. CASE a = d
    <3>1. CASE Insert(d)
      <4>1. m \in Nat /\ Cardinality(Devices) \in Nat
        BY PcieLifeAssumption, FS_CardinalityType DEF PcieLifeAssumption, Minors
      <4>2. PICK i \in DOMAIN list : list[i] # d /\ minor[list[i]] = m
        BY <2>2, <3>1, <4>1, LeastFree
      <4>3. list[i] \in Devices /\ at[list[i]] \in Listed
        BY <4>2 DEF TypeOK, ListInv, OnList
      <4>4. at'[list[i]] = at[list[i]] /\ minor'[list[i]] = minor[list[i]]
        BY <1>2, <4>2, <4>3, OthersAlike DEF Alike
      <4> QED BY <4>2, <4>3, <4>4
    <3>2. CASE ~Insert(d)
      <4>1. at[d] \in Early /\ minor'[d] = minor[d]
        BY <1>2, <2>2, <3>2, EarlyBefore
      <4>2. PICK e \in Devices : at[e] \in Listed /\ minor[e] = m
        BY <2>1, <2>2, <4>1 DEF Taken
      <4>3. e # d
        BY <2>2, <4>1, <4>2 DEF Minors
      <4> QED BY <1>2, <4>2, <4>3, OthersAlike DEF Alike
    <3> QED BY <3>1, <3>2
  <2>3. CASE a # d
    <3>1. at[a] = at'[a] /\ minor[a] = minor'[a]
      BY <1>2, <2>3, OthersAlike DEF Alike
    <3>2. PICK e \in Devices : at[e] \in Listed /\ minor[e] = m
      BY <2>1, <3>1 DEF Taken
    <3>3. CASE e # d
      BY <1>2, <3>2, <3>3, OthersAlike DEF Alike
    <3>4. CASE e = d
      <4>1. Busy(a)
        BY <3>1 DEF Busy, Rest, FwStages, Early
      <4>2. ~Busy(d)
        BY <2>1, <2>3, <4>1 DEF Alone
      <4>3. ~Probe(d) /\ ~Unplug(d)
        BY <2>3, <4>1, Entered
      <4>4. at'[d] \in Idle /\ UNCHANGED minor
        BY <1>2, <4>2, <4>3, IdleStep
      <4> QED BY <3>2, <3>4, <4>4 DEF Idle, Listed
    <3> QED BY <3>3, <3>4
  <2> QED BY <2>2, <2>3
<1> QED BY <1>1, <1>2 DEF Next

(* Who is on the list beside such a probe has a directory with its files.   *)
LEMMA IdleOpened ==
  ASSUME TypeOK, Alone, NEW d \in Devices, ~rival[d], Busy(d), NEW e \in Devices, e # d,
         at[e] \in Listed, fsType # "none"
  PROVE  Opened(e)
<1>1. ~Busy(e)
  BY DEF Alone
<1>2. at[e] \in Idle
  BY <1>1 DEF Busy, Rest, FwStages, Listed, Idle
<1> QED BY <1>2 DEF Opened, Owner, OwnerStages, Idle

-----------------------------------------------------------------------------
(* The entry of a device whose files are there is its own, and, if nothing  *)
(* has overlapped with its probe, the first with its kobject: an entry      *)
(* below that has the same address would be found before it.                *)
EntryInv ==
  fsType = "sys" =>
    /\ \A d \in Devices : Opened(d) => entry[minor[d]] = [kobj |-> kobj[dir[d]], dev |-> d]
    /\ \A d \in Devices :
         ~rival[d] /\ Owner(d) /\ at[d] \in Up =>
           \A m \in Minors : m < minor[d] => entry[m].kobj # kobj[dir[d]]

FileInv == NodeInv /\ HeldInv /\ TreeInv /\ KobjInv /\ Taken /\ EntryInv

(* A device that has a directory after a step had its number before.        *)
LEMMA OwnerMinor ==
  ASSUME TypeOK, NEW d \in Devices, Device(d), NEW e \in Devices, Owner(e)'
  PROVE  minor'[e] = minor[e] /\ minor[e] \in Minors
<1>1. e = d => ~Insert(d) /\ ~Return(d)
  BY DEF Insert, Return, Goto, TypeOK, Owner, OwnerStages
<1>2. minor'[e] = minor[e]
  BY <1>1, MinorStep
<1> QED BY <1>2 DEF TypeOK

LEMMA EntryNext ==
  ASSUME FileInv, [Next]_vars
  PROVE  EntryInv'
<1> USE DEF FileInv, NodeInv, TypeInv
<1>1. CASE Load \/ UNCHANGED vars
  BY <1>1 DEF EntryInv, Owner, Opened, Load, vars, moduleVars, pageVars, listVars, treeVars, ghostVars
<1>2. CASE Unload
  <2>1. \A d \in Devices : ~Owner(d)'
    BY <1>2 DEF Unload, Owner, OwnerStages
  <2> QED BY <2>1 DEF EntryInv, Opened
<1>3. ASSUME NEW d \in Devices, Device(d), fsType = "sys", NEW a \in Devices, Owner(a)'
      PROVE  /\ Opened(a)' => entry'[minor'[a]] = [kobj |-> kobj'[dir'[a]], dev |-> a]
             /\ ~rival'[a] /\ at'[a] \in Up =>
                  \A m \in Minors : m < minor'[a] => entry'[m].kobj # kobj'[dir'[a]]
  <2>0. minor'[a] = minor[a] /\ minor[a] \in Minors /\ fsType' = fsType
    BY <1>3, OwnerMinor, FsTypeSame
  <2>1. ~rival'[a] /\ at'[a] \in Up => ~rival[a] /\ at[a] \in Up
    <3>1. a = d => ~Insert(d)
      BY <1>3 DEF Insert, Goto, TypeOK, Owner, OwnerStages
    <3> QED BY <1>3, <3>1, UpBefore
  <2>2. CASE Owner(a) /\ dir'[a] = dir[a] /\ kobj'[dir[a]] = kobj[dir[a]] /\ (Opened(a)' => Opened(a))
    <3>1. CASE UNCHANGED entry
      BY <2>0, <2>1, <2>2, <3>1, <1>3 DEF EntryInv
    <3>2. CASE Return(d)
      <4>1. a # d
        BY <1>3, <3>2 DEF Return, Goto, TypeOK, Owner, OwnerStages
      <4>2. \A m \in Minors : /\ entry'[m].kobj = entry[m].kobj
                              /\ entry[m].dev # d => entry'[m] = entry[m]
        BY <3>2 DEF Return, TypeOK, Entry
      <4> QED BY <2>0, <2>1, <2>2, <4>1, <4>2, <1>3 DEF EntryInv
    <3>3. CASE FsFiles(d) /\ a # d /\ entry' = [entry EXCEPT ![minor[d]] = [kobj |-> kobj[dir[d]], dev |-> d]]
      <4>1. at[d] = "fsFiles" /\ at[a] \in Listed /\ at[d] \in Listed /\ Owner(d)
        BY <1>3, <2>2, <3>3, DirFilled DEF Owner, OwnerStages, Listed
      <4>2. minor[a] # minor[d] /\ minor[d] \in Minors
        BY <3>3, <4>1, ListedApart DEF TypeOK
      <4>3. kobj[dir[d]] # kobj[dir[a]]
        <5>1. /\ dir[d] \in Names /\ dir[a] \in Names /\ dir[d] # dir[a]
              /\ dirs[dir[d]] # "free" /\ dirs[dir[a]] # "free"
          BY <2>2, <3>3, <4>1 DEF TreeInv, TypeOK
        <5> QED BY <1>3, <5>1 DEF KobjInv
      <4>4. /\ entry'[minor[d]].kobj = kobj[dir[d]]
            /\ \A m \in Minors : m # minor[d] => entry'[m] = entry[m]
        BY <3>3, <4>2 DEF TypeOK
      <4> QED BY <2>0, <2>1, <2>2, <4>2, <4>3, <4>4, <1>3 DEF EntryInv
    <3>4. UNCHANGED entry \/ Return(d)
          \/ (FsFiles(d) /\ entry' = [entry EXCEPT ![minor[d]] = [kobj |-> kobj[dir[d]], dev |-> d]])
      <4>1. FsFiles(d) => UNCHANGED entry
              \/ entry' = [entry EXCEPT ![minor[d]] = [kobj |-> kobj[dir[d]], dev |-> d]]
        BY <1>3, DirFilled
      <4>2. CASE TreeQuiet(d)
        BY <4>2 DEF TreeQuiet
      <4>3. CASE FsScan(d) \/ FsDir(d) \/ DropTree(d)
        BY <4>3 DEF FsScan, FsDir, DropTree
      <4> QED BY <1>3, <4>1, <4>2, <4>3, TreeStep
    <3>5. CASE FsFiles(d) /\ a = d /\ entry' = [entry EXCEPT ![minor[d]] = [kobj |-> kobj[dir[d]], dev |-> d]]
      <4>1. entry'[minor[d]] = [kobj |-> kobj[dir[d]], dev |-> d]
        BY <2>0, <3>5 DEF TypeOK
      <4>2. \A m \in Minors : m # minor[d] => entry'[m] = entry[m]
        BY <2>0, <3>5 DEF TypeOK
      <4>3. \A m \in Minors : m < minor[d] => m # minor[d]
        BY <2>0 DEF Minors
      <4>4. ~rival[a] /\ at[a] \in Up => \A m \in Minors : m < minor[a] => entry[m].kobj # kobj[dir[a]]
        BY <1>3, <2>2 DEF EntryInv
      <4> QED BY <2>0, <2>1, <2>2, <3>5, <4>1, <4>2, <4>3, <4>4
    <3> QED BY <3>1, <3>2, <3>3, <3>4, <3>5
  <2>3. CASE FsFiles(d) /\ a = d
    <3>1. /\ at[d] = "fsFiles" /\ UNCHANGED <<dir, kobj>> /\ at'[d] = "irqs"
          /\ entry' = [entry EXCEPT ![minor[d]] = [kobj |-> kobj[dir[d]], dev |-> d]]
      BY <1>3, <2>3, DirFilled DEF Owner, OwnerStages
    <3>2. entry'[minor[d]] = [kobj |-> kobj[dir[d]], dev |-> d]
      BY <2>0, <2>3, <3>1 DEF TypeOK
    <3>3. \A m \in Minors : m < minor[d] => entry'[m] = entry[m]
      <4>1. \A m \in Minors : m < minor[d] => m # minor[d]
        BY <2>0 DEF Minors
      <4> QED BY <2>0, <2>3, <3>1, <4>1 DEF TypeOK
    <3>4. Owner(d) /\ at[d] \in Up
      BY <1>3, <3>1 DEF Owner, OwnerStages, Up
    <3>5. ~rival[d] => \A m \in Minors : m < minor[d] => entry[m].kobj # kobj[dir[d]]
      BY <1>3, <3>4 DEF EntryInv
    <3> QED BY <2>0, <2>1, <2>3, <3>1, <3>2, <3>3, <3>5
  <2>4. CASE FsDir(d) /\ a = d
    <3>1. PICK k \in Kobjects \ InUse :
            /\ kobj' = [kobj EXCEPT ![dir[d]] = k] /\ UNCHANGED <<dir, entry>> /\ dir[d] \in Names
            /\ at[d] = "fsDir" /\ at'[d] = "fsFiles"
      BY <1>3, <2>4, DirMade DEF Owner, OwnerStages
    <3>2. kobj'[dir'[d]] = k /\ ~Opened(d)'
      BY <3>1 DEF TypeOK, Opened
    <3>3. ASSUME ~rival[d], NEW m \in Minors, m < minor[d] PROVE entry[m].kobj # k
      <4>1. PICK e \in Devices : at[e] \in Listed /\ minor[e] = m
        BY <3>1, <3>3 DEF Taken, Early
      <4>2. e # d /\ Busy(d)
        BY <3>1, <3>3, <4>1 DEF Minors, Busy, Rest, FwStages
      <4>3. Opened(e)
        BY <1>3, <3>3, <4>1, <4>2, IdleOpened
      <4>4. entry[m].kobj = kobj[dir[e]] /\ dirs[dir[e]] # "free" /\ dir[e] \in Names
        <5>1. entry[minor[e]] = [kobj |-> kobj[dir[e]], dev |-> e]
          BY <1>3, <4>3 DEF EntryInv
        <5>2. dirs[dir[e]] # "free" /\ dir[e] \in Names
          BY <4>3 DEF TreeInv, Opened, TypeOK
        <5> QED BY <4>1, <5>1, <5>2
      <4> QED BY <4>4 DEF InUse
    <3> QED BY <2>0, <2>1, <2>4, <3>1, <3>2, <3>3
  <2>5. CASE ~((FsFiles(d) \/ FsDir(d)) /\ a = d)
    <3>1. Owner(a) /\ (Opened(a)' => Opened(a)) /\ dir'[a] = dir[a]
      <4>1. CASE a # d
        BY <1>3, <4>1, OwnerAlike
      <4>2. CASE a = d
        <5>1. TreeQuiet(d)
          <6>1. ~FsScan(d)
            BY <1>3, <4>2 DEF FsScan, Goto, TypeOK, Owner, OwnerStages
          <6>2. ~DropTree(d)
            BY <1>3, <4>2, DirDropped DEF Owner, OwnerStages
          <6>3. ~Return(d)
            BY <1>3, <4>2 DEF Return, Goto, TypeOK, Owner, OwnerStages
          <6> QED BY <1>3, <2>5, <4>2, <6>1, <6>2, <6>3, TreeStep
        <5> QED BY <1>3, <4>2, <5>1 DEF TreeQuiet
      <4> QED BY <4>1, <4>2
    <3>2. kobj'[dir[a]] = kobj[dir[a]]
      <4>0. dir[a] \in Names /\ dirs[dir[a]] # "free"
        BY <3>1 DEF TypeOK, TreeInv
      <4>1. CASE UNCHANGED kobj
        BY <4>1
      <4>2. CASE FsDir(d)
        <5>1. CASE UNCHANGED kobj
          BY <5>1
        <5>2. CASE dirs[dir[d]] = "free" /\ \E k \in Kobjects \ InUse : kobj' = [kobj EXCEPT ![dir[d]] = k]
          BY <4>0, <5>2 DEF TypeOK
        <5> QED BY <1>3, <4>2, <5>1, <5>2, DirMade
      <4>3. CASE DropTree(d)
        <5>1. a # d
          BY <1>3, <4>3, DirDropped DEF Owner, OwnerStages
        <5>2. Owner(d) /\ kobj' = [kobj EXCEPT ![dir[d]] = Nobody] /\ dir[d] \in Names
          BY <1>3, <4>3, DirDropped DEF Owner, OwnerStages
        <5>3. dir[a] # dir[d]
          BY <3>1, <5>1, <5>2 DEF TreeInv
        <5> QED BY <4>0, <5>2, <5>3 DEF TypeOK
      <4>4. CASE TreeQuiet(d) \/ FsScan(d) \/ FsFiles(d) \/ Return(d)
        BY <4>1, <4>4 DEF TreeQuiet, FsScan, FsFiles, Return
      <4> QED BY <1>3, <4>2, <4>3, <4>4, TreeStep
    <3> QED BY <2>2, <3>1, <3>2
  <2> QED BY <2>3, <2>4, <2>5
<1>4. ASSUME NEW d \in Devices, Device(d) PROVE EntryInv'
  <2>1. fsType' = fsType
    BY <1>4, FsTypeSame
  <2> QED BY <1>3, <1>4, <2>1 DEF EntryInv, Opened
<1> QED BY <1>1, <1>2, <1>4 DEF Next

-----------------------------------------------------------------------------
(* As long as no probe or remove has overlapped with another and none has   *)
(* left a directory, a directory has the number of its device, and there    *)
(* are no others.                                                           *)
CalmInv ==
  /\ \A d \in Devices : rival[d] => disturbed
  /\ ~disturbed => \A d \in Devices :
       Owner(d) \/ at[d] = "fsDir" => dir[d] = minor[d]
  /\ ~disturbed => \A n \in Names : dirs[n] # "free" => \E d \in Devices : Owner(d) /\ dir[d] = n

LEMMA DisturbedStep ==
  ASSUME TypeOK, NEW d \in Devices, Device(d), ~disturbed'
  PROVE  /\ ~disturbed
         /\ \A e \in Devices : rival'[e] => rival[e]
<1> USE DEF TypeOK
<1>1. CASE Probe(d) \/ Unplug(d)
  <2>1. Enter(d)
    BY <1>1 DEF Probe, Unplug
  <2>2. ~disturbed /\ {e \in Devices \ {d} : Busy(e)} = {}
    BY <2>1 DEF Enter
  <2> QED BY <2>1, <2>2 DEF Enter
<1>2. CASE ~Probe(d) /\ ~Unplug(d)
  <2>1. ~disturbed
    <3>1. CASE FsFiles(d)
      BY <3>1, DirFilled
    <3>2. CASE ~FsFiles(d)
      <4>1. UNCHANGED disturbed
        BY <1>2, <3>2 DEF Device, ghostVars, Acquire, Insert, CharNode, FeatureNode, CreateNode,
           FsScan, FsDir, InitIrqs, LoadFirmware, ConnectLog, Suspend, Resume, DropTree,
           LeaveList, DropFeatureNode, DropCharNode, DropIrqs, Release, Return
      <4> QED BY <4>1
    <3> QED BY <3>1, <3>2
  <2>2. UNCHANGED rival \/ rival' = [rival EXCEPT ![d] = FALSE]
    BY <1>2 DEF Device, ghostVars, Acquire, Insert, CharNode, FeatureNode, CreateNode,
       FsScan, FsDir, FsFiles, InitIrqs, LoadFirmware, ConnectLog, Suspend, Resume, DropTree,
       LeaveList, DropFeatureNode, DropCharNode, DropIrqs, Release, Return
  <2>3. \A e \in Devices : rival'[e] => rival[e]
    BY <2>2
  <2> QED BY <2>1, <2>3
<1> QED BY <1>1, <1>2

(* The name that is found is the device's number: the lower ones are taken  *)
(* by the devices with those numbers, and this one by nobody.               *)
LEMMA NameFound ==
  ASSUME FileInv, CalmInv, ~disturbed, NEW d \in Devices, FsScan(d)
  PROVE  dir'[d] = minor[d]
<1> USE DEF FileInv, NodeInv, TypeInv
<1>1. /\ at[d] = "fsScan" /\ ~rival[d] /\ fsType # "none" /\ Busy(d)
      /\ dir' = [dir EXCEPT ![d] = CHOOSE n \in Untaken : \A m \in Untaken : n <= m]
  <2>1. at[d] = "fsScan" /\ dir' = [dir EXCEPT ![d] = CHOOSE n \in Untaken : \A m \in Untaken : n <= m]
    BY DEF FsScan, Goto
  <2>2. ~rival[d]
    BY DEF CalmInv
  <2>3. fsType # "none" /\ Busy(d)
    BY <2>1 DEF HeldInv, Sound, TreeOK, Busy, Rest, FwStages
  <2> QED BY <2>1, <2>2, <2>3
<1>2. /\ Cardinality(Devices) \in Nat /\ MaxName \in Nat /\ Cardinality(Devices) <= MaxName
      /\ minor[d] \in Minors
  BY PcieLifeAssumption, FS_CardinalityType DEF PcieLifeAssumption, TypeOK
<1>3. minor[d] \in Nat /\ minor[d] < MaxName /\ minor[d] \in Names
  BY <1>2 DEF Minors, Names
<1>4. minor[d] \in Untaken
  <2> SUFFICES ASSUME dirs[minor[d]] = "open" PROVE FALSE
    BY <1>3 DEF Untaken
  <2>1. PICK e \in Devices : Owner(e) /\ dir[e] = minor[d]
    BY <1>3 DEF CalmInv
  <2>2. minor[e] = minor[d] /\ at[e] \in Listed /\ at[d] \in Listed /\ e # d
    BY <1>1, <2>1 DEF CalmInv, Owner, OwnerStages, Listed
  <2> QED BY <2>2, ListedApart
<1>5. ASSUME NEW n \in Untaken, n < minor[d] PROVE FALSE
  <2>1. n \in Minors /\ dirs[n] # "open" /\ n \in Names
    BY <1>2, <1>3, <1>5 DEF Untaken, Names, Minors
  <2>2. PICK e \in Devices : at[e] \in Listed /\ minor[e] = n
    BY <1>1, <1>5, <2>1 DEF Taken, Early
  <2>3. e # d
    BY <1>3, <1>5, <2>2
  <2>4. Opened(e)
    BY <1>1, <2>2, <2>3, IdleOpened
  <2>5. dir[e] = n
    BY <2>2, <2>4 DEF CalmInv, Opened
  <2> QED BY <2>1, <2>4, <2>5 DEF TreeInv
<1>6. \A n \in Untaken : n \in Nat
  BY <1>2 DEF Untaken, Names
<1>7. \A n \in Untaken : minor[d] <= n
  BY <1>3, <1>5, <1>6
<1>8. \A n \in Untaken : (\A m \in Untaken : n <= m) => n = minor[d]
  BY <1>3, <1>4, <1>6, <1>7
<1>9. (CHOOSE n \in Untaken : \A m \in Untaken : n <= m) = minor[d]
  BY <1>4, <1>7, <1>8, Zenon
<1> QED BY <1>1, <1>9 DEF TypeOK

LEMMA CalmNext ==
  ASSUME FileInv, CalmInv, [Next]_vars
  PROVE  CalmInv'
<1> USE DEF FileInv, NodeInv, TypeInv
<1>1. CASE Load \/ Unload \/ UNCHANGED vars
  BY <1>1 DEF CalmInv, Owner, Load, Unload, vars, moduleVars, pageVars, listVars, treeVars, ghostVars
<1>2. ASSUME NEW d \in Devices, Device(d) PROVE CalmInv'
  <2>1. \A e \in Devices : rival'[e] => disturbed'
    BY <1>2, DisturbedStep DEF CalmInv, TypeOK
  <2> SUFFICES ASSUME ~disturbed'
               PROVE  /\ \A e \in Devices : Owner(e)' \/ at'[e] = "fsDir" => dir'[e] = minor'[e]
                      /\ \A n \in Names : dirs'[n] # "free" => \E e \in Devices : Owner(e)' /\ dir'[e] = n
    BY <2>1 DEF CalmInv
  <2>2. ~disturbed
    BY <1>2, DisturbedStep
  <2>3. \A e \in Devices : e # d => /\ Owner(e)' <=> Owner(e)
                                    /\ dir'[e] = dir[e] /\ minor'[e] = minor[e] /\ at'[e] = at[e]
    BY <1>2, OwnerAlike
  <2>4. \A e \in Devices : e # d => (Owner(e)' \/ at'[e] = "fsDir" => dir'[e] = minor'[e])
    BY <2>2, <2>3 DEF CalmInv
  <2>5. \A n \in Names : dirs[n] # "free" => \E e \in Devices : Owner(e) /\ dir[e] = n
    BY <2>2 DEF CalmInv
  <2>6. CASE TreeQuiet(d)
    <3>1. Owner(d)' \/ at'[d] = "fsDir" => dir'[d] = minor'[d]
      <4> SUFFICES ASSUME Owner(d)' PROVE dir'[d] = minor'[d]
        BY <2>6 DEF TreeQuiet
      <4> QED BY <1>2, <2>2, <2>6, OwnerMinor DEF TreeQuiet, CalmInv
    <3>2. \A e \in Devices : Owner(e) => Owner(e)' /\ dir'[e] = dir[e]
      BY <2>3, <2>6 DEF TreeQuiet
    <3> QED BY <2>4, <2>5, <2>6, <3>1, <3>2 DEF TreeQuiet
  <2>7. CASE FsScan(d)
    <3>1. dir'[d] = minor'[d]
      BY <2>2, <2>7, NameFound DEF FsScan, listVars
    <3>2. UNCHANGED dirs /\ ~Owner(d)
      BY <2>7 DEF FsScan, Goto, Owner, OwnerStages
    <3> QED BY <2>3, <2>4, <2>5, <3>1, <3>2
  <2>8. CASE FsDir(d)
    <3>1. dir'[d] = minor'[d] /\ UNCHANGED dir /\ ~Owner(d) /\ dir[d] \in Names
      BY <2>2, <2>8, DirMade DEF CalmInv, Owner, OwnerStages
    <3>2. CASE UNCHANGED dirs
      BY <2>3, <2>4, <2>5, <3>1, <3>2
    <3>3. CASE at'[d] = "fsFiles" /\ dirs' = [dirs EXCEPT ![dir[d]] = "bare"]
      <4>1. Owner(d)'
        BY <1>2, <2>8, <3>3, FsTypeSame DEF Owner, OwnerStages, HeldInv, Sound, TreeOK, FsDir, Goto
      <4>2. \A n \in Names : n # dir[d] => dirs'[n] = dirs[n]
        BY <3>3 DEF TypeOK
      <4> QED BY <2>3, <2>4, <2>5, <3>1, <4>1, <4>2
    <3> QED BY <2>8, <3>2, <3>3, DirMade
  <2>9. CASE FsFiles(d) \/ DropTree(d)
    <3>1. CASE Owner(d)
      <4>1. UNCHANGED <<dir, minor>> /\ dir[d] = minor[d] /\ at'[d] # "fsDir"
        BY <2>2, <2>9, <3>1, DirFilled, DirDropped DEF CalmInv
      <4>2. \A n \in Names : n # dir[d] => dirs'[n] = dirs[n]
        BY <2>9, <3>1, DirFilled, DirDropped DEF TypeOK, Owner
      <4>3. dirs'[dir[d]] = "free" \/ Owner(d)'
        <5>1. CASE DropTree(d)
          BY <3>1, <5>1, DirDropped DEF TypeOK, Owner
        <5>2. CASE FsFiles(d)
          BY <3>1, <5>2, DirFilled DEF TypeOK, Owner, OwnerStages
        <5> QED BY <2>9, <5>1, <5>2
      <4> QED BY <2>3, <2>4, <2>5, <4>1, <4>2, <4>3
    <3>2. CASE ~Owner(d)
      <4>1. fsType = "none"
        BY <2>9, <3>2, DirFilled, DirDropped DEF Owner, OwnerStages
      <4>2. UNCHANGED <<dirs, dir>> /\ ~Owner(d)' /\ at'[d] # "fsDir"
        <5>1. ~FsFiles(d)
          BY <4>1, DirFilled DEF HeldInv, Sound, TreeOK
        <5> QED BY <2>9, <4>1, <5>1, DirDropped DEF Owner, OwnerStages
      <4> QED BY <2>3, <2>4, <2>5, <3>2, <4>2
    <3> QED BY <3>1, <3>2
  <2>10. CASE Return(d)
    <3>1. UNCHANGED dirs /\ ~Owner(d) /\ ~Owner(d)' /\ at'[d] # "fsDir"
      BY <2>10 DEF Return, Goto, TypeOK, Owner, OwnerStages
    <3> QED BY <2>3, <2>4, <2>5, <3>1
  <2> QED BY <1>2, <2>6, <2>7, <2>8, <2>9, <2>10, TreeStep
<1> QED BY <1>1, <1>2 DEF Next

LEMMA FileAlways == Spec => [](FileInv /\ CalmInv)
<1>1. Init => TreeInv /\ KobjInv /\ Taken /\ EntryInv /\ CalmInv
  <2> SUFFICES ASSUME Init PROVE TreeInv /\ KobjInv /\ Taken /\ EntryInv /\ CalmInv
    OBVIOUS
  <2>1. \A d \in Devices : at[d] = "unbound" /\ ~Owner(d) /\ ~rival[d]
    BY DEF Init, Owner, OwnerStages
  <2>2. \A n \in Names : dirs[n] = "free"
    BY DEF Init
  <2> QED BY <2>1, <2>2 DEF TreeInv, KobjInv, Taken, Early, EntryInv, Opened, CalmInv
<1>2. NodeInv /\ HeldInv /\ TreeInv /\ KobjInv /\ Taken /\ EntryInv /\ CalmInv /\ [Next]_vars
        => (TreeInv /\ KobjInv /\ Taken /\ EntryInv /\ CalmInv)'
  BY TreeNext, KobjNext, TakenNext, EntryNext, CalmNext DEF FileInv, NodeInv, TypeInv
<1> QED BY <1>1, <1>2, NodeAlways, HeldAlways, PTL DEF Spec, FileInv

(* A file of a bound device's tree works on that device, although the map   *)
(* keeps old entries and addresses are used again; and as long as nothing   *)
(* has overlapped or been left the tree has the number of the nodes.        *)
THEOREM FilesCorrect == Spec => []FilesAreOwn
<1>1. FileInv /\ CalmInv => FilesAreOwn
  <2> SUFFICES ASSUME FileInv, CalmInv, NEW d \in Devices, at[d] = "bound", fsType # "none"
               PROVE  /\ ~rival[d] => Reached(d) = {d}
                      /\ ~disturbed => dir[d] = minor[d]
    BY DEF FilesAreOwn
  <2>1. Opened(d) /\ Owner(d) /\ at[d] \in Up
    BY DEF Opened, Owner, OwnerStages, Up
  <2>2. ~disturbed => dir[d] = minor[d]
    BY <2>1 DEF CalmInv
  <2>3. ASSUME ~rival[d] PROVE Reached(d) = {d}
    <3>1. CASE fsType = "proc"
      BY <3>1 DEF Reached
    <3>2. CASE fsType = "sys"
      <4> DEFINE hits == {m \in Minors : entry[m].kobj = kobj[dir[d]]}
      <4>1. entry[minor[d]] = [kobj |-> kobj[dir[d]], dev |-> d] /\ minor[d] \in Minors
        BY <2>1, <3>2 DEF FileInv, EntryInv, NodeInv, TypeInv, TypeOK
      <4>2. \A m \in Minors : m < minor[d] => entry[m].kobj # kobj[dir[d]]
        BY <2>1, <2>3, <3>2 DEF FileInv, EntryInv
      <4>3. minor[d] \in hits /\ \A m \in hits : ~(m < minor[d])
        BY <4>1, <4>2
      <4>4. \A m \in hits : m \in Int
        BY DEF Minors
      <4> HIDE DEF hits
      <4>5. {m \in hits : \A n \in hits : m <= n} = {minor[d]}
        BY <4>3, <4>4
      <4>6. Reached(d) = {entry[m].dev : m \in {m \in hits : \A n \in hits : m <= n}}
        BY <3>2 DEF Reached, hits
      <4> QED BY <4>1, <4>5, <4>6
    <3>3. fsType \in {"none", "proc", "sys"}
      BY PcieLifeAssumption DEF PcieLifeAssumption, FileInv, NodeInv, TypeInv, TypeOK
    <3> QED BY <3>1, <3>2, <3>3
  <2> QED BY <2>2, <2>3
<1> QED BY <1>1, FileAlways, PTL
=============================================================================
