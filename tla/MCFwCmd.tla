------------------------------ MODULE MCFwCmd -------------------------------
(* Instances of MxFwCmd for TLC: three threads on one device or on two.     *)
EXTENDS MxFwCmd, TLC

CONSTANTS u1, u2, p1, d1, d2

TwoUsers  == {u1, u2}
OneDriver == {p1}
UsersOnOne == [t \in {u1, u2} |-> d1]
UsersApart == [t \in {u1, u2} |-> IF t = u1 THEN d1 ELSE d2]
AllOnOne  == [t \in {u1, u2, p1} |-> d1]
JustOne   == {d1}
Two       == {d1, d2}

UserSymmetry == Permutations(TwoUsers)
=============================================================================
