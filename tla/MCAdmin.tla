------------------------------ MODULE MCAdmin -------------------------------
(* Instances of MxAdmin for TLC: two chips and a chip number nobody has.    *)
EXTENDS MxAdmin, TLC

CONSTANTS t1, t2, c0, c1, c9

TwoThreads == {t1, t2}
AllSlots   == {c0, c1, c9}
TwoChips   == {c0, c1}
One(c) == [kind |-> "one", chips |-> <<c>>]
Fs(c)  == [kind |-> "fs",  chips |-> <<c>>]
Dfp(s) == [kind |-> "dfp", chips |-> s]

\* A download may name a chip that is not there, or one twice.
AllCalls  == {One(c0), One(c9), Fs(c9), NoCall, Dfp(<<c0, c1>>), Dfp(<<c1, c9, c0>>), Dfp(<<c0, c0>>)}
Downloads == {Dfp(<<c0, c1>>)}

ThreadSymmetry == Permutations(TwoThreads)
=============================================================================
