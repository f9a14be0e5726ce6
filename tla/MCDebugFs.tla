----------------------------- MODULE MCDebugFs -----------------------------
(* An instance of MxDebugFs, and of MxXflow in it, for TLC.  Jobs that     *)
(* share no state are not run together.                                    *)
EXTENDS MxDebugFs, TLC

Symmetry == Permutations(Users)

Cast(kinds, n) == [kinds |-> kinds, jobs |-> n]

MCCasts == {
  Cast({"register"}, 3),
  Cast({"register", "unplug"}, 2),
  Cast({"write", "thermal", "rmtcmd", "stray"}, 2),
  Cast({"read", "write", "stray"}, 3),
  Cast({"thermal"}, 3),
  Cast({"thermal", "rmtcmd"}, 2),
  Cast({"memx", "fwlog"}, 4),
  Cast({"memx", "fwlog", "pointer"}, 3),
  Cast({"memx", "fwlog", "connect"}, 3),
  Cast({"update", "unplug"}, 2),
  Cast({"choose", "show"}, 4) }
=============================================================================
