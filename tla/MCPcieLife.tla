---------------------------- MODULE MCPcieLife ------------------------------
(* Instances of MxPcieLife for TLC: two devices.                            *)
EXTENDS MxPcieLife

CONSTANTS d1, d2, k1, k2

TwoDevices == {d1, d2}
Addresses  == {k1, k2}
DeviceSymmetry == Permutations({d1, d2}) \cup Permutations({k1, k2})
=============================================================================
