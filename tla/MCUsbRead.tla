------------------------------ MODULE MCUsbRead ------------------------------
(* An instance of MxUsbRead for TLC: two threads.                           *)
EXTENDS MxUsbRead

CONSTANTS t1, t2

Two        == {t1, t2}
Everything == Operations
=============================================================================
