------------------------------ MODULE MCPcieIo ------------------------------
(* Instances of MxPcieIo for TLC: up to three threads, who reads, who       *)
(* writes and who controls being chosen by the configuration.               *)
EXTENDS MxPcieIo

CONSTANTS t1, t2, t3

AllThreads == {t1, t2, t3}
FirstTwo   == {t1, t2}
OnlyOne    == {t1}
OnlyTwo    == {t2}
OnlyThree  == {t3}
=============================================================================
