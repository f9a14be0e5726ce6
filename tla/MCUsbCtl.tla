------------------------------ MODULE MCUsbCtl ------------------------------
(* Instances of MxUsbCtl for TLC: two callers.                              *)
EXTENDS MxUsbCtl, TLC

CONSTANTS t1, t2

TwoThreads == {t1, t2}

Sections == {MpuSize, ConfigMpuGroup, ResetDevice, FlashDownload(1), WriteReg(1), ReadReg,
             FwUpdateStatus, DebugCommand, Admin, WritePieces(2)}
Models   == {SeparateConfig(1), SeparateWtmem(1), WritePieces(1)}
I2c      == {I2cIoctl, I2cFile}
Files    == {SetThermal(2), EnableDebug(1), UpdateFlash(1, 1)}
Short    == {FileCommand, FileLog, Utilization, GpioFile, <<FwUpdateStatus>>, <<ResetDevice>>,
             <<WritePieces(1)>>}

AllCalls == <<{<<s>> : s \in Sections}, {<<s>> : s \in Models}, I2c, Files, Short>>
Reads    == <<{<<DebugCommand>>, <<ReadReg>>}>>

ThreadSymmetry == Permutations(TwoThreads)
=============================================================================
