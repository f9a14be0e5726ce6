\* Two to four jobs of two processes: files of /proc or /sys and register calls, over
\* a cascade of two chips, in each of the four layouts of the BARs.  In "short"
\* chip 1 has no window.  The jobs are bounded, so the system stops.
CONSTANTS
  Users = {u1, u2}
  MaxChip = 1
  Reach = 1
  MaxJobs = 4
  Modes = {"direct", "short", "fourBar", "mailbox"}
  LogSize = 3
  Casts <- MCCasts
  NoCall = NoCall
SPECIFICATION DSpec
SYMMETRY Symmetry
INVARIANTS TypeOK WindowsAtRest CommandIsWhole LogPrintedOnce PassIsWritten ThermalAgrees PinIsLabelled
PROPERTY RegistersRefined
CHECK_DEADLOCK FALSE
