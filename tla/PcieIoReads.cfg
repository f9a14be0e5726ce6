\* Two readers race for notifications; a third thread controls the device.
CONSTANTS
  t1 = t1
  t2 = t2
  t3 = t3
  Threads <- AllThreads
  Readers <- FirstTwo
  Writers = {}
  Controllers <- OnlyThree
  Chips = {c0, c1}
  Unrung = {}
  FifoCap = 2
  Signals = TRUE
  MaxStale = 1
  MaxLeaks = 1
  NoThread = NoThread
  NoChip = NoChip
SPECIFICATION Spec
INVARIANTS EmptyPopNeedsRival FlagsOfThisSession
PROPERTIES AbortNotForgotten
