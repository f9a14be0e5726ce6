\* A reader that also writes, a controller that also writes, a device that answers.
CONSTANTS
  t1 = t1
  t2 = t2
  t3 = t3
  Threads <- FirstTwo
  Readers <- OnlyOne
  Writers <- FirstTwo
  Controllers <- OnlyTwo
  Chips = {c0, c1}
  Unrung = {c1}
  FifoCap = 1
  Signals = TRUE
  MaxStale = 1
  MaxLeaks = 0
  NoThread = NoThread
  NoChip = NoChip
SPECIFICATION FairSpec
INVARIANTS WriteHasOwnAnswer
PROPERTIES WriteReturns AbortReturns AbortFreesReader
