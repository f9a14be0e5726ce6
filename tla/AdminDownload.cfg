\* A download to two chips, both quick; one reports an error.
CONSTANTS
  t1 = t1
  t2 = t2
  c0 = c0
  c1 = c1
  c9 = c9
  Threads <- TwoThreads
  Slots <- AllSlots
  Chips <- TwoChips
  NoThread = NoThread
  Given <- Downloads
  MayTimeOut = FALSE
  MaxCalls = 1
SPECIFICATION Spec
SYMMETRY ThreadSymmetry
INVARIANTS DownloadEndsDone
