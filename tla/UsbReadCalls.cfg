\* Two threads that may call anything.
CONSTANTS
  t1 = t1
  t2 = t2
  Threads <- Two
  Ops <- Everything
  Signals = TRUE
  BadBuffers = TRUE
  MaxTransfers = 2
  NoThread = NoThread
SPECIFICATION FairSpec
INVARIANTS NoResidue EmptyHasCause DeliveredOnce
PROPERTIES AbortIsTaken AbortFreesReader AbortReturns
