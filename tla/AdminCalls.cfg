\* Two callers, every kind of call, chips that may be slow or silent.
CONSTANTS
  t1 = t1
  t2 = t2
  c0 = c0
  c1 = c1
  c9 = c9
  Threads <- TwoThreads
  Slots <- AllSlots
  Chips <- TwoChips
  NoThread = NoThread
  Given <- AllCalls
  MayTimeOut = TRUE
  MaxCalls = 2
SPECIFICATION FairSpec
INVARIANTS AnswerIsOwnUnlessSpoilt RunsOnceUnlessSpoilt
PROPERTIES CallReturns
