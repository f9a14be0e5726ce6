\* Every call, one of them after another of them or beside it.
CONSTANTS
  t1 = t1
  t2 = t2
  Threads <- TwoThreads
  NoThread = NoThread
  Casts <- AllCalls
  MayTimeOut = TRUE
  MayRefuse = TRUE
  Erring = {2, 5}
  MaxCalls = 2
SPECIFICATION FairSpec
INVARIANTS TypeOK DoneIsDone SentIntact AnswerIsOwnUnlessSpoilt
PROPERTIES CallReturns
