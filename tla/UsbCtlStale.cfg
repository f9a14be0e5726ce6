\* A debug command that was late, then a register read.
CONSTANTS
  t1 = t1
  t2 = t2
  Threads <- TwoThreads
  NoThread = NoThread
  Casts <- Reads
  MayTimeOut = TRUE
  MayRefuse = FALSE
  Erring = {}
  MaxCalls = 2
SPECIFICATION Spec
SYMMETRY ThreadSymmetry
INVARIANTS AnswerIsOwn
