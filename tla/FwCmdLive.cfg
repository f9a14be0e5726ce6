\* Two devices share the semaphore; either firmware may be silent.
CONSTANTS
  u1 = u1
  u2 = u2
  p1 = p1
  d1 = d1
  d2 = d2
  Users <- TwoUsers
  Drivers = {}
  Devices <- Two
  DevOf <- UsersApart
  FailAckCount = 2
  Booted = TRUE
  Signals = FALSE
  Aborts = TRUE
  MaxCalls = 2
  Nobody = Nobody
SPECIFICATION FairSpec
PROPERTIES CallReturns
