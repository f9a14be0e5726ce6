\* No signal and no abort: five timeouts are enough for a late ack.
CONSTANTS
  u1 = u1
  u2 = u2
  p1 = p1
  d1 = d1
  d2 = d2
  Users <- TwoUsers
  Drivers = {}
  Devices <- JustOne
  DevOf <- UsersOnOne
  FailAckCount = 2
  Booted = TRUE
  Signals = FALSE
  Aborts = FALSE
  MaxCalls = 3
  Nobody = Nobody
SPECIFICATION Spec
INVARIANTS AckIsOwn
SYMMETRY UserSymmetry
