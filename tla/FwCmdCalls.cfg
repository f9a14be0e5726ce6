\* Two users, and probe or resume, of a device whose firmware is booting.
CONSTANTS
  u1 = u1
  u2 = u2
  p1 = p1
  d1 = d1
  d2 = d2
  Users <- TwoUsers
  Drivers <- OneDriver
  Devices <- JustOne
  DevOf <- AllOnOne
  FailAckCount = 2
  Booted = FALSE
  Signals = TRUE
  Aborts = TRUE
  MaxCalls = 2
  Nobody = Nobody
SPECIFICATION Spec
INVARIANTS TypeOK AckIsOwnUnlessLeft ResultIsOwn
PROPERTIES FirmwareSeesTheCommand
SYMMETRY UserSymmetry
