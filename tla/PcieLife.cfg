\* Two devices come, fail, go, sleep and come again, one beside the other.
CONSTANTS
  d1 = d1
  d2 = d2
  k1 = k1
  k2 = k2
  Devices <- TwoDevices
  MaxName = 3
  Kobjects <- Addresses
  FsTypes = {"none", "proc", "sys"}
  Unaligned = {"proc"}
  MaxLoads = 1
  MaxProbes = 3
  Nobody = Nobody
SPECIFICATION Spec
INVARIANTS TypeOK ListOrdered NodesAreOwn FilesAreOwn NothingLeft ReachableIsLive
SYMMETRY DeviceSymmetry
CHECK_DEADLOCK FALSE
