\* Three requests at a time, for two devices that may come back after a deletion.
CONSTANTS
  Devices = {d1, d2}
  Users = {u1, u2, u3}
  Threads = {t1, t2, t3}
  None = None
SPECIFICATION Spec
SYMMETRY Symmetry
INVARIANTS
  NoDanglingDevice
  HoldersKeepAccount
  DeletedIsGone
PROPERTIES
  ImplementsRegistry
