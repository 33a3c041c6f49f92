\* Two requests at a time, for two devices, one of which may come back.
CONSTANTS
  Devices = {d1, d2}
  Users = {u1, u2, u3}
  Threads = {t1, t2}
  None = None
  MaxFailures = 1
SPECIFICATION Spec
SYMMETRY Symmetry
INVARIANTS
  HoldersKeepAccount
  DeletedIsGone
PROPERTIES
  ImplementsRegistry
