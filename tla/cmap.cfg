CONSTANTS
  Keys = {k1, k2}
  Documented = {k1}
  Threads = {t1, t2}
  Objects = {o1, o2, o3}
  Nil = Nil
SPECIFICATION FairSpec
INVARIANTS Canonical SafeStays CmapInv
PROPERTIES LiveEntryStays DeadEntryGoes
CHECK_DEADLOCK FALSE
