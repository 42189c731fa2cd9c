SPECIFICATION Spec
CONSTANTS
  Threads = {t1, t2, t3}
  ObserverLocks = {"queueMutex", "tradeMutex"}
SYMMETRY ThreadSymmetry
INVARIANTS
  LocksTypeOK
  RacesOnlyWhereUnprotected
  NoCircularWait
