SPECIFICATION FairSpec
CONSTANTS
  Threads = {t1, t2}
  Keys = {a, b}
  Lengths = {2}
  MaxBytes = 2
  NoCall = NoCall
  MaxLeft = 2
INVARIANTS
  NoOrphan
  UsedAccounting
PROPERTIES
  EveryCallReturns
  ImplementsSharedFetch
