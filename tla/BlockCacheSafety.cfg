SPECIFICATION Spec
CONSTANTS
  Threads = {t1, t2, t3}
  Keys = {a, b}
  Lengths = {1, 2}
  MaxBytes = 2
  NoCall = NoCall
  MaxLeft = 0
SYMMETRY Interchangeable
INVARIANTS
  TypeOK
  SingleFlight
  WholeBlocks
  NoOrphan
  UsedAccounting
  NewestSurvives
