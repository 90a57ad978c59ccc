SPECIFICATION Spec
CONSTANTS
  Readers = {r1, r2}
  NoCall = NoCall
  BlockSize = 2
  FileLen = 1
  Reported = {TRUE}
  Sizes = {1}
  MaxExpiries = 1
  MaxFaults = 0
INVARIANTS
  OneExpiryIsAbsorbed
