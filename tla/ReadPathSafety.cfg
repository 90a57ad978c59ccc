SPECIFICATION Spec
CONSTANTS
  Readers = {r1, r2}
  NoCall = NoCall
  BlockSize = 2
  FileLen = 3
  Reported = {TRUE, FALSE}
  Sizes = {1, 3}
  MaxExpiries = 1
  MaxFaults = 1
SYMMETRY Interchangeable
INVARIANTS
  TypeOK
  ReturnsWhatTorBoxSent
