SPECIFICATION FairSpec
CONSTANTS
  Readers = {r1, r2}
  NoCall = NoCall
  BlockSize = 2
  FileLen = 2
  Reported = {TRUE}
  Sizes = {1}
  MaxExpiries = 1
  MaxFaults = 1
PROPERTIES
  EveryReadReturns
  ReadsRecover
