SPECIFICATION Spec
CONSTANTS
  Readers = {r1}
  NoCall = NoCall
  BlockSize = 2
  FileLen = 4
  Reported = {FALSE}
  Sizes = {1, 3}
  MaxExpiries = 0
  MaxFaults = 0
INVARIANTS
  TailIsReadable
