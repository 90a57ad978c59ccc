SPECIFICATION FairSpec
CONSTANTS
  Readers = {r1, r2}
  MaxTasks = 4
  Slots = 2
  BlockSize = 2
  FileLen = 6
  Ahead = 3
  Reads <- SomeReads
  Reported = {TRUE}
INVARIANTS
  TypeOK
  SlotsAreHeld
  WorkFollowsReader
PROPERTIES
  ReadsReturn
  SlotsComeBack
