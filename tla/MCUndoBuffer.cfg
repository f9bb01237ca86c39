SPECIFICATION Spec
CONSTANTS
  o1 = o1  o2 = o2
  b1 = b1  b2 = b2  b3 = b3  b4 = b4
  Objects = {o1}
  Poses = 2
  MergeOps = {OT_Move}
  Atomic = OT_Atomic
  NoKey = NoKey
  Blocks = {b1, b2, b3}
  AddrOf <- OwnAddresses
  Recycle = FALSE
  KeyingModes <- OnOff
  DefaultNumBackups = 3
  BufferSizes <- Sizes
SYMMETRY Symmetry
INVARIANTS TypeOK PositionValid ShownIsRecorded MergeSelectsTheSame
PROPERTIES KeepsHistory PastIsKept AutoKeyingRecords MergeKeepsUnrecorded
