SPECIFICATION Spec
CONSTANTS
  MaxObjects = 4
  NoObject = NoObject
  Shapes <- JustPair
  AfterReplace = 4
INVARIANTS AssertionsHold
