SPECIFICATION Spec
CONSTANTS
  MaxObjects = 5
  NoObject = NoObject
  Shapes <- SomeShapes
  AfterReplace = 2
INVARIANTS TypeOK OwnedOnce LinksAgree NoDangling
PROPERTIES DeleteIsExact CutLosesNothing SwapExchangesPlaces MergeKeepsAncestry
  ReplaceKeepsTheRest UndoRedoRelinks
VIEW UpToRenaming
CHECK_DEADLOCK FALSE
