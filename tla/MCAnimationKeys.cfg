SPECIFICATION Spec
CONSTANTS
  p1 = p1
  Properties = {p1}
  MaxTime = 2
  Value <- FewValues
  LinearInterp <- FloatInterp
  Lengths = {1}
  StartLength = 2
  Ticks = {0, 1}
  Rounded = {}
  StrayKey = FALSE
  Reloading = TRUE
INVARIANTS TypeOK KeysSorted PoseIsAnimated
PROPERTIES IsKeyFrames ScrubbingKeysNothing
