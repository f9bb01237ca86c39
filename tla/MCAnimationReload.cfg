SPECIFICATION Spec
CONSTANTS
  p1 = p1
  Properties = {p1}
  MaxTime = 2
  Value <- Values
  LinearInterp <- FloatInterp
  Lengths = {}
  StartLength = 2
  Ticks = {}
  Rounded = {}
  StrayKey = FALSE
  Reloading = TRUE
PROPERTIES OnlyModifiedAreKeyed
