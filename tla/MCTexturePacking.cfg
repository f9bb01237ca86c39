SPECIFICATION Spec
CONSTANTS
  i1 = i1  i2 = i2  i3 = i3  i4 = i4  i5 = i5
  Images = {i1, i2, i3, i4, i5}
  Width = 4
  Height = 4
  Widths <- UpTo3
  Heights <- UpTo3
  Blank = Blank
  Nowhere = Nowhere
SYMMETRY Symmetry
CHECK_DEADLOCK FALSE
INVARIANTS TypeOK Partition ImagesIntact TilesFill
PROPERTIES IsAtlas
