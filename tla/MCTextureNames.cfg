CONSTANTS
  hull = hull
  dirhull = dirhull
  skin = skin
  none = none
  Names <- ThreeImages
  Files <- TwoFiles
  NoName = none
  BaseName <- WithoutDirectory
  Converted = dirhull
  NumBackups = 2
SPECIFICATION BindingsSpec
PROPERTIES NamesAreWritten
