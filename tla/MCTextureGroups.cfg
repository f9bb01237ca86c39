CONSTANTS
  arm = arm
  arm00 = arm00
  col = col
  none = none
  Names <- ThreeNames
  NoName = none
  Numbered <- WithZeros
  ColourName = col
  Contents <- ThreeArchives
  Polys = {p}
  NumBackups = 2
  MaxGroups = 1
  MaxColours = 1
  Absent = Absent
  Null = Null
VIEW WhatMatters
SPECIFICATION Spec
INVARIANTS TypeOK GroupsHoldOwned
PROPERTIES  SavedNamesResolve NamesAreLostOnlyIfMissing
