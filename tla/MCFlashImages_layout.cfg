\* ROMs, backups, capsules and settings over five layouts.
SPECIFICATION Spec
CONSTANTS
  NoHead = NoHead
  User = User
  Factory = 1
  Releases = {2}
  Layouts <- MCLayouts
  Map <- MCMap
  Size = 11
  FspTakes = {0, 4}
  CutAt = {8}
  MaxFileOps = 4
INVARIANT
  TypeOK
PROPERTIES
  OnlySettingsMove
  HalfLandsWhole
  SealedStays
