\* Both slots written from the OS, the running one included, and repaired.
SPECIFICATION FairSpec
CONSTANTS
  f = f
  g = g
  l = l
  e = e
  m = m
  NoImage = NoImage
  Images = {f, g}
  Factory = f
  Version <- MCVersion
  Dies <- MCDies
  Fits <- MCFits
  NBlocks = 2
  OsOps = {"stage", "flash", "inplace"}
  MaxTries = 1
  MaxFaults = 2
INVARIANT
  RecoveryReportsIdle
PROPERTIES
  RecoveryMeansBroken
  ComesUp
