\* arm-update told to try the running slot.
SPECIFICATION Spec
CONSTANTS
  f = f
  g = g
  l = l
  e = e
  m = m
  NoImage = NoImage
  Images = {f, g, l}
  Factory = f
  Version <- MCVersion
  Dies <- MCDies
  Fits <- MCFits
  NBlocks = 2
  OsOps = {"flash", "arm", "inplace"}
  MaxTries = 1
  MaxFaults = 0
PROPERTY
  TrialHoldsCounter
