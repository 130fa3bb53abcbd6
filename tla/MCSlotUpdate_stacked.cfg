\* A trial armed from the OS meets a staged capsule.
SPECIFICATION Spec
CONSTANTS
  f = f
  g = g
  l = l
  e = e
  m = m
  NoImage = NoImage
  Images = {f, g, l}
  Factory = f
  Version <- MCVersion
  Dies <- MCDies
  Fits <- MCFits
  NBlocks = 2
  OsOps = {"stage", "flash", "arm"}
  MaxTries = 1
  MaxFaults = 0
INVARIANT
  FallbackSurvives
