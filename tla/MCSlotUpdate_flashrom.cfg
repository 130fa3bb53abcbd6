\* Updates with flashrom and vbnv.py, the slot not running alone.
SPECIFICATION Spec
CONSTANTS
  f = f
  g = g
  l = l
  e = e
  m = m
  NoImage = NoImage
  Images = {f, g, l}
  Factory = f
  Version <- MCVersion
  Dies <- MCDies
  Fits <- MCFits
  NBlocks = 2
  OsOps = {"flash", "arm", "trynext"}
  MaxTries = 2
  MaxFaults = 1
INVARIANTS
  FallbackSurvives
  CounterWaits
