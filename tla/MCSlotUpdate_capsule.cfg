\* Updates by capsule alone: fwupd or the kernel's loader.
SPECIFICATION FairSpec
CONSTANTS
  f = f
  g = g
  l = l
  e = e
  m = m
  NoImage = NoImage
  Images = {f, g, l, e, m}
  Factory = f
  Version <- MCVersion
  Dies <- MCDies
  Fits <- MCFits
  NBlocks = 2
  OsOps = {"stage"}
  MaxTries = 2
  MaxFaults = 2
INVARIANTS
  TypeOK
  FallbackSurvives
  CounterWaits
  ArmedSlotWhole
PROPERTIES
  WritesTargetOnly
  ImplementsSafeUpdate
  SuccessMeansArmed
  ReportSticks
  ComesUp
