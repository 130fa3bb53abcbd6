\* arm-update typed while the boot-ok service runs.
SPECIFICATION Spec
CONSTANTS
  p1 = p1
  p2 = p2
  MaxTries = 15
  Procs = {p1, p2}
  Commands <- OverlapCommands
  BootBlocks <- OverlapBlocks
  Overlap = TRUE
CHECK_DEADLOCK FALSE
INVARIANT
  PromiseKept
