\* Commands one after the other, firmware before them, power cuts in between.
SPECIFICATION Spec
CONSTANTS
  p1 = p1
  p2 = p2
  MaxTries = 15
  Procs = {p1, p2}
  Commands <- MCCommands
  BootBlocks <- MCBootBlocks
  Overlap = FALSE
CHECK_DEADLOCK FALSE
INVARIANTS
  TypeOK
  TornCaught
  EditsAsFields
  PromiseKept
