\* Fetches that stop midway, builds after them.
SPECIFICATION Spec
CONSTANTS
  Refs = {1, 2}
  Moving = {"coreboot"}
  Recuts = {"edk2"}
  Pinned = {}
  Works = {1, 2}
  Vetted = {1, 2}
  MaxFaults = 1
INVARIANTS
  TypeOK
  StampMeansWhole
  Edk2Recorded
  RefreshRepairs
  RomFollowsConfig
PROPERTIES
  TakesOverFetched
