\* Banks, requests and ROMs in any order, two faults.
SPECIFICATION FairSpec
CONSTANTS
  Files <- MCFiles
  Table <- MCTable
  LogSize = 6
  Algs = {"sha1", "sha256"}
  MaxFaults = 2
INVARIANTS
  TypeOK
  PcrsReconstruct
  NextLogParses
  OpenThenShut
  ResetRomClears
PROPERTY
  ReachesOs
