\* The four profiles and an option that is none of them.
SPECIFICATION FairSpec
CONSTANTS
  Temps <- MCTemps
  Options = {0, 1, 2, 3, 7}
INVARIANTS
  TypeOK
  RegisterSafe
  OsAgrees
  EscalatesFirst
PROPERTIES
  HysteresisHolds
  ComesToRest
