\* The lock moves to a newer libreboot, no fetch stops.
SPECIFICATION Spec
CONSTANTS
  Refs = {1, 2}
  Moving = {"libreboot"}
  Recuts = {}
  Pinned = {1}
  Works = {1}
  Vetted = {1}
  MaxFaults = 0
INVARIANT
  RomFollowsLock
