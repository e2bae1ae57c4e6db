SPECIFICATION FairSpec
CONSTANTS
  a = a
  b = b
  Absent = Absent
  LegacyNames <- TwoLegacy
  OldBuilds = 2
  MaxBuilds = 5
INVARIANTS
  NothingTornIsServed
PROPERTIES
  KeepsPromise
  GapCloses
CHECK_DEADLOCK FALSE
