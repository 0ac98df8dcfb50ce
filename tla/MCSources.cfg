CONSTANTS
  Reused = reused
  Kept = kept
  Keys <- ThreeKeys
  Lists = {l1}
  LogCapacity = 2
  Capacity = 2
  MaxDone = 3
SPECIFICATION SpecOne
VIEW View
INVARIANTS
  DisplaySafety
PROPERTIES
  SidesAreKept
