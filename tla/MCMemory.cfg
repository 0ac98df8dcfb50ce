CONSTANTS
  Packets = {p1, p2, p3}
  Formats = {1}
  Profiles = {1, 2}
  MaxCaptures = 4
  MaxChanges = 1
  PageCount = 3
  Window = 2
  RegionLimit = 2
  PageLimit = 2
  AllocationLimit = 1
  ReadLimit = 2
  MaxRemaps = 2
SPECIFICATION SpecOne
SYMMETRY Symmetry
INVARIANTS
  FrameSafety
  MemorySafety
PROPERTIES
  NewerEveryTime
