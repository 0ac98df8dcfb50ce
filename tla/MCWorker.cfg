CONSTANTS
  Crafts = {a, b}
  NoCraft = NoCraft
  Distinct = 2
  MaxChanges = 1
  MaxPackets = 1
  MaxPolls = 2
  Lossless = TRUE
  Sides <- TwoSides
  Controls = {"push_event"}
  Fresh = 0
  RequestLifetime = 1
  RetryDelay = 1
  Never = 1
  Stall = 0
  MaxSerial = 1
  MaxQueued = 1
  Presses = {}
  Untracked = FALSE
  Resets = {}
SPECIFICATION SpecOne
SYMMETRY Symmetry
VIEW View
INVARIANTS
  AircraftSafety
  TaxiSafety
