CONSTANTS
  DeviceKeys = {d1}
  Handles = {h1, h2}
  Ids = {r1}
  Managers = {m1}
  EntryIds = {e1, e2}
  Inspectors = {i1, i2}
  Null = Null
  MaxDevices = 1
  MaxResources = 2
  MaxCounter = 6
  MaxScenes = 2
  MaxCaptures = 2
  SlotCount = 2
  LedgerSize = 2
  AaCapacity = 4
  MaxViews = 3
  MaxPairs = 2
  MaxOthers = 1
  MaxFaults = 1
SPECIFICATION SpecOne
SYMMETRY Symmetry
INVARIANTS
  HandoffSafety
  ViewPoolSafety
PROPERTIES
  DeadStaysDead
  PublishedAsInspected
