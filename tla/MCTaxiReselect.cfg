CONSTANTS
  Sides <- OneSide
  Controls = {"push_event"}
  Fresh = 1
  RequestLifetime = 2
  RetryDelay = 1
  Never = 2
  Stall = 0
  MaxSerial = 0
  MaxQueued = 3
  Presses = {}
  Untracked = FALSE
  Resets = {"push_event"}
SPECIFICATION Reselect
INVARIANT EventsKeepTheirMeaning
VIEW View
