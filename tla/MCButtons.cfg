CONSTANTS
  Sides <- OneSide
  Controls = {"push_event", "lvar_off", "manual_only"}
  Fresh = 0
  RequestLifetime = 1
  RetryDelay = 1
  Never = 1
  Stall = 0
  MaxSerial = 1
  MaxQueued = 1
  Presses = {"push_event", "lvar_off"}
  Untracked = FALSE
  Resets = {"push_event", "lvar_off", "manual_only"}
SPECIFICATION LoopBoth
PROPERTIES
  RequestEnds
  CutoffDelivered
