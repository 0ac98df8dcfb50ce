CONSTANTS
  Keys = {"k1", "k2"}
  NoKeys = "none"
  MaxToken = 2
  LinkChanges = 2
  ControlChanges = 1
  MaxId = 2
  FileChanges = 0
  Damaged = {}
  Checked = {"link", "control", "pair", "update"}
SPECIFICATION FairSpecOne
PROPERTIES
  ConnectAnswered
  SetupSettles
  WarmupEnds
  ManualIsAnswered
  PairDrains
