CONSTANTS
  Keys = {"k1", "k2"}
  NoKeys = "none"
  MaxToken = 2
  LinkChanges = 3
  ControlChanges = 2
  MaxId = 3
  FileChanges = 2
  Damaged = {"a"}
  Checked = {"link", "control", "pair", "update", "settings", "hotkeys", "log"}
SPECIFICATION SpecOne
INVARIANTS
  EntryPairSafety
  CompanionSafety
  FilesSafety
PROPERTIES
  LinkHolds
  StartsAreWanted
  OwnsAsPromised
  SavedIsMeant
