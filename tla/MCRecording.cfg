CONSTANTS
  MaxLists = 1
  MaxChanges = 1
  Psos = {s1}
  Roots = {r1, r2}
  Unregistered = {r2}
  Heaps = {h1, h2}
  Values = {1, 2}
  WordCapacity = 1
  MaxBatch = 2
  MaxSelections = 1
SPECIFICATION SpecOne
INVARIANTS
  RecordingSafety
  SubmissionSafety
