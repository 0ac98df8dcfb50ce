CONSTANTS
  Threads = {t1}
  Service = service
  Queues = {q1, q2}
  PrivateQueue = private
  Lists = {l1}
  Packets = {p1}
  Batches <- Single
  NoOne = no_one
  MaximumSignal = 2
  MaximumToken = 2
  MaximumSession = 2
  Faults = {"destroy"}
  MaxQueued = 1
  Places = {a1, a2}
  Views = {h1, h2}
SPECIFICATION SpecOne
SYMMETRY Symmetry
CONSTRAINT Bounded
INVARIANTS
  CaptureSafety
  BindingSafety
PROPERTIES
  HooksAreConsiderate
  BoundIsEntered
