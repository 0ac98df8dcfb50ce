CONSTANTS
  Capacity = 2
  MaxValue = 2
  Threads = {t1}
  Service = service
  Queues = {q1}
  PrivateQueue = private
  Lists = {l1}
  Packets = {p1}
  Batches <- Repeated
  NoOne = no_one
  MaximumSignal = 2
  MaximumToken = 1
  MaximumSession = 1
  Faults = {"Wait", "fence", "Close", "nested"}
  MaxQueued = 1
SPECIFICATION FairSpecOne
INVARIANTS
  LeasedFrameIsFinal
  LeasesCoverTheGpu
PROPERTIES
  FramesEnd
  QuarantineIsForever
  PoolSlotsReturn
