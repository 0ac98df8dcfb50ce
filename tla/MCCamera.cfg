CONSTANTS
  maximum_retries = 1
  MaximumOutputWaits = 1
  MaxStarts = 1
SPECIFICATION SpecOne
CONSTRAINT OneDisturbed
INVARIANTS
  CameraSafety
PROPERTIES
  NativeCallsAreAdmitted
  RetirementIsGentle
  ResolutionKeepsThePair
