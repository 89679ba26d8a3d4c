SPECIFICATION FairGateSpec
CONSTANTS
  r1 = r1
  r2 = r2
  c1 = c1
  c2 = c2
  Requests = {r1, r2}
  Checkpoints = {c1, c2}
  MaxEpoch = 4
  MaxPromises = 3
INVARIANTS
  GateTypeOK
  InFlightExact
  WaitersReleasable
PROPERTIES
  ImplementsBarrier
  NobodyStranded
