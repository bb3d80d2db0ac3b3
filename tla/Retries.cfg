SPECIFICATION Spec
CONSTANTS
  None = None
  k1 = k1  k2 = k2  r1 = r1  r2 = r2
  Reversals = {k1, k2}
  Referenced = {k1}
  Runs = {r1, r2}
  BatchSize = 1
  MaxAttempts = 3
  Cap = 2
  MaxLag = 1
  LastArrival = 1
  MaxCrashes = 1
  Horizon = 6
INVARIANTS
  TypeOK
  ReferenceInTimeIsFound
PROPERTIES
  RetriedOncePerSchedule
  NoReversalStarves
