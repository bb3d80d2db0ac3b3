SPECIFICATION Spec
CONSTANTS
  None = None
  k1 = k1  k2 = k2  k3 = k3  k4 = k4  k5 = k5  q1 = q1  p1 = p1
  d1 = d1  d2 = d2
  Copies <- FiveCopies
  Requests <- OneRequest
  Body <- Bodies
  Consumers = {d1, d2}
  Callers = {p1}
  MaxReceive = 2
  MaxSent = 2
SYMMETRY SymConsumers
INVARIANTS
  TypeOK
  NothingLost
  EffectOnce
  DlqHasReason
  ConflictHasCause
CHECK_DEADLOCK FALSE
