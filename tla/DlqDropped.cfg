SPECIFICATION Spec
CONSTANTS
  None = None
  k1 = k1  k2 = k2  k3 = k3  k4 = k4  k5 = k5  q1 = q1  p1 = p1
  d1 = d1  d2 = d2
  Copies <- TwoInvalid
  Requests = {}
  Body <- InvalidBody
  Consumers = {d1}
  Callers = {}
  MaxReceive = 2
  MaxSent = 2
INVARIANTS
  InvalidReachesDlq
CHECK_DEADLOCK FALSE
