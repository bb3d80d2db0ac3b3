SPECIFICATION FairSpec
CONSTANTS
  e1 = e1  e2 = e2  e3 = e3  p1 = p1  p2 = p2
  Events <- ThreeEvents
  OccurredAt <- Stamps
  Publishers = {p1, p2}
  BatchSize = 2
  MaxFaults = 1
INVARIANTS
  TypeOK
  PublishedWasSent
  DuplicatesHaveCause
PROPERTIES
  DeliversAtLeastOnce
CHECK_DEADLOCK FALSE
