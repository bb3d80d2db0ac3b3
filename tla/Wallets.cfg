SPECIFICATION Spec
SYMMETRY Symmetric
CONSTANTS
  None = None
  alice = alice  bob = bob  v1 = v1  v2 = v2  s1 = s1  s2 = s2
  Requests <- MCRequests
  Limits <- MCLimits
  WalletIds = {v1, v2}
  Sessions = {s1, s2}
  Times = {1, 2}
  EntryIds = {1, 2, 3}
  MaxCents = 4
  ColumnCodes = {"BRL"}
  MaxMoves = 2
  DefaultLimit = 50
  MaxLimit = 100
INVARIANTS
  TypeOK
  OneWalletPerPlayerAndCurrency
  RepliesAreTrue
  HistoryStartsAtZero
  DifferenceIsTheGap
  WalkIsOrdered
  WalkIsComplete
