SPECIFICATION Spec
CONSTANTS
  None = None
  w1 = w1  w2 = w2  absent = absent  alice = alice  bob = bob
  c1 = c1  c2 = c2  x1 = x1  x2 = x2
  Commands <- BatchCommands
  Wallets <- TwoWallets
  Owner <- OwnerTwo
  Currency <- CurrencyTwo
  Opening <- OpenWith0And1
  Clients = {c1}
  Workers = {x1, x2}
  BatchSize = 2
  MaxAttempts = 2
SYMMETRY SymWorkers
INVARIANTS
  LedgerReconstructsBalance
  OneEntryPerProcessedRow
  RefusedReversalWasShort
  RetriesAreCounted
  EventsTellEachRow
