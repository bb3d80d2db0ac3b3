SPECIFICATION Spec
CONSTANTS
  None = None
  w1 = w1  w2 = w2  absent = absent  alice = alice  bob = bob
  c1 = c1  c2 = c2  x1 = x1  x2 = x2
  Commands <- WagerCommands
  Wallets <- OneWallet
  Owner <- OwnerOne
  Currency <- CurrencyOne
  Opening <- OpenWith3
  Clients = {c1, c2}
  Workers = {}
  BatchSize = 1
  MaxAttempts = 1
SYMMETRY SymClients
INVARIANTS
  TypeOK
  LedgerReconstructsBalance
  BalanceNotNegative
  OneEntryPerProcessedRow
  BalanceEventsFollowLedger
  AnswersStand
