SPECIFICATION Spec
CONSTANTS
  None = None
  w1 = w1  w2 = w2  absent = absent  alice = alice  bob = bob
  c1 = c1  c2 = c2  x1 = x1  x2 = x2
  Commands <- MissingCommands
  Wallets <- OneWallet
  Owner <- OwnerOne
  Currency <- CurrencyOne
  Opening <- OpenWith3
  Clients = {c1}
  Workers = {}
  BatchSize = 1
  MaxAttempts = 1
INVARIANTS
  MissingWalletIsRecorded
