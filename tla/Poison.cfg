SPECIFICATION LiveSpec
CONSTANTS
  None = None
  w1 = w1  w2 = w2  absent = absent  alice = alice  bob = bob
  c1 = c1  c2 = c2  x1 = x1  x2 = x2
  Commands <- ZeroCommands
  Wallets <- OneWallet
  Owner <- OwnerOne
  Currency <- CurrencyOne
  Opening <- OpenWith1
  Clients = {c1}
  Workers = {x1}
  BatchSize = 1
  MaxAttempts = 2
PROPERTIES
  PendingIsSettled
