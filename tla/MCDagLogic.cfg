CONSTANTS
  alice = alice
  bob = bob
  t1 = t1
  t2 = t2
  t3 = t3
  t4 = t4
  Tx = {t1, t2, t3, t4}
  Account = {alice, bob}
  Node = {alice, bob}
  Host = {alice, bob}
  Unreliable = {alice}
  LastBatch = 1
  Sender <- MCSender
  Receiver <- MCReceiver
  Amount <- MCAmount
  Fee <- MCFee
  Nonce <- MCNonce
  Parents <- MCParents
  Signed = {t1, t2, t3, t4}
  MaxU64 = 8
  MaxSize = 2
  HistoryWindow = 1
  GenesisBalance = 3
  GenesisLimit = 2
  MaxRetries = 2
SPECIFICATION MCSpec
INVARIANTS
  DLTypeOK
  IndexExact
  NonceSpentOnce
  NoDoubleSpend
  SupplyIsBacked
  NonceAgreement
  OrderIrrelevant
  RetriesBelowLimit
PROPERTY
  ImplementsLifecycle
