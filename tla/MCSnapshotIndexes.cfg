CONSTANTS
  alice = alice
  bob = bob
  t1 = t1
  t2 = t2
  t3 = t3
  Tx = {t1, t2, t3}
  Account = {alice, bob}
  Node = {bob}
  Sender <- MCSender
  Receiver <- MCReceiver
  Amount <- MCAmount
  Fee <- MCFee
  Nonce <- MCNonce
  Parents <- MCParents
  Signed = {t1, t2, t3}
  MaxU64 = 8
  MaxSize = 2
  HistoryWindow = 1
  GenesisBalance = 3
  GenesisLimit = 1
  MaxRetries = 2
  Stops = {3}
  MaxBatch = 3
  Snapshots <- MCSnapshots
  LastStep = 4
  FlushInterval = 2
  MaxLines = 2
  MaxChanges = 3
SPECIFICATION MCSpec
INVARIANT
  LedgerRefusesItsNonces
