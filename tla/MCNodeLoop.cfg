CONSTANTS
  self = self
  peer = peer
  bob = bob
  t1 = t1
  t2 = t2
  t3 = t3
  Tx = {t1, t2, t3}
  Account = {self, peer, bob}
  Node = {self, peer}
  Self = self
  Sender <- MCSender
  Receiver <- MCReceiver
  Amount <- MCAmount
  Fee <- MCFee
  Nonce <- MCNonce
  Parents <- MCParents
  Signed = {t1, t2, t3}
  Processed = {t1, t2, t3}
  MaxU64 = 2
  MaxSize = 2
  HistoryWindow = 1
  GenesisBalance = 1
  GenesisLimit = 1
  MaxRetries = 2
  Grace = 1
  Interval = 2
  Ahead = 1
SPECIFICATION FairLoopSpec
INVARIANTS
  LoopTypeOK
  ApprovedTogether
  NextNonceIsFree
PROPERTIES
  ImplementsDagLogic
  PendingSettles
  AcceptedIsAnnounced
