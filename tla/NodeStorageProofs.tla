-------------------------- MODULE NodeStorageProofs --------------------------
(***************************************************************************)
(* Proofs about a node and its files: wherever a process is killed, what   *)
(* the next one starts from has the right types, and no nonce is spent     *)
(* twice; when every process ends cleanly, the restarts are no more than   *)
(* stuttering steps of the transaction lifecycle.                          *)
(***************************************************************************)
EXTENDS NodeStorage, Process, DagLogicProofs

(* What a node and its files are whatever stopped the node.  A crash tears *)
(* the files apart: a transaction of the mempool may be final already, so  *)
(* that the mempool vouches for what it holds and for no more.             *)
StorageInv ==
  /\ MempoolInv(mempool, mempool.pending)
  /\ IsLedger(ledger)
  /\ IsBalances(balances)
  /\ retries \in [Tx -> Nat]
  /\ genesis \in 0..GenesisLimit
  /\ applied \subseteq Tx
  /\ admitted \subseteq Tx

DiskInv(d) ==
  /\ d = [ ledger |-> d.ledger, mempool |-> d.mempool,
           balances |-> d.balances, admitted |-> d.admitted ]
  /\ IsLedger(d.ledger)
  /\ MempoolInv(d.mempool, d.mempool.pending)
  /\ IsBalances(d.balances)
  /\ d.admitted \subseteq Tx

-----------------------------------------------------------------------------
(* The steps of the core, without what DLInv says *)

(* A round takes transactions from the mempool to the ledger, others away, *)
(* and no nonce is forgotten.                                              *)
LEMMA FinalizeShape ==
  ASSUME StorageInv, Finalize
  PROVE  /\ StorageInv'
         /\ mempool'.pending \subseteq mempool.pending
         /\ mempool'.last = mempool.last
         /\ \E S \in SUBSET mempool.pending :
              /\ FinalizedTxs(ledger') = FinalizedTxs(ledger) \cup S
              /\ ledger'.nonces = ledger.nonces \cup {Key(t) : t \in S}
<1>1. PICK approved \in SUBSET admitted :
        \E order \in SetToSeqs(Finalizable(mempool, balances, approved)),
           proposer \in [approved -> Node] :
             FinalizeBatch(approved, order, proposer)
  BY DEF Finalize
<1> DEFINE final == Finalizable(mempool, balances, approved)
<1>2. PICK order \in SetToSeqs(final), proposer \in [approved -> Node] :
             FinalizeBatch(approved, order, proposer)
  BY <1>1
<1>3. /\ MempoolInv(mempool, mempool.pending)
      /\ IsLedger(ledger) /\ IsBalances(balances)
      /\ admitted \subseteq Tx /\ mempool.pending \subseteq Tx
  BY DEF StorageInv, MempoolInv
<1>4. final \subseteq approved /\ final \subseteq mempool.pending
  BY DEF Finalizable, StillPending
<1>5. order \in Seq(Tx) /\ Range(order) \subseteq final
  <2>1. final \in SUBSET Tx
    BY <1>3, <1>4
  <2> HIDE DEF final
  <2> QED BY <1>2, <2>1, SequenceOf
<1>6. /\ admitted' = admitted /\ genesis' = genesis
      /\ retries' \in [Tx -> Nat]
  BY <1>2 DEF FinalizeBatch, StorageInv
<1>7. \E gone : mempool' = RemoveBatch(mempool, gone)
  <2>1. CASE order = <<>>
    BY <1>2, <2>1 DEF FinalizeBatch
  <2>2. CASE order # <<>>
    BY <1>2, <2>2 DEF FinalizeBatch
  <2> QED BY <2>1, <2>2
<1>8. /\ MempoolInv(mempool', mempool'.pending)
      /\ mempool'.pending \subseteq mempool.pending
      /\ mempool'.last = mempool.last
  <2>1. PICK gone : mempool' = RemoveBatch(mempool, gone)
    BY <1>7
  <2>2. MempoolInv(mempool', mempool.pending)
    BY <1>3, <2>1, RemoveBatchKeepsInv
  <2> QED BY <2>1, <2>2, MempoolInvOfPending DEF RemoveBatch
<1> HIDE DEF final
<1>9. CASE order = <<>>
  <2>1. UNCHANGED <<ledger, balances, applied>>
    BY <1>2, <1>9 DEF FinalizeBatch
  <2>2. /\ FinalizedTxs(ledger') = FinalizedTxs(ledger) \cup {}
        /\ ledger'.nonces = ledger.nonces \cup {Key(t) : t \in {}}
    BY <2>1
  <2>3. StorageInv'
    BY <1>3, <1>6, <1>8, <2>1 DEF StorageInv
  <2> QED BY <1>8, <2>2, <2>3
<1>10. CASE order # <<>>
  <2> DEFINE run == Run(balances, order)
  <2>1. /\ balances' = PayRewards(run[Len(order)], order, proposer)
        /\ ledger' = AddBatch(ledger, order, proposer)
        /\ applied' = applied \cup
             {order[i] : i \in {j \in DOMAIN order : CanApply(run[j - 1], order[j])}}
    BY <1>2, <1>10 DEF FinalizeBatch
  <2> HIDE DEF run
  <2>2. applied' \subseteq Tx
    BY <1>5, <2>1 DEF StorageInv
  <2>3. proposer \in [approved -> Account]
    BY DagLogicAssumption
  <2>4. /\ IsLedger(ledger')
        /\ FinalizedTxs(ledger') = FinalizedTxs(ledger) \cup Range(order)
        /\ ledger'.nonces = ledger.nonces \cup {Key(t) : t \in Range(order)}
    BY <1>3, <1>5, <2>1, <2>3, AddBatchFacts, AddBatchNonces
  <2>5. IsBalances(balances')
    <3>1. Len(order) \in 0..Len(order)
      BY <1>5
    <3>2. IsBalances(run[Len(order)])
      BY <1>3, <1>5, <3>1, RunType DEF run
    <3>3. \A i \in 1..Len(order) : proposer[order[i]] \in Account
      <4>1. \A i \in 1..Len(order) : order[i] \in approved
        BY <1>4, <1>5 DEF Range
      <4> QED BY <2>3, <4>1
    <3> QED BY <1>5, <2>1, <3>2, <3>3, PayRewardsType
  <2>6. StorageInv'
    BY <1>3, <1>6, <1>8, <2>2, <2>4, <2>5 DEF StorageInv
  <2>7. Range(order) \in SUBSET mempool.pending
    BY <1>4, <1>5
  <2> QED BY <1>8, <2>4, <2>6, <2>7
<1> QED BY <1>9, <1>10

(* The three ways to admit transactions: what is added has a nonce above   *)
(* the last one of its sender, and one that was not finalized.             *)
AdmissionOf(added) ==
  /\ MempoolInv(mempool', mempool'.pending)
  /\ mempool'.pending = mempool.pending \cup added
  /\ added \subseteq Tx
  /\ admitted' = admitted \cup added
  /\ \A t \in added : /\ mempool.last[Sender[t]] < Nonce[t]
                      /\ Key(t) \notin ledger.nonces
  /\ \A a \in Account : mempool.last[a] <= mempool'.last[a]
  /\ UNCHANGED <<ledger, balances, retries, genesis, applied>>

LEMMA AdmitShape ==
  ASSUME StorageInv, NEW t \in Tx, Admit(t),
         UNCHANGED <<ledger, balances, retries, genesis, applied>>
  PROVE  \E added : AdmissionOf(added)
<1> DEFINE added == {t}
<1>1. /\ Accepts(mempool, t)
      /\ mempool' = Insert(mempool, t)
      /\ admitted' = admitted \cup added
      /\ Key(t) \notin ledger.nonces
  BY DEF Admit, MPAdd, CheckDoubleSpend, Key
<1>2. /\ MempoolInv(mempool, mempool.pending)
      /\ mempool.last \in [Account -> Nat \cup {NoNonce}]
      /\ Sender[t] \in Account /\ Nonce[t] \in Nat
  BY KeyType DEF StorageInv, MempoolInv, IsMempool
<1>3. MempoolInv(mempool', mempool'.pending)
  <2>1. MempoolInv(mempool', mempool.pending \cup added)
    BY <1>1, <1>2, InsertKeepsInv
  <2> QED BY <2>1, MempoolInvOfPending
<1>4. /\ mempool'.pending = mempool.pending \cup added
      /\ mempool'.last = [mempool.last EXCEPT ![Sender[t]] = Nonce[t]]
  BY <1>1 DEF Insert
<1>5. mempool.last[Sender[t]] < Nonce[t]
  <2>1. Nonce[t] > mempool.last[Sender[t]]
    BY <1>1 DEF Accepts
  <2> QED BY <1>2, <2>1 DEF NoNonce
<1>6. ASSUME NEW a \in Account PROVE mempool.last[a] <= mempool'.last[a]
  <2>1. /\ mempool.last[a] \in Int
        /\ mempool'.last[a] = IF a = Sender[t] THEN Nonce[t] ELSE mempool.last[a]
    BY <1>2, <1>4 DEF NoNonce
  <2> QED BY <1>2, <1>5, <2>1
<1>7. \A u \in added : mempool.last[Sender[u]] < Nonce[u] /\ Key(u) \notin ledger.nonces
  BY <1>1, <1>5
<1>8. added \subseteq Tx
  OBVIOUS
<1> HIDE DEF added
<1> QED BY <1>1, <1>3, <1>4, <1>6, <1>7, <1>8 DEF AdmissionOf

LEMMA BatchShape ==
  ASSUME StorageInv, NEW S \in SUBSET Tx, NEW batch \in SetToSeqs(S),
         AddVerifiedBatch(batch)
  PROVE  \E added : AdmissionOf(added)
<1> DEFINE f == Intake(mempool, ledger, batch)
           n == Len(batch)
           added == Taken(f, ledger, batch, n)
<1>1. batch \in Seq(Tx) /\ DOMAIN batch = 1..n
  BY SequenceOf
<1>2. MempoolInv(mempool, mempool.pending)
  BY DEF StorageInv
<1>3. /\ MempoolInv(f[n], mempool.pending \cup added)
      /\ f[n].pending = mempool.pending \cup added
      /\ \A t \in added : /\ mempool.last[Sender[t]] < Nonce[t]
                          /\ Key(t) \notin ledger.nonces
      /\ \A a \in Account : mempool.last[a] <= f[n].last[a]
  BY <1>1, <1>2, IntakeKeepsInv
<1>4. /\ mempool' = f[n]
      /\ UNCHANGED <<ledger, balances, retries, genesis, applied>>
  BY DEF AddVerifiedBatch
<1>5. admitted' = admitted \cup added
  BY <1>1 DEF AddVerifiedBatch, Taken
<1>6. MempoolInv(mempool', mempool'.pending) /\ added \subseteq Tx
  BY <1>3, <1>4, MempoolInvOfPending DEF MempoolInv
<1> HIDE DEF f, n, added
<1> QED BY <1>3, <1>4, <1>5, <1>6 DEF AdmissionOf

(* Every step of the core is an admission, a round of finalization, or     *)
(* leaves mempool and ledger alone.                                        *)
LEMMA CoreShape ==
  ASSUME StorageInv, DLNext
  PROVE  \/ \E added : AdmissionOf(added)
         \/ Finalize
         \/ /\ UNCHANGED <<mempool, admitted, ledger, retries, applied>>
            /\ IsBalances(balances')
            /\ genesis' \in 0..GenesisLimit
<1>1. CASE \E t \in Tx : AddTransaction(t) \/ AddTransactionFromGossip(t)
  BY <1>1, AdmitShape DEF AddTransaction, AddTransactionFromGossip
<1>2. CASE \E S \in SUBSET Tx : \E batch \in SetToSeqs(S) : AddVerifiedBatch(batch)
  BY <1>2, BatchShape
<1>3. ASSUME NEW a \in Account, AllocateGenesis(a)
      PROVE  /\ UNCHANGED <<mempool, admitted, ledger, retries, applied>>
             /\ IsBalances(balances')
             /\ genesis' \in 0..GenesisLimit
  <2>1. IsBalances(balances')
    BY <1>3, PutBalance, StateAssumption
       DEF AllocateGenesis, GenesisAllocate, StorageInv
  <2>2. genesis' \in 0..GenesisLimit
    BY <1>3, DagLogicAssumption DEF AllocateGenesis, StorageInv
  <2> QED BY <1>3, <2>1, <2>2 DEF AllocateGenesis, mpVars
<1> QED BY <1>1, <1>2, <1>3 DEF DLNext

LEMMA AdmissionTypes ==
  ASSUME StorageInv, NEW added, AdmissionOf(added)
  PROVE  StorageInv'
  BY DEF StorageInv, AdmissionOf

LEMMA CoreKeepsTypes ==
  ASSUME StorageInv, DLNext
  PROVE  StorageInv'
<1>1. CASE \E added : AdmissionOf(added)
  BY <1>1, AdmissionTypes
<1>2. CASE Finalize
  BY <1>2, FinalizeShape
<1>3. CASE /\ UNCHANGED <<mempool, admitted, ledger, retries, applied>>
           /\ IsBalances(balances')
           /\ genesis' \in 0..GenesisLimit
  BY <1>3 DEF StorageInv
<1> QED BY <1>1, <1>2, <1>3, CoreShape

-----------------------------------------------------------------------------
(* The files *)

(* What DagLogic::new makes of the files d. *)
LEMMA StartFacts ==
  ASSUME NEW d, DiskInv(d), Start(d)
  PROVE  /\ MempoolInv(mempool', mempool'.pending)
         /\ mempool'.pending = d.mempool.pending
         /\ \A a \in Account : d.mempool.last[a] <= mempool'.last[a]
         /\ ledger' = d.ledger
         /\ balances' = d.balances
         /\ retries' = [t \in Tx |-> 0]
         /\ admitted' = d.admitted
<1> DEFINE m == LoadMempool(d.mempool)
<1>1. /\ MempoolInv(m, d.mempool.pending)
      /\ m.pending = d.mempool.pending
      /\ m.last = d.mempool.last
  BY LoadKeepsInv DEF DiskInv
<1>2. /\ mempool' = SyncNonces(m, d.ledger)
      /\ d.ledger.last \in [Account -> Nat \cup {NoNonce}]
  BY DEF Start, DiskInv, IsLedger
<1> HIDE DEF m
<1>3. /\ MempoolInv(mempool', d.mempool.pending)
      /\ mempool'.pending = d.mempool.pending
      /\ \A a \in Account : mempool'.last[a] >= m.last[a]
  BY <1>1, <1>2, SyncKeepsInv
<1>4. \A a \in Account : d.mempool.last[a] <= mempool'.last[a]
  <2> SUFFICES ASSUME NEW a \in Account
               PROVE  d.mempool.last[a] <= mempool'.last[a]
    OBVIOUS
  <2>1. /\ d.mempool.last[a] \in Nat \cup {NoNonce}
        /\ mempool'.last[a] \in Nat \cup {NoNonce}
    BY <1>3 DEF DiskInv, MempoolInv, IsMempool
  <2> QED BY <1>1, <1>3, <2>1 DEF NoNonce
<1> QED BY <1>3, <1>4 DEF Start

(* Whatever part of the files was saved, they can be read again. *)
LEMMA SaveKeepsDisk ==
  ASSUME StorageInv, DiskInv(disk), NEW k \in Stops
  PROVE  DiskInv(SaveFirst(k))
<1> DEFINE d == SaveFirst(k)
<1>1. IsLedger(Reload(ledger))
  BY ReloadFacts DEF StorageInv
<1>2. /\ d.ledger = (IF k >= 1 THEN Reload(ledger) ELSE disk.ledger)
      /\ d.mempool = (IF k >= 2 THEN mempool ELSE disk.mempool)
      /\ d.admitted = (IF k >= 2 THEN admitted ELSE disk.admitted)
      /\ d.balances = (IF k >= 3 THEN balances ELSE disk.balances)
      /\ d = [ ledger |-> d.ledger, mempool |-> d.mempool,
               balances |-> d.balances, admitted |-> d.admitted ]
  BY DEF SaveFirst
<1> HIDE DEF d
<1>3. IsLedger(d.ledger)
  BY <1>1, <1>2 DEF DiskInv
<1>4. MempoolInv(d.mempool, d.mempool.pending)
  BY <1>2 DEF DiskInv, StorageInv
<1>5. IsBalances(d.balances) /\ d.admitted \subseteq Tx
  BY <1>2 DEF DiskInv, StorageInv
<1> QED BY <1>2, <1>3, <1>4, <1>5 DEF DiskInv, d

LEMMA RestartKeepsTypes ==
  ASSUME StorageInv, DiskInv(disk), NEW k \in Stops, Restart(k)
  PROVE  StorageInv' /\ DiskInv(disk')
<1>1. DiskInv(disk') /\ Start(disk')
  BY SaveKeepsDisk DEF Restart
<1>2. /\ MempoolInv(mempool', mempool'.pending)
      /\ ledger' = (disk').ledger
      /\ balances' = (disk').balances
      /\ retries' = [t \in Tx |-> 0]
      /\ admitted' = (disk').admitted
  BY <1>1, StartFacts
<1>3. genesis' = genesis /\ applied' = applied
  BY DEF Restart
<1> QED BY <1>1, <1>2, <1>3 DEF StorageInv, DiskInv

(* A ledger with the indexes of another one and its cache rebuilt *)
LEMMA WithIndexes ==
  ASSUME NEW l, IsLedger(l), NEW K, NEW L
  PROVE  RebuildChildren([l EXCEPT !.nonces = K, !.last = L]) =
           [ entries |-> l.entries, rewards |-> l.rewards, edges |-> l.edges,
             hasChildren |-> {e[1] : e \in l.edges},
             nonces |-> K, last |-> L, nextBatch |-> l.nextBatch ]
<1> DEFINE m == [ entries |-> l.entries, rewards |-> l.rewards, edges |-> l.edges,
                  hasChildren |-> l.hasChildren, nonces |-> K, last |-> L,
                  nextBatch |-> l.nextBatch ]
           C == {e[1] : e \in l.edges}
<1>1. l = [ entries |-> l.entries, rewards |-> l.rewards, edges |-> l.edges,
            hasChildren |-> l.hasChildren, nonces |-> l.nonces, last |-> l.last,
            nextBatch |-> l.nextBatch ]
  BY DEF IsLedger
<1>2. [l EXCEPT !.nonces = K, !.last = L] = m
  <2> DEFINE n == [ entries |-> l.entries, rewards |-> l.rewards, edges |-> l.edges,
                    hasChildren |-> l.hasChildren, nonces |-> K, last |-> l.last,
                    nextBatch |-> l.nextBatch ]
  <2>1. [l EXCEPT !.nonces = K] = n
    BY <1>1
  <2>2. [n EXCEPT !.last = L] = m
    OBVIOUS
  <2>3. [l EXCEPT !.nonces = K, !.last = L] = [[l EXCEPT !.nonces = K] EXCEPT !.last = L]
    OBVIOUS
  <2> HIDE DEF n, m
  <2> QED BY <2>1, <2>2, <2>3
<1>3. RebuildChildren(m) = [m EXCEPT !.hasChildren = C]
  BY DEF RebuildChildren
<1>4. [m EXCEPT !.hasChildren = C] =
        [ entries |-> l.entries, rewards |-> l.rewards, edges |-> l.edges,
          hasChildren |-> C, nonces |-> K, last |-> L, nextBatch |-> l.nextBatch ]
  <2> HIDE DEF C
  <2> QED OBVIOUS
<1> QED BY <1>2, <1>3, <1>4

(* What apply_snapshot leaves in memory and on disk. *)
LEMMA SnapshotFacts ==
  ASSUME StorageInv, DiskInv(disk), NEW s \in Snapshots, ApplySnapshot(s)
  PROVE  /\ StorageInv' /\ DiskInv(disk')
         /\ UNCHANGED <<mempool, admitted>>
         /\ (disk').mempool = disk.mempool
         /\ FinalizedTxs(ledger') = FinalizedTxs(s.ledger)
         /\ ledger'.nonces = ledger.nonces
         /\ (disk').ledger = Reload(ledger')
<1> DEFINE l == [s.ledger EXCEPT !.nonces = ledger.nonces, !.last = ledger.last]
<1>1. IsLedger(s.ledger) /\ IsBalances(s.balances) /\ IsLedger(ledger)
  BY StorageAssumption DEF StorageInv
<1>2. RebuildChildren(l) =
        [ entries |-> s.ledger.entries, rewards |-> s.ledger.rewards,
          edges |-> s.ledger.edges, hasChildren |-> {e[1] : e \in s.ledger.edges},
          nonces |-> ledger.nonces, last |-> ledger.last,
          nextBatch |-> s.ledger.nextBatch ]
  BY <1>1, WithIndexes
<1>3. /\ ledger' = RebuildChildren(l)
      /\ balances' = s.balances
      /\ disk' = [disk EXCEPT !.ledger = Reload(ledger'), !.balances = balances']
      /\ UNCHANGED <<mempool, admitted, retries, genesis, applied>>
  BY DEF ApplySnapshot, l, mpVars
<1>4. IsLedger(ledger')
  <2>1. {e[1] : e \in s.ledger.edges} \subseteq Hashes
    BY <1>1 DEF IsLedger
  <2> QED BY <1>1, <1>2, <1>3, <2>1 DEF IsLedger
<1>5. StorageInv'
  BY <1>1, <1>3, <1>4 DEF StorageInv
<1>6. disk' = [ ledger |-> Reload(ledger'), mempool |-> disk.mempool,
                balances |-> balances', admitted |-> disk.admitted ]
  <2>1. disk = [ ledger |-> disk.ledger, mempool |-> disk.mempool,
                 balances |-> disk.balances, admitted |-> disk.admitted ]
    BY DEF DiskInv
  <2> QED BY <1>3, <2>1
<1>7. DiskInv(disk')
  <2>1. IsLedger(Reload(ledger'))
    BY <1>4, ReloadFacts
  <2>2. /\ (disk').ledger = Reload(ledger')
        /\ (disk').mempool = disk.mempool
        /\ (disk').balances = s.balances
        /\ (disk').admitted = disk.admitted
        /\ disk' = [ ledger |-> (disk').ledger, mempool |-> (disk').mempool,
                     balances |-> (disk').balances, admitted |-> (disk').admitted ]
    BY <1>3, <1>6
  <2> QED BY <1>1, <2>1, <2>2 DEF DiskInv
<1>8. /\ ledger'.entries = s.ledger.entries
       /\ ledger'.nonces = ledger.nonces
  BY <1>2, <1>3
<1> QED BY <1>3, <1>5, <1>6, <1>7, <1>8 DEF FinalizedTxs

LEMMA StorageInitKeepsTypes == StorageInit => StorageInv /\ DiskInv(disk)
<1> SUFFICES ASSUME StorageInit PROVE StorageInv /\ DiskInv(disk)
  OBVIOUS
<1>1. DLInv
  BY InitKeepsInv DEF StorageInit
<1>2. StorageInv
  <2>1. MempoolInv(mempool, mempool.pending) /\ admitted \subseteq Tx
    BY <1>1, MempoolInvOfPending DEF DLInv, MempoolInv
  <2> QED BY <1>1, <2>1 DEF StorageInv, DLInv, LedgerInv, RetriesInv
<1>3. /\ IsLedger(EmptyLedger)
      /\ IsBalances(NoBalances)
      /\ MempoolInv(EmptyMempool, EmptyMempool.pending)
  <2>1. MempoolInv(EmptyMempool, EmptyMempool.pending)
    BY EmptyMempoolInv, MempoolInvOfPending
  <2> QED BY <2>1, EmptyLedgerExact DEF LedgerExact, NoBalances, IsBalances
<1>4. DiskInv(disk)
  BY <1>3 DEF StorageInit, EmptyDisk, DiskInv
<1> QED BY <1>2, <1>4

LEMMA StorageNextKeepsTypes ==
  StorageInv /\ DiskInv(disk) /\ [StorageNext]_storageVars
    => (StorageInv /\ DiskInv(disk))'
<1> SUFFICES ASSUME StorageInv, DiskInv(disk), [StorageNext]_storageVars
             PROVE  StorageInv' /\ DiskInv(disk')
  BY DEF DiskInv
<1>1. CASE DLNext /\ UNCHANGED disk
  BY <1>1, CoreKeepsTypes
<1>2. CASE \E k \in Stops : Restart(k)
  BY <1>2, RestartKeepsTypes
<1>3. CASE \E s \in Snapshots : ApplySnapshot(s)
  BY <1>3, SnapshotFacts
<1>4. CASE UNCHANGED storageVars
  BY <1>4 DEF storageVars, dlVars, mpVars, StorageInv
<1> QED BY <1>1, <1>2, <1>3, <1>4 DEF StorageNext

(* The types of a node and its files, and the consistency of its mempool,  *)
(* survive crashes at any point of the saving, restarts and any snapshot.  *)
THEOREM StorageInvariance == StorageSpec => [](StorageInv /\ DiskInv(disk))
  BY StorageInitKeepsTypes, StorageNextKeepsTypes, PTL DEF StorageSpec

(* Type correctness, on disk as well as in memory. *)
THEOREM StorageTypeCorrect == StorageSpec => []StorageTypeOK
<1>1. StorageInv /\ DiskInv(disk) => StorageTypeOK
  BY DEF StorageInv, DiskInv, StorageTypeOK, DLTypeOK, MPTypeOK, LTypeOK, MempoolInv
<1> QED BY <1>1, StorageInvariance, PTL

(* The clock that load_from_disk restores is ahead of every arrival that   *)
(* survived, so that the arrival times of two processes never collide.     *)
THEOREM ArrivalsOrderAcrossRestarts == StorageSpec => []ArrivalsOrder
<1>1. StorageInv => ArrivalsOrder
  BY DEF StorageInv, MempoolInv, ArrivalsOrder
<1> QED BY <1>1, StorageInvariance, PTL

-----------------------------------------------------------------------------
(* One spending for each nonce, whatever the files hold *)

(* No other transaction there is spends the nonce of t.                    *)
Uncontested(t) == \A u \in Tx : Key(t) = Key(u) => t = u

(* What a snapshot holds is taken as it is: a node cannot tell that a peer *)
(* finalized the rival of a transaction that it holds itself.  The theorem *)
(* is about snapshots whose transactions have no rival.                    *)
SnapshotsUncontested ==
  \A s \in Snapshots : \A t \in FinalizedTxs(s.ledger) : Uncontested(t)

(* What is final or pending, in memory or in the files a crash falls back to. *)
Held == FinalizedTxs(ledger) \cup mempool.pending \cup disk.mempool.pending

(* Why no rival of t can be admitted: the mempool has seen its nonce, the  *)
(* ledger has burnt it, or there is none.                                  *)
Recalled(t) ==
  \/ Nonce[t] <= mempool.last[Sender[t]]
  \/ Key(t) \in ledger.nonces
  \/ Uncontested(t)

SpendingInv ==
  /\ Held \subseteq Tx
  /\ \A t, u \in Held : Key(t) = Key(u) => t = u
  /\ \A t \in Held : Recalled(t)
  /\ FinalizedTxs(disk.ledger) \subseteq FinalizedTxs(ledger)
  /\ \A t \in FinalizedTxs(disk.ledger) : Key(t) \in disk.ledger.nonces

LEMMA AdmissionSpendsOnce ==
  ASSUME StorageInv, SpendingInv, NEW added, AdmissionOf(added), UNCHANGED disk
  PROVE  SpendingInv'
<1>1. /\ MempoolInv(mempool', mempool'.pending)
      /\ mempool'.pending = mempool.pending \cup added
      /\ added \subseteq Tx
      /\ \A t \in added : /\ mempool.last[Sender[t]] < Nonce[t]
                          /\ Key(t) \notin ledger.nonces
      /\ \A a \in Account : mempool.last[a] <= mempool'.last[a]
      /\ ledger' = ledger
  BY DEF AdmissionOf
<1>2. Held' = Held \cup added
  BY <1>1 DEF Held
<1>3. ASSUME NEW t \in Tx
      PROVE  /\ Sender[t] \in Account /\ Nonce[t] \in Nat
             /\ mempool.last[Sender[t]] \in Int
             /\ mempool'.last[Sender[t]] \in Int
  BY <1>1, KeyType DEF StorageInv, MempoolInv, IsMempool, NoNonce
<1>4. ASSUME NEW t \in Held, NEW u \in added, Key(t) = Key(u)
      PROVE  t = u
  <2>1. t \in Tx /\ u \in Tx
    BY <1>1 DEF SpendingInv
  <2>2. Recalled(t)
    BY DEF SpendingInv
  <2>3. ~(Nonce[t] <= mempool.last[Sender[t]])
    <3>1. Sender[t] = Sender[u] /\ Nonce[t] = Nonce[u]
      BY <1>4, KeyEquality
    <3> QED BY <1>1, <1>3, <2>1, <3>1
  <2>4. Key(t) \notin ledger.nonces
    BY <1>1, <1>4
  <2>5. Uncontested(t)
    BY <2>2, <2>3, <2>4 DEF Recalled
  <2> QED BY <1>4, <2>1, <2>5 DEF Uncontested
<1>5. \A t, u \in Held' : Key(t) = Key(u) => t = u
  <2>1. \A t, u \in added : Key(t) = Key(u) => t = u
    BY <1>1 DEF MempoolInv
  <2>2. \A t, u \in Held : Key(t) = Key(u) => t = u
    BY DEF SpendingInv
  <2>3. \A t \in Held, u \in added : Key(t) = Key(u) => t = u
    BY <1>4
  <2> QED BY <1>2, <2>1, <2>2, <2>3
<1>6. \A t \in Held' : Recalled(t)'
  <2>1. \A t \in added : Recalled(t)'
    BY <1>1 DEF MempoolInv, Recalled
  <2>2. ASSUME NEW t \in Held PROVE Recalled(t)'
    <3>1. t \in Tx /\ Recalled(t)
      BY DEF SpendingInv
    <3>2. mempool.last[Sender[t]] <= mempool'.last[Sender[t]]
      BY <1>1, <1>3, <3>1
    <3>3. Nonce[t] <= mempool.last[Sender[t]] => Nonce[t] <= mempool'.last[Sender[t]]
      BY <1>3, <3>1, <3>2
    <3> QED BY <1>1, <3>1, <3>3 DEF Recalled, Uncontested
  <2> QED BY <1>2, <2>1, <2>2
<1>7. Held' \subseteq Tx
  BY <1>1, <1>2 DEF SpendingInv
<1> QED BY <1>1, <1>5, <1>6, <1>7 DEF SpendingInv, FinalizedTxs

(* Finalization moves transactions from the mempool to the ledger. *)
LEMMA FinalizationSpendsOnce ==
  ASSUME StorageInv, SpendingInv, Finalize, UNCHANGED disk
  PROVE  SpendingInv'
<1>1. PICK S \in SUBSET mempool.pending :
        /\ FinalizedTxs(ledger') = FinalizedTxs(ledger) \cup S
        /\ ledger'.nonces = ledger.nonces \cup {Key(t) : t \in S}
  BY FinalizeShape
<1>2. mempool'.pending \subseteq mempool.pending /\ mempool'.last = mempool.last
  BY FinalizeShape
<1>3. FinalizedTxs(ledger)' = FinalizedTxs(ledger')
  BY DEF FinalizedTxs
<1>4. Held' \subseteq Held
  BY <1>1, <1>2, <1>3 DEF Held
<1>5. \A t \in Held' : Recalled(t)'
  BY <1>1, <1>2, <1>4 DEF SpendingInv, Recalled, Uncontested
<1>6. FinalizedTxs(disk.ledger)' = FinalizedTxs(disk.ledger)
  BY DEF FinalizedTxs
<1> QED BY <1>1, <1>3, <1>4, <1>5, <1>6 DEF SpendingInv

(* A node that comes back holds no more than it held or had saved, and it  *)
(* knows all of it again: the ledger by its nonces, the mempool by the     *)
(* last one.                                                               *)
LEMMA RestartSpendsOnce ==
  ASSUME StorageInv, DiskInv(disk), SpendingInv, NEW k \in Stops, Restart(k)
  PROVE  SpendingInv'
<1> DEFINE d == SaveFirst(k)
<1>1. /\ d.ledger = (IF k >= 1 THEN Reload(ledger) ELSE disk.ledger)
      /\ d.mempool = (IF k >= 2 THEN mempool ELSE disk.mempool)
  BY DEF SaveFirst
<1>2. disk' = d /\ DiskInv(d) /\ Start(d)
  BY SaveKeepsDisk DEF Restart
<1> HIDE DEF d
<1>3. /\ MempoolInv(d.mempool, d.mempool.pending)
      /\ MempoolInv(mempool', mempool'.pending)
      /\ mempool'.pending = d.mempool.pending
      /\ ledger' = d.ledger
  BY <1>2, StartFacts DEF DiskInv
<1>4. /\ FinalizedTxs(d.ledger) \subseteq FinalizedTxs(ledger)
      /\ \A t \in FinalizedTxs(d.ledger) : Key(t) \in d.ledger.nonces
  <2>1. CASE k >= 1
    <3>1. /\ FinalizedTxs(Reload(ledger)) = FinalizedTxs(ledger)
          /\ Reload(ledger).nonces = {Key(t) : t \in FinalizedTxs(ledger)}
      BY ReloadFacts DEF StorageInv, Key
    <3> QED BY <1>1, <2>1, <3>1
  <2>2. CASE ~(k >= 1)
    BY <1>1, <2>2 DEF SpendingInv
  <2> QED BY <2>1, <2>2
<1>5. d.mempool.pending \subseteq Held
  BY <1>1 DEF Held
<1>6. Held' \subseteq Held
  <2>1. Held' = FinalizedTxs(d.ledger) \cup d.mempool.pending
    BY <1>2, <1>3 DEF Held, FinalizedTxs
  <2>2. FinalizedTxs(ledger) \subseteq Held
    BY DEF Held
  <2> QED BY <1>4, <1>5, <2>1, <2>2
<1>7. ASSUME NEW t \in Held' PROVE Recalled(t)'
  <2>1. CASE t \in FinalizedTxs(d.ledger)
    <3>1. Key(t) \in ledger'.nonces
      BY <1>3, <1>4, <2>1
    <3> QED BY <3>1 DEF Recalled
  <2>2. CASE t \in mempool'.pending
    <3>1. Nonce[t] <= mempool'.last[Sender[t]]
      BY <1>3, <2>2 DEF MempoolInv
    <3> QED BY <3>1 DEF Recalled
  <2> QED BY <1>2, <1>3, <2>1, <2>2 DEF Held, FinalizedTxs
<1>8. /\ FinalizedTxs(disk.ledger)' \subseteq FinalizedTxs(ledger)'
      /\ \A t \in FinalizedTxs(disk.ledger)' : Key(t) \in (disk').ledger.nonces
  BY <1>2, <1>3, <1>4 DEF FinalizedTxs
<1> QED BY <1>6, <1>7, <1>8 DEF SpendingInv

(* A snapshot replaces what is final; what is pending is not touched.      *)
LEMMA SnapshotSpendsOnce ==
  ASSUME StorageInv, DiskInv(disk), SpendingInv, SnapshotsUncontested,
         NEW s \in Snapshots, ApplySnapshot(s)
  PROVE  SpendingInv'
<1> DEFINE new == FinalizedTxs(s.ledger)
<1>1. /\ mempool' = mempool
      /\ (disk').mempool = disk.mempool
      /\ FinalizedTxs(ledger') = new
      /\ ledger'.nonces = ledger.nonces
      /\ (disk').ledger = Reload(ledger')
      /\ IsLedger(ledger')
  BY SnapshotFacts DEF StorageInv
<1>2. /\ FinalizedTxs(Reload(ledger')) = FinalizedTxs(ledger')
      /\ Reload(ledger').nonces = {Key(t) : t \in FinalizedTxs(ledger')}
  BY <1>1, ReloadFacts DEF Key
<1>3. new \subseteq Tx /\ \A t \in new : Uncontested(t)
  BY StorageAssumption DEF SnapshotsUncontested, IsLedger, FinalizedTxs
<1> HIDE DEF new
<1>4. Held' \subseteq Held \cup new
  BY <1>1 DEF Held, FinalizedTxs
<1>5. \A t, u \in Held' : Key(t) = Key(u) => t = u
  <2>1. \A t, u \in Held : Key(t) = Key(u) => t = u
    BY DEF SpendingInv
  <2>2. \A t \in new, u \in Held' : Key(t) = Key(u) => t = u
    BY <1>3, <1>4 DEF Uncontested, SpendingInv
  <2> QED BY <1>4, <2>1, <2>2
<1>6. \A t \in Held' : Recalled(t)'
  BY <1>1, <1>3, <1>4 DEF SpendingInv, Recalled, Uncontested
<1>7. /\ FinalizedTxs(disk.ledger)' = FinalizedTxs(ledger)'
      /\ \A t \in FinalizedTxs(disk.ledger)' : Key(t) \in (disk').ledger.nonces
  BY <1>1, <1>2 DEF FinalizedTxs
<1>8. Held' \subseteq Tx
  BY <1>3, <1>4 DEF SpendingInv
<1> QED BY <1>5, <1>6, <1>7, <1>8 DEF SpendingInv

LEMMA StorageNextSpendsOnce ==
  ASSUME SnapshotsUncontested, StorageInv, DiskInv(disk), SpendingInv,
         [StorageNext]_storageVars
  PROVE  SpendingInv'
<1>1. CASE DLNext /\ UNCHANGED disk
  <2>1. CASE \E added : AdmissionOf(added)
    BY <1>1, <2>1, AdmissionSpendsOnce
  <2>2. CASE Finalize
    BY <1>1, <2>2, FinalizationSpendsOnce
  <2>3. CASE UNCHANGED <<mempool, admitted, ledger, retries, applied>>
    BY <1>1, <2>3 DEF SpendingInv, Held, Recalled, Uncontested, FinalizedTxs
  <2> QED BY <1>1, <2>1, <2>2, <2>3, CoreShape
<1>2. CASE \E k \in Stops : Restart(k)
  BY <1>2, RestartSpendsOnce
<1>3. CASE \E s \in Snapshots : ApplySnapshot(s)
  BY <1>3, SnapshotSpendsOnce
<1>4. CASE UNCHANGED storageVars
  BY <1>4 DEF storageVars, dlVars, mpVars, SpendingInv, Held, Recalled,
              Uncontested, FinalizedTxs
<1> QED BY <1>1, <1>2, <1>3, <1>4 DEF StorageNext

LEMMA StorageInitSpendsOnce == StorageInit => SpendingInv
<1> SUFFICES ASSUME StorageInit PROVE SpendingInv
  OBVIOUS
<1>1. /\ mempool = EmptyMempool /\ ledger = EmptyLedger
      /\ disk.mempool = EmptyMempool /\ disk.ledger = EmptyLedger
  BY DEF StorageInit, DLInit, MPInit, LInit, EmptyDisk
<1>2. FinalizedTxs(EmptyLedger) = {} /\ EmptyMempool.pending = {}
  BY DEF EmptyLedger, FinalizedTxs, EmptyMempool
<1>3. Held = {} /\ FinalizedTxs(disk.ledger) = {}
  BY <1>1, <1>2 DEF Held
<1> QED BY <1>3 DEF SpendingInv

(* Wherever a process is killed while it saves its files, and whatever     *)
(* uncontested snapshots it takes over: the files of different times never *)
(* make room for a second transaction of a nonce that is final or pending. *)
THEOREM OneSpendingPerNonceHolds ==
  ASSUME SnapshotsUncontested
  PROVE  StorageSpec => []OneSpendingPerNonce
<1>1. StorageInit => SpendingInv
  BY StorageInitSpendsOnce
<1>2. SpendingInv /\ StorageInv /\ DiskInv(disk) /\ [StorageNext]_storageVars
        => SpendingInv'
  BY StorageNextSpendsOnce
<1>3. SpendingInv => OneSpendingPerNonce
  BY DEF SpendingInv, Held, OneSpendingPerNonce
<1> QED BY <1>1, <1>2, <1>3, StorageInvariance, PTL DEF StorageSpec

-----------------------------------------------------------------------------
(* What the ledger refuses *)

(* The index of the finalized nonces knows those of all the entries. *)
Indexed(l) == \A t \in FinalizedTxs(l) : Key(t) \in l.nonces

LEMMA IndexedRefuses == Indexed(ledger) => LedgerRefusesItsNonces
  BY DEF Indexed, LedgerRefusesItsNonces, Refuses, Key

(* Loading rebuilds the index, and so the index of a file is complete.     *)
LEMMA ReloadIndexed ==
  ASSUME NEW l, IsLedger(l)
  PROVE  Indexed(Reload(l))
  BY ReloadFacts DEF Indexed, Key

LEMMA RestartIndexes ==
  ASSUME StorageInv, Indexed(disk.ledger), NEW k \in Stops, Restart(k)
  PROVE  Indexed((disk').ledger) /\ Indexed(ledger')
<1>1. (disk').ledger = Reload(ledger) \/ (disk').ledger = disk.ledger
  BY DEF Restart, SaveFirst
<1>2. ledger' = (disk').ledger
  BY DEF Restart, Start
<1>3. Indexed(Reload(ledger))
  BY ReloadIndexed DEF StorageInv
<1> QED BY <1>1, <1>2, <1>3

(* The index of the file is complete, whatever happens. *)
LEMMA FileStaysIndexed ==
  StorageInv /\ DiskInv(disk) /\ Indexed(disk.ledger) /\ [StorageNext]_storageVars
    => Indexed(disk.ledger)'
<1> SUFFICES ASSUME StorageInv, DiskInv(disk), Indexed(disk.ledger),
                    [StorageNext]_storageVars
             PROVE  Indexed((disk').ledger)
  BY DEF Indexed, FinalizedTxs
<1>1. CASE \E k \in Stops : Restart(k)
  BY <1>1, RestartIndexes
<1>2. ASSUME NEW s \in Snapshots, ApplySnapshot(s) PROVE Indexed((disk').ledger)
  <2>1. (disk').ledger = Reload(ledger') /\ IsLedger(ledger')
    BY <1>2, SnapshotFacts DEF StorageInv
  <2> QED BY <2>1, ReloadIndexed
<1>3. CASE disk' = disk
  BY <1>3
<1> QED BY <1>1, <1>2, <1>3 DEF StorageNext, storageVars

(* Finalization enters the nonces with the entries. *)
LEMMA LedgerStaysIndexed ==
  ASSUME Snapshots = {}, StorageInv, Indexed(disk.ledger), Indexed(ledger),
         [StorageNext]_storageVars
  PROVE  Indexed(ledger')
<1>1. CASE \E k \in Stops : Restart(k)
  BY <1>1, RestartIndexes
<1>2. CASE DLNext
  <2>1. CASE Finalize
    <3>1. PICK S \in SUBSET mempool.pending :
            /\ FinalizedTxs(ledger') = FinalizedTxs(ledger) \cup S
            /\ ledger'.nonces = ledger.nonces \cup {Key(t) : t \in S}
      BY <2>1, FinalizeShape
    <3> QED BY <3>1 DEF Indexed
  <2>2. CASE \E added : AdmissionOf(added)
    BY <2>2 DEF AdmissionOf, Indexed
  <2> QED BY <1>2, <2>1, <2>2, CoreShape
<1>3. CASE UNCHANGED storageVars
  BY <1>3 DEF storageVars, dlVars
<1> QED BY <1>1, <1>2, <1>3 DEF StorageNext

LEMMA InitIndexed == StorageInit => Indexed(ledger) /\ Indexed(disk.ledger)
  BY DEF StorageInit, DLInit, LInit, EmptyDisk, EmptyLedger, Indexed, FinalizedTxs

LEMMA FileIndexed == StorageSpec => []Indexed(disk.ledger)
<1>1. StorageInit => Indexed(disk.ledger)
  BY InitIndexed
<1> QED BY <1>1, FileStaysIndexed, StorageInvariance, PTL DEF StorageSpec

(* A run refutes LedgerRefusesItsNonces with a snapshot.  Nothing but a    *)
(* snapshot breaks it: not finalization, not a process killed at any point *)
(* of its saving.                                                          *)
THEOREM LedgerRefusesWithoutSnapshots ==
  ASSUME Snapshots = {}
  PROVE  StorageSpec => []LedgerRefusesItsNonces
<1>1. StorageInit => Indexed(ledger)
  BY InitIndexed
<1>2. StorageInv /\ Indexed(disk.ledger) /\ Indexed(ledger) /\ [StorageNext]_storageVars
        => Indexed(ledger)'
  <2>1. Indexed(ledger)' <=> Indexed(ledger')
    BY DEF Indexed, FinalizedTxs
  <2> QED BY <2>1, LedgerStaysIndexed
<1> QED BY <1>1, <1>2, IndexedRefuses, FileIndexed, StorageInvariance, PTL DEF StorageSpec

(* And it does not last: with any snapshots, the next start of the process *)
(* restores it, even one that follows a kill.                              *)
THEOREM RestartRefuses ==
  StorageSpec =>
    [][(\E k \in Stops : Restart(k)) => LedgerRefusesItsNonces']_storageVars
<1>1. StorageInv /\ Indexed(disk.ledger) /\ [StorageNext]_storageVars
        => [(\E k \in Stops : Restart(k)) => LedgerRefusesItsNonces']_storageVars
  <2>1. Indexed(ledger') => LedgerRefusesItsNonces'
    BY DEF Indexed, LedgerRefusesItsNonces, Refuses, FinalizedTxs, Key
  <2> QED BY <2>1, RestartIndexes
<1> QED BY <1>1, FileIndexed, StorageInvariance, PTL DEF StorageSpec

-----------------------------------------------------------------------------
(* Clean ends *)

CleanEnds == Stops = {3} /\ Snapshots = {}

(* A process that saved all its files is followed by one that holds the    *)
(* same: what a transaction is in its lifecycle does not change.           *)
LEMMA CleanRestartKeepsInv ==
  ASSUME DLInv, Restart(3)
  PROVE  /\ DLInv'
         /\ UNCHANGED <<mempool.pending, admitted>>
         /\ FinalizedTxs(ledger') = FinalizedTxs(ledger)
<1> DEFINE l == Reload(ledger)
           loaded == LoadMempool(mempool)
<1>1. /\ ledger' = l
      /\ mempool' = SyncNonces(loaded, l)
      /\ balances' = balances
      /\ retries' = [t \in Tx |-> 0]
      /\ UNCHANGED <<admitted, genesis, applied>>
  BY DEF Restart, SaveFirst, Start
<1>2. /\ MempoolInv(mempool, admitted)
      /\ LedgerInv(ledger, mempool.pending, admitted)
      /\ IsLedger(ledger)
      /\ mempool.pending \subseteq Tx
  BY DEF DLInv, LedgerInv, MempoolInv
<1>3. /\ IsLedger(l)
      /\ FinalizedTxs(l) = FinalizedTxs(ledger)
      /\ l.rewards = ledger.rewards
  BY <1>2, ReloadFacts
<1>4. /\ MempoolInv(loaded, admitted)
      /\ loaded.pending = mempool.pending
  BY <1>2, LoadKeepsInv
<1> HIDE DEF l, loaded
<1>5. /\ MempoolInv(mempool', admitted)
      /\ mempool'.pending = mempool.pending
  BY <1>1, <1>3, <1>4, SyncKeepsInv DEF IsLedger
<1>6. LedgerInv(ledger', mempool'.pending, admitted')
  BY <1>1, <1>2, <1>3, <1>5 DEF LedgerInv
<1>7. RetriesInv(retries', mempool'.pending, admitted')
  BY <1>1, <1>2, <1>5, DagLogicAssumption DEF RetriesInv
<1>8. DLInv'
  BY <1>1, <1>5, <1>6, <1>7 DEF DLInv
<1> QED BY <1>1, <1>3, <1>5, <1>8

LEMMA CleanStep ==
  ASSUME CleanEnds, [StorageNext]_storageVars
  PROVE  [DLNext]_dlVars \/ Restart(3)
<1>1. CASE \E k \in Stops : Restart(k)
  BY <1>1 DEF CleanEnds
<1>2. CASE \E s \in Snapshots : ApplySnapshot(s)
  BY <1>2 DEF CleanEnds
<1> QED BY <1>1, <1>2 DEF StorageNext, storageVars

(* What the core keeps consistent stays so through clean restarts; the     *)
(* retry counters and the arrival clock, which no file holds, may differ.  *)
THEOREM CleanStorageInvariance ==
  ASSUME CleanEnds
  PROVE  StorageSpec => []DLInv
<1>1. StorageInit => DLInv
  BY InitKeepsInv DEF StorageInit
<1>2. DLInv /\ [StorageNext]_storageVars => DLInv'
  BY CleanStep, CleanRestartKeepsInv, NextKeepsInv
<1> QED BY <1>1, <1>2, PTL DEF StorageSpec

(* Refinement: a node that always stops cleanly goes on where it was.  A   *)
(* restart is a stuttering step of the transaction lifecycle, and what is  *)
(* admitted after it is still admitted once and in the order of the nonces.*)
THEOREM CleanRestartsStutter ==
  ASSUME CleanEnds
  PROVE  StorageSpec => ImplementsLifecycle
<1>1. StorageInit => LC!LCInit
  BY DEF StorageInit, DLInit, MPInit, LC!LCInit, LifecycleOf
<1>2. DLInv /\ [StorageNext]_storageVars
        => [LC!LCNext]_([t \in Tx |-> LifecycleOf(t)])
  <2> SUFFICES ASSUME DLInv, [StorageNext]_storageVars
               PROVE  [LC!LCNext]_([t \in Tx |-> LifecycleOf(t)])
    OBVIOUS
  <2>1. CASE [DLNext]_dlVars
    BY <2>1, StepImplements
  <2>2. CASE Restart(3)
    <3>1. /\ UNCHANGED <<mempool.pending, admitted>>
          /\ FinalizedTxs(ledger)' = FinalizedTxs(ledger)
      BY <2>2, CleanRestartKeepsInv DEF FinalizedTxs
    <3>2. UNCHANGED [t \in Tx |-> LifecycleOf(t)]
      BY <3>1 DEF LifecycleOf
    <3> QED BY <3>2
  <2> QED BY <2>1, <2>2, CleanStep
<1> QED
  BY <1>1, <1>2, CleanStorageInvariance, PTL
  DEF StorageSpec, ImplementsLifecycle, LC!LCSpec

-----------------------------------------------------------------------------
(* When a process ends cleanly: the threads *)

(* The process ends after the command line, and what both did was saved.   *)
EndInv ==
  main = "ended" => cli = "ended" /\ files = memory

(* Whatever the threads interleave, the process that ends by itself has    *)
(* saved the last command: it is a clean end in the sense above.           *)
THEOREM EndsSavedHolds == ProcessSpec => []EndsSaved
<1>1. ProcessInit => EndInv
  BY DEF ProcessInit, EndInv
<1>2. EndInv /\ [ProcessNext]_processVars => EndInv'
  <2> SUFFICES ASSUME EndInv, [ProcessNext]_processVars PROVE EndInv'
    OBVIOUS
  <2>1. CASE Main
    <3>1. CASE MainStep
      BY <3>1 DEF MainStep, EndInv
    <3>2. CASE MainSignals
      BY <3>2 DEF MainSignals, EndInv
    <3>3. CASE MainEnds
      BY <3>3 DEF MainEnds, Joined, EndInv
    <3> QED BY <2>1, <3>1, <3>2, <3>3 DEF Main
  <2>2. CASE Cli
    <3>1. main # "ended" /\ main' = main
      BY <2>2 DEF Cli, CliChecks, CliReceives, CliTimeout
    <3> QED BY <3>1 DEF EndInv
  <2>3. CASE Reader
    <3>1. main # "ended" /\ main' = main
      BY <2>3 DEF Reader, ReaderChecks, ReadLine, ReadEnd
    <3> QED BY <3>1 DEF EndInv
  <2>4. CASE UNCHANGED processVars
    BY <2>4 DEF processVars, dataVars, EndInv
  <2> QED BY <2>1, <2>2, <2>3, <2>4 DEF ProcessNext
<1>3. EndInv => EndsSaved
  BY DEF EndInv, EndsSaved
<1> QED BY <1>1, <1>2, <1>3, PTL DEF ProcessSpec

=============================================================================
