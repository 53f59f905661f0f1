--------------------------- MODULE DagLogicProofs ---------------------------
(***************************************************************************)
(* Proofs about the mempool, and about the transaction core: its types,    *)
(* the absence of double spending, and that it implements TxLifecycle.     *)
(* The invariant of the mempool is stated of any record and set, so that   *)
(* several calls can be followed inside one step of the core.              *)
(***************************************************************************)
EXTENDS LedgerProofs

-----------------------------------------------------------------------------
(* The mempool *)

(* The inductive invariant: the types, the exact index, and the last nonce *)
(* that bounds what was admitted, from which it follows that a nonce is    *)
(* spent once.                                                             *)
MempoolInv(m, A) ==
  /\ IsMempool(m)
  /\ A \subseteq Tx
  /\ m.pending \subseteq A
  /\ DOMAIN m.arrival = m.pending
  /\ \A t \in m.pending : m.arrival[t] < m.clock
  /\ \A t, u \in m.pending : m.arrival[t] = m.arrival[u] => t = u
  /\ DOMAIN m.index = {Key(t) : t \in m.pending}
  /\ \A t \in m.pending : m.index[Key(t)] = t
  /\ \A t \in A : Nonce[t] <= m.last[Sender[t]]
  /\ \A t, u \in A : Key(t) = Key(u) => t = u

(* The key of the nonce index is an account and a nonce.                   *)
LEMMA KeyType ==
  ASSUME NEW t \in Tx
  PROVE  /\ Sender[t] \in Account
         /\ Nonce[t] \in Nat
         /\ Key(t) \in Account \X Nat
  BY TxAssumption DEF Key

(* Two transactions share a key when they share sender and nonce.          *)
LEMMA KeyEquality ==
  ASSUME NEW t, NEW u
  PROVE  Key(t) = Key(u) <=> Sender[t] = Sender[u] /\ Nonce[t] = Nonce[u]
  BY DEF Key

(* The window of a sender stays a sequence of nonces within its bound. *)
LEMMA RememberType ==
  ASSUME NEW h \in Seq(Nat), Len(h) <= HistoryWindow, NEW n \in Nat
  PROVE  /\ Remember(h, n) \in Seq(Nat)
         /\ Len(Remember(h, n)) <= HistoryWindow
<1>1. /\ Append(h, n) \in Seq(Nat)
      /\ Len(Append(h, n)) = Len(h) + 1
  OBVIOUS
<1>2. CASE Len(h) + 1 > HistoryWindow
  <2>1. /\ Tail(Append(h, n)) \in Seq(Nat)
        /\ Len(Tail(Append(h, n))) = Len(h)
    BY <1>1
  <2>2. Remember(h, n) = Tail(Append(h, n))
    BY <1>1, <1>2 DEF Remember
  <2> QED BY <2>1, <2>2
<1>3. CASE ~(Len(h) + 1 > HistoryWindow)
  BY <1>1, <1>3, MempoolAssumption DEF Remember
<1> QED BY <1>2, <1>3

(* Mempool::new starts inside the invariant, with nothing admitted.        *)
LEMMA EmptyMempoolInv == MempoolInv(EmptyMempool, {})
  BY MempoolAssumption
  DEF MempoolInv, EmptyMempool, IsMempool, NoNonce

(* Mempool::add keeps the shape of the struct, whatever it is given. *)
LEMMA InsertType ==
  ASSUME NEW m, IsMempool(m), NEW t \in Tx
  PROVE  IsMempool(Insert(m, t))
<1> DEFINE n == Insert(m, t)  a == Sender[t]
<1>1. /\ a \in Account
      /\ Nonce[t] \in Nat
      /\ Key(t) \in Account \X Nat
  BY KeyType
<1>2. /\ n.pending = m.pending \cup {t}
      /\ n.arrival = Put(m.arrival, t, m.clock)
      /\ n.history = [m.history EXCEPT ![a] = Remember(@, Nonce[t])]
      /\ n.last = [m.last EXCEPT ![a] = Nonce[t]]
      /\ n.index = Put(m.index, Key(t), t)
      /\ n.clock = m.clock + 1
      /\ n = [ pending |-> n.pending, arrival |-> n.arrival,
               history |-> n.history, last |-> n.last,
               index |-> n.index, clock |-> n.clock ]
  BY DEF Insert
<1> HIDE DEF n
<1>3. /\ n.pending \subseteq Tx
      /\ n.clock \in Nat
      /\ n.last \in [Account -> Nat \cup {NoNonce}]
  BY <1>1, <1>2 DEF IsMempool
<1>4. /\ DOMAIN n.arrival \subseteq Tx
      /\ n.arrival \in [DOMAIN n.arrival -> Nat]
  <2>1. /\ m.arrival \in [DOMAIN m.arrival -> Nat]
        /\ DOMAIN m.arrival \subseteq Tx
        /\ m.clock \in Nat
    BY DEF IsMempool
  <2>2. n.arrival \in [DOMAIN m.arrival \cup {t} -> Nat]
    BY <1>2, <2>1 DEF Put
  <2> QED BY <2>1, <2>2
<1>5. /\ DOMAIN n.index \subseteq Account \X Nat
      /\ n.index \in [DOMAIN n.index -> Tx]
  <2>1. /\ m.index \in [DOMAIN m.index -> Tx]
        /\ DOMAIN m.index \subseteq Account \X Nat
    BY DEF IsMempool
  <2>2. n.index \in [DOMAIN m.index \cup {Key(t)} -> Tx]
    BY <1>2, <2>1 DEF Put
  <2> QED BY <1>1, <2>1, <2>2
<1>6. /\ n.history \in [Account -> Seq(Nat)]
      /\ \A b \in Account : Len(n.history[b]) <= HistoryWindow
  <2>1. /\ m.history \in [Account -> Seq(Nat)]
        /\ \A b \in Account : Len(m.history[b]) <= HistoryWindow
    BY DEF IsMempool
  <2>2. /\ Remember(m.history[a], Nonce[t]) \in Seq(Nat)
        /\ Len(Remember(m.history[a], Nonce[t])) <= HistoryWindow
    BY <1>1, <2>1, RememberType
  <2> QED BY <1>1, <1>2, <2>1, <2>2
<1> QED BY <1>2, <1>3, <1>4, <1>5, <1>6 DEF IsMempool, n

(* Mempool::add: what it accepts is above everything it ever admitted. *)
LEMMA InsertKeepsInv ==
  ASSUME NEW m, NEW A, MempoolInv(m, A), NEW t \in Tx, Accepts(m, t)
  PROVE  MempoolInv(Insert(m, t), A \cup {t})
<1> DEFINE n == Insert(m, t)  a == Sender[t]
<1>1. /\ a \in Account
      /\ Nonce[t] \in Nat
      /\ Key(t) \in Account \X Nat
  BY KeyType
<1>2. /\ n.pending = m.pending \cup {t}
      /\ n.arrival = Put(m.arrival, t, m.clock)
      /\ n.history = [m.history EXCEPT ![a] = Remember(@, Nonce[t])]
      /\ n.last = [m.last EXCEPT ![a] = Nonce[t]]
      /\ n.index = Put(m.index, Key(t), t)
      /\ n.clock = m.clock + 1
      /\ n = [ pending |-> n.pending, arrival |-> n.arrival,
               history |-> n.history, last |-> n.last,
               index |-> n.index, clock |-> n.clock ]
  BY DEF Insert
<1> HIDE DEF n
<1>3. /\ t \notin m.pending
      /\ Key(t) \notin DOMAIN m.index
      /\ Nonce[t] > m.last[a]
  BY DEF Accepts
<1>4. IsMempool(n)
  BY InsertType DEF MempoolInv, n
<1>5. /\ A \cup {t} \subseteq Tx
      /\ n.pending \subseteq A \cup {t}
  BY <1>2 DEF MempoolInv
<1>6. /\ DOMAIN n.arrival = n.pending
      /\ \A u \in n.pending : n.arrival[u] < n.clock
      /\ \A u, v \in n.pending : n.arrival[u] = n.arrival[v] => u = v
  <2>1. /\ m.clock \in Nat
        /\ DOMAIN m.arrival = m.pending
        /\ m.arrival \in [m.pending -> Nat]
        /\ \A u \in m.pending : m.arrival[u] < m.clock
        /\ \A u, v \in m.pending : m.arrival[u] = m.arrival[v] => u = v
    BY DEF MempoolInv, IsMempool
  <2>2. /\ n.arrival[t] = m.clock
        /\ \A u \in m.pending : n.arrival[u] = m.arrival[u]
    BY <1>2, <1>3, <2>1 DEF Put
  <2> QED BY <1>2, <2>1, <2>2 DEF Put
<1>7. /\ DOMAIN n.index = {Key(u) : u \in n.pending}
      /\ \A u \in n.pending : n.index[Key(u)] = u
  <2>1. /\ DOMAIN m.index = {Key(u) : u \in m.pending}
        /\ \A u \in m.pending : m.index[Key(u)] = u
    BY DEF MempoolInv
  <2>2. DOMAIN n.index = {Key(u) : u \in m.pending} \cup {Key(t)}
    BY <1>2, <2>1 DEF Put
  <2>3. \A u \in m.pending : Key(u) # Key(t) /\ n.index[Key(u)] = u
    BY <1>2, <1>3, <2>1 DEF Put
  <2>4. n.index[Key(t)] = t
    BY <1>2 DEF Put
  <2> QED BY <1>2, <2>2, <2>3, <2>4
<1>8. \A u \in A : Sender[u] = a => Nonce[u] < Nonce[t]
  <2> SUFFICES ASSUME NEW u \in A, Sender[u] = a PROVE Nonce[u] < Nonce[t]
    OBVIOUS
  <2>1. /\ Nonce[u] \in Nat
        /\ m.last[a] \in Nat \cup {NoNonce}
        /\ Nonce[u] <= m.last[a]
    BY <1>1, KeyType DEF MempoolInv, IsMempool
  <2> QED BY <1>1, <1>3, <2>1 DEF NoNonce
<1>9. \A u \in A \cup {t} : Nonce[u] <= n.last[Sender[u]]
  <2>1. /\ m.last \in [Account -> Nat \cup {NoNonce}]
        /\ \A u \in A : Nonce[u] <= m.last[Sender[u]]
        /\ \A u \in A : Sender[u] \in Account /\ Nonce[u] \in Nat
    BY KeyType DEF MempoolInv, IsMempool
  <2>2. n.last[a] = Nonce[t]
    BY <1>1, <1>2, <2>1
  <2>3. \A u \in A : Sender[u] # a => n.last[Sender[u]] = m.last[Sender[u]]
    BY <1>1, <1>2, <2>1
  <2> QED BY <1>1, <1>8, <2>1, <2>2, <2>3
<1>10. \A u, v \in A \cup {t} : Key(u) = Key(v) => u = v
  <2>1. \A u \in A : Key(u) # Key(t)
    <3> SUFFICES ASSUME NEW u \in A, Key(u) = Key(t) PROVE FALSE
      OBVIOUS
    <3>1. Sender[u] = a /\ Nonce[u] = Nonce[t]
      BY KeyEquality
    <3> QED BY <1>1, <1>8, <3>1
  <2>2. \A u, v \in A : Key(u) = Key(v) => u = v
    BY DEF MempoolInv
  <2> QED BY <2>1, <2>2
<1> QED
  BY <1>4, <1>5, <1>6, <1>7, <1>9, <1>10 DEF MempoolInv, n

(* Mempool::remove_batch keeps the index and the arrival times exact; the  *)
(* nonces it leaves behind keep bounding what was admitted.                *)
LEMMA RemoveBatchKeepsInv ==
  ASSUME NEW m, NEW A, MempoolInv(m, A), NEW S
  PROVE  MempoolInv(RemoveBatch(m, S), A)
<1> DEFINE n == RemoveBatch(m, S)  gone == S \cap m.pending
<1>1. /\ n.pending = m.pending \ gone
      /\ n.arrival = Restrict(m.arrival, DOMAIN m.arrival \ gone)
      /\ n.history = m.history
      /\ n.last = m.last
      /\ n.index = Restrict(m.index, DOMAIN m.index \ {Key(t) : t \in gone})
      /\ n.clock = m.clock
      /\ n = [ pending |-> n.pending, arrival |-> n.arrival,
               history |-> n.history, last |-> n.last,
               index |-> n.index, clock |-> n.clock ]
  BY DEF RemoveBatch
<1> HIDE DEF n
<1>2. /\ DOMAIN n.arrival = n.pending
      /\ \A t \in n.pending : n.arrival[t] = m.arrival[t]
  BY <1>1 DEF MempoolInv, Restrict
<1>3. /\ DOMAIN n.index = {Key(t) : t \in n.pending}
      /\ \A t \in n.pending : n.index[Key(t)] = t
      /\ \A k \in DOMAIN n.index : n.index[k] = m.index[k]
  <2>1. /\ DOMAIN m.index = {Key(t) : t \in m.pending}
        /\ \A t \in m.pending : m.index[Key(t)] = t
    BY DEF MempoolInv
  <2>2. /\ DOMAIN n.index = DOMAIN m.index \ {Key(t) : t \in gone}
        /\ \A k \in DOMAIN n.index : n.index[k] = m.index[k]
    BY <1>1 DEF Restrict
  <2>3. \A t, u \in m.pending : Key(t) = Key(u) => t = u
    BY <2>1
  <2>4. DOMAIN n.index = {Key(t) : t \in n.pending}
    <3>1. \A t \in n.pending : Key(t) \notin {Key(u) : u \in gone}
      BY <1>1, <2>3
    <3>2. \A t \in n.pending : Key(t) \in DOMAIN n.index
      BY <1>1, <2>1, <2>2, <3>1
    <3>3. \A k \in DOMAIN n.index : \E t \in n.pending : k = Key(t)
      BY <1>1, <2>1, <2>2
    <3> QED BY <3>2, <3>3
  <2> QED BY <1>1, <2>1, <2>2, <2>4
<1>4. IsMempool(n)
  <2>1. IsMempool(m) /\ DOMAIN m.arrival = m.pending
    BY DEF MempoolInv
  <2>2. /\ n.pending \subseteq Tx
        /\ n.history \in [Account -> Seq(Nat)]
        /\ \A b \in Account : Len(n.history[b]) <= HistoryWindow
        /\ n.last \in [Account -> Nat \cup {NoNonce}]
        /\ n.clock \in Nat
    BY <1>1, <2>1 DEF IsMempool
  <2>3. /\ DOMAIN n.arrival \subseteq Tx
        /\ n.arrival \in [DOMAIN n.arrival -> Nat]
    BY <1>1, <1>2, <2>1 DEF IsMempool, Restrict
  <2>4. /\ DOMAIN n.index \subseteq Account \X Nat
        /\ n.index \in [DOMAIN n.index -> Tx]
    BY <1>1, <1>3, <2>1 DEF IsMempool, Restrict
  <2> QED BY <1>1, <2>2, <2>3, <2>4 DEF IsMempool
<1> QED
  BY <1>1, <1>2, <1>3, <1>4 DEF MempoolInv, n

(* Mempool::set_last_nonce only ever raises the last nonce. *)
LEMMA SetLastNonceKeepsInv ==
  ASSUME NEW m, NEW A, MempoolInv(m, A), NEW a \in Account, NEW k \in Nat
  PROVE  MempoolInv(SetLastNonce(m, a, k), A)
<1> DEFINE n == SetLastNonce(m, a, k)
<1>1. IsMempool(m)
  BY DEF MempoolInv
<1>2. CASE ~(k > MaxOf(m.last[a], 0))
  BY <1>2 DEF SetLastNonce
<1>3. CASE k > MaxOf(m.last[a], 0)
  <2>1. /\ n.pending = m.pending
        /\ n.arrival = m.arrival
        /\ n.history = [m.history EXCEPT ![a] = Remember(@, k)]
        /\ n.last = [m.last EXCEPT ![a] = k]
        /\ n.index = m.index
        /\ n.clock = m.clock
        /\ n = [ pending |-> n.pending, arrival |-> n.arrival,
                 history |-> n.history, last |-> n.last,
                 index |-> n.index, clock |-> n.clock ]
    BY <1>3 DEF SetLastNonce
  <2> HIDE DEF n
  <2>2. /\ n.history \in [Account -> Seq(Nat)]
        /\ \A b \in Account : Len(n.history[b]) <= HistoryWindow
    <3>1. /\ m.history \in [Account -> Seq(Nat)]
          /\ \A b \in Account : Len(m.history[b]) <= HistoryWindow
      BY <1>1 DEF IsMempool
    <3>2. /\ Remember(m.history[a], k) \in Seq(Nat)
          /\ Len(Remember(m.history[a], k)) <= HistoryWindow
      BY <3>1, RememberType
    <3> QED BY <2>1, <3>1, <3>2
  <2>3. /\ n.last \in [Account -> Nat \cup {NoNonce}]
        /\ \A b \in Account : n.last[b] >= m.last[b]
    <3>1. /\ m.last \in [Account -> Nat \cup {NoNonce}]
          /\ k >= m.last[a]
      <4>1. /\ m.last \in [Account -> Nat \cup {NoNonce}]
            /\ m.last[a] \in Nat \cup {NoNonce}
        BY <1>1 DEF IsMempool
      <4>2. k > m.last[a] \/ (k > 0 /\ m.last[a] <= 0)
        BY <1>3, <4>1 DEF MaxOf, NoNonce
      <4> QED BY <4>1, <4>2 DEF NoNonce
    <3> QED BY <2>1, <3>1 DEF NoNonce
  <2>4. IsMempool(n)
    BY <1>1, <2>1, <2>2, <2>3 DEF IsMempool
  <2>5. \A t \in A : Nonce[t] <= n.last[Sender[t]]
    <3> SUFFICES ASSUME NEW t \in A PROVE Nonce[t] <= n.last[Sender[t]]
      OBVIOUS
    <3>1. /\ Sender[t] \in Account
          /\ Nonce[t] \in Nat
          /\ Nonce[t] <= m.last[Sender[t]]
      BY KeyType DEF MempoolInv
    <3>2. /\ m.last[Sender[t]] \in Nat \cup {NoNonce}
          /\ n.last[Sender[t]] \in Nat \cup {NoNonce}
          /\ n.last[Sender[t]] >= m.last[Sender[t]]
      BY <1>1, <2>3, <3>1 DEF IsMempool
    <3> QED BY <3>1, <3>2 DEF NoNonce
  <2> QED BY <2>1, <2>4, <2>5 DEF MempoolInv, n
<1> QED BY <1>2, <1>3

(* The invariant implies each of the properties the runs check.            *)
LEMMA MempoolInvImplies ==
  ASSUME MempoolInv(mempool, admitted)
  PROVE  MPTypeOK /\ IndexExact /\ ArrivalsOrder /\ NonceSpentOnce
  BY KeyEquality
  DEF MempoolInv, MPTypeOK, IndexExact, ArrivalsOrder, NonceSpentOnce

(* Every step of the mempool, add, set_last_nonce or remove_batch, keeps   *)
(* the inductive invariant.                                                *)
THEOREM MempoolInvariance == MPSpec => []MempoolInv(mempool, admitted)
<1>1. MPInit => MempoolInv(mempool, admitted)
  BY EmptyMempoolInv DEF MPInit
<1>2. MempoolInv(mempool, admitted) /\ [MPNext]_mpVars
        => MempoolInv(mempool, admitted)'
  <2> SUFFICES ASSUME MempoolInv(mempool, admitted), [MPNext]_mpVars
               PROVE  MempoolInv(mempool', admitted')
    BY DEF MempoolInv, IsMempool
  <2>1. ASSUME NEW t \in Tx, MPAdd(t)
        PROVE  MempoolInv(mempool', admitted')
    BY <2>1, InsertKeepsInv DEF MPAdd
  <2>2. ASSUME NEW t \in Tx, MPSetLastNonce(Sender[t], Nonce[t])
        PROVE  MempoolInv(mempool', admitted')
    BY <2>2, SetLastNonceKeepsInv, KeyType DEF MPSetLastNonce
  <2>3. ASSUME NEW S \in SUBSET Tx, MPRemoveBatch(S)
        PROVE  MempoolInv(mempool', admitted')
    BY <2>3, RemoveBatchKeepsInv DEF MPRemoveBatch
  <2>4. CASE UNCHANGED mpVars
    BY <2>4 DEF mpVars
  <2> QED BY <2>1, <2>2, <2>3, <2>4 DEF MPNext
<1> QED BY <1>1, <1>2, PTL DEF MPSpec

(* Type correctness of the mempool, the bound of every history included *)
THEOREM MempoolTypeCorrect == MPSpec => []MPTypeOK
  BY MempoolInvariance, MempoolInvImplies, PTL

(* The index always holds exactly the keys of the pending transactions. *)
THEOREM MempoolIndexExact == MPSpec => []IndexExact
  BY MempoolInvariance, MempoolInvImplies, PTL

(* Arrival times order the pending transactions strictly. *)
THEOREM MempoolArrivalsOrder == MPSpec => []ArrivalsOrder
  BY MempoolInvariance, MempoolInvImplies, PTL

(* No sender spends a nonce twice, however short the history is. *)
THEOREM MempoolNonceSpentOnce == MPSpec => []NonceSpentOnce
  BY MempoolInvariance, MempoolInvImplies, PTL

-----------------------------------------------------------------------------
(* The transaction core *)

(* What ties the ledger to the rest: a finalized transaction was admitted  *)
(* and left the mempool, and it has the one reward entry.                  *)
LedgerInv(l, pending, A) ==
  /\ IsLedger(l)
  /\ FinalizedTxs(l) \subseteq A \ pending
  /\ {r.source : r \in l.rewards} = FinalizedTxs(l)
  /\ \A r, s \in l.rewards : r.source = s.source => r = s

RetriesInv(r, pending, A) ==
  /\ r \in [Tx -> Nat]
  /\ \A t \in Tx \ A : r[t] = 0
  /\ \A t \in pending : r[t] < MaxRetries

DLInv ==
  /\ MempoolInv(mempool, admitted)
  /\ LedgerInv(ledger, mempool.pending, admitted)
  /\ RetriesInv(retries, mempool.pending, admitted)
  /\ IsBalances(balances)
  /\ genesis \in 0..GenesisLimit
  /\ applied \subseteq Tx

-----------------------------------------------------------------------------
(* The ledger after a batch *)

(* A batch of transactions that are pending keeps the ledger one. *)
LEMMA AddBatchKeepsInv ==
  ASSUME NEW l, NEW pending, NEW A, LedgerInv(l, pending, A), A \subseteq Tx,
         NEW order \in Seq(Tx), Range(order) \subseteq pending \cap A,
         NEW D, Range(order) \subseteq D, NEW proposer \in [D -> Node],
         NEW left \in SUBSET pending, left \cap Range(order) = {}
  PROVE  LedgerInv(AddBatch(l, order, proposer), left, A)
<1> DEFINE n == AddBatch(l, order, proposer)
           entry(t) == [source |-> t, node |-> proposer[t], batch |-> l.nextBatch]
<1>1. IsLedger(l) /\ proposer \in [D -> Account]
  BY DagLogicAssumption DEF LedgerInv
<1>2. /\ IsLedger(n)
      /\ FinalizedTxs(n) = FinalizedTxs(l) \cup Range(order)
      /\ n.rewards = l.rewards \cup {entry(t) : t \in Range(order)}
  <2>1. IsLedger(n)
    BY <1>1, AddBatchFacts
  <2>2. FinalizedTxs(n) = FinalizedTxs(l) \cup Range(order)
    BY <1>1, AddBatchFacts
  <2>3. n.rewards = l.rewards \cup {entry(t) : t \in Range(order)}
    <3>1. Range(order) \cap D = Range(order)
      OBVIOUS
    <3>2. n.rewards = l.rewards \cup {entry(t) : t \in Range(order) \cap D}
      BY <1>1, AddBatchFacts
    <3> QED BY <3>1, <3>2
  <2> QED BY <2>1, <2>2, <2>3
<1> HIDE DEF n
<1>3. FinalizedTxs(n) \subseteq A \ left
  BY <1>2 DEF LedgerInv
<1>4. {r.source : r \in n.rewards} = FinalizedTxs(n)
  <2>1. {r.source : r \in {entry(t) : t \in Range(order)}} = Range(order)
    <3>1. \A t \in Range(order) : entry(t).source = t
      OBVIOUS
    <3> HIDE DEF entry
    <3> QED BY <3>1
  <2>2. {r.source : r \in l.rewards} = FinalizedTxs(l)
    BY DEF LedgerInv
  <2> HIDE DEF entry
  <2> QED BY <1>2, <2>1, <2>2
<1>5. \A r, s \in n.rewards : r.source = s.source => r = s
  <2>1. \A r \in l.rewards : r.source \notin Range(order)
    BY DEF LedgerInv
  <2>2. \A r, s \in l.rewards : r.source = s.source => r = s
    BY DEF LedgerInv
  <2>3. \A t, u \in Range(order) :
          entry(t).source = entry(u).source => entry(t) = entry(u)
    OBVIOUS
  <2>4. \A t \in Range(order) : entry(t).source = t
    OBVIOUS
  <2> HIDE DEF entry
  <2> QED BY <1>2, <2>1, <2>2, <2>3, <2>4
<1> QED BY <1>2, <1>3, <1>4, <1>5 DEF LedgerInv, n
-----------------------------------------------------------------------------
(* The mempool while a verified batch is added *)

MempoolRecords ==
  [ pending : SUBSET Tx,
    arrival : UNION {[D -> Nat] : D \in SUBSET Tx},
    history : [Account -> Seq(Nat)],
    last    : [Account -> Nat \cup {NoNonce}],
    index   : UNION {[D -> Tx] : D \in SUBSET (Account \X Nat)},
    clock   : Nat ]

Mempools == {m \in MempoolRecords : IsMempool(m)}

(* The set of mempool records, for the lemmas that need a set, is          *)
(* IsMempool.                                                              *)
LEMMA MempoolsAre ==
  ASSUME NEW m
  PROVE  m \in Mempools <=> IsMempool(m)
<1>1. ASSUME IsMempool(m) PROVE m \in MempoolRecords
  <2>1. /\ m.arrival \in UNION {[D -> Nat] : D \in SUBSET Tx}
        /\ m.index \in UNION {[D -> Tx] : D \in SUBSET (Account \X Nat)}
    BY <1>1 DEF IsMempool
  <2>2. /\ m = [ pending |-> m.pending, arrival |-> m.arrival,
                 history |-> m.history, last |-> m.last,
                 index |-> m.index, clock |-> m.clock ]
        /\ m.pending \in SUBSET Tx
        /\ m.history \in [Account -> Seq(Nat)]
        /\ m.last \in [Account -> Nat \cup {NoNonce}]
        /\ m.clock \in Nat
    BY <1>1 DEF IsMempool
  <2> QED BY <2>1, <2>2 DEF MempoolRecords
<1> QED BY <1>1 DEF Mempools

(* What was accepted of the first i transactions of the batch *)
Taken(f, l, batch, i) ==
  {batch[j] : j \in {k \in 1..i : Passes(f[k - 1], l, batch[k])}}

(* Intake is the function its recursion describes. *)
LEMMA IntakeUnfolds ==
  ASSUME NEW m, IsMempool(m), NEW l, NEW batch \in Seq(Tx)
  PROVE  /\ Intake(m, l, batch)[0] = m
         /\ \A i \in 1..Len(batch) :
              Intake(m, l, batch)[i] =
                IF Passes(Intake(m, l, batch)[i - 1], l, batch[i])
                THEN Insert(Intake(m, l, batch)[i - 1], batch[i])
                ELSE Intake(m, l, batch)[i - 1]
<1> DEFINE n == Len(batch)
           Take(c, i) == IF Passes(c, l, batch[i]) THEN Insert(c, batch[i]) ELSE c
           Takes(f) == f = [i \in 0..n |-> IF i = 0 THEN m ELSE Take(f[i - 1], i)]
           step == [p \in (1..n) \X Mempools |-> Take(p[2], p[1])]
<1>1. n \in Nat /\ \A i \in 1..n : batch[i] \in Tx
  OBVIOUS
<1>2. \A c \in Mempools, i \in 1..n : Take(c, i) \in Mempools
  BY <1>1, MempoolsAre, InsertType
<1>3. step \in [(1..n) \X Mempools -> Mempools]
  <2> HIDE DEF Take
  <2> QED BY <1>2
<1>4. PICK f : Follows(f, n, Mempools, m, step)
  <2>1. n \in Nat
    BY <1>1
  <2>2. m \in Mempools
    BY MempoolsAre
  <2> HIDE DEF n, step
  <2> QED BY <2>1, <2>2, <1>3, RecursionExists
<1>5. Takes(f)
  <2> HIDE DEF Take
  <2>1. \A i \in 1..n : f[i] = Take(f[i - 1], i)
    <3> SUFFICES ASSUME NEW i \in 1..n PROVE f[i] = Take(f[i - 1], i)
      OBVIOUS
    <3>1. i - 1 \in 0..n
      BY <1>1
    <3>2. <<i, f[i - 1]>> \in (1..n) \X Mempools
      BY <1>4, <3>1 DEF Follows
    <3> QED BY <1>4, <3>2 DEF Follows
  <2>2. DOMAIN f = 0..n /\ \A i \in 0..n : i = 0 \/ i \in 1..n
    BY <1>1, <1>4 DEF Follows
  <2>3. \A i \in 0..n : f[i] = IF i = 0 THEN m ELSE Take(f[i - 1], i)
    BY <1>4, <2>1, <2>2 DEF Follows
  <2> QED BY <1>4, <2>2, <2>3 DEF Follows
<1> DEFINE r == Intake(m, l, batch)
<1>6. r = CHOOSE g : Takes(g)
  BY DEF Intake
<1>7. Takes(r)
  <2> HIDE DEF Takes
  <2> QED BY <1>5, <1>6
<1> HIDE DEF r
<1>8. /\ r[0] = m
      /\ \A i \in 1..n : r[i] = Take(r[i - 1], i)
  <2>1. /\ 0 \in 0..n
        /\ \A i \in 1..n : i \in 0..n /\ i # 0
    BY <1>1
  <2> HIDE DEF Take
  <2> QED BY <1>7, <2>1
<1> QED BY <1>8 DEF r

(* A batch is admitted like single transactions, one after the other: each *)
(* of them is new, above all that its sender had admitted before, and has  *)
(* a nonce that was not finalized.                                         *)
LEMMA IntakeKeepsInv ==
  ASSUME NEW m, NEW A, MempoolInv(m, A), NEW l, NEW batch \in Seq(Tx)
  PROVE  LET f == Intake(m, l, batch)
             n == Len(batch)
             added == Taken(f, l, batch, n)
         IN  /\ MempoolInv(f[n], A \cup added)
             /\ f[n].pending = m.pending \cup added
             /\ added \cap A = {}
             /\ \A t \in added, u \in A :
                  Sender[t] = Sender[u] => Nonce[u] < Nonce[t]
             /\ \A t \in added : /\ m.last[Sender[t]] < Nonce[t]
                                 /\ Key(t) \notin l.nonces
             /\ \A a \in Account : m.last[a] <= f[n].last[a]
<1> DEFINE f == Intake(m, l, batch)
           n == Len(batch)
           Fresh(S) == \A t \in S : /\ m.last[Sender[t]] < Nonce[t]
                                    /\ Key(t) \notin l.nonces
           Good(i) == /\ MempoolInv(f[i], A \cup Taken(f, l, batch, i))
                      /\ f[i].pending = m.pending \cup Taken(f, l, batch, i)
                      /\ Fresh(Taken(f, l, batch, i))
                      /\ \A a \in Account : m.last[a] <= f[i].last[a]
           S == {i \in 0..n : Good(i)}
<1>1. n \in Nat /\ \A i \in 1..n : batch[i] \in Tx
  OBVIOUS
<1>2. /\ f[0] = m
      /\ \A i \in 1..n : f[i] = IF Passes(f[i - 1], l, batch[i])
                                THEN Insert(f[i - 1], batch[i]) ELSE f[i - 1]
  BY IntakeUnfolds DEF MempoolInv
<1> HIDE DEF f
<1>3. /\ \A u \in A : Sender[u] \in Account /\ Nonce[u] \in Nat
      /\ m.last \in [Account -> Nat \cup {NoNonce}]
  BY KeyType DEF MempoolInv, IsMempool
<1>4. 0 \in S
  <2>1. Taken(f, l, batch, 0) = {}
    BY DEF Taken
  <2>2. /\ A \cup Taken(f, l, batch, 0) = A
        /\ m.pending \cup Taken(f, l, batch, 0) = m.pending
        /\ Fresh(Taken(f, l, batch, 0))
        /\ \A a \in Account : m.last[a] <= m.last[a]
    BY <1>3, <2>1 DEF NoNonce
  <2>3. Good(0)
    BY <1>2, <2>2
  <2> HIDE DEF Good
  <2> QED BY <1>1, <2>3
<1>5. ASSUME NEW i \in 1..n, i - 1 \in S
      PROVE  i \in S
  <2> DEFINE before == Taken(f, l, batch, i - 1)  t == batch[i]  c == f[i - 1]
  <2>1. /\ MempoolInv(c, A \cup before)
        /\ c.pending = m.pending \cup before
        /\ Fresh(before)
        /\ \A a \in Account : m.last[a] <= c.last[a]
        /\ c.last \in [Account -> Nat \cup {NoNonce}]
    BY <1>5 DEF MempoolInv, IsMempool
  <2>2. CASE Passes(c, l, t)
    <3>1. Taken(f, l, batch, i) = before \cup {t}
      <4>1. {k \in 1..i : Passes(f[k - 1], l, batch[k])}
              = {k \in 1..(i - 1) : Passes(f[k - 1], l, batch[k])} \cup {i}
        BY <1>1, <2>2
      <4> QED BY <4>1 DEF Taken
    <3>2. t \in Tx /\ Accepts(c, t)
      BY <1>1, <2>2 DEF Passes
    <3>3. f[i] = Insert(c, t)
      BY <1>2, <2>2
    <3>4. MempoolInv(f[i], A \cup Taken(f, l, batch, i))
      <4>1. MempoolInv(Insert(c, t), (A \cup before) \cup {t})
        BY <2>1, <3>2, InsertKeepsInv
      <4>2. A \cup Taken(f, l, batch, i) = (A \cup before) \cup {t}
        BY <3>1
      <4> QED BY <3>3, <4>1, <4>2
    <3>5. f[i].pending = m.pending \cup Taken(f, l, batch, i)
      BY <2>1, <3>1, <3>3 DEF Insert
    <3>6. /\ c.last[Sender[t]] < Nonce[t]
          /\ Nonce[t] \in Nat /\ Sender[t] \in Account
          /\ Key(t) \notin l.nonces
      BY <2>2, <3>2, KeyType DEF Passes, Accepts, CheckDoubleSpend, Key
    <3>7. Fresh(Taken(f, l, batch, i))
      <4>1. m.last[Sender[t]] < Nonce[t]
        <5> HIDE DEF c, t
        <5> QED BY <1>3, <2>1, <3>6 DEF NoNonce
      <4> QED BY <2>1, <3>1, <3>6, <4>1
    <3>8. \A a \in Account : m.last[a] <= f[i].last[a]
      <4>1. f[i].last = [c.last EXCEPT ![Sender[t]] = Nonce[t]]
        BY <3>3 DEF Insert
      <4> HIDE DEF c, t
      <4>2. ASSUME NEW a \in Account PROVE m.last[a] <= f[i].last[a]
        <5>1. /\ m.last[a] \in Int /\ c.last[a] \in Int /\ m.last[a] <= c.last[a]
              /\ f[i].last[a] = IF a = Sender[t] THEN Nonce[t] ELSE c.last[a]
          BY <1>3, <2>1, <4>1 DEF NoNonce
        <5> QED BY <3>6, <5>1
      <4> QED BY <4>2
    <3> QED BY <3>4, <3>5, <3>7, <3>8, <1>1
  <2>3. CASE ~Passes(c, l, t)
    <3>1. Taken(f, l, batch, i) = before
      <4>1. {k \in 1..i : Passes(f[k - 1], l, batch[k])}
              = {k \in 1..(i - 1) : Passes(f[k - 1], l, batch[k])}
        BY <1>1, <2>3
      <4> QED BY <4>1 DEF Taken
    <3>2. f[i] = c
      BY <1>2, <2>3
    <3> QED BY <2>1, <3>1, <3>2, <1>1
  <2> QED BY <2>2, <2>3
<1>6. S = 0..n
  <2>1. S \in SUBSET (0..n)
    OBVIOUS
  <2> HIDE DEF S
  <2> QED BY <1>1, <1>4, <1>5, <2>1, BoundedInduction
<1>7. Good(n)
  <2>1. n \in S
    <3>1. n \in 0..n
      BY <1>1
    <3> HIDE DEF S
    <3> QED BY <1>6, <3>1
  <2> HIDE DEF Good
  <2> QED BY <2>1
<1>8. ASSUME NEW t \in Taken(f, l, batch, n), NEW u \in A, Sender[t] = Sender[u]
      PROVE  Nonce[u] < Nonce[t]
  <2>1. m.last[Sender[t]] < Nonce[t] /\ Nonce[u] <= m.last[Sender[u]]
    BY <1>7 DEF MempoolInv
  <2>2. t \in Tx /\ Nonce[t] \in Nat
    BY <1>7, KeyType DEF MempoolInv
  <2> QED BY <1>3, <1>8, <2>1, <2>2 DEF NoNonce
<1>9. Taken(f, l, batch, n) \cap A = {}
  <2> SUFFICES ASSUME NEW u \in Taken(f, l, batch, n) \cap A PROVE FALSE
    OBVIOUS
  <2>1. Nonce[u] < Nonce[u] /\ Nonce[u] \in Nat
    BY <1>3, <1>8
  <2> QED BY <2>1
<1> QED BY <1>7, <1>8, <1>9 DEF f
-----------------------------------------------------------------------------
(* Restarts *)

(* The invariant of a mempool also holds of fewer admitted transactions.   *)
LEMMA MempoolInvOfFewer ==
  ASSUME NEW m, NEW A, MempoolInv(m, A), NEW B \in SUBSET A, m.pending \subseteq B
  PROVE  MempoolInv(m, B)
  BY DEF MempoolInv

(* A mempool vouches for what it holds, if it vouches for more. *)
LEMMA MempoolInvOfPending ==
  ASSUME NEW m, NEW A, MempoolInv(m, A)
  PROVE  MempoolInv(m, m.pending)
  BY MempoolInvOfFewer DEF MempoolInv

(* Ledger::add_batch burns the nonces of the batch. *)
LEMMA AddBatchNonces ==
  ASSUME NEW l, NEW order, NEW proposer
  PROVE  AddBatch(l, order, proposer).nonces
           = l.nonces \cup {Key(t) : t \in Range(order)}
  BY DEF AddBatch, Key

(* Mempool::load_from_disk puts the clock behind every arrival. *)
LEMMA LoadKeepsInv ==
  ASSUME NEW m, NEW A, MempoolInv(m, A)
  PROVE  /\ MempoolInv(LoadMempool(m), A)
         /\ LoadMempool(m).pending = m.pending
         /\ LoadMempool(m).last = m.last
<1> DEFINE n == LoadMempool(m)
           R == Range(m.arrival)
           latest == CHOOSE i \in R : \A k \in R : k <= i
<1>1. /\ IsMempool(m)
      /\ DOMAIN m.arrival = m.pending
      /\ m.arrival \in [m.pending -> Nat]
      /\ m.clock \in Nat
      /\ \A t \in m.pending : m.arrival[t] < m.clock
  BY DEF MempoolInv, IsMempool
<1>2. m = [ pending |-> m.pending, arrival |-> m.arrival, history |-> m.history,
            last |-> m.last, index |-> m.index, clock |-> m.clock ]
  BY <1>1 DEF IsMempool
<1>3. n = [ pending |-> m.pending, arrival |-> m.arrival, history |-> m.history,
            last |-> m.last, index |-> m.index,
            clock |-> IF DOMAIN m.arrival = {} THEN 0 ELSE 1 + latest ]
  BY <1>2 DEF LoadMempool
<1>4. n.clock \in Nat /\ \A t \in m.pending : m.arrival[t] < n.clock
  <2>1. CASE DOMAIN m.arrival = {}
    BY <1>1, <1>3, <2>1
  <2>2. CASE DOMAIN m.arrival # {}
    <3>1. R # {} /\ R \in SUBSET (0..m.clock)
      BY <1>1, <2>2 DEF Range
    <3>2. \E i \in R : \A k \in R : k <= i
      <4> HIDE DEF R
      <4> QED BY <1>1, <3>1, GreatestExists
    <3>3. latest \in R /\ \A k \in R : k <= latest
      <4> HIDE DEF R
      <4> QED BY <3>2
    <3>4. \A t \in m.pending : m.arrival[t] \in R
      BY <1>1 DEF Range
    <3>5. latest \in Nat /\ R \subseteq Nat
      BY <3>1, <3>3
    <3>6. n.clock = 1 + latest
      BY <1>3, <2>2
    <3>7. \A t \in m.pending : m.arrival[t] \in Nat /\ m.arrival[t] <= latest
      BY <1>1, <3>3, <3>4
    <3> HIDE DEF R, latest, n
    <3> QED BY <3>5, <3>6, <3>7
  <2> QED BY <2>1, <2>2
<1>5. /\ n.pending = m.pending /\ n.arrival = m.arrival
      /\ n.history = m.history /\ n.last = m.last /\ n.index = m.index
      /\ n = [ pending |-> n.pending, arrival |-> n.arrival,
               history |-> n.history, last |-> n.last,
               index |-> n.index, clock |-> n.clock ]
  BY <1>3
<1> HIDE DEF n
<1>6. IsMempool(n)
  BY <1>1, <1>4, <1>5 DEF IsMempool
<1> QED BY <1>4, <1>5, <1>6 DEF MempoolInv, n

(* The loop of DagLogic::new only ever raises a last nonce. *)
LEMMA SyncKeepsInv ==
  ASSUME NEW m, NEW A, MempoolInv(m, A),
         NEW l, l.last \in [Account -> Nat \cup {NoNonce}]
  PROVE  /\ MempoolInv(SyncNonces(m, l), A)
         /\ SyncNonces(m, l).pending = m.pending
         /\ \A a \in Account : SyncNonces(m, l).last[a] >= m.last[a]
<1> DEFINE synced(a) == SetLastNonce(m, a, l.last[a])
           n == SyncNonces(m, l)
           H == [a \in Account |-> synced(a).history[a]]
           L == [a \in Account |-> synced(a).last[a]]
<1>1. IsMempool(m)
  BY DEF MempoolInv
<1>2. m = [ pending |-> m.pending, arrival |-> m.arrival, history |-> m.history,
            last |-> m.last, index |-> m.index, clock |-> m.clock ]
  BY <1>1 DEF IsMempool
<1>3. n = [ pending |-> m.pending, arrival |-> m.arrival, history |-> H,
            last |-> L, index |-> m.index, clock |-> m.clock ]
  <2>1. n = [m EXCEPT !.last = L, !.history = H]
    BY DEF SyncNonces
  <2> HIDE DEF n, H, L
  <2> QED BY <1>2, <2>1
<1>4. ASSUME NEW a \in Account
      PROVE  /\ synced(a).history[a] \in Seq(Nat)
             /\ Len(synced(a).history[a]) <= HistoryWindow
             /\ synced(a).last[a] \in Nat \cup {NoNonce}
             /\ synced(a).last[a] >= m.last[a]
  <2>1. /\ m.last \in [Account -> Nat \cup {NoNonce}]
        /\ m.last[a] \in Nat \cup {NoNonce}
        /\ l.last[a] \in Nat \cup {NoNonce}
        /\ m.history \in [Account -> Seq(Nat)]
        /\ Len(m.history[a]) <= HistoryWindow
    BY <1>1 DEF IsMempool
  <2>2. CASE ~(l.last[a] > MaxOf(m.last[a], 0))
    <3>1. synced(a) = m
      BY <2>2 DEF SetLastNonce
    <3> QED BY <2>1, <3>1 DEF NoNonce
  <2>3. CASE l.last[a] > MaxOf(m.last[a], 0)
    <3>1. /\ synced(a).history = [m.history EXCEPT ![a] = Remember(@, l.last[a])]
          /\ synced(a).last = [m.last EXCEPT ![a] = l.last[a]]
      BY <2>3 DEF SetLastNonce
    <3>2. l.last[a] \in Nat /\ l.last[a] >= m.last[a]
      BY <2>1, <2>3 DEF MaxOf, NoNonce
    <3>3. /\ Remember(m.history[a], l.last[a]) \in Seq(Nat)
          /\ Len(Remember(m.history[a], l.last[a])) <= HistoryWindow
      BY <2>1, <3>2, RememberType
    <3> HIDE DEF synced
    <3> QED BY <2>1, <3>1, <3>2, <3>3
  <2> QED BY <2>2, <2>3
<1> HIDE DEF synced
<1>5. /\ n.pending = m.pending /\ n.arrival = m.arrival
      /\ n.index = m.index /\ n.clock = m.clock
      /\ n.history = H
      /\ n.last = L
      /\ n = [ pending |-> n.pending, arrival |-> n.arrival,
               history |-> n.history, last |-> n.last,
               index |-> n.index, clock |-> n.clock ]
  BY <1>3
<1> HIDE DEF n
<1>6. /\ n.history \in [Account -> Seq(Nat)]
      /\ \A a \in Account : Len(n.history[a]) <= HistoryWindow
      /\ n.last \in [Account -> Nat \cup {NoNonce}]
      /\ \A a \in Account : n.last[a] >= m.last[a]
  BY <1>4, <1>5
<1>7. IsMempool(n)
  BY <1>1, <1>5, <1>6 DEF IsMempool
<1>8. \A t \in A : Nonce[t] <= n.last[Sender[t]]
  <2> SUFFICES ASSUME NEW t \in A PROVE Nonce[t] <= n.last[Sender[t]]
    OBVIOUS
  <2>1. /\ Sender[t] \in Account
        /\ Nonce[t] \in Nat
        /\ Nonce[t] <= m.last[Sender[t]]
    BY KeyType DEF MempoolInv
  <2>2. /\ m.last[Sender[t]] \in Nat \cup {NoNonce}
        /\ n.last[Sender[t]] \in Nat \cup {NoNonce}
        /\ n.last[Sender[t]] >= m.last[Sender[t]]
    BY <1>1, <1>6, <2>1 DEF IsMempool
  <2> QED BY <2>1, <2>2 DEF NoNonce
<1> QED BY <1>5, <1>6, <1>7, <1>8 DEF MempoolInv, n

-----------------------------------------------------------------------------
(* The steps *)

(* DagLogic::new on an empty disk starts inside the invariant.             *)
LEMMA InitKeepsInv == DLInit => DLInv
<1> SUFFICES ASSUME DLInit PROVE DLInv
  OBVIOUS
<1>1. MempoolInv(mempool, admitted)
  BY EmptyMempoolInv DEF DLInit, MPInit
<1>2. LedgerInv(ledger, mempool.pending, admitted)
  BY DEF DLInit, MPInit, LInit, EmptyMempool, EmptyLedger, LedgerInv, IsLedger,
         FinalizedTxs, NoNonce
<1>3. RetriesInv(retries, mempool.pending, admitted)
  BY DEF DLInit, MPInit, EmptyMempool, RetriesInv
<1>4. IsBalances(balances)
  BY DEF DLInit, NoBalances, IsBalances
<1> QED BY <1>1, <1>2, <1>3, <1>4, DagLogicAssumption DEF DLInit, DLInv

(* What an action that only admits transactions has to show *)
LEMMA AdmissionKeepsInv ==
  ASSUME DLInv, NEW added, added \cap admitted = {},
         MempoolInv(mempool', admitted \cup added),
         mempool'.pending = mempool.pending \cup added,
         admitted' = admitted \cup added,
         UNCHANGED <<ledger, balances, retries, genesis, applied>>
  PROVE  DLInv'
<1>1. LedgerInv(ledger, mempool'.pending, admitted')
  BY DEF DLInv, LedgerInv
<1>2. RetriesInv(retries, mempool'.pending, admitted')
  <2>1. added \subseteq Tx
    BY DEF MempoolInv
  <2> QED BY <2>1, DagLogicAssumption DEF DLInv, RetriesInv
<1> QED BY <1>1, <1>2 DEF DLInv

(* What add_transaction and add_transaction_from_gossip admit is new and   *)
(* above every nonce its sender was admitted with before.                  *)
LEMMA AdmitFacts ==
  ASSUME DLInv, NEW t \in Tx, Admit(t)
  PROVE  /\ MempoolInv(mempool', admitted \cup {t})
         /\ mempool'.pending = mempool.pending \cup {t}
         /\ admitted' = admitted \cup {t}
         /\ t \notin admitted
         /\ \A u \in admitted : Sender[t] = Sender[u] => Nonce[u] < Nonce[t]
<1>1. MempoolInv(mempool, admitted)
  BY DEF DLInv
<1>2. /\ Accepts(mempool, t)
      /\ mempool' = Insert(mempool, t)
      /\ admitted' = admitted \cup {t}
  BY DEF Admit, MPAdd
<1>3. MempoolInv(mempool', admitted \cup {t})
  BY <1>1, <1>2, InsertKeepsInv
<1>4. mempool'.pending = mempool.pending \cup {t}
  BY <1>2 DEF Insert
<1>5. ASSUME NEW u \in admitted, Sender[t] = Sender[u]
      PROVE  Nonce[u] < Nonce[t]
  <2>1. /\ Nonce[u] <= mempool.last[Sender[t]]
        /\ mempool.last \in [Account -> Nat \cup {NoNonce}]
        /\ u \in Tx
    BY <1>1, <1>5 DEF MempoolInv, IsMempool
  <2>2. mempool.last[Sender[t]] < Nonce[t]
    BY <1>2 DEF Accepts
  <2>3. Nonce[u] \in Nat /\ Nonce[t] \in Nat /\ Sender[t] \in Account
    BY <2>1, KeyType
  <2> QED BY <2>1, <2>2, <2>3 DEF NoNonce
<1>6. t \notin admitted
  <2>1. Nonce[t] \in Nat
    BY KeyType
  <2> QED BY <1>5, <2>1
<1> QED BY <1>2, <1>3, <1>4, <1>5, <1>6

(* What add_verified_batch admits, as one step, is new, has one            *)
(* transaction per nonce, and is above what was admitted before.           *)
LEMMA BatchFacts ==
  ASSUME DLInv, NEW S \in SUBSET Tx, NEW batch \in SetToSeqs(S),
         AddVerifiedBatch(batch)
  PROVE  \E added :
           /\ MempoolInv(mempool', admitted \cup added)
           /\ mempool'.pending = mempool.pending \cup added
           /\ admitted' = admitted \cup added
           /\ added \cap admitted = {}
           /\ \A t \in added, u \in admitted :
                Sender[t] = Sender[u] => Nonce[u] < Nonce[t]
<1> DEFINE f == Intake(mempool, ledger, batch)
           n == Len(batch)
           added == Taken(f, ledger, batch, n)
<1>1. batch \in Seq(Tx)
  BY SequenceOf
<1>2. MempoolInv(mempool, admitted)
  BY DEF DLInv
<1>3. /\ MempoolInv(f[n], admitted \cup added)
      /\ f[n].pending = mempool.pending \cup added
      /\ added \cap admitted = {}
      /\ \A t \in added, u \in admitted :
           Sender[t] = Sender[u] => Nonce[u] < Nonce[t]
  BY <1>1, <1>2, IntakeKeepsInv
<1>4. mempool' = f[n]
  BY DEF AddVerifiedBatch
<1>5. admitted' = admitted \cup added
  <2>1. DOMAIN batch = 1..n
    BY <1>1
  <2> QED BY <2>1 DEF AddVerifiedBatch, Taken
<1> HIDE DEF f, n, added
<1> QED BY <1>3, <1>4, <1>5

(* A finalization round: what it finalizes is pending, and leaves. *)
LEMMA FinalizeFacts ==
  ASSUME DLInv, Finalize
  PROVE  /\ DLInv'
         /\ admitted' = admitted
         /\ mempool'.pending \subseteq mempool.pending
         /\ FinalizedTxs(ledger) \subseteq FinalizedTxs(ledger')
         /\ FinalizedTxs(ledger') \ FinalizedTxs(ledger)
              \subseteq mempool.pending \ mempool'.pending
<1>1. PICK approved \in SUBSET admitted :
        \E order \in SetToSeqs(Finalizable(mempool, balances, approved)),
           proposer \in [approved -> Node] :
             FinalizeBatch(approved, order, proposer)
  BY DEF Finalize
<1> DEFINE final == Finalizable(mempool, balances, approved)
           seen  == StillPending(mempool, approved)
           evict == {t \in seen : Evicted(balances, retries, t)}
<1>2. PICK order \in SetToSeqs(final), proposer \in [approved -> Node] :
             FinalizeBatch(approved, order, proposer)
  BY <1>1
<1>3. /\ MempoolInv(mempool, admitted)
      /\ LedgerInv(ledger, mempool.pending, admitted)
      /\ RetriesInv(retries, mempool.pending, admitted)
      /\ IsBalances(balances)
      /\ admitted \subseteq Tx
      /\ mempool.pending \subseteq admitted
  BY DEF DLInv, MempoolInv
<1>4. final \subseteq seen /\ seen = approved \cap mempool.pending
  BY DEF Finalizable, StillPending
<1>5. /\ order \in Seq(Tx)
      /\ Range(order) \subseteq final
      /\ Range(order) \subseteq approved
  BY <1>3, <1>4, SequenceOf
<1>6. /\ admitted' = admitted
      /\ genesis' = genesis
      /\ retries' = [t \in Tx |-> IF t \in evict THEN 0
                                  ELSE IF t \in seen /\ Waiting(balances, t)
                                       THEN retries[t] + 1
                                  ELSE retries[t]]
  BY <1>2 DEF FinalizeBatch
<1> HIDE DEF final, seen, evict
<1>7. \E gone : mempool' = RemoveBatch(mempool, gone) /\ evict \subseteq gone
  <2>1. CASE order = <<>>
    BY <1>2, <2>1 DEF FinalizeBatch, evict, seen
  <2>2. CASE order # <<>>
    BY <1>2, <2>2 DEF FinalizeBatch, evict, seen
  <2> QED BY <2>1, <2>2
<1>8. /\ MempoolInv(mempool', admitted)
      /\ mempool'.pending \subseteq mempool.pending
      /\ evict \cap mempool'.pending = {}
  <2>1. PICK gone : mempool' = RemoveBatch(mempool, gone) /\ evict \subseteq gone
    BY <1>7
  <2>2. mempool'.pending = mempool.pending \ (gone \cap mempool.pending)
    BY <2>1 DEF RemoveBatch
  <2> QED BY <1>3, <2>1, <2>2, RemoveBatchKeepsInv
<1>9. RetriesInv(retries', mempool'.pending, admitted)
  <2>1. /\ retries \in [Tx -> Nat]
        /\ \A t \in Tx \ admitted : retries[t] = 0
        /\ \A t \in mempool.pending : retries[t] < MaxRetries
        /\ MaxRetries \in Nat
    BY <1>3, DagLogicAssumption DEF RetriesInv
  <2>2. retries' \in [Tx -> Nat]
    BY <1>6, <2>1
  <2>3. \A t \in Tx \ admitted : retries'[t] = 0
    BY <1>3, <1>4, <1>6, <2>1
  <2>4. ASSUME NEW t \in mempool'.pending
        PROVE  retries'[t] < MaxRetries
    <3>1. t \in Tx /\ t \in mempool.pending /\ t \notin evict
      BY <1>3, <1>8
    <3>2. CASE t \in seen /\ Waiting(balances, t)
      <4>1. ~Evicted(balances, retries, t)
        BY <3>1, <3>2 DEF evict
      <4>2. ~(retries[t] + 1 >= MaxRetries)
        BY <3>2, <4>1 DEF Evicted
      <4>3. retries'[t] = retries[t] + 1
        BY <1>6, <3>1, <3>2
      <4> QED BY <2>1, <3>1, <4>2, <4>3
    <3>3. CASE ~(t \in seen /\ Waiting(balances, t))
      BY <1>6, <2>1, <3>1, <3>3
    <3> QED BY <3>2, <3>3
  <2> QED BY <2>2, <2>3, <2>4 DEF RetriesInv
<1>10. CASE order = <<>>
  <2>1. UNCHANGED <<ledger, balances, applied>>
    BY <1>2, <1>10 DEF FinalizeBatch
  <2>2. LedgerInv(ledger, mempool'.pending, admitted)
    BY <1>3, <1>8 DEF LedgerInv
  <2> QED BY <1>6, <1>8, <1>9, <2>1, <2>2 DEF DLInv
<1>11. CASE order # <<>>
  <2> DEFINE run == Run(balances, order)
  <2>1. /\ mempool' = RemoveBatch(mempool, evict \cup approved)
        /\ balances' = PayRewards(run[Len(order)], order, proposer)
        /\ ledger' = AddBatch(ledger, order, proposer)
        /\ applied' = applied \cup
             {order[i] : i \in {j \in DOMAIN order : CanApply(run[j - 1], order[j])}}
    BY <1>2, <1>11 DEF FinalizeBatch, evict, seen
  <2> HIDE DEF run
  <2>2. applied' \subseteq Tx
    BY <1>5, <2>1 DEF DLInv
  <2>3. Range(order) \subseteq mempool.pending \ mempool'.pending
    <3>1. mempool'.pending =
            mempool.pending \ ((evict \cup approved) \cap mempool.pending)
      BY <2>1 DEF RemoveBatch
    <3> QED BY <1>4, <1>5, <3>1
  <2>4. LedgerInv(ledger', mempool'.pending, admitted)
    BY <1>3, <1>5, <1>8, <2>1, <2>3, AddBatchKeepsInv
  <2>5. IsBalances(balances')
    <3>1. Len(order) \in 0..Len(order)
      BY <1>5
    <3>2. IsBalances(run[Len(order)])
      BY <1>3, <1>5, <3>1, RunType DEF run
    <3>3. \A i \in 1..Len(order) : proposer[order[i]] \in Account
      <4>1. \A i \in 1..Len(order) : order[i] \in approved
        BY <1>5 DEF Range
      <4> QED BY <4>1, DagLogicAssumption
    <3> QED BY <1>5, <2>1, <3>2, <3>3, PayRewardsType
  <2>6. FinalizedTxs(ledger') = FinalizedTxs(ledger) \cup Range(order)
    <3>1. IsLedger(ledger) /\ proposer \in [approved -> Account]
      BY <1>3, <1>5, DagLogicAssumption DEF LedgerInv
    <3> QED BY <1>5, <2>1, <3>1, AddBatchFacts
  <2> QED
    BY <1>6, <1>8, <1>9, <2>2, <2>3, <2>4, <2>5, <2>6 DEF DLInv
<1> QED BY <1>10, <1>11

(* Every action of the core keeps the invariant.                           *)
LEMMA NextKeepsInv ==
  ASSUME DLInv, [DLNext]_dlVars
  PROVE  DLInv'
<1>1. ASSUME NEW t \in Tx, Admit(t),
             UNCHANGED <<ledger, balances, retries, genesis, applied>>
      PROVE  DLInv'
  <2> DEFINE added == {t}
  <2>1. /\ MempoolInv(mempool', admitted \cup added)
        /\ mempool'.pending = mempool.pending \cup added
        /\ admitted' = admitted \cup added
        /\ added \cap admitted = {}
    BY <1>1, AdmitFacts
  <2> HIDE DEF added
  <2> QED BY <1>1, <2>1, AdmissionKeepsInv
<1>2. ASSUME NEW t \in Tx, AddTransaction(t)
      PROVE  DLInv'
  BY <1>1, <1>2 DEF AddTransaction
<1>3. ASSUME NEW t \in Tx, AddTransactionFromGossip(t)
      PROVE  DLInv'
  BY <1>1, <1>3 DEF AddTransactionFromGossip
<1>4. ASSUME NEW S \in SUBSET Tx, NEW batch \in SetToSeqs(S),
             AddVerifiedBatch(batch)
      PROVE  DLInv'
  <2>1. PICK added :
          /\ MempoolInv(mempool', admitted \cup added)
          /\ mempool'.pending = mempool.pending \cup added
          /\ admitted' = admitted \cup added
          /\ added \cap admitted = {}
    BY <1>4, BatchFacts
  <2>2. UNCHANGED <<ledger, balances, retries, genesis, applied>>
    BY <1>4 DEF AddVerifiedBatch
  <2> QED BY <2>1, <2>2, AdmissionKeepsInv
<1>5. ASSUME NEW a \in Account, AllocateGenesis(a)
      PROVE  DLInv'
  <2>1. IsBalances(balances')
    BY <1>5, PutBalance, StateAssumption DEF AllocateGenesis, GenesisAllocate, DLInv
  <2>2. genesis' \in 0..GenesisLimit
    BY <1>5, DagLogicAssumption DEF AllocateGenesis, DLInv
  <2> QED BY <1>5, <2>1, <2>2 DEF AllocateGenesis, mpVars, DLInv
<1>6. CASE Finalize
  BY <1>6, FinalizeFacts
<1>7. CASE UNCHANGED dlVars
  BY <1>7 DEF dlVars, mpVars, DLInv
<1> QED BY <1>2, <1>3, <1>4, <1>5, <1>6, <1>7 DEF DLNext

(* The inductive invariant of the core: mempool, ledger, balances and      *)
(* retry counts stay consistent with each other.                           *)
THEOREM DLInvariance == DLSpec => []DLInv
<1>1. DLInv /\ [DLNext]_dlVars => DLInv'
  BY NextKeepsInv
<1> QED BY InitKeepsInv, <1>1, PTL DEF DLSpec

(* Type correctness of the core: in particular no balance underflows and   *)
(* no history outgrows its window.                                         *)
THEOREM DLTypeCorrect == DLSpec => []DLTypeOK
<1>1. DLInv => DLTypeOK
  BY DEF DLInv, DLTypeOK, MempoolInv, MPTypeOK, LedgerInv, LTypeOK, RetriesInv
<1> QED BY <1>1, DLInvariance, PTL

(* No nonce is finalized twice and no transaction rewarded twice.          *)
THEOREM NoDoubleSpendHolds == DLSpec => []NoDoubleSpend
<1>1. ASSUME DLInv PROVE NoDoubleSpend
  <2>1. /\ FinalizedTxs(ledger) \subseteq admitted \ mempool.pending
        /\ \A r, s \in ledger.rewards : r.source = s.source => r = s
    BY <1>1 DEF DLInv, LedgerInv
  <2>2. /\ mempool.pending \subseteq admitted
        /\ \A t, u \in admitted : Key(t) = Key(u) => t = u
    BY <1>1 DEF DLInv, MempoolInv
  <2> QED BY <2>1, <2>2 DEF NoDoubleSpend
<1> QED BY <1>1, DLInvariance, PTL

(* Every finalized transaction has its reward entry, and no other has one. *)
THEOREM RewardsCoverLedgerHolds == DLSpec => []RewardsCoverLedger
<1>1. DLInv => RewardsCoverLedger
  BY DEF DLInv, LedgerInv, RewardsCoverLedger
<1> QED BY <1>1, DLInvariance, PTL

(* No pending transaction has used up its retries. *)
THEOREM RetriesBelowLimitHolds == DLSpec => []RetriesBelowLimit
<1>1. DLInv => RetriesBelowLimit
  BY DEF DLInv, RetriesInv, RetriesBelowLimit
<1> QED BY <1>1, DLInvariance, PTL

-----------------------------------------------------------------------------
(* Money *)

MoneyInv ==
  /\ IsFiniteSet(DOMAIN balances)
  /\ applied \subseteq FinalizedTxs(ledger)
  /\ Supply(balances) <= genesis * GenesisBalance
                           + FeesOf(FinalizedTxs(ledger) \ applied)

(* The fees of a set of transactions, as a sum over it or as a function.   *)
LEMMA FeesSum ==
  ASSUME NEW S \in SUBSET Tx
  PROVE  /\ IsFiniteSet(S)
         /\ FeesOf(S) \in Nat
         /\ SumFunction([t \in S |-> Fee[t]]) = FeesOf(S)
<1> DEFINE f == [t \in S |-> Fee[t]]
<1>1. IsFiniteSet(S) /\ \A t \in S : Fee[t] \in Nat
  BY TxAssumption, FS_Subset
<1>2. FeesOf(S) \in Nat
  BY <1>1, SumNat DEF FeesOf
<1>3. /\ DOMAIN f = S
      /\ \A t \in S : f[t] \in Int /\ f[t] = Fee[t]
  BY <1>1
<1> HIDE DEF f
<1>4. SumFunctionOnSet(f, S) = SumFunctionOnSet(Fee, S)
  BY <1>1, <1>3, SumSame
<1> QED BY <1>1, <1>2, <1>3, <1>4 DEF FeesOf, SumFunction, f

LEMMA FeesUnion ==
  ASSUME NEW S \in SUBSET Tx, NEW T \in SUBSET Tx, S \cap T = {}
  PROVE  FeesOf(S \cup T) = FeesOf(S) + FeesOf(T)
<1>1. \A t \in S \cup T : Fee[t] \in Int
  BY TxAssumption
<1> QED BY <1>1, FeesSum, SumUnion DEF FeesOf

(* genesis_allocate replaces a balance by GenesisBalance: the supply grows *)
(* by that much at most.                                                   *)
LEMMA GenesisKeepsMoney ==
  ASSUME DLInv, MoneyInv, NEW a \in Account, AllocateGenesis(a)
  PROVE  MoneyInv'
<1>1. /\ IsBalances(balances) /\ IsFiniteSet(DOMAIN balances)
      /\ genesis \in Nat
      /\ GenesisBalance \in 0..MaxU64 /\ GenesisBalance \in Nat
      /\ FinalizedTxs(ledger) \ applied \in SUBSET Tx
  BY DagLogicAssumption, StateAssumption, TxAssumption
     DEF DLInv, MoneyInv, LedgerInv, IsLedger, FinalizedTxs
<1>2. /\ genesis' = genesis + 1
      /\ balances' = Put(balances, a, GenesisBalance)
      /\ UNCHANGED <<ledger, applied>>
  BY DEF AllocateGenesis, GenesisAllocate
<1>3. /\ IsFiniteSet(DOMAIN balances')
      /\ Supply(balances) \in Nat
      /\ Supply(balances') = Supply(balances) - GetBalance(balances, a) + GenesisBalance
      /\ GetBalance(balances, a) \in Nat
  <2>1. GetBalance(balances, a) \in Nat
    BY <1>1, TxAssumption, BalanceInRange
  <2> QED BY <1>1, <1>2, <2>1, SupplyPut
<1>4. /\ genesis * GenesisBalance \in Nat
      /\ genesis' * GenesisBalance = genesis * GenesisBalance + GenesisBalance
  BY <1>1, <1>2
<1> DEFINE fees == FeesOf(FinalizedTxs(ledger) \ applied)
<1>5. fees \in Nat /\ Supply(balances) <= genesis * GenesisBalance + fees
  BY <1>1, FeesSum DEF MoneyInv
<1>6. FeesOf(FinalizedTxs(ledger) \ applied)' = fees
  BY <1>2 DEF FeesOf, FinalizedTxs
<1> HIDE DEF fees
<1> DEFINE g == genesis * GenesisBalance
           h == genesis' * GenesisBalance
<1>7. g \in Nat /\ h = g + GenesisBalance /\ Supply(balances) <= g + fees
  BY <1>4, <1>5
<1> HIDE DEF g, h
<1>8. Supply(balances') <= h + fees
  BY <1>1, <1>3, <1>5, <1>7
<1>9. applied' \subseteq FinalizedTxs(ledger')
  BY <1>2 DEF MoneyInv
<1> QED BY <1>3, <1>6, <1>8, <1>9 DEF MoneyInv, h, Supply, FinalizedTxs

(* No sender of a pending transaction can pay a cost that saturates.       *)
PayableCostsExact ==
  CostsExact({t \in mempool.pending : CanApply(balances, t)})

(* A round burns the fees of what it applies and pays out the fees of all  *)
(* that it finalizes: what is not covered is the fees of the others.       *)
LEMMA FinalizeKeepsMoney ==
  ASSUME PayableCostsExact, DLInv, MoneyInv, Finalize
  PROVE  MoneyInv'
<1>1. PICK approved \in SUBSET admitted :
        \E order \in SetToSeqs(Finalizable(mempool, balances, approved)),
           proposer \in [approved -> Node] :
             FinalizeBatch(approved, order, proposer)
  BY DEF Finalize
<1> DEFINE S == Finalizable(mempool, balances, approved)
<1>2. PICK order \in SetToSeqs(S), proposer \in [approved -> Node] :
             FinalizeBatch(approved, order, proposer)
  BY <1>1
<1> DEFINE n == Len(order)
           run == Run(balances, order)
           C == Succeeding(balances, order, n)
           F == FinalizedTxs(ledger)
<1>3. /\ S \subseteq approved /\ S \subseteq mempool.pending
      /\ mempool.pending \subseteq Tx
      /\ F \subseteq Tx /\ F \cap mempool.pending = {}
      /\ IsBalances(balances) /\ IsFiniteSet(DOMAIN balances)
      /\ applied \subseteq F
      /\ IsLedger(ledger)
  BY DEF Finalizable, StillPending, DLInv, MempoolInv, LedgerInv, IsLedger,
         FinalizedTxs, MoneyInv
<1>8. CostsExact(S)
  BY DEF Affordable, Finalizable, StillPending, CanApply, PayableCostsExact, CostsExact
<1>4. genesis' = genesis
  BY <1>2 DEF FinalizeBatch
<1> HIDE DEF S
<1>5. /\ order \in Seq(Tx) /\ Range(order) = S /\ n \in 0..n
  <2>1. order \in Seq(Tx) /\ Range(order) = S
    BY <1>3, EnumerationOf
  <2> QED BY <2>1
<1>6. CASE order = <<>>
  <2>1. UNCHANGED <<ledger, balances, applied>>
    BY <1>2, <1>6 DEF FinalizeBatch
  <2> QED BY <1>4, <2>1 DEF MoneyInv, Supply, FinalizedTxs, FeesOf
<1>7. CASE order # <<>>
  <2>1. /\ balances' = PayRewards(run[n], order, proposer)
        /\ ledger' = AddBatch(ledger, order, proposer)
        /\ applied' = applied \cup
             {order[i] : i \in {j \in DOMAIN order : CanApply(run[j - 1], order[j])}}
    BY <1>2, <1>7 DEF FinalizeBatch
  <2>2. applied' = applied \cup C
    <3>1. DOMAIN order = 1..n
      BY <1>5
    <3> QED BY <2>1, <3>1 DEF Succeeding
  <2> HIDE DEF run
  <2>3. FinalizedTxs(ledger') = F \cup S
    <3>1. proposer \in [approved -> Account]
      BY DagLogicAssumption
    <3> QED BY <1>3, <1>5, <2>1, <3>1, AddBatchFacts
  <2>4. /\ IsFiniteSet(DOMAIN run[n]) /\ IsBalances(run[n])
        /\ Supply(run[n]) \in Nat
        /\ FeesOf(C) \in Nat
        /\ C \subseteq S
        /\ Supply(run[n]) + FeesOf(C) <= Supply(balances)
    <3>1. S \in SUBSET Tx
      BY <1>3
    <3>2. IsBalances(run[n])
      BY <1>3, <1>5, RunType DEF run
    <3> QED BY <1>3, <1>8, <3>1, <3>2, SupplyRun DEF run
  <2>5. /\ IsFiniteSet(DOMAIN balances')
        /\ FeesOf(S) \in Nat
        /\ Supply(balances') \in Nat
        /\ Supply(balances') <= Supply(run[n]) + FeesOf(S)
    <3>1. S \in SUBSET Tx /\ \A t \in S : proposer[t] \in Account
      BY <1>3, DagLogicAssumption
    <3> QED BY <2>1, <2>4, <3>1, SupplyPaid
  <2> HIDE DEF C
  <2>6. FeesOf(S) = FeesOf(C) + FeesOf(S \ C)
    <3>1. C \cup (S \ C) = S /\ C \in SUBSET Tx /\ S \ C \in SUBSET Tx
      BY <1>3, <2>4
    <3>2. FeesOf(C \cup (S \ C)) = FeesOf(C) + FeesOf(S \ C)
      BY <3>1, FeesUnion
    <3> QED BY <3>1, <3>2
  <2>7. FeesOf((F \cup S) \ (applied \cup C)) = FeesOf(F \ applied) + FeesOf(S \ C)
    <3>1. (F \cup S) \ (applied \cup C) = (F \ applied) \cup (S \ C)
      BY <1>3, <2>4
    <3>2. /\ F \ applied \in SUBSET Tx /\ S \ C \in SUBSET Tx
          /\ (F \ applied) \cap (S \ C) = {}
      BY <1>3
    <3> QED BY <3>1, <3>2, FeesUnion
  <2>8. /\ FeesOf(F \ applied) \in Nat /\ FeesOf(S \ C) \in Nat
    BY <1>3, FeesSum
  <2>9. Supply(balances) <= genesis * GenesisBalance + FeesOf(F \ applied)
    BY DEF MoneyInv
  <2>10. genesis * GenesisBalance \in Nat
    BY DagLogicAssumption, StateAssumption, TxAssumption DEF DLInv
  <2>11. Supply(balances) \in Nat
    BY <1>3, SupplyNat
  <2>12. Supply(balances') <= genesis * GenesisBalance
                                 + FeesOf((F \cup S) \ (applied \cup C))
    <3> DEFINE g == genesis * GenesisBalance
    <3>1. g \in Nat /\ Supply(balances) <= g + FeesOf(F \ applied)
      BY <2>9, <2>10
    <3> HIDE DEF g
    <3>2. Supply(balances') <= g + FeesOf((F \cup S) \ (applied \cup C))
      BY <2>4, <2>5, <2>6, <2>7, <2>8, <2>11, <3>1
    <3> QED BY <3>2 DEF g
  <2>13. applied' \subseteq F \cup S
    BY <1>3, <2>2, <2>4
  <2>14. /\ FinalizedTxs(ledger)' = F \cup S
         /\ Supply(balances)' = Supply(balances')
         /\ FeesOf(FinalizedTxs(ledger) \ applied)'
              = FeesOf((F \cup S) \ (applied \cup C))
    BY <2>2, <2>3 DEF FinalizedTxs, Supply, FeesOf
  <2> QED BY <1>4, <2>5, <2>12, <2>13, <2>14 DEF MoneyInv
<1> QED BY <1>6, <1>7

LEMMA NextKeepsMoney ==
  ASSUME PayableCostsExact, DLInv, MoneyInv, [DLNext]_dlVars
  PROVE  MoneyInv'
<1>1. ASSUME UNCHANGED <<balances, ledger, applied, genesis>>
      PROVE  MoneyInv'
  BY <1>1 DEF MoneyInv, Supply, FinalizedTxs, FeesOf
<1>2. ASSUME NEW t \in Tx, AddTransaction(t) \/ AddTransactionFromGossip(t)
      PROVE  MoneyInv'
  BY <1>1, <1>2 DEF AddTransaction, AddTransactionFromGossip
<1>3. ASSUME NEW S \in SUBSET Tx, NEW batch \in SetToSeqs(S),
             AddVerifiedBatch(batch)
      PROVE  MoneyInv'
  BY <1>1, <1>3 DEF AddVerifiedBatch
<1>4. CASE UNCHANGED dlVars
  BY <1>1, <1>4 DEF dlVars
<1> QED BY <1>2, <1>3, <1>4, GenesisKeepsMoney, FinalizeKeepsMoney DEF DLNext

LEMMA InitMoney == DLInit => MoneyInv
<1> SUFFICES ASSUME DLInit PROVE MoneyInv
  OBVIOUS
<1>1. /\ balances = NoBalances /\ ledger = EmptyLedger
      /\ applied = {} /\ genesis = 0
  BY DEF DLInit, LInit
<1>2. DOMAIN balances = {} /\ FinalizedTxs(ledger) = {}
  BY <1>1 DEF NoBalances, EmptyLedger, FinalizedTxs
<1>3. Supply(balances) = 0 /\ FeesOf({}) = 0
  BY <1>2, SumUnfold, FS_EmptySet DEF Supply, SumFunction, FeesOf
<1>4. genesis * GenesisBalance = 0
  BY <1>1, StateAssumption, TxAssumption
<1>5. FinalizedTxs(ledger) \ applied = {}
  BY <1>2
<1> QED BY <1>1, <1>2, <1>3, <1>4, <1>5, FS_EmptySet DEF MoneyInv

(* What the money supply is bounded by, with what keeps the bound exact.   *)
THEOREM MoneyInvariance == DLSpec /\ []PayableCostsExact => []MoneyInv
<1>1. PayableCostsExact /\ DLInv /\ MoneyInv /\ [DLNext]_dlVars => MoneyInv'
  BY NextKeepsMoney
<1> QED BY <1>1, InitMoney, DLInvariance, PTL DEF DLSpec

(* There is less money than u64 can count.                                 *)
MoneyBelowLimit == Supply(balances) < MaxU64

(* A cost that saturates is MaxU64, which nobody has.                      *)
LEMMA PayableBelowLimit ==
  ASSUME DLInv, MoneyInv, MoneyBelowLimit
  PROVE  PayableCostsExact
<1> SUFFICES ASSUME NEW t \in mempool.pending, CanApply(balances, t)
             PROVE  TotalCost(t) = Amount[t] + Fee[t]
  BY DEF PayableCostsExact, CostsExact
<1>1. t \in Tx /\ IsBalances(balances) /\ IsFiniteSet(DOMAIN balances)
  BY DEF DLInv, MempoolInv, MoneyInv
<1>2. /\ Sender[t] \in Account /\ MaxU64 \in Nat /\ 0 \in 0..MaxU64
      /\ Amount[t] \in Nat /\ Fee[t] \in Nat
  BY <1>1, TxAssumption
<1>3. /\ Supply(balances) \in Nat
      /\ GetBalance(balances, Sender[t]) <= Supply(balances)
  BY <1>1, <1>2, SupplyPut
<1>4. GetBalance(balances, Sender[t]) \in Nat
  BY <1>1, <1>2, BalanceInRange
<1>5. TotalCost(t) \in Nat /\ TotalCost(t) <= GetBalance(balances, Sender[t])
  BY <1>1, <1>2, <1>4, TotalCostInRange DEF CanApply, HasBalance
<1>6. TotalCost(t) < MaxU64
  BY <1>2, <1>3, <1>4, <1>5 DEF MoneyBelowLimit
<1> QED BY <1>2, <1>6 DEF TotalCost, SatAdd, MinOf

(* Money.  All of it comes from a genesis allocation or from the fee of a  *)
(* final transaction that was not applied, whatever fails in a batch: as   *)
(* long as no sender can pay a cost that saturates.                        *)
THEOREM SupplyIsBackedHolds ==
  DLSpec /\ []PayableCostsExact => []SupplyIsBacked
<1>1. DLInv /\ MoneyInv => SupplyIsBacked
  <2> SUFFICES ASSUME DLInv, MoneyInv PROVE SupplyIsBacked
    OBVIOUS
  <2>1. FinalizedTxs(ledger) \ applied \in SUBSET Tx
    BY DEF DLInv, LedgerInv, IsLedger, FinalizedTxs
  <2>2. SumFunction([t \in FinalizedTxs(ledger) \ applied |-> Fee[t]])
          = FeesOf(FinalizedTxs(ledger) \ applied)
    BY <2>1, FeesSum
  <2> QED BY <2>2 DEF MoneyInv, SupplyIsBacked
<1> QED BY <1>1, MoneyInvariance, DLInvariance, PTL

(* The money that a behaviour can create is less than u64 can count.      *)
MoneyFits == GenesisLimit * GenesisBalance + FeesOf(Tx) < MaxU64

LEMMA SupplyFits ==
  ASSUME MoneyFits, DLInv, MoneyInv
  PROVE  MoneyBelowLimit
<1> DEFINE U == FinalizedTxs(ledger) \ applied
<1>1. /\ genesis \in 0..GenesisLimit /\ GenesisLimit \in Nat
      /\ GenesisBalance \in Nat
      /\ U \in SUBSET Tx /\ Tx \ U \in SUBSET Tx
      /\ Supply(balances) <= genesis * GenesisBalance + FeesOf(U)
      /\ IsBalances(balances) /\ IsFiniteSet(DOMAIN balances)
  BY DagLogicAssumption, StateAssumption, TxAssumption
     DEF DLInv, MoneyInv, LedgerInv, IsLedger, FinalizedTxs
<1> HIDE DEF U
<1>2. FeesOf(U) <= FeesOf(Tx) /\ FeesOf(U) \in Nat /\ FeesOf(Tx) \in Nat
  <2>1. U \cup (Tx \ U) = Tx /\ U \cap (Tx \ U) = {}
    BY <1>1
  <2>2. FeesOf(U \cup (Tx \ U)) = FeesOf(U) + FeesOf(Tx \ U)
    BY <1>1, <2>1, FeesUnion
  <2>3. FeesOf(U) \in Nat /\ FeesOf(Tx \ U) \in Nat
    BY <1>1, FeesSum
  <2>4. FeesOf(U \cup (Tx \ U)) = FeesOf(Tx)
    BY <2>1
  <2> QED BY <2>2, <2>3, <2>4
<1>3. /\ genesis * GenesisBalance <= GenesisLimit * GenesisBalance
      /\ genesis * GenesisBalance \in Nat
      /\ GenesisLimit * GenesisBalance \in Nat
  <2> DEFINE more == GenesisLimit - genesis
  <2>1. /\ more \in Nat /\ genesis \in Nat
        /\ GenesisLimit = genesis + more
    BY <1>1
  <2> HIDE DEF more
  <2>2. more * GenesisBalance \in Nat /\ genesis * GenesisBalance \in Nat
    BY <1>1, <2>1
  <2>3. (genesis + more) * GenesisBalance
          = genesis * GenesisBalance + more * GenesisBalance
    BY <1>1, <2>1
  <2> QED BY <2>1, <2>2, <2>3
<1>4. Supply(balances) \in Nat
  BY <1>1, SupplyNat
<1> DEFINE g == genesis * GenesisBalance
           h == GenesisLimit * GenesisBalance
<1>5. /\ g \in Nat /\ h \in Nat /\ g <= h
      /\ Supply(balances) <= g + FeesOf(U)
      /\ h + FeesOf(Tx) < MaxU64
  BY <1>1, <1>3 DEF MoneyFits
<1> HIDE DEF g, h
<1> QED BY <1>2, <1>4, <1>5, TxAssumption DEF MoneyBelowLimit

(* Then the money stays below the limit, as every step moves exact costs.  *)
THEOREM MoneyStaysBelowLimit ==
  ASSUME MoneyFits
  PROVE  DLSpec => []MoneyBelowLimit
<1>1. DLInv /\ MoneyInv /\ [DLNext]_dlVars => MoneyInv'
  BY SupplyFits, PayableBelowLimit, NextKeepsMoney
<1>2. DLInv /\ MoneyInv => MoneyBelowLimit
  BY SupplyFits
<1> QED BY <1>1, <1>2, InitMoney, DLInvariance, PTL DEF DLSpec

(* What a sender spends, summed up as in JointlyAffordable                 *)
LEMMA SpentSum ==
  ASSUME NEW S \in SUBSET Tx, NEW a
  PROVE  SumFunction([t \in {u \in S : Sender[u] = a} |-> TotalCost(t)]) = Spent(S, a)
<1> DEFINE O == OwnOf(S, a)
           f == [t \in O |-> TotalCost(t)]
<1>1. {u \in S : Sender[u] = a} = O
  BY DEF OwnOf
<1>2. IsFiniteSet(O) /\ \A u \in O : Cost[u] \in Int
  BY SpentNat
<1>3. O \subseteq Tx
  BY DEF OwnOf
<1>4. DOMAIN f = O /\ \A u \in O : f[u] = Cost[u]
  BY <1>3 DEF Cost
<1> HIDE DEF O, f
<1>5. SumFunctionOnSet(f, O) = SumFunctionOnSet(Cost, O)
  BY <1>2, <1>4, SumSame
<1> QED BY <1>1, <1>4, <1>5 DEF SumFunction, Spent, O, f

(* Who can pay for all can pay for each. *)
LEMMA EachAffordable ==
  ASSUME NEW b, IsBalances(b), NEW S \in SUBSET Tx,
         \A a \in Account : Spent(S, a) <= GetBalance(b, a),
         NEW t \in S
  PROVE  CanApply(b, t)
<1> DEFINE O == OwnOf(S, Sender[t])
<1>1. /\ Sender[t] \in Account /\ t \in O /\ O \subseteq Tx
      /\ Cost[t] = TotalCost(t)
  BY TxAssumption DEF OwnOf, Cost
<1>2. IsFiniteSet(O) /\ \A u \in O : Cost[u] \in Nat
  BY <1>1, TxAssumption, FS_Subset, TotalCostInRange DEF Cost
<1> HIDE DEF O
<1>3. SumFunctionOnSet(Cost, O) \in Nat /\ Cost[t] <= SumFunctionOnSet(Cost, O)
  BY <1>1, <1>2, SumNat
<1>4. TotalCost(t) \in Nat /\ GetBalance(b, Sender[t]) \in Nat
  BY <1>1, <1>2, BalanceInRange, TxAssumption
<1>5. Spent(S, Sender[t]) = SumFunctionOnSet(Cost, O)
  BY DEF Spent, O
<1>6. TotalCost(t) <= GetBalance(b, Sender[t])
  BY <1>1, <1>3, <1>4, <1>5
<1> QED BY <1>4, <1>6 DEF CanApply, HasBalance

(* Wherever each sender can pay for all of its transactions, every node    *)
(* that finalizes them gets the same balances, whatever order its HashMap  *)
(* yields, and paying the fees keeps the money supply: as long as the      *)
(* money that exists fits into a u64, so that no balance saturates.        *)
THEOREM OrderIrrelevantHolds ==
  DLSpec /\ []MoneyBelowLimit => []OrderIrrelevant
<1>1. ASSUME DLInv, MoneyInv, MoneyBelowLimit PROVE OrderIrrelevant
  <2>1. /\ IsBalances(balances) /\ IsFiniteSet(DOMAIN balances)
        /\ Supply(balances) <= MaxU64
        /\ mempool.pending \subseteq Tx
    <3>1. IsBalances(balances) /\ IsFiniteSet(DOMAIN balances)
      BY <1>1 DEF DLInv, MoneyInv
    <3>2. Supply(balances) \in Nat /\ Supply(balances) < MaxU64
      BY <1>1, <3>1, SupplyNat DEF MoneyBelowLimit
    <3> QED BY <1>1, <3>1, <3>2, TxAssumption DEF DLInv, MempoolInv
  <2> SUFFICES ASSUME NEW S \in SUBSET mempool.pending,
                      JointlyAffordable(balances, S),
                      NEW p \in SetToSeqs(S), NEW q \in SetToSeqs(S)
               PROVE  LET n == Cardinality(S)
                      IN  /\ Run(balances, p)[n] = Run(balances, q)[n]
                          /\ \A proposer \in [S -> Node] :
                               Supply(PayRewards(Run(balances, p)[n], p, proposer))
                                 = Supply(balances)
    BY DEF OrderIrrelevant
  <2>2. S \in SUBSET Tx
    BY <2>1
  <2>3. \A a \in Account : Spent(S, a) <= GetBalance(balances, a)
    BY <2>2, SpentSum DEF JointlyAffordable
  <2>8. CostsExact(S)
    <3>1. \A t \in S : CanApply(balances, t)
      BY <2>1, <2>2, <2>3, EachAffordable
    <3> QED BY <1>1, <3>1, PayableBelowLimit DEF PayableCostsExact, CostsExact
  <2>4. Len(p) = Cardinality(S) /\ Len(q) = Cardinality(S)
    BY <2>2, EnumerationOf
  <2>5. Run(balances, p)[Len(p)] = Run(balances, q)[Len(q)]
    BY <2>1, <2>2, <2>3, <2>8, AnyOrder
  <2> DEFINE last == Run(balances, p)[Len(p)]
  <2>6. /\ IsBalances(last) /\ IsFiniteSet(DOMAIN last)
        /\ Supply(last) + FeesOf(S) = Supply(balances)
    BY <2>1, <2>2, <2>3, <2>8, AffordableRun
  <2> HIDE DEF last
  <2>7. ASSUME NEW proposer \in [S -> Node]
        PROVE  Supply(PayRewards(last, p, proposer)) = Supply(balances)
    <3>1. \A t \in S : proposer[t] \in Account
      BY DagLogicAssumption
    <3> QED BY <2>1, <2>2, <2>6, <3>1, SupplyPaid
  <2> QED BY <2>4, <2>5, <2>7 DEF last
<1>2. DLInv /\ MoneyInv /\ MoneyBelowLimit => OrderIrrelevant
  BY <1>1
<1>3. DLInv /\ MoneyInv /\ MoneyBelowLimit /\ [DLNext]_dlVars => MoneyInv'
  BY PayableBelowLimit, NextKeepsMoney
<1> QED BY <1>2, <1>3, InitMoney, DLInvariance, PTL DEF DLSpec

-----------------------------------------------------------------------------
(* Which rounds apply all that they finalize *)

(* apply_tx takes from an account at most what its own transaction costs.  *)
LEMMA ApplyTakesOwn ==
  ASSUME NEW b, IsBalances(b), NEW t \in Tx, NEW a \in Account
  PROVE  GetBalance(ApplyTx(b, t), a) + CostTo(t, a) >= GetBalance(b, a)
<1> DEFINE left == GetBalance(b, Sender[t]) - TotalCost(t)
           c    == Put(b, Sender[t], left)
<1>1. /\ GetBalance(b, a) \in 0..MaxU64 /\ GetBalance(b, Sender[t]) \in 0..MaxU64
      /\ TotalCost(t) \in Nat /\ MaxU64 \in Nat
      /\ Amount[t] \in Nat
  BY BalanceInRange, TotalCostInRange, TxAssumption
<1>2. CASE ~CanApply(b, t)
  <2>1. ApplyTx(b, t) = b
    BY <1>2 DEF ApplyTx
  <2> QED BY <1>1, <2>1 DEF CostTo
<1>3. CASE CanApply(b, t)
  <2>1. left \in 0..MaxU64
    BY <1>1, <1>3 DEF CanApply, HasBalance
  <2>2. ApplyTx(b, t) = Put(c, Receiver[t], SatAdd(GetBalance(c, Receiver[t]), Amount[t]))
    BY <1>3 DEF ApplyTx, Credit
  <2>3. GetBalance(c, a) = IF a = Sender[t] THEN left ELSE GetBalance(b, a)
    BY DEF Put, GetBalance
  <2>4. GetBalance(c, a) \in 0..MaxU64
    BY <1>1, <2>1, <2>3
  <2>5. GetBalance(c, a) + CostTo(t, a) >= GetBalance(b, a)
    BY <1>1, <2>1, <2>3 DEF CostTo
  <2>6. GetBalance(ApplyTx(b, t), a) =
          IF a = Receiver[t] THEN SatAdd(GetBalance(c, a), Amount[t]) ELSE GetBalance(c, a)
    BY <2>2 DEF Put, GetBalance
  <2> HIDE DEF c
  <2>7. GetBalance(ApplyTx(b, t), a) \in Nat
        /\ GetBalance(ApplyTx(b, t), a) >= GetBalance(c, a)
    BY <1>1, <2>4, <2>6 DEF SatAdd, MinOf
  <2>8. CostTo(t, a) \in Nat
    BY <1>1 DEF CostTo
  <2> QED BY <1>1, <2>4, <2>5, <2>7, <2>8
<1> QED BY <1>2, <1>3

(* Whatever order a batch comes in, and even where balances saturate: who  *)
(* can pay for all of its transactions can pay for each when it comes.     *)
LEMMA TogetherApplied ==
  ASSUME NEW b, IsBalances(b), NEW S \in SUBSET Tx,
         \A a \in Account : Spent(S, a) <= GetBalance(b, a),
         NEW order \in SetToSeqs(S)
  PROVE  \A i \in 1..Len(order) : CanApply(Run(b, order)[i - 1], order[i])
<1> DEFINE n == Len(order)
           run == Run(b, order)
           F(i) == First(order, i)
<1>1. /\ order \in Seq(Tx) /\ n \in Nat
      /\ Range(order) = S
      /\ \A i \in 1..n : order[i] \notin F(i - 1)
      /\ \A i \in 1..n : order[i] \in S /\ order[i] \in Tx
  <2>1. \A i \in 1..Len(order) : order[i] \in Range(order)
    BY EnumerationOf DEF Range
  <2> QED BY <2>1, EnumerationOf
<1>2. /\ \A i \in 0..n : IsBalances(run[i])
      /\ run[0] = b
      /\ \A i \in 1..n : run[i] = ApplyTx(run[i - 1], order[i])
  BY <1>1, RunType
<1>3. /\ F(0) = {}
      /\ \A i \in 1..n : F(i) = F(i - 1) \cup {order[i]}
      /\ \A i \in 0..n : F(i) \subseteq S
  BY <1>1, FirstFacts
<1> HIDE DEF run, F
<1>4. \A i \in 0..n, a \in Account :
        /\ Spent(F(i), a) \in Nat
        /\ GetBalance(run[i], a) \in Nat /\ GetBalance(b, a) \in Nat
  <2> SUFFICES ASSUME NEW i \in 0..n, NEW a \in Account
               PROVE  /\ Spent(F(i), a) \in Nat
                      /\ GetBalance(run[i], a) \in Nat /\ GetBalance(b, a) \in Nat
    OBVIOUS
  <2>1. F(i) \subseteq Tx
    BY <1>3
  <2>2. Spent(F(i), a) \in Nat
    BY <2>1, SpentNat
  <2>3. GetBalance(run[i], a) \in 0..MaxU64 /\ GetBalance(b, a) \in 0..MaxU64
    BY <1>2, BalanceInRange
  <2> QED BY <2>2, <2>3, TxAssumption
<1>5. ASSUME NEW i \in 1..n, NEW a \in Account
      PROVE  Spent(F(i), a) = Spent(F(i - 1), a) + CostTo(order[i], a)
  <2> DEFINE T == F(i - 1)
             t == order[i]
  <2>1. T \subseteq Tx /\ t \in Tx /\ t \notin T /\ F(i) = T \cup {t}
    <3>1. i - 1 \in 0..n
      BY <1>1
    <3> QED BY <1>1, <1>3, <3>1
  <2> HIDE DEF T, t
  <2>2. Spent(T \cup {t}, a) = Spent(T, a) + CostTo(t, a)
    BY <2>1, SpentGrows
  <2> QED BY <2>1, <2>2 DEF T, t
<1> DEFINE G == {i \in 0..n : \A a \in Account :
                   GetBalance(run[i], a) + Spent(F(i), a) >= GetBalance(b, a)}
<1>6. G = 0..n
  <2>1. 0 \in G
    BY <1>1, <1>2, <1>4
  <2>2. ASSUME NEW i \in 1..n, i - 1 \in G PROVE i \in G
    <3>1. i \in 0..n /\ i - 1 \in 0..n
      BY <1>1
    <3>2. ASSUME NEW a \in Account
          PROVE  GetBalance(run[i], a) + Spent(F(i), a) >= GetBalance(b, a)
      <4>1. GetBalance(run[i - 1], a) + Spent(F(i - 1), a) >= GetBalance(b, a)
        BY <2>2
      <4>2. GetBalance(run[i], a) + CostTo(order[i], a) >= GetBalance(run[i - 1], a)
        BY <1>1, <1>2, <3>1, ApplyTakesOwn
      <4>3. CostTo(order[i], a) \in Nat
        BY <1>1, TotalCostInRange, TxAssumption DEF CostTo
      <4>4. /\ Spent(F(i - 1), a) \in Nat /\ GetBalance(b, a) \in Nat
            /\ GetBalance(run[i - 1], a) \in Nat /\ GetBalance(run[i], a) \in Nat
        BY <1>4, <3>1
      <4>5. Spent(F(i), a) = Spent(F(i - 1), a) + CostTo(order[i], a)
        BY <1>5
      <4> QED BY <4>1, <4>2, <4>3, <4>4, <4>5
    <3> QED BY <3>1, <3>2
  <2>3. G \in SUBSET (0..n)
    OBVIOUS
  <2> HIDE DEF G
  <2> QED BY <1>1, <2>1, <2>2, <2>3, BoundedInduction
<1>7. ASSUME NEW i \in 1..n PROVE CanApply(run[i - 1], order[i])
  <2> DEFINE a == Sender[order[i]]
  <2>1. i - 1 \in 0..n /\ i \in 0..n /\ a \in Account
    BY <1>1, TxAssumption
  <2>2. GetBalance(run[i - 1], a) + Spent(F(i - 1), a) >= GetBalance(b, a)
    BY <1>6, <2>1
  <2>3. Spent(F(i), a) = Spent(F(i - 1), a) + TotalCost(order[i])
    BY <1>5, <2>1 DEF CostTo
  <2>4. F(i) \subseteq S
    BY <1>3, <2>1
  <2>5. Spent(F(i), a) <= Spent(S, a) /\ Spent(S, a) \in Nat
    BY <2>4, SpentWithin, SpentNat
  <2>6. /\ Spent(F(i - 1), a) \in Nat /\ Spent(F(i), a) \in Nat
        /\ GetBalance(run[i - 1], a) \in Nat /\ GetBalance(b, a) \in Nat
        /\ TotalCost(order[i]) \in Nat
    <3>1. TotalCost(order[i]) \in Nat
      BY <1>1, TotalCostInRange, TxAssumption
    <3> HIDE DEF a
    <3> QED BY <1>4, <2>1, <3>1
  <2>7. Spent(S, a) <= GetBalance(b, a)
    BY <2>1
  <2>8. TotalCost(order[i]) <= GetBalance(run[i - 1], a)
    <3> HIDE DEF a
    <3> QED BY <2>2, <2>3, <2>5, <2>6, <2>7
  <2> QED BY <2>6, <2>8 DEF CanApply, HasBalance
<1> QED BY <1>7 DEF run

(* What a step adds to the ledger *)
Added == FinalizedTxs(ledger') \ FinalizedTxs(ledger)

LEMMA RoundApplies ==
  ASSUME DLInv, Finalize, JointlyAffordable(balances, Added)
  PROVE  Added \subseteq applied' /\ applied \subseteq applied'
<1>1. PICK approved \in SUBSET admitted :
        \E order \in SetToSeqs(Finalizable(mempool, balances, approved)),
           proposer \in [approved -> Node] :
             FinalizeBatch(approved, order, proposer)
  BY DEF Finalize
<1> DEFINE S == Finalizable(mempool, balances, approved)
<1>2. PICK order \in SetToSeqs(S), proposer \in [approved -> Node] :
             FinalizeBatch(approved, order, proposer)
  BY <1>1
<1>3. /\ mempool.pending \subseteq Tx /\ IsLedger(ledger) /\ IsBalances(balances)
      /\ FinalizedTxs(ledger) \cap mempool.pending = {}
  BY DEF DLInv, MempoolInv, LedgerInv
<1>4. S \subseteq mempool.pending /\ S \subseteq approved
  BY DEF Finalizable, StillPending
<1>5. S \in SUBSET Tx
  BY <1>3, <1>4
<1> DEFINE run == Run(balances, order)
<1>6. CASE order = <<>>
  BY <1>2, <1>6 DEF FinalizeBatch, Added
<1>7. CASE order # <<>>
  <2>1. /\ ledger' = AddBatch(ledger, order, proposer)
        /\ applied' = applied \cup
             {order[i] : i \in {j \in DOMAIN order : CanApply(run[j - 1], order[j])}}
    BY <1>2, <1>7 DEF FinalizeBatch
  <2> HIDE DEF run, S
  <2>2. order \in Seq(Tx) /\ Range(order) = S
    BY <1>2, <1>5, EnumerationOf
  <2>3. proposer \in [approved -> Account]
    BY DagLogicAssumption
  <2>4. FinalizedTxs(ledger') = FinalizedTxs(ledger) \cup S
    BY <1>3, <1>4, <2>1, <2>2, <2>3, AddBatchFacts
  <2>5. Added = S
    BY <1>3, <1>4, <2>4 DEF Added
  <2>6. \A a \in Account : Spent(S, a) <= GetBalance(balances, a)
    BY <1>5, <2>5, SpentSum DEF JointlyAffordable
  <2>7. \A i \in 1..Len(order) : CanApply(run[i - 1], order[i])
    BY <1>2, <1>3, <1>5, <2>6, TogetherApplied DEF run
  <2>8. S \subseteq {order[i] : i \in {j \in DOMAIN order : CanApply(run[j - 1], order[j])}}
    <3>1. DOMAIN order = 1..Len(order)
      BY <2>2
    <3> QED BY <2>2, <2>7, <3>1 DEF Range
  <2> QED BY <2>1, <2>5, <2>8
<1> QED BY <1>6, <1>7

(* What a round finalizes could be paid for, one by one. *)
LEMMA FinalizedAffordable ==
  ASSUME DLInv, Finalize
  PROVE  Added \subseteq mempool.pending /\ \A t \in Added : Affordable(balances, t)
<1>1. PICK approved \in SUBSET admitted :
        \E order \in SetToSeqs(Finalizable(mempool, balances, approved)),
           proposer \in [approved -> Node] :
             FinalizeBatch(approved, order, proposer)
  BY DEF Finalize
<1> DEFINE S == Finalizable(mempool, balances, approved)
<1>2. PICK order \in SetToSeqs(S), proposer \in [approved -> Node] :
             FinalizeBatch(approved, order, proposer)
  BY <1>1
<1>3. S \subseteq mempool.pending /\ S \subseteq approved
      /\ \A t \in S : Affordable(balances, t)
  BY DEF Finalizable, StillPending
<1>4. S \in SUBSET Tx /\ IsLedger(ledger)
  BY <1>3 DEF DLInv, MempoolInv, LedgerInv
<1>5. ledger' = ledger \/ ledger' = AddBatch(ledger, order, proposer)
  BY <1>2 DEF FinalizeBatch
<1> HIDE DEF S
<1>6. order \in Seq(Tx) /\ Range(order) = S /\ proposer \in [approved -> Account]
  BY <1>2, <1>4, EnumerationOf, DagLogicAssumption
<1>7. Added \subseteq S
  BY <1>3, <1>4, <1>5, <1>6, AddBatchFacts DEF Added
<1> QED BY <1>3, <1>7

(* A run refutes FinalizedWereApplied, since finalize_batch compares each  *)
(* transaction alone with the balances before the batch.  That comparison  *)
(* is all that is missing: a round whose transactions their senders can    *)
(* pay for together applies every one of them, in any order.               *)
THEOREM RoundsPaidTogetherAreApplied ==
  DLSpec => [][JointlyAffordable(balances, Added) => Added \subseteq applied']_dlVars
<1>1. DLInv /\ [DLNext]_dlVars
        => [JointlyAffordable(balances, Added) => Added \subseteq applied']_dlVars
  <2> SUFFICES ASSUME DLInv, DLNext, JointlyAffordable(balances, Added)
               PROVE  Added \subseteq applied'
    OBVIOUS
  <2>1. CASE Finalize
    BY <2>1, RoundApplies
  <2>2. CASE ledger' = ledger
    BY <2>2 DEF Added
  <2> QED BY <2>1, <2>2 DEF DLNext, AddTransaction, AddTransactionFromGossip,
                            AddVerifiedBatch, AllocateGenesis
<1> QED BY <1>1, DLInvariance, PTL DEF DLSpec

(* Whoever can pay for some pending transactions one by one can pay for    *)
(* them together.                                                          *)
PaidTogether ==
  \A S \in SUBSET mempool.pending :
    (\A t \in S : Affordable(balances, t)) => JointlyAffordable(balances, S)

(* As long as that is so, what is final was applied.                       *)
THEOREM FinalizedWereAppliedTogether ==
  DLSpec /\ []PaidTogether => []FinalizedWereApplied
<1>1. DLInit => FinalizedWereApplied
  BY DEF DLInit, LInit, EmptyLedger, FinalizedTxs, FinalizedWereApplied
<1>2. DLInv /\ PaidTogether /\ FinalizedWereApplied /\ [DLNext]_dlVars
        => FinalizedWereApplied'
  <2> SUFFICES ASSUME DLInv, PaidTogether, FinalizedWereApplied, [DLNext]_dlVars
               PROVE  FinalizedTxs(ledger') \subseteq applied'
    BY DEF FinalizedWereApplied, FinalizedTxs
  <2>1. CASE Finalize
    <3>1. Added \subseteq mempool.pending /\ \A t \in Added : Affordable(balances, t)
      BY <2>1, FinalizedAffordable
    <3>2. JointlyAffordable(balances, Added)
      BY <3>1 DEF PaidTogether
    <3>3. Added \subseteq applied' /\ applied \subseteq applied'
      BY <2>1, <3>2, RoundApplies
    <3> QED BY <3>3 DEF Added, FinalizedWereApplied
  <2>2. CASE UNCHANGED <<ledger, applied>>
    BY <2>2 DEF FinalizedWereApplied
  <2> QED BY <2>1, <2>2 DEF DLNext, AddTransaction, AddTransactionFromGossip,
                            AddVerifiedBatch, AllocateGenesis, dlVars
<1> QED BY <1>1, <1>2, DLInvariance, PTL DEF DLSpec

(* Then no fee is paid out that nobody paid in, and all money comes from   *)
(* genesis allocations.                                                    *)
THEOREM MoneyComesFromGenesis ==
  DLSpec /\ []PaidTogether /\ []PayableCostsExact
    => [](Supply(balances) <= genesis * GenesisBalance)
<1>1. DLInv /\ MoneyInv /\ FinalizedWereApplied
        => Supply(balances) <= genesis * GenesisBalance
  <2> SUFFICES ASSUME DLInv, MoneyInv, FinalizedWereApplied
               PROVE  Supply(balances) <= genesis * GenesisBalance
    OBVIOUS
  <2>1. FinalizedTxs(ledger) \ applied = {}
    BY DEF FinalizedWereApplied
  <2>2. FeesOf({}) = 0
    BY SumUnfold, FS_EmptySet DEF FeesOf
  <2>3. Supply(balances) <= genesis * GenesisBalance + 0
    BY <2>1, <2>2 DEF MoneyInv
  <2> DEFINE g == genesis * GenesisBalance
  <2>4. g \in Nat /\ Supply(balances) \in Nat
    <3>1. genesis \in Nat /\ GenesisBalance \in Nat
      BY DagLogicAssumption, StateAssumption, TxAssumption DEF DLInv
    <3> QED BY <3>1, SupplyNat DEF DLInv, MoneyInv
  <2> HIDE DEF g
  <2>5. Supply(balances) <= g + 0
    BY <2>3 DEF g
  <2>6. Supply(balances) <= g
    BY <2>4, <2>5
  <2> QED BY <2>6 DEF g
<1> QED BY <1>1, FinalizedWereAppliedTogether, MoneyInvariance, DLInvariance, PTL

-----------------------------------------------------------------------------
(* What leaves the mempool unfinalized *)

(* Nothing unsigned is ever pending. *)
PendingSigned == mempool.pending \subseteq Signed

LEMMA SignedStep == DLInv /\ PendingSigned /\ [DLNext]_dlVars => PendingSigned'
<1> SUFFICES ASSUME DLInv, PendingSigned, [DLNext]_dlVars
             PROVE  mempool'.pending \subseteq Signed
  BY DEF PendingSigned
<1>1. ASSUME NEW t \in Tx, Admit(t) PROVE mempool'.pending \subseteq Signed
  <2>1. mempool'.pending = mempool.pending \cup {t} /\ t \in Signed
    BY <1>1, AdmitFacts DEF Admit
  <2> QED BY <2>1 DEF PendingSigned
<1>2. ASSUME NEW S \in SUBSET Tx, NEW batch \in SetToSeqs(S), AddVerifiedBatch(batch)
      PROVE  mempool'.pending \subseteq Signed
  <2> DEFINE f == Intake(mempool, ledger, batch)
             n == Len(batch)
  <2>1. f[n].pending = mempool.pending \cup Taken(f, ledger, batch, n)
    <3>1. batch \in Seq(Tx) /\ MempoolInv(mempool, admitted)
      BY SequenceOf DEF DLInv
    <3> QED BY <3>1, IntakeKeepsInv
  <2>2. Taken(f, ledger, batch, n) \subseteq Signed
    BY DEF Taken, Passes
  <2>3. mempool' = f[n]
    BY <1>2 DEF AddVerifiedBatch
  <2> HIDE DEF f, n
  <2> QED BY <2>1, <2>2, <2>3 DEF PendingSigned
<1>3. CASE Finalize
  BY <1>3, FinalizeFacts DEF PendingSigned
<1>4. CASE mempool' = mempool
  BY <1>4 DEF PendingSigned
<1> QED BY <1>1, <1>2, <1>3, <1>4 DEF DLNext, AddTransaction, AddTransactionFromGossip,
                                      AllocateGenesis, dlVars, mpVars

LEMMA RoundRemoves ==
  ASSUME DLInv, PendingSigned, Finalize, NEW t \in mempool.pending \ mempool'.pending
  PROVE  \/ t \in Added
         \/ retries[t] + 1 >= MaxRetries
         \/ Added # {} /\ ~HasBalance(balances, Sender[t], TotalCost(t))
<1>1. PICK approved \in SUBSET admitted :
        \E order \in SetToSeqs(Finalizable(mempool, balances, approved)),
           proposer \in [approved -> Node] :
             FinalizeBatch(approved, order, proposer)
  BY DEF Finalize
<1> DEFINE S == Finalizable(mempool, balances, approved)
           evict == {u \in StillPending(mempool, approved) : Evicted(balances, retries, u)}
<1>2. PICK order \in SetToSeqs(S), proposer \in [approved -> Node] :
             FinalizeBatch(approved, order, proposer)
  BY <1>1
<1>3. /\ S \subseteq approved /\ S \subseteq mempool.pending
      /\ S \in SUBSET Tx /\ IsLedger(ledger)
      /\ FinalizedTxs(ledger) \cap mempool.pending = {}
  BY DEF Finalizable, StillPending, DLInv, MempoolInv, LedgerInv
<1>4. /\ order \in Seq(Tx) /\ Range(order) = S
      /\ proposer \in [approved -> Account]
  <2> HIDE DEF S
  <2> QED BY <1>2, <1>3, EnumerationOf, DagLogicAssumption
<1>5. t \in evict => retries[t] + 1 >= MaxRetries
  BY DEF Evicted, PendingSigned
<1>6. CASE order = <<>>
  <2>1. mempool' = RemoveBatch(mempool, evict)
    BY <1>2, <1>6 DEF FinalizeBatch
  <2>2. t \in evict
    BY <2>1 DEF RemoveBatch
  <2> QED BY <1>5, <2>2
<1>7. CASE order # <<>>
  <2>1. /\ mempool' = RemoveBatch(mempool, evict \cup approved)
        /\ ledger' = AddBatch(ledger, order, proposer)
    BY <1>2, <1>7 DEF FinalizeBatch
  <2>2. Added = S
    <3> HIDE DEF S
    <3>1. FinalizedTxs(ledger') = FinalizedTxs(ledger) \cup S
      BY <1>3, <1>4, <2>1, AddBatchFacts
    <3> QED BY <1>3, <3>1 DEF Added
  <2>3. S # {}
    <3>1. 1 \in DOMAIN order
      BY <1>4, <1>7
    <3> QED BY <1>4, <3>1 DEF Range
  <2>4. t \in evict \/ t \in approved
    BY <2>1 DEF RemoveBatch
  <2>5. t \in approved /\ t \notin S => ~HasBalance(balances, Sender[t], TotalCost(t))
    BY DEF Finalizable, StillPending, Affordable, PendingSigned
  <2> QED BY <1>5, <2>2, <2>3, <2>4, <2>5
<1> QED BY <1>6, <1>7

(* A run refutes RemovedAfterRetries.  What leaves the mempool without     *)
(* being finalized has used up its retries, except in a round that         *)
(* finalizes other transactions; and then its sender cannot pay for it.    *)
THEOREM RemovalsExplained ==
  DLSpec => [][\A t \in mempool.pending \ mempool'.pending :
                 \/ t \in Added
                 \/ retries[t] + 1 >= MaxRetries
                 \/ Added # {} /\ ~HasBalance(balances, Sender[t], TotalCost(t))]_dlVars
<1>1. DLInit => PendingSigned
  BY DEF DLInit, MPInit, EmptyMempool, PendingSigned
<1>2. DLInv /\ PendingSigned /\ [DLNext]_dlVars
        => [\A t \in mempool.pending \ mempool'.pending :
              \/ t \in Added
              \/ retries[t] + 1 >= MaxRetries
              \/ Added # {} /\ ~HasBalance(balances, Sender[t], TotalCost(t))]_dlVars
  <2> SUFFICES ASSUME DLInv, PendingSigned, DLNext,
                      NEW t \in mempool.pending \ mempool'.pending
               PROVE  \/ t \in Added
                      \/ retries[t] + 1 >= MaxRetries
                      \/ Added # {} /\ ~HasBalance(balances, Sender[t], TotalCost(t))
    OBVIOUS
  <2>1. CASE Finalize
    BY <2>1, RoundRemoves
  <2>2. CASE \E u \in Tx : Admit(u)
    BY <2>2, AdmitFacts
  <2>3. CASE \E S \in SUBSET Tx : \E batch \in SetToSeqs(S) : AddVerifiedBatch(batch)
    BY <2>3, BatchFacts
  <2>4. CASE mempool' = mempool
    BY <2>4
  <2> QED BY <2>1, <2>2, <2>3, <2>4 DEF DLNext, AddTransaction, AddTransactionFromGossip,
                                        AllocateGenesis, mpVars
<1> QED BY <1>1, <1>2, SignedStep, DLInvariance, PTL DEF DLSpec

-----------------------------------------------------------------------------
(* The core implements TxLifecycle. *)

(* In terms of the core, new is not admitted and pending is in the         *)
(* mempool.                                                                *)
LEMMA StatusOf ==
  ASSUME DLInv
  PROVE  /\ LC!Having("new") = Tx \ admitted
         /\ LC!Having("pending") = mempool.pending
<1>1. mempool.pending \subseteq admitted /\ admitted \subseteq Tx
  BY DEF DLInv, MempoolInv
<1> QED BY <1>1 DEF LC!Having, LifecycleOf

(* An action that only admits transactions is an AdmitSet.                 *)
LEMMA AdmissionImplements ==
  ASSUME DLInv, NEW added, added \cap admitted = {},
         MempoolInv(mempool', admitted \cup added),
         mempool'.pending = mempool.pending \cup added,
         admitted' = admitted \cup added,
         \A t \in added, u \in admitted :
           Sender[t] = Sender[u] => Nonce[u] < Nonce[t],
         ledger' = ledger
  PROVE  LC!LCNext
<1>1. /\ added \subseteq Tx
      /\ \A t, u \in added : Key(t) = Key(u) => t = u
  BY DEF MempoolInv
<1>2. /\ LC!Having("new") = Tx \ admitted
      /\ admitted \subseteq Tx
  BY StatusOf DEF DLInv, MempoolInv
<1>3. [t \in Tx |-> LifecycleOf(t)]' =
        [t \in Tx |-> IF t \in added THEN "pending"
                      ELSE [u \in Tx |-> LifecycleOf(u)][t]]
  <2>1. ASSUME NEW t \in Tx
        PROVE  LifecycleOf(t)' = IF t \in added THEN "pending" ELSE LifecycleOf(t)
    BY DEF LifecycleOf
  <2> QED BY <2>1
<1>4. LC!AdmitSet(added)
  <2>1. added \subseteq LC!Having("new")
    BY <1>1, <1>2
  <2>2. \A t, u \in added : Sender[t] = Sender[u] /\ Nonce[t] = Nonce[u] => t = u
    BY <1>1, KeyEquality
  <2>3. \A t \in added, u \in Tx \ LC!Having("new") :
          Sender[t] = Sender[u] => Nonce[u] < Nonce[t]
    BY <1>2
  <2> QED BY <1>3, <2>1, <2>2, <2>3 DEF LC!AdmitSet
<1> QED BY <1>1, <1>4 DEF LC!LCNext

(* A finalization round is a Settle: the batch is final, the transactions  *)
(* out of retries or left unpaid in the approved batch are dropped.        *)
LEMMA FinalizeImplements ==
  ASSUME DLInv, Finalize
  PROVE  LC!LCNext
<1> DEFINE final == FinalizedTxs(ledger') \ FinalizedTxs(ledger)
           dropped == (mempool.pending \ mempool'.pending) \ final
<1>1. /\ admitted' = admitted
      /\ mempool'.pending \subseteq mempool.pending
      /\ FinalizedTxs(ledger) \subseteq FinalizedTxs(ledger')
      /\ final \subseteq mempool.pending \ mempool'.pending
  BY FinalizeFacts
<1>2. /\ mempool.pending \subseteq admitted
      /\ admitted \subseteq Tx
      /\ FinalizedTxs(ledger) \subseteq admitted \ mempool.pending
      /\ LC!Having("pending") = mempool.pending
  BY StatusOf DEF DLInv, MempoolInv, LedgerInv
<1>3. ASSUME NEW t \in Tx
      PROVE  LifecycleOf(t)' = IF t \in final THEN "final"
                               ELSE IF t \in dropped THEN "dropped"
                               ELSE LifecycleOf(t)
  <2>1. (t \in FinalizedTxs(ledger))' <=> t \in FinalizedTxs(ledger')
    BY DEF FinalizedTxs
  <2> QED BY <1>1, <1>2, <2>1 DEF LifecycleOf
<1>4. LC!Settle(final, dropped)
  <2>1. [t \in Tx |-> LifecycleOf(t)]' =
          [t \in Tx |-> IF t \in final THEN "final"
                        ELSE IF t \in dropped THEN "dropped"
                        ELSE [u \in Tx |-> LifecycleOf(u)][t]]
    BY <1>3
  <2>2. final \cup dropped \subseteq LC!Having("pending")
    BY <1>1, <1>2
  <2> QED BY <2>1, <2>2 DEF LC!Settle
<1>5. final \in SUBSET Tx /\ dropped \in SUBSET Tx
  BY <1>1, <1>2
<1> HIDE DEF final, dropped
<1> QED BY <1>4, <1>5 DEF LC!LCNext

(* Every step of the core is a step of the lifecycle or a stutter.         *)
LEMMA StepImplements ==
  ASSUME DLInv, [DLNext]_dlVars
  PROVE  LC!LCNext \/ UNCHANGED [t \in Tx |-> LifecycleOf(t)]
<1>1. ASSUME NEW t \in Tx, Admit(t), ledger' = ledger
      PROVE  LC!LCNext
  <2> DEFINE added == {t}
  <2>1. /\ MempoolInv(mempool', admitted \cup added)
        /\ mempool'.pending = mempool.pending \cup added
        /\ admitted' = admitted \cup added
        /\ added \cap admitted = {}
        /\ \A v \in added, u \in admitted :
             Sender[v] = Sender[u] => Nonce[u] < Nonce[v]
    BY <1>1, AdmitFacts
  <2> HIDE DEF added
  <2> QED BY <1>1, <2>1, AdmissionImplements
<1>2. ASSUME NEW t \in Tx, AddTransaction(t)
      PROVE  LC!LCNext
  BY <1>1, <1>2 DEF AddTransaction
<1>3. ASSUME NEW t \in Tx, AddTransactionFromGossip(t)
      PROVE  LC!LCNext
  BY <1>1, <1>3 DEF AddTransactionFromGossip
<1>4. ASSUME NEW S \in SUBSET Tx, NEW batch \in SetToSeqs(S),
             AddVerifiedBatch(batch)
      PROVE  LC!LCNext
  <2>1. ledger' = ledger
    BY <1>4 DEF AddVerifiedBatch
  <2> QED BY <1>4, <2>1, BatchFacts, AdmissionImplements
<1>5. ASSUME NEW a \in Account, AllocateGenesis(a)
      PROVE  UNCHANGED [t \in Tx |-> LifecycleOf(t)]
  BY <1>5 DEF AllocateGenesis, mpVars, LifecycleOf, FinalizedTxs
<1>6. CASE Finalize
  BY <1>6, FinalizeImplements
<1>7. CASE UNCHANGED dlVars
  BY <1>7 DEF dlVars, mpVars, LifecycleOf, FinalizedTxs
<1> QED BY <1>2, <1>3, <1>4, <1>5, <1>6, <1>7 DEF DLNext

(* Refinement: every behaviour of the core is one of the lifecycle.        *)
THEOREM DagLogicImplementsLifecycle == DLSpec => ImplementsLifecycle
<1>1. DLInit => LC!LCInit
  BY DEF DLInit, MPInit, LC!LCInit, LifecycleOf
<1>2. DLInv /\ [DLNext]_dlVars
        => [LC!LCNext]_([t \in Tx |-> LifecycleOf(t)])
  BY StepImplements
<1> QED
  BY <1>1, <1>2, DLInvariance, PTL DEF DLSpec, ImplementsLifecycle, LC!LCSpec

=============================================================================
