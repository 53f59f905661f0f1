---------------------------- MODULE LedgerProofs ----------------------------
(***************************************************************************)
(* Proofs about what finalization writes: the ledger, whose caches and     *)
(* indexes stay exact through batches and restarts, and the balances,      *)
(* which no sequence of calls makes underflow.                             *)
(***************************************************************************)
EXTENDS DagLogic, RecursionProofs

(* What the ledger derives from its entries: the edges, the cache of the   *)
(* entries with children and the nonce indexes.                            *)
RewardEdges(R) == {<<r.source, r>> : r \in R}

DerivedExact(l) ==
  /\ l.edges = ParentEdges(FinalizedTxs(l)) \cup RewardEdges(l.rewards)
  /\ l.hasChildren = {e[1] : e \in l.edges}
  /\ l.nonces = {<<Sender[t], Nonce[t]>> : t \in FinalizedTxs(l)}
  /\ \A a \in Account : l.last[a] \in SpentNonces(l, a) \cup {NoNonce}

LedgerExact(l) == IsLedger(l) /\ DerivedExact(l)

-----------------------------------------------------------------------------
(* Batches *)

(* An enumeration of a set of transactions is a sequence of its members.   *)
LEMMA SequenceOf ==
  ASSUME NEW S \in SUBSET Tx, NEW order \in SetToSeqs(S)
  PROVE  order \in Seq(Tx) /\ Range(order) \subseteq S
<1>1. Cardinality(S) \in Nat
  BY TxAssumption, FS_Subset, FS_CardinalityType
<1>2. order \in [1..Cardinality(S) -> S]
  BY DEF SetToSeqs
<1> QED BY <1>1, <1>2 DEF Range

(* Ledger::add_batch keeps the last finalized nonces a map of nonces,      *)
(* whatever order the batch comes in.                                      *)
LEMMA LastNoncesType ==
  ASSUME NEW l, l.last \in [Account -> Nat \cup {NoNonce}],
         NEW order \in Seq(Tx)
  PROVE  /\ LastNonces(l, order) \in [Account -> Nat \cup {NoNonce}]
         /\ \A a \in Account :
              \/ LastNonces(l, order)[a] = l.last[a]
              \/ \E t \in Range(order) :
                   Sender[t] = a /\ LastNonces(l, order)[a] = Nonce[t]
<1> DEFINE mine(a) == {i \in DOMAIN order : Sender[order[i]] = a}
           final(a) == CHOOSE i \in mine(a) : \A j \in mine(a) : j <= i
<1>1. ASSUME NEW a \in Account, mine(a) # {}
      PROVE  /\ Nonce[order[final(a)]] \in Nat
             /\ order[final(a)] \in Range(order)
             /\ Sender[order[final(a)]] = a
  <2>1. mine(a) \in SUBSET (0..Len(order)) /\ Len(order) \in Nat
    OBVIOUS
  <2>2. \E i \in mine(a) : \A j \in mine(a) : j <= i
    <3> HIDE DEF mine
    <3> QED BY <1>1, <2>1, GreatestExists
  <2>3. final(a) \in mine(a)
    <3> HIDE DEF mine
    <3> QED BY <2>2
  <2>4. /\ order[final(a)] \in Tx
        /\ order[final(a)] \in Range(order)
        /\ Sender[order[final(a)]] = a
    <3>1. final(a) \in DOMAIN order /\ Sender[order[final(a)]] = a
      BY <2>3
    <3> HIDE DEF final
    <3> QED BY <3>1 DEF Range
  <2> QED BY <2>4, TxAssumption
<1>2. LastNonces(l, order) =
        [a \in Account |-> IF mine(a) = {} THEN l.last[a]
                           ELSE Nonce[order[final(a)]]]
  BY DEF LastNonces
<1> HIDE DEF mine, final
<1> QED BY <1>1, <1>2

(* Ledger::add_batch adds the batch and a reward for each transaction of    *)
(* it that has a proposer, and forgets nothing.                            *)
LEMMA AddBatchFacts ==
  ASSUME NEW l, IsLedger(l), NEW order \in Seq(Tx),
         NEW D, NEW proposer \in [D -> Account]
  PROVE  /\ IsLedger(AddBatch(l, order, proposer))
         /\ FinalizedTxs(AddBatch(l, order, proposer))
              = FinalizedTxs(l) \cup Range(order)
         /\ AddBatch(l, order, proposer).rewards = l.rewards \cup
              {[source |-> t, node |-> proposer[t], batch |-> l.nextBatch] :
                 t \in Range(order) \cap D}
<1> DEFINE n == AddBatch(l, order, proposer)
           minted == Minted(l, order, proposer)
           edges == BatchEdges(Range(order), minted)
<1>1. Range(order) \subseteq Tx
  BY DEF Range
<1>2. /\ n.entries = {e \in l.entries : e.tx \notin Range(order)}
                       \cup [tx : Range(order), batch : {l.nextBatch}]
      /\ n.rewards = l.rewards \cup minted
      /\ n.edges = l.edges \cup edges
      /\ n.hasChildren = l.hasChildren \cup {e[1] : e \in edges}
      /\ n.nonces = l.nonces \cup {<<Sender[t], Nonce[t]>> : t \in Range(order)}
      /\ n.last = LastNonces(l, order)
      /\ n.nextBatch = l.nextBatch + 1
  BY DEF AddBatch
<1>3. n = [ entries |-> n.entries, rewards |-> n.rewards, edges |-> n.edges,
            hasChildren |-> n.hasChildren, nonces |-> n.nonces,
            last |-> n.last, nextBatch |-> n.nextBatch ]
  BY DEF AddBatch
<1> HIDE DEF n
<1>4. minted = {[source |-> t, node |-> proposer[t], batch |-> l.nextBatch] :
                  t \in Range(order) \cap D}
  BY DEF Minted
<1>5. minted \subseteq Reward
  BY <1>1, <1>4 DEF Reward, IsLedger
<1>6. edges \subseteq Hashes \X Hashes
  <2>1. ParentEdges(Range(order)) \subseteq Hashes \X Hashes
    <3> SUFFICES ASSUME NEW t \in Range(order)
                 PROVE  Parents[t] \X {t} \subseteq Hashes \X Hashes
      BY DEF ParentEdges
    <3>1. t \in Hashes /\ Parents[t] \subseteq Hashes
      BY <1>1, TxAssumption DEF Hashes
    <3> QED BY <3>1
  <2>2. {<<r.source, r>> : r \in minted} \subseteq Hashes \X Hashes
    BY <1>5 DEF Hashes, Reward
  <2> QED BY <2>1, <2>2 DEF BatchEdges
<1>7. {e[1] : e \in edges} \subseteq Hashes
  <2> HIDE DEF edges
  <2> QED BY <1>6
<1>8. n.entries \subseteq [tx : Tx, batch : Nat]
  BY <1>1, <1>2 DEF IsLedger
<1>9. n.nonces \subseteq Account \X Nat
  BY <1>1, <1>2, TxAssumption DEF IsLedger
<1>10. n.last \in [Account -> Nat \cup {NoNonce}]
  BY <1>2, LastNoncesType DEF IsLedger
<1>11. IsLedger(n)
  <2> HIDE DEF edges, minted
  <2>1. /\ n.rewards \subseteq Reward
        /\ n.edges \subseteq Hashes \X Hashes
        /\ n.hasChildren \subseteq Hashes
        /\ n.nextBatch \in Nat
    BY <1>2, <1>5, <1>6, <1>7 DEF IsLedger
  <2> QED BY <1>3, <1>8, <1>9, <1>10, <2>1 DEF IsLedger
<1>12. FinalizedTxs(n) = FinalizedTxs(l) \cup Range(order)
  <2>1. \A t \in FinalizedTxs(n) : t \in FinalizedTxs(l) \cup Range(order)
    BY <1>2 DEF FinalizedTxs
  <2>2. ASSUME NEW t \in Range(order) PROVE t \in FinalizedTxs(n)
    <3> DEFINE e == [tx |-> t, batch |-> l.nextBatch]
    <3>1. e \in n.entries /\ e.tx = t
      BY <1>2
    <3> HIDE DEF e
    <3> QED BY <3>1 DEF FinalizedTxs
  <2>3. ASSUME NEW t \in FinalizedTxs(l) PROVE t \in FinalizedTxs(n)
    <3>1. PICK e \in l.entries : e.tx = t
      BY DEF FinalizedTxs
    <3>2. CASE t \in Range(order)
      BY <2>2, <3>2
    <3>3. CASE t \notin Range(order)
      BY <1>2, <3>1, <3>3 DEF FinalizedTxs
    <3> QED BY <3>2, <3>3
  <2> QED BY <2>1, <2>2, <2>3
<1> QED BY <1>2, <1>4, <1>11, <1>12 DEF n

(* Ledger::new on its own file: the same transactions, indexes and cache   *)
(* rebuilt.  No last nonce is below one that was refused before.           *)
LEMMA ReloadFacts ==
  ASSUME NEW l, IsLedger(l)
  PROVE  /\ IsLedger(Reload(l))
         /\ FinalizedTxs(Reload(l)) = FinalizedTxs(l)
         /\ Reload(l).rewards = l.rewards
         /\ Reload(l).edges = l.edges
         /\ Reload(l).hasChildren = {e[1] : e \in l.edges}
         /\ Reload(l).nonces = {<<Sender[t], Nonce[t]>> : t \in FinalizedTxs(l)}
         /\ \A a \in Account :
              \/ /\ Reload(l).last[a] \in SpentNonces(l, a)
                 /\ \A k \in SpentNonces(l, a) : k <= Reload(l).last[a]
              \/ /\ Reload(l).last[a] = NoNonce
                 /\ SpentNonces(l, a) \subseteq {0}
<1> DEFINE n == Reload(l)
           spent(a) == SpentNonces(l, a)
           top(a) == CHOOSE i \in spent(a) : \A k \in spent(a) : k <= i
           C == {e[1] : e \in l.edges}
           K == {<<Sender[t], Nonce[t]>> : t \in FinalizedTxs(l)}
           L == [a \in Account |-> IF spent(a) \subseteq {0} THEN NoNonce
                                   ELSE top(a)]
<1>1. FinalizedTxs(l) \subseteq Tx
  BY DEF IsLedger, FinalizedTxs
<1>2. n = [ entries |-> l.entries, rewards |-> l.rewards, edges |-> l.edges,
            hasChildren |-> C, nonces |-> K, last |-> L,
            nextBatch |-> l.nextBatch ]
  <2>1. l = [ entries |-> l.entries, rewards |-> l.rewards, edges |-> l.edges,
              hasChildren |-> l.hasChildren, nonces |-> l.nonces,
              last |-> l.last, nextBatch |-> l.nextBatch ]
    BY DEF IsLedger
  <2>2. RebuildIndexes(l) = [l EXCEPT !.nonces = K, !.last = L]
    BY DEF RebuildIndexes
  <2>3. n = [RebuildIndexes(l) EXCEPT
               !.hasChildren = {e[1] : e \in RebuildIndexes(l).edges}]
    BY DEF Reload, RebuildChildren
  <2> HIDE DEF n, K, L
  <2>4. RebuildIndexes(l) =
          [ entries |-> l.entries, rewards |-> l.rewards, edges |-> l.edges,
            hasChildren |-> l.hasChildren, nonces |-> K, last |-> L,
            nextBatch |-> l.nextBatch ]
    BY <2>1, <2>2
  <2>5. n = [RebuildIndexes(l) EXCEPT !.hasChildren = C]
    BY <2>3, <2>4
  <2> HIDE DEF C
  <2> QED BY <2>4, <2>5
<1>3. ASSUME NEW a \in Account, ~(spent(a) \subseteq {0})
      PROVE  top(a) \in Nat /\ top(a) \in spent(a) /\ \A k \in spent(a) : k <= top(a)
  <2>1. PICK b \in Nat : \A t \in Tx : Nonce[t] <= b
    BY TxAssumption, BoundExists
  <2>2. spent(a) \in SUBSET (0..b)
    BY <1>1, <2>1, TxAssumption DEF SpentNonces
  <2> HIDE DEF spent
  <2>3. \E i \in spent(a) : \A k \in spent(a) : k <= i
    BY <1>3, <2>2, GreatestExists
  <2>4. top(a) \in spent(a) /\ \A k \in spent(a) : k <= top(a)
    BY <2>3
  <2> HIDE DEF top
  <2> QED BY <2>2, <2>4
<1> HIDE DEF spent, top
<1>4. /\ n.entries = l.entries /\ n.rewards = l.rewards /\ n.edges = l.edges
      /\ n.hasChildren = C /\ n.nonces = K /\ n.last = L
      /\ n.nextBatch = l.nextBatch
      /\ n = [ entries |-> n.entries, rewards |-> n.rewards, edges |-> n.edges,
               hasChildren |-> n.hasChildren, nonces |-> n.nonces,
               last |-> n.last, nextBatch |-> n.nextBatch ]
  BY <1>2
<1> HIDE DEF n
<1>5. n.last \in [Account -> Nat \cup {NoNonce}]
  BY <1>3, <1>4
<1>6. n.hasChildren \subseteq Hashes
  BY <1>4 DEF IsLedger
<1>7. n.nonces \subseteq Account \X Nat
  BY <1>1, <1>4, TxAssumption
<1>8. IsLedger(n)
  BY <1>4, <1>5, <1>6, <1>7 DEF IsLedger
<1>9. FinalizedTxs(n) = FinalizedTxs(l)
  BY <1>4 DEF FinalizedTxs
<1>10. ASSUME NEW a \in Account
       PROVE  \/ n.last[a] \in spent(a) /\ \A k \in spent(a) : k <= n.last[a]
              \/ n.last[a] = NoNonce /\ spent(a) \subseteq {0}
  BY <1>3, <1>4
<1> QED BY <1>4, <1>8, <1>9, <1>10 DEF n, spent

-----------------------------------------------------------------------------
(* The ledger on its own *)

(* Edges over more transactions and more reward entries *)
LEMMA EdgesGrow ==
  /\ \A S, T : ParentEdges(S \cup T) = ParentEdges(S) \cup ParentEdges(T)
  /\ \A R, Q : RewardEdges(R \cup Q) = RewardEdges(R) \cup RewardEdges(Q)
  /\ \A T, Q : BatchEdges(T, Q) = ParentEdges(T) \cup RewardEdges(Q)
  BY DEF ParentEdges, RewardEdges, BatchEdges

(* Ledger::add_batch maintains what the reload rebuilds, except that its   *)
(* last nonce may be any of the finalized ones.                            *)
LEMMA AddBatchKeepsExact ==
  ASSUME NEW l, LedgerExact(l), NEW order \in Seq(Tx),
         NEW D, NEW proposer \in [D -> Account]
  PROVE  LedgerExact(AddBatch(l, order, proposer))
<1> DEFINE n == AddBatch(l, order, proposer)
           minted == Minted(l, order, proposer)
<1>1. IsLedger(l) /\ DerivedExact(l)
  BY DEF LedgerExact
<1>2. /\ IsLedger(n)
      /\ FinalizedTxs(n) = FinalizedTxs(l) \cup Range(order)
  <2>1. IsLedger(n)
    BY <1>1, AddBatchFacts
  <2>2. FinalizedTxs(n) = FinalizedTxs(l) \cup Range(order)
    BY <1>1, AddBatchFacts
  <2> QED BY <2>1, <2>2
<1>3. /\ n.rewards = l.rewards \cup minted
      /\ n.edges = l.edges \cup BatchEdges(Range(order), minted)
      /\ n.hasChildren = l.hasChildren \cup {e[1] : e \in BatchEdges(Range(order), minted)}
      /\ n.nonces = l.nonces \cup {<<Sender[t], Nonce[t]>> : t \in Range(order)}
      /\ n.last = LastNonces(l, order)
  BY DEF AddBatch
<1> HIDE DEF n, minted
<1>4. n.edges = ParentEdges(FinalizedTxs(n)) \cup RewardEdges(n.rewards)
  <2>1. l.edges = ParentEdges(FinalizedTxs(l)) \cup RewardEdges(l.rewards)
    BY <1>1 DEF DerivedExact
  <2>2. n.edges = ParentEdges(FinalizedTxs(l) \cup Range(order))
                    \cup RewardEdges(l.rewards \cup minted)
    <3>1. ParentEdges(FinalizedTxs(l) \cup Range(order))
            = ParentEdges(FinalizedTxs(l)) \cup ParentEdges(Range(order))
      BY EdgesGrow
    <3>2. RewardEdges(l.rewards \cup minted)
            = RewardEdges(l.rewards) \cup RewardEdges(minted)
      BY EdgesGrow
    <3>3. BatchEdges(Range(order), minted)
            = ParentEdges(Range(order)) \cup RewardEdges(minted)
      BY EdgesGrow
    <3> QED BY <1>3, <2>1, <3>1, <3>2, <3>3
  <2>3. l.rewards \cup minted = n.rewards
    BY <1>3
  <2> QED BY <1>2, <2>2, <2>3
<1>5. n.hasChildren = {e[1] : e \in n.edges}
  BY <1>1, <1>3 DEF DerivedExact
<1>6. n.nonces = {<<Sender[t], Nonce[t]>> : t \in FinalizedTxs(n)}
  BY <1>1, <1>2, <1>3 DEF DerivedExact
<1>7. ASSUME NEW a \in Account
      PROVE  n.last[a] \in SpentNonces(n, a) \cup {NoNonce}
  <2>1. \/ n.last[a] = l.last[a]
        \/ \E t \in Range(order) : Sender[t] = a /\ n.last[a] = Nonce[t]
    BY <1>1, <1>3, LastNoncesType DEF IsLedger
  <2> QED BY <1>1, <1>2, <2>1 DEF DerivedExact, SpentNonces
<1>8. DerivedExact(n)
  BY <1>4, <1>5, <1>6, <1>7 DEF DerivedExact
<1> QED BY <1>2, <1>8 DEF LedgerExact, n

(* What a reload rebuilds is what the entries say. *)
LEMMA ReloadKeepsExact ==
  ASSUME NEW l, LedgerExact(l)
  PROVE  LedgerExact(Reload(l))
<1> DEFINE n == Reload(l)
<1>1. IsLedger(l) /\ DerivedExact(l)
  BY DEF LedgerExact
<1>2. /\ IsLedger(n)
      /\ FinalizedTxs(n) = FinalizedTxs(l)
      /\ n.rewards = l.rewards
      /\ n.edges = l.edges
      /\ n.hasChildren = {e[1] : e \in l.edges}
      /\ n.nonces = {<<Sender[t], Nonce[t]>> : t \in FinalizedTxs(l)}
      /\ \A a \in Account : n.last[a] \in SpentNonces(l, a) \cup {NoNonce}
  BY <1>1, ReloadFacts
<1> HIDE DEF n
<1>3. DerivedExact(n)
  BY <1>1, <1>2 DEF DerivedExact, SpentNonces
<1> QED BY <1>2, <1>3 DEF LedgerExact, n

LEMMA EmptyLedgerExact == LedgerExact(EmptyLedger)
  BY DEF LedgerExact, DerivedExact, EmptyLedger, IsLedger, FinalizedTxs,
         ParentEdges, RewardEdges, NoNonce

(* Whoever adds, in whatever order, and however often the ledger is        *)
(* reloaded: what it derives from its entries is exact.                    *)
THEOREM LedgerInvariance == LSpec => []LedgerExact(ledger)
<1>1. LInit => LedgerExact(ledger)
  BY EmptyLedgerExact DEF LInit
<1>2. LedgerExact(ledger) /\ [LNext]_ledger => LedgerExact(ledger)'
  <2> SUFFICES ASSUME LedgerExact(ledger), [LNext]_ledger
               PROVE  LedgerExact(ledger')
    BY DEF LedgerExact, DerivedExact, IsLedger, FinalizedTxs, SpentNonces
  <2>1. ASSUME NEW t \in Tx, LAdd(t)
        PROVE  LedgerExact(ledger')
    <3> DEFINE n == AddBatch(ledger, <<t>>, [u \in {} |-> Sender[t]])
    <3>1. <<t>> \in Seq(Tx) /\ [u \in {} |-> Sender[t]] \in [{} -> Account]
      OBVIOUS
    <3>2. LedgerExact(n)
      BY <3>1, AddBatchKeepsExact
    <3>3. ledger' = [n EXCEPT !.nextBatch = ledger.nextBatch]
      BY <2>1 DEF LAdd, AddOne
    <3>4. ledger.nextBatch \in Nat
      BY DEF LedgerExact, IsLedger
    <3> HIDE DEF n
    <3>5. n = [ entries |-> n.entries, rewards |-> n.rewards, edges |-> n.edges,
                hasChildren |-> n.hasChildren, nonces |-> n.nonces,
                last |-> n.last, nextBatch |-> n.nextBatch ]
      BY <3>2 DEF LedgerExact, IsLedger
    <3>6. /\ ledger'.entries = n.entries /\ ledger'.rewards = n.rewards
          /\ ledger'.edges = n.edges /\ ledger'.hasChildren = n.hasChildren
          /\ ledger'.nonces = n.nonces /\ ledger'.last = n.last
          /\ ledger'.nextBatch = ledger.nextBatch
          /\ ledger' = [ entries |-> n.entries, rewards |-> n.rewards,
                         edges |-> n.edges, hasChildren |-> n.hasChildren,
                         nonces |-> n.nonces, last |-> n.last,
                         nextBatch |-> ledger.nextBatch ]
      BY <3>3, <3>5
    <3>7. IsLedger(ledger')
      BY <3>2, <3>4, <3>6 DEF LedgerExact, IsLedger
    <3>8. DerivedExact(ledger')
      BY <3>2, <3>6 DEF LedgerExact, DerivedExact, FinalizedTxs, SpentNonces
    <3> QED BY <3>7, <3>8 DEF LedgerExact
  <2>2. ASSUME LAddBatch PROVE LedgerExact(ledger')
    <3>1. PICK S \in SUBSET (Tx \ FinalizedTxs(ledger)) :
            \E order \in SetToSeqs(S), R \in SUBSET S, a \in Account :
              ledger' = AddBatch(ledger, order, [t \in R |-> a])
      BY <2>2 DEF LAddBatch
    <3>2. PICK order \in SetToSeqs(S), R \in SUBSET S, a \in Account :
            ledger' = AddBatch(ledger, order, [t \in R |-> a])
      BY <3>1
    <3>3. order \in Seq(Tx) /\ [t \in R |-> a] \in [R -> Account]
      BY SequenceOf
    <3> QED BY <3>2, <3>3, AddBatchKeepsExact
  <2>3. CASE LReload
    BY <2>3, ReloadKeepsExact DEF LReload
  <2>4. CASE UNCHANGED ledger
    BY <2>4
  <2> QED BY <2>1, <2>2, <2>3, <2>4 DEF LNext
<1> QED BY <1>1, <1>2, PTL DEF LSpec

(* get_tips, which reads the cache, returns the entries without children. *)
THEOREM TipsExactHolds == LSpec => []TipsExact
<1>1. LedgerExact(ledger) => TipsExact
  <2> SUFFICES ASSUME LedgerExact(ledger) PROVE TipsExact
    OBVIOUS
  <2>1. ASSUME NEW h
        PROVE  h \in ledger.hasChildren
                 <=> \/ \E t \in FinalizedTxs(ledger) : h \in Parents[t]
                     \/ \E r \in ledger.rewards : h = r.source
    <3>1. h \in ledger.hasChildren <=> \E e \in ledger.edges : h = e[1]
      BY DEF LedgerExact, DerivedExact
    <3>2. (\E e \in ParentEdges(FinalizedTxs(ledger)) : h = e[1])
            <=> \E t \in FinalizedTxs(ledger) : h \in Parents[t]
      <4>1. ASSUME NEW t \in FinalizedTxs(ledger), h \in Parents[t]
            PROVE  <<h, t>> \in ParentEdges(FinalizedTxs(ledger)) /\ <<h, t>>[1] = h
        BY <4>1 DEF ParentEdges
      <4>2. ASSUME NEW e \in ParentEdges(FinalizedTxs(ledger)), h = e[1]
            PROVE  \E t \in FinalizedTxs(ledger) : h \in Parents[t]
        BY <4>2 DEF ParentEdges
      <4> QED BY <4>1, <4>2, Zenon
    <3>3. (\E e \in RewardEdges(ledger.rewards) : h = e[1])
            <=> \E r \in ledger.rewards : h = r.source
      <4>1. ASSUME NEW r \in ledger.rewards, h = r.source
            PROVE  <<h, r>> \in RewardEdges(ledger.rewards) /\ <<h, r>>[1] = h
        BY <4>1 DEF RewardEdges
      <4>2. ASSUME NEW e \in RewardEdges(ledger.rewards), h = e[1]
            PROVE  \E r \in ledger.rewards : h = r.source
        BY <4>2 DEF RewardEdges
      <4> QED BY <4>1, <4>2, Zenon
    <3> QED BY <3>1, <3>2, <3>3 DEF LedgerExact, DerivedExact
  <2> QED BY <2>1 DEF TipsExact, LedgerTips
<1> QED BY <1>1, LedgerInvariance, PTL

(* The greatest nonce is at least the last one. *)
LEMMA ReloadRefuses ==
  ASSUME NEW l, LedgerExact(l), NEW a \in Account, NEW k \in Nat,
         Refuses(l, a, k)
  PROVE  Refuses(Reload(l), a, k)
<1> DEFINE n == Reload(l)
           new == Reload(l).last[a]
           old == l.last[a]
           spent == SpentNonces(l, a)
<1>1. IsLedger(l) /\ DerivedExact(l)
  BY DEF LedgerExact
<1>2. spent \subseteq Nat
  <2>1. FinalizedTxs(l) \subseteq Tx
    BY <1>1 DEF IsLedger, FinalizedTxs
  <2> QED BY <2>1, TxAssumption DEF SpentNonces
<1>3. n.nonces = l.nonces
  BY <1>1, ReloadFacts DEF DerivedExact
<1>4. \/ new \in spent /\ \A i \in spent : i <= new
      \/ spent \subseteq {0}
  BY <1>1, ReloadFacts
<1>5. old \in spent \cup {NoNonce}
  BY <1>1 DEF DerivedExact
<1>6. \A i \in spent : <<a, i>> \in l.nonces
  BY <1>1 DEF DerivedExact, SpentNonces
<1>7. <<a, k>> \in l.nonces \/ k <= old
  BY DEF Refuses
<1>8. Refuses(n, a, k) <=> <<a, k>> \in n.nonces \/ k <= new
  BY DEF Refuses
<1> HIDE DEF n, new, old, spent
<1>9. <<a, k>> \in l.nonces \/ k <= new
  <2>1. CASE <<a, k>> \in l.nonces
    BY <2>1
  <2>2. CASE k <= old
    <3>1. old \in spent /\ old \in Nat
      BY <1>2, <1>5, <2>2 DEF NoNonce
    <3>2. CASE new \in spent /\ \A i \in spent : i <= new
      <4>1. new \in Nat /\ old <= new
        BY <1>2, <3>1, <3>2
      <4>2. k <= new
        BY <2>2, <3>1, <4>1
      <4> QED BY <4>2
    <3>3. CASE spent \subseteq {0}
      <4>1. old = 0
        BY <3>1, <3>3
      <4>2. k = 0
        BY <2>2, <4>1
      <4> QED BY <1>6, <3>1, <4>1, <4>2
    <3> QED BY <1>4, <3>2, <3>3
  <2> QED BY <1>7, <2>1, <2>2
<1>10. Refuses(n, a, k)
  BY <1>3, <1>8, <1>9
<1> QED BY <1>10 DEF n

(* A restart never makes a nonce spendable that was refused before it. *)
THEOREM ReloadKeepsRefusingHolds == LSpec => []ReloadKeepsRefusing
<1>1. LedgerExact(ledger) => ReloadKeepsRefusing
  BY ReloadRefuses, TxAssumption DEF ReloadKeepsRefusing
<1> QED BY <1>1, LedgerInvariance, PTL

-----------------------------------------------------------------------------
(* The balances *)

BalanceMaps == UNION {[A -> 0..MaxU64] : A \in SUBSET Account}

(* The set of balance maps, for the lemmas that need a set, is IsBalances. *)
LEMMA BalanceMapsAre ==
  ASSUME NEW b
  PROVE  b \in BalanceMaps <=> IsBalances(b)
  BY DEF BalanceMaps, IsBalances

(* get_balance returns a u64, 0 for an account without entry.              *)
LEMMA BalanceInRange ==
  ASSUME NEW b, IsBalances(b), NEW a
  PROVE  GetBalance(b, a) \in 0..MaxU64
  BY TxAssumption DEF IsBalances, GetBalance

(* saturating_add stays within u64.                                        *)
LEMMA SatAddInRange ==
  ASSUME NEW m \in 0..MaxU64, NEW n \in 0..MaxU64
  PROVE  SatAdd(m, n) \in 0..MaxU64
  BY TxAssumption DEF SatAdd, MinOf

(* total_cost, amount and fee added with saturation, is a u64.             *)
LEMMA TotalCostInRange ==
  ASSUME NEW t \in Tx
  PROVE  TotalCost(t) \in 0..MaxU64
  BY TxAssumption, SatAddInRange DEF TotalCost

(* Writing one u64 balance leaves a balance map.                           *)
LEMMA PutBalance ==
  ASSUME NEW b, IsBalances(b), NEW a \in Account, NEW v \in 0..MaxU64
  PROVE  IsBalances(Put(b, a, v))
  BY DEF IsBalances, Put

(* apply_reward leaves a balance map, whatever amount it credits.          *)
LEMMA CreditKeepsBalances ==
  ASSUME NEW b, IsBalances(b), NEW a \in Account, NEW v \in 0..MaxU64
  PROVE  IsBalances(Credit(b, a, v))
  BY PutBalance, BalanceInRange, SatAddInRange DEF Credit

(* apply_tx debits only a sender that can pay: no balance underflows. *)
LEMMA ApplyTxKeepsBalances ==
  ASSUME NEW b, IsBalances(b), NEW t \in Tx
  PROVE  IsBalances(ApplyTx(b, t))
<1>1. /\ Sender[t] \in Account
      /\ Receiver[t] \in Account
      /\ Amount[t] \in 0..MaxU64
  BY TxAssumption
<1>2. CASE ~CanApply(b, t)
  BY <1>2 DEF ApplyTx
<1>3. CASE CanApply(b, t)
  <2> DEFINE left == GetBalance(b, Sender[t]) - TotalCost(t)
  <2>1. left \in 0..MaxU64
    <3>1. /\ GetBalance(b, Sender[t]) \in 0..MaxU64
          /\ TotalCost(t) \in 0..MaxU64
          /\ GetBalance(b, Sender[t]) >= TotalCost(t)
      BY <1>3, BalanceInRange, TotalCostInRange DEF CanApply, HasBalance
    <3> QED BY <3>1, TxAssumption
  <2> HIDE DEF left
  <2>2. IsBalances(Put(b, Sender[t], left))
    BY <1>1, <2>1, PutBalance
  <2>3. IsBalances(Credit(Put(b, Sender[t], left), Receiver[t], Amount[t]))
    BY <1>1, <2>2, CreditKeepsBalances
  <2> QED BY <1>3, <2>3 DEF ApplyTx, left
<1> QED BY <1>2, <1>3

(* The balances after each transaction of a batch *)
LEMMA RunType ==
  ASSUME NEW b, IsBalances(b), NEW order \in Seq(Tx)
  PROVE  /\ \A i \in 0..Len(order) : IsBalances(Run(b, order)[i])
         /\ Run(b, order)[0] = b
         /\ \A i \in 1..Len(order) :
              Run(b, order)[i] = ApplyTx(Run(b, order)[i - 1], order[i])
<1> DEFINE n == Len(order)
           Runs(f) == f = [i \in 0..n |-> IF i = 0 THEN b
                                         ELSE ApplyTx(f[i - 1], order[i])]
           step == [p \in (1..n) \X BalanceMaps |-> ApplyTx(p[2], order[p[1]])]
<1>1. n \in Nat /\ \A i \in 1..n : order[i] \in Tx
  OBVIOUS
<1>2. step \in [(1..n) \X BalanceMaps -> BalanceMaps]
  <2>1. \A p \in (1..n) \X BalanceMaps :
          ApplyTx(p[2], order[p[1]]) \in BalanceMaps
    BY <1>1, BalanceMapsAre, ApplyTxKeepsBalances
  <2> QED BY <2>1
<1>3. b \in BalanceMaps
  BY BalanceMapsAre
<1>4. PICK f : Follows(f, n, BalanceMaps, b, step)
  <2>1. n \in Nat
    BY <1>1
  <2> HIDE DEF n, step
  <2> QED BY <2>1, <1>2, <1>3, RecursionExists
<1>5. Runs(f)
  <2>1. \A i \in 1..n : f[i] = ApplyTx(f[i - 1], order[i])
    <3> SUFFICES ASSUME NEW i \in 1..n PROVE f[i] = ApplyTx(f[i - 1], order[i])
      OBVIOUS
    <3>1. i - 1 \in 0..n
      BY <1>1
    <3>2. <<i, f[i - 1]>> \in (1..n) \X BalanceMaps
      BY <1>4, <3>1 DEF Follows
    <3> QED BY <1>4, <3>2 DEF Follows
  <2>2. DOMAIN f = 0..n /\ \A i \in 0..n : i = 0 \/ i \in 1..n
    BY <1>1, <1>4 DEF Follows
  <2>3. \A i \in 0..n : f[i] = IF i = 0 THEN b ELSE ApplyTx(f[i - 1], order[i])
    BY <1>4, <2>1, <2>2 DEF Follows
  <2> QED BY <1>4, <2>2, <2>3 DEF Follows
<1>6. Run(b, order) = CHOOSE g : Runs(g)
  BY DEF Run
<1>7. Runs(Run(b, order))
  <2> HIDE DEF Runs
  <2> QED BY <1>5, <1>6
<1> DEFINE r == Run(b, order)
<1> HIDE DEF r
<1>8. /\ r[0] = b
      /\ \A i \in 1..n : r[i] = ApplyTx(r[i - 1], order[i])
  <2>1. /\ 0 \in 0..n
        /\ \A i \in 1..n : i \in 0..n /\ i # 0
    BY <1>1
  <2> QED BY <1>7, <2>1 DEF r
<1> DEFINE S == {i \in 0..n : IsBalances(r[i])}
<1>9. S = 0..n
  <2>1. 0 \in S
    BY <1>1, <1>8
  <2>2. ASSUME NEW i \in 1..n, i - 1 \in S
        PROVE  i \in S
    BY <1>1, <1>8, <2>2, ApplyTxKeepsBalances
  <2>3. S \in SUBSET (0..n)
    OBVIOUS
  <2> HIDE DEF S
  <2> QED BY <1>1, <2>1, <2>2, <2>3, BoundedInduction
<1> QED BY <1>8, <1>9 DEF r

(* paid holds the balances while the fees of a batch are paid to its       *)
(* proposers.                                                              *)
Payment(paid, b, order, proposer) ==
  /\ PayRewards(b, order, proposer) = paid[Len(order)]
  /\ paid[0] = b
  /\ \A i \in 0..Len(order) : IsBalances(paid[i])
  /\ \A i \in 1..Len(order) :
       paid[i] = Credit(paid[i - 1], proposer[order[i]], Fee[order[i]])

LEMMA PayRewardsUnfolds ==
  ASSUME NEW b, IsBalances(b), NEW order \in Seq(Tx),
         NEW proposer, \A i \in 1..Len(order) : proposer[order[i]] \in Account
  PROVE  \E paid : Payment(paid, b, order, proposer)
<1> DEFINE n == Len(order)
           Pay(c, i) == Credit(c, proposer[order[i]], Fee[order[i]])
           Pays(f) == f = [i \in 0..n |-> IF i = 0 THEN b ELSE Pay(f[i - 1], i)]
           step == [p \in (1..n) \X BalanceMaps |-> Pay(p[2], p[1])]
<1>1. /\ n \in Nat
      /\ \A i \in 1..n : order[i] \in Tx /\ Fee[order[i]] \in 0..MaxU64
  BY TxAssumption
<1>2. \A c \in BalanceMaps, i \in 1..n : Pay(c, i) \in BalanceMaps
  BY <1>1, BalanceMapsAre, CreditKeepsBalances
<1>3. step \in [(1..n) \X BalanceMaps -> BalanceMaps]
  <2> HIDE DEF Pay
  <2> QED BY <1>2
<1>4. b \in BalanceMaps
  BY BalanceMapsAre
<1>5. PICK f : Follows(f, n, BalanceMaps, b, step)
  <2>1. n \in Nat
    BY <1>1
  <2> HIDE DEF n, step
  <2> QED BY <2>1, <1>3, <1>4, RecursionExists
<1>6. Pays(f)
  <2> HIDE DEF Pay
  <2>1. \A i \in 1..n : f[i] = Pay(f[i - 1], i)
    <3> SUFFICES ASSUME NEW i \in 1..n PROVE f[i] = Pay(f[i - 1], i)
      OBVIOUS
    <3>1. i - 1 \in 0..n
      BY <1>1
    <3>2. <<i, f[i - 1]>> \in (1..n) \X BalanceMaps
      BY <1>5, <3>1 DEF Follows
    <3> QED BY <1>5, <3>2 DEF Follows
  <2>2. DOMAIN f = 0..n /\ \A i \in 0..n : i = 0 \/ i \in 1..n
    BY <1>1, <1>5 DEF Follows
  <2>3. \A i \in 0..n : f[i] = IF i = 0 THEN b ELSE Pay(f[i - 1], i)
    BY <1>5, <2>1, <2>2 DEF Follows
  <2> QED BY <1>5, <2>2, <2>3 DEF Follows
<1> DEFINE r == CHOOSE g : Pays(g)
<1>7. PayRewards(b, order, proposer) = r[n]
  BY DEF PayRewards
<1>8. Pays(r)
  <2> HIDE DEF Pays
  <2> QED BY <1>6
<1> HIDE DEF r
<1>9. /\ r[0] = b
      /\ \A i \in 1..n : r[i] = Pay(r[i - 1], i)
  <2>1. /\ 0 \in 0..n
        /\ \A i \in 1..n : i \in 0..n /\ i # 0
    BY <1>1
  <2> HIDE DEF Pay
  <2> QED BY <1>8, <2>1
<1> DEFINE S == {i \in 0..n : r[i] \in BalanceMaps}
<1>10. S = 0..n
  <2> HIDE DEF Pay
  <2>1. 0 \in S
    BY <1>1, <1>4, <1>9
  <2>2. ASSUME NEW i \in 1..n, i - 1 \in S
        PROVE  i \in S
    BY <1>1, <1>2, <1>9, <2>2
  <2>3. S \in SUBSET (0..n)
    OBVIOUS
  <2> HIDE DEF S
  <2> QED BY <1>1, <2>1, <2>2, <2>3, BoundedInduction
<1>11. \A i \in 0..n : IsBalances(r[i])
  BY <1>10, BalanceMapsAre
<1>12. Payment(r, b, order, proposer)
  BY <1>7, <1>9, <1>11 DEF Payment
<1> QED BY <1>12

LEMMA PayRewardsType ==
  ASSUME NEW b, IsBalances(b), NEW order \in Seq(Tx),
         NEW proposer, \A i \in 1..Len(order) : proposer[order[i]] \in Account
  PROVE  IsBalances(PayRewards(b, order, proposer))
<1>1. Len(order) \in 0..Len(order)
  OBVIOUS
<1>2. PICK paid : Payment(paid, b, order, proposer)
  BY PayRewardsUnfolds
<1> QED BY <1>1, <1>2 DEF Payment

-----------------------------------------------------------------------------
(* The money supply *)

(* No u64 sum of an amount and a fee of these transactions saturates.      *)
CostsExact(S) == \A t \in S : TotalCost(t) = Amount[t] + Fee[t]

FeesOf(S) == SumFunctionOnSet(Fee, S)

LEMMA SupplyNat ==
  ASSUME NEW b, IsBalances(b), IsFiniteSet(DOMAIN b)
  PROVE  Supply(b) \in Nat
<1>1. SumFunctionOnSet(b, DOMAIN b) \in Nat
  BY TxAssumption, SumNat DEF IsBalances
<1> QED BY <1>1 DEF Supply, SumFunction

(* Writing one entry changes the supply by the difference.                 *)
LEMMA SupplyPut ==
  ASSUME NEW b, IsBalances(b), IsFiniteSet(DOMAIN b),
         NEW a \in Account, NEW v \in 0..MaxU64
  PROVE  /\ IsFiniteSet(DOMAIN Put(b, a, v))
         /\ Supply(b) \in Nat
         /\ GetBalance(b, a) <= Supply(b)
         /\ Supply(Put(b, a, v)) = Supply(b) - GetBalance(b, a) + v
<1> DEFINE D == DOMAIN b
           c == Put(b, a, v)
<1>1. /\ DOMAIN c = D \cup {a}
      /\ c[a] = v
      /\ \A x \in D \ {a} : c[x] = b[x]
  BY DEF Put
<1>2. /\ \A x \in D : b[x] \in Nat
      /\ v \in Nat
  BY TxAssumption DEF IsBalances
<1>3. \A x \in D \cup {a} : c[x] \in Nat
  BY <1>1, <1>2
<1>4. /\ Supply(b) = SumFunctionOnSet(b, D)
      /\ Supply(c) = SumFunctionOnSet(c, D \cup {a})
  BY <1>1 DEF Supply, SumFunction
<1> HIDE DEF c
<1>5. CASE a \in D
  <2>1. D \cup {a} = D
    BY <1>5
  <2>2. SumFunctionOnSet(c, D) = SumFunctionOnSet(b, D) - b[a] + c[a]
    BY <1>1, <1>2, <1>3, <1>5, SumUpdate
  <2>3. GetBalance(b, a) = b[a]
    BY <1>5 DEF GetBalance
  <2>4. SumFunctionOnSet(b, D) \in Nat /\ b[a] <= SumFunctionOnSet(b, D)
    BY <1>2, <1>5, SumNat
  <2> QED BY <1>1, <1>2, <1>4, <2>1, <2>2, <2>3, <2>4 DEF c
<1>6. CASE a \notin D
  <2>1. /\ IsFiniteSet(D \cup {a})
        /\ SumFunctionOnSet(c, D \cup {a}) = c[a] + SumFunctionOnSet(c, D)
    BY <1>3, <1>6, SumInsert
  <2>2. \A x \in D : c[x] = b[x]
    BY <1>1, <1>6
  <2>3. SumFunctionOnSet(c, D) = SumFunctionOnSet(b, D)
    BY <1>3, <2>2, SumSame
  <2>4. SumFunctionOnSet(b, D) \in Nat
    BY <1>2, SumNat
  <2>5. GetBalance(b, a) = 0
    BY <1>6 DEF GetBalance
  <2> QED BY <1>1, <1>2, <1>4, <2>1, <2>3, <2>4, <2>5 DEF c
<1> QED BY <1>5, <1>6

(* A credit adds what it credits, unless the balance saturates.            *)
LEMMA SupplyCredit ==
  ASSUME NEW b, IsBalances(b), IsFiniteSet(DOMAIN b),
         NEW a \in Account, NEW v \in 0..MaxU64
  PROVE  /\ IsFiniteSet(DOMAIN Credit(b, a, v))
         /\ Supply(b) \in Nat
         /\ Supply(Credit(b, a, v)) \in Nat
         /\ Supply(Credit(b, a, v)) <= Supply(b) + v
         /\ Supply(b) + v <= MaxU64
              => /\ Supply(Credit(b, a, v)) = Supply(b) + v
                 /\ GetBalance(b, a) + v <= MaxU64
<1> DEFINE w == SatAdd(GetBalance(b, a), v)
<1>1. w \in 0..MaxU64 /\ GetBalance(b, a) \in 0..MaxU64
  BY BalanceInRange, SatAddInRange
<1>2. /\ w <= GetBalance(b, a) + v
      /\ GetBalance(b, a) + v <= MaxU64 => w = GetBalance(b, a) + v
  BY <1>1, TxAssumption DEF SatAdd, MinOf
<1>3. Credit(b, a, v) = Put(b, a, w)
  BY DEF Credit
<1> HIDE DEF w
<1>4. /\ IsFiniteSet(DOMAIN Put(b, a, w))
      /\ Supply(b) \in Nat
      /\ GetBalance(b, a) <= Supply(b)
      /\ Supply(Put(b, a, w)) = Supply(b) - GetBalance(b, a) + w
  BY <1>1, SupplyPut
<1> QED BY <1>1, <1>2, <1>3, <1>4, TxAssumption

(* apply_tx takes at least the fee out of circulation, until a proposer is *)
(* paid it.                                                                *)
LEMMA SupplyApply ==
  ASSUME NEW b, IsBalances(b), IsFiniteSet(DOMAIN b),
         NEW t \in Tx, CanApply(b, t), CostsExact({t})
  PROVE  /\ IsFiniteSet(DOMAIN ApplyTx(b, t))
         /\ Supply(b) \in Nat
         /\ Supply(ApplyTx(b, t)) \in Nat
         /\ Supply(ApplyTx(b, t)) + Fee[t] <= Supply(b)
         /\ Supply(b) <= MaxU64 => Supply(ApplyTx(b, t)) + Fee[t] = Supply(b)
<1> DEFINE left == GetBalance(b, Sender[t]) - TotalCost(t)
           c == Put(b, Sender[t], left)
<1>1. /\ Sender[t] \in Account /\ Receiver[t] \in Account
      /\ Amount[t] \in 0..MaxU64 /\ Fee[t] \in 0..MaxU64
      /\ MaxU64 \in Nat
      /\ TotalCost(t) = Amount[t] + Fee[t]
  BY TxAssumption DEF CostsExact
<1>2. /\ GetBalance(b, Sender[t]) \in 0..MaxU64
      /\ GetBalance(b, Sender[t]) >= TotalCost(t)
  BY BalanceInRange DEF CanApply, HasBalance
<1>3. left \in 0..MaxU64
  BY <1>1, <1>2
<1>4. ApplyTx(b, t) = Credit(c, Receiver[t], Amount[t])
  BY DEF ApplyTx
<1>5. /\ IsFiniteSet(DOMAIN c)
      /\ Supply(b) \in Nat
      /\ Supply(c) = Supply(b) - GetBalance(b, Sender[t]) + left
      /\ IsBalances(c)
  <2> HIDE DEF left
  <2> QED BY <1>1, <1>3, SupplyPut, PutBalance
<1>6. Supply(c) + Amount[t] + Fee[t] = Supply(b)
  <2>1. left = GetBalance(b, Sender[t]) - TotalCost(t)
    OBVIOUS
  <2> HIDE DEF left, c
  <2> QED BY <1>1, <1>2, <1>5, <2>1
<1> HIDE DEF c
<1>7. /\ IsFiniteSet(DOMAIN Credit(c, Receiver[t], Amount[t]))
      /\ Supply(c) \in Nat
      /\ Supply(Credit(c, Receiver[t], Amount[t])) \in Nat
      /\ Supply(Credit(c, Receiver[t], Amount[t])) <= Supply(c) + Amount[t]
      /\ Supply(c) + Amount[t] <= MaxU64
           => Supply(Credit(c, Receiver[t], Amount[t])) = Supply(c) + Amount[t]
  BY <1>1, <1>5, SupplyCredit
<1> QED BY <1>1, <1>4, <1>5, <1>6, <1>7


(* The first i transactions of a batch *)
First(order, i) == {order[j] : j \in 1..i}

LEMMA FirstFacts ==
  ASSUME NEW order \in Seq(Tx)
  PROVE  /\ First(order, 0) = {}
         /\ First(order, Len(order)) = Range(order)
         /\ \A i \in 0..Len(order) : First(order, i) \subseteq Range(order)
         /\ \A i \in 1..Len(order) :
              First(order, i) = First(order, i - 1) \cup {order[i]}
         /\ Range(order) \subseteq Tx /\ IsFiniteSet(Range(order))
<1>1. Len(order) \in Nat /\ DOMAIN order = 1..Len(order)
  OBVIOUS
<1>2. Range(order) \subseteq Tx
  BY <1>1 DEF Range
<1>3. IsFiniteSet(Range(order))
  BY <1>2, TxAssumption, FS_Subset
<1>4. ASSUME NEW i \in 1..Len(order)
      PROVE  First(order, i) = First(order, i - 1) \cup {order[i]}
  <2>1. 1..i = (1..(i - 1)) \cup {i}
    BY <1>1
  <2> QED BY <2>1 DEF First
<1>5. First(order, 0) = {} /\ First(order, Len(order)) = Range(order)
  BY <1>1 DEF First, Range
<1>6. \A i \in 0..Len(order) : First(order, i) \subseteq Range(order)
  BY <1>1 DEF First, Range
<1> QED BY <1>2, <1>3, <1>4, <1>5, <1>6

(* An enumeration of S holds every member of S once. *)
LEMMA EnumerationOf ==
  ASSUME NEW S \in SUBSET Tx, NEW order \in SetToSeqs(S)
  PROVE  /\ order \in Seq(Tx)
         /\ Range(order) = S
         /\ Len(order) = Cardinality(S)
         /\ \A i \in 1..Len(order) : order[i] \notin First(order, i - 1)
<1> DEFINE n == Cardinality(S)
<1>1. IsFiniteSet(S) /\ n \in Nat
  BY TxAssumption, FS_Subset, FS_CardinalityType
<1>2. /\ order \in [1..n -> S]
      /\ \A i, j \in 1..n : i # j => order[i] # order[j]
  BY DEF SetToSeqs
<1>3. order \in Seq(Tx)
  BY SequenceOf
<1>4. Len(order) = n
  BY <1>1, <1>2, <1>3
<1>5. order \in Injection(1..n, S)
  BY <1>2 DEF Injection, IsInjective
<1>6. IsFiniteSet(1..n) /\ Cardinality(1..n) = n
  BY <1>1, FS_Interval
<1>7. order \in Surjection(1..n, S)
  BY <1>1, <1>5, <1>6, FS_Injection
<1>8. Range(order) = S
  BY <1>2, <1>7 DEF Surjection, Range
<1>9. ASSUME NEW i \in 1..n PROVE order[i] \notin First(order, i - 1)
  <2>1. \A j \in 1..(i - 1) : j \in 1..n /\ j # i
    BY <1>1
  <2> QED BY <1>2, <2>1 DEF First
<1> QED BY <1>3, <1>4, <1>8, <1>9

(* The transactions among the first i of a batch that are applied *)
Succeeding(b, order, i) ==
  {order[j] : j \in {k \in 1..i : CanApply(Run(b, order)[k - 1], order[k])}}

(* A batch takes at least the fees of what it applies out of circulation.  *)
LEMMA SupplyRun ==
  ASSUME NEW b, IsBalances(b), IsFiniteSet(DOMAIN b),
         NEW S \in SUBSET Tx, CostsExact(S), NEW order \in SetToSeqs(S)
  PROVE  LET n == Len(order) IN
         /\ IsFiniteSet(DOMAIN Run(b, order)[n])
         /\ Supply(Run(b, order)[n]) \in Nat
         /\ FeesOf(Succeeding(b, order, n)) \in Nat
         /\ Succeeding(b, order, n) \subseteq S
         /\ Supply(Run(b, order)[n]) + FeesOf(Succeeding(b, order, n)) <= Supply(b)
<1> DEFINE n == Len(order)
           run == Run(b, order)
           C(i) == Succeeding(b, order, i)
<1>1. /\ order \in Seq(Tx)
      /\ Range(order) = S
      /\ \A i \in 1..n : order[i] \notin First(order, i - 1)
      /\ n \in Nat
      /\ \A i \in 1..n : order[i] \in Tx
  BY EnumerationOf
<1>2. /\ \A i \in 0..n : IsBalances(run[i])
      /\ run[0] = b
      /\ \A i \in 1..n : run[i] = ApplyTx(run[i - 1], order[i])
  BY <1>1, RunType
<1>3. /\ C(0) = {}
      /\ \A i \in 1..n :
           C(i) = C(i - 1) \cup (IF CanApply(run[i - 1], order[i])
                                 THEN {order[i]} ELSE {})
      /\ \A i \in 0..n : C(i) \subseteq First(order, i)
  <2>1. C(0) = {}
    BY DEF Succeeding
  <2>2. ASSUME NEW i \in 1..n
        PROVE  C(i) = C(i - 1) \cup (IF CanApply(run[i - 1], order[i])
                                     THEN {order[i]} ELSE {})
    <3>1. 1..i = (1..(i - 1)) \cup {i}
      BY <1>1
    <3> HIDE DEF run
    <3> QED BY <3>1 DEF Succeeding, run
  <2>3. \A i \in 0..n : C(i) \subseteq First(order, i)
    BY DEF Succeeding, First
  <2> QED BY <2>1, <2>2, <2>3
<1>4. \A i \in 0..n : C(i) \subseteq S /\ IsFiniteSet(C(i))
  BY <1>1, <1>3, FirstFacts, FS_Subset
<1>5. \A t \in Tx : Fee[t] \in Nat
  BY TxAssumption
<1> HIDE DEF run, C
<1>6. \A i \in 0..n : FeesOf(C(i)) \in Nat
  <2> SUFFICES ASSUME NEW i \in 0..n PROVE FeesOf(C(i)) \in Nat
    OBVIOUS
  <2>1. IsFiniteSet(C(i)) /\ \A t \in C(i) : Fee[t] \in Nat
    BY <1>4, <1>5
  <2> QED BY <2>1, SumNat DEF FeesOf
<1> DEFINE G == {i \in 0..n : /\ IsFiniteSet(DOMAIN run[i])
                              /\ Supply(run[i]) \in Nat
                              /\ Supply(run[i]) + FeesOf(C(i)) <= Supply(b)}
<1>7. G = 0..n
  <2>1. 0 \in G
    <3>1. Supply(b) \in Nat
      BY SupplyNat
    <3>2. FeesOf(C(0)) = 0
      BY <1>3, SumUnfold, FS_EmptySet DEF FeesOf
    <3> QED BY <1>1, <1>2, <3>1, <3>2
  <2>2. ASSUME NEW i \in 1..n, i - 1 \in G
        PROVE  i \in G
    <3>1. /\ i - 1 \in 0..n /\ i \in 0..n
          /\ IsBalances(run[i - 1])
          /\ IsFiniteSet(DOMAIN run[i - 1])
          /\ Supply(run[i - 1]) \in Nat
          /\ Supply(run[i - 1]) + FeesOf(C(i - 1)) <= Supply(b)
          /\ run[i] = ApplyTx(run[i - 1], order[i])
          /\ order[i] \in Tx
      BY <1>1, <1>2, <2>2
    <3>2. CASE ~CanApply(run[i - 1], order[i])
      <4>1. C(i) = C(i - 1)
        BY <1>3, <3>2
      <4>2. run[i] = run[i - 1]
        BY <3>1, <3>2 DEF ApplyTx
      <4> QED BY <3>1, <4>1, <4>2
    <3>3. CASE CanApply(run[i - 1], order[i])
      <4>1. /\ IsFiniteSet(DOMAIN run[i])
            /\ Supply(run[i]) \in Nat
            /\ Supply(run[i]) + Fee[order[i]] <= Supply(run[i - 1])
        <5>1. order[i] \in S
          BY <1>1 DEF Range
        <5>2. CostsExact({order[i]})
          BY <5>1 DEF CostsExact
        <5> QED BY <3>1, <3>3, <5>2, SupplyApply
      <4>2. C(i) = C(i - 1) \cup {order[i]} /\ order[i] \notin C(i - 1)
        BY <1>1, <1>3, <3>1, <3>3
      <4>3. FeesOf(C(i)) = Fee[order[i]] + FeesOf(C(i - 1))
        <5>1. /\ IsFiniteSet(C(i - 1))
              /\ \A t \in C(i - 1) : Fee[t] \in Int
              /\ Fee[order[i]] \in Int
          BY <1>4, <1>5, <3>1
        <5> QED BY <4>2, <5>1, SumInsert DEF FeesOf
      <4>4. FeesOf(C(i - 1)) \in Nat /\ Fee[order[i]] \in Nat /\ Supply(b) \in Int
        <5>1. Supply(b) \in Nat
          BY SupplyNat
        <5> QED BY <1>5, <1>6, <3>1, <5>1
      <4> QED BY <3>1, <4>1, <4>3, <4>4
    <3> QED BY <3>2, <3>3
  <2>3. G \in SUBSET (0..n)
    OBVIOUS
  <2> HIDE DEF G
  <2> QED BY <1>1, <2>1, <2>2, <2>3, BoundedInduction
<1>8. n \in G /\ n \in 0..n
  BY <1>1, <1>7
<1> QED BY <1>4, <1>6, <1>8 DEF run, C

(* Paying the fees of a batch adds no more than these fees, and just them  *)
(* where nothing can saturate.                                             *)
LEMMA SupplyPaid ==
  ASSUME NEW b, IsBalances(b), IsFiniteSet(DOMAIN b),
         NEW S \in SUBSET Tx, NEW order \in SetToSeqs(S),
         NEW proposer, \A t \in S : proposer[t] \in Account
  PROVE  /\ IsFiniteSet(DOMAIN PayRewards(b, order, proposer))
         /\ Supply(b) \in Nat
         /\ FeesOf(S) \in Nat
         /\ Supply(PayRewards(b, order, proposer)) \in Nat
         /\ Supply(PayRewards(b, order, proposer)) <= Supply(b) + FeesOf(S)
         /\ Supply(b) + FeesOf(S) <= MaxU64
              => Supply(PayRewards(b, order, proposer)) = Supply(b) + FeesOf(S)
<1> DEFINE n == Len(order)
           F(i) == First(order, i)
<1>1. /\ order \in Seq(Tx)
      /\ Range(order) = S
      /\ \A i \in 1..n : order[i] \notin F(i - 1)
      /\ n \in Nat
      /\ \A i \in 1..n : order[i] \in S /\ order[i] \in Tx
      /\ \A i \in 1..n : proposer[order[i]] \in Account
  <2>1. \A i \in 1..Len(order) : order[i] \in Range(order)
    BY EnumerationOf DEF Range
  <2> QED BY <2>1, EnumerationOf
<1>2. PICK paid :
        /\ PayRewards(b, order, proposer) = paid[n]
        /\ paid[0] = b
        /\ \A i \in 0..n : IsBalances(paid[i])
        /\ \A i \in 1..n :
             paid[i] = Credit(paid[i - 1], proposer[order[i]], Fee[order[i]])
  <2>1. order \in Seq(Tx) /\ \A i \in 1..Len(order) : proposer[order[i]] \in Account
    BY <1>1
  <2>2. PICK g : Payment(g, b, order, proposer)
    BY <2>1, PayRewardsUnfolds
  <2> QED BY <2>2 DEF Payment
<1>3. /\ F(0) = {}
      /\ F(n) = S
      /\ \A i \in 1..n : F(i) = F(i - 1) \cup {order[i]}
      /\ \A i \in 0..n : F(i) \subseteq S /\ IsFiniteSet(F(i))
  BY <1>1, FirstFacts, FS_Subset
<1>4. \A t \in Tx : Fee[t] \in Nat /\ Fee[t] \in 0..MaxU64
  BY TxAssumption
<1> HIDE DEF F
<1>5. \A i \in 0..n : FeesOf(F(i)) \in Nat
  <2> SUFFICES ASSUME NEW i \in 0..n PROVE FeesOf(F(i)) \in Nat
    OBVIOUS
  <2>1. IsFiniteSet(F(i)) /\ \A t \in F(i) : Fee[t] \in Nat
    BY <1>3, <1>4
  <2> QED BY <2>1, SumNat DEF FeesOf
<1>6. Supply(b) \in Nat
  BY SupplyNat
<1> DEFINE G == {i \in 0..n :
                   /\ IsFiniteSet(DOMAIN paid[i])
                   /\ Supply(paid[i]) \in Nat
                   /\ Supply(paid[i]) <= Supply(b) + FeesOf(F(i))
                   /\ Supply(b) + FeesOf(F(i)) <= MaxU64
                        => Supply(paid[i]) = Supply(b) + FeesOf(F(i))}
<1>7. G = 0..n
  <2>1. 0 \in G
    <3>1. FeesOf(F(0)) = 0
      BY <1>3, SumUnfold, FS_EmptySet DEF FeesOf
    <3> QED BY <1>1, <1>2, <1>6, <3>1
  <2>2. ASSUME NEW i \in 1..n, i - 1 \in G
        PROVE  i \in G
    <3> DEFINE old == paid[i - 1]
    <3>1. /\ i - 1 \in 0..n /\ i \in 0..n
          /\ IsBalances(old)
          /\ IsFiniteSet(DOMAIN old)
          /\ Supply(old) \in Nat
          /\ Supply(old) <= Supply(b) + FeesOf(F(i - 1))
          /\ Supply(b) + FeesOf(F(i - 1)) <= MaxU64
               => Supply(old) = Supply(b) + FeesOf(F(i - 1))
          /\ paid[i] = Credit(old, proposer[order[i]], Fee[order[i]])
          /\ order[i] \in Tx
          /\ proposer[order[i]] \in Account
      BY <1>1, <1>2, <2>2
    <3> HIDE DEF old
    <3>2. /\ IsFiniteSet(DOMAIN paid[i])
          /\ Supply(paid[i]) \in Nat
          /\ Supply(paid[i]) <= Supply(old) + Fee[order[i]]
          /\ Supply(old) + Fee[order[i]] <= MaxU64
               => Supply(paid[i]) = Supply(old) + Fee[order[i]]
      BY <1>4, <3>1, SupplyCredit
    <3>3. FeesOf(F(i)) = Fee[order[i]] + FeesOf(F(i - 1))
      <4>1. /\ IsFiniteSet(F(i - 1))
            /\ \A t \in F(i - 1) : Fee[t] \in Int
            /\ Fee[order[i]] \in Int
            /\ F(i) = F(i - 1) \cup {order[i]}
            /\ order[i] \notin F(i - 1)
        BY <1>1, <1>3, <1>4, <3>1
      <4> QED BY <4>1, SumInsert DEF FeesOf
    <3>4. FeesOf(F(i - 1)) \in Nat /\ Fee[order[i]] \in Nat /\ MaxU64 \in Nat
      BY <1>4, <1>5, <3>1, TxAssumption
    <3> QED BY <1>6, <3>1, <3>2, <3>3, <3>4
  <2>3. G \in SUBSET (0..n)
    OBVIOUS
  <2> HIDE DEF G
  <2> QED BY <1>1, <2>1, <2>2, <2>3, BoundedInduction
<1>8. n \in G /\ n \in 0..n
  BY <1>1, <1>7
<1> QED BY <1>2, <1>3, <1>5, <1>6, <1>8

(* What a transaction changes in the balance of a                          *)
Gain(a) == [t \in Tx |-> (IF Receiver[t] = a THEN Amount[t] ELSE 0)
                           - (IF Sender[t] = a THEN TotalCost(t) ELSE 0)]

Cost == [t \in Tx |-> TotalCost(t)]

OwnOf(S, a) == {t \in S : Sender[t] = a}

Spent(S, a) == SumFunctionOnSet(Cost, OwnOf(S, a))

CostTo(t, a) == IF Sender[t] = a THEN TotalCost(t) ELSE 0

Touched(S) == {Sender[t] : t \in S} \cup {Receiver[t] : t \in S}

(* apply_tx, where no balance can saturate *)
LEMMA ApplyEffect ==
  ASSUME NEW b, IsBalances(b), IsFiniteSet(DOMAIN b),
         Supply(b) <= MaxU64, NEW t \in Tx, CanApply(b, t), CostsExact({t})
  PROVE  /\ DOMAIN ApplyTx(b, t) = DOMAIN b \cup {Sender[t], Receiver[t]}
         /\ \A a \in Account :
              GetBalance(ApplyTx(b, t), a) = GetBalance(b, a) + Gain(a)[t]
<1> DEFINE left == GetBalance(b, Sender[t]) - TotalCost(t)
           c == Put(b, Sender[t], left)
<1>1. /\ Sender[t] \in Account /\ Receiver[t] \in Account
      /\ Amount[t] \in 0..MaxU64 /\ Fee[t] \in 0..MaxU64
      /\ MaxU64 \in Nat
      /\ TotalCost(t) = Amount[t] + Fee[t]
  BY TxAssumption DEF CostsExact
<1>2. /\ GetBalance(b, Sender[t]) \in 0..MaxU64
      /\ GetBalance(b, Sender[t]) >= TotalCost(t)
  BY BalanceInRange DEF CanApply, HasBalance
<1>3. left \in 0..MaxU64 /\ left = GetBalance(b, Sender[t]) - TotalCost(t)
  BY <1>1, <1>2
<1>4. ApplyTx(b, t) = Credit(c, Receiver[t], Amount[t])
  BY DEF ApplyTx
<1>5. /\ DOMAIN c = DOMAIN b \cup {Sender[t]}
      /\ \A a : GetBalance(c, a) = IF a = Sender[t] THEN left ELSE GetBalance(b, a)
  BY DEF Put, GetBalance
<1> HIDE DEF left
<1>6. /\ IsBalances(c) /\ IsFiniteSet(DOMAIN c)
      /\ Supply(b) \in Nat
      /\ Supply(c) = Supply(b) - GetBalance(b, Sender[t]) + left
  BY <1>1, <1>3, SupplyPut, PutBalance
<1> HIDE DEF c
<1>7. Supply(c) + Amount[t] <= MaxU64
  BY <1>1, <1>2, <1>3, <1>6
<1>8. GetBalance(c, Receiver[t]) + Amount[t] <= MaxU64
  BY <1>1, <1>6, <1>7, SupplyCredit
<1>9. GetBalance(c, Receiver[t]) \in 0..MaxU64
  BY <1>6, BalanceInRange
<1>10. Credit(c, Receiver[t], Amount[t])
         = Put(c, Receiver[t], GetBalance(c, Receiver[t]) + Amount[t])
  BY <1>1, <1>8, <1>9 DEF Credit, SatAdd, MinOf
<1>11. DOMAIN ApplyTx(b, t) = DOMAIN b \cup {Sender[t], Receiver[t]}
  BY <1>4, <1>5, <1>10 DEF Put
<1>12. \A a : GetBalance(ApplyTx(b, t), a) =
                IF a = Receiver[t] THEN GetBalance(c, a) + Amount[t] ELSE GetBalance(c, a)
  BY <1>4, <1>10 DEF Put, GetBalance
<1>13. ASSUME NEW a \in Account
       PROVE  GetBalance(ApplyTx(b, t), a) = GetBalance(b, a) + Gain(a)[t]
  <2>1. Gain(a)[t] = (IF Receiver[t] = a THEN Amount[t] ELSE 0)
                       - (IF Sender[t] = a THEN TotalCost(t) ELSE 0)
    BY DEF Gain
  <2>2. GetBalance(b, a) \in 0..MaxU64
    BY BalanceInRange
  <2> QED BY <1>1, <1>2, <1>3, <1>5, <1>12, <2>1, <2>2
<1> QED BY <1>11, <1>13

LEMMA SpentNat ==
  ASSUME NEW S, S \subseteq Tx, NEW a
  PROVE  /\ IsFiniteSet(OwnOf(S, a))
         /\ \A u \in OwnOf(S, a) : Cost[u] \in Nat
         /\ Spent(S, a) \in Nat
<1>1. OwnOf(S, a) \in SUBSET Tx
  BY DEF OwnOf
<1>2. \A u \in Tx : Cost[u] \in Nat
  BY TotalCostInRange, TxAssumption DEF Cost
<1>3. IsFiniteSet(OwnOf(S, a))
  BY <1>1, TxAssumption, FS_Subset
<1>4. \A u \in OwnOf(S, a) : Cost[u] \in Nat
  BY <1>1, <1>2
<1> QED BY <1>3, <1>4, SumNat DEF Spent

(* One more transaction costs its sender what it costs.                    *)
LEMMA SpentGrows ==
  ASSUME NEW T, NEW t, NEW a, T \subseteq Tx, t \in Tx, t \notin T
  PROVE  Spent(T \cup {t}, a) = Spent(T, a) + CostTo(t, a)
<1>1. /\ IsFiniteSet(OwnOf(T, a))
      /\ \A u \in OwnOf(T, a) : Cost[u] \in Int
      /\ Spent(T, a) \in Int
  BY SpentNat
<1>2. CASE Sender[t] = a
  <2>1. OwnOf(T \cup {t}, a) = OwnOf(T, a) \cup {t} /\ t \notin OwnOf(T, a)
    BY <1>2 DEF OwnOf
  <2>2. Cost[t] \in Int /\ Cost[t] = TotalCost(t)
    BY TotalCostInRange DEF Cost
  <2>3. SumFunctionOnSet(Cost, OwnOf(T, a) \cup {t})
          = Cost[t] + SumFunctionOnSet(Cost, OwnOf(T, a))
    BY <1>1, <2>1, <2>2, SumInsert
  <2>4. Spent(T \cup {t}, a) = Cost[t] + Spent(T, a)
    BY <2>1, <2>3 DEF Spent
  <2> QED BY <1>1, <1>2, <2>2, <2>4 DEF CostTo
<1>3. CASE Sender[t] # a
  <2>1. OwnOf(T \cup {t}, a) = OwnOf(T, a)
    BY <1>3 DEF OwnOf
  <2> QED BY <1>1, <1>3, <2>1 DEF Spent, CostTo
<1> QED BY <1>2, <1>3

(* A part of a batch costs no account more than the batch.                 *)
LEMMA SpentWithin ==
  ASSUME NEW S, NEW T, NEW a, S \subseteq Tx, T \subseteq S
  PROVE  Spent(T, a) <= Spent(S, a)
<1> DEFINE A == OwnOf(T, a)
           B == OwnOf(S \ T, a)
<1>1. A \cup B = OwnOf(S, a) /\ A \cap B = {}
  BY DEF OwnOf
<1>2. T \subseteq Tx /\ S \ T \subseteq Tx
  OBVIOUS
<1>3. /\ IsFiniteSet(A) /\ IsFiniteSet(B)
      /\ \A u \in A \cup B : Cost[u] \in Int
  BY <1>2, SpentNat
<1>4. /\ SumFunctionOnSet(Cost, A) = Spent(T, a)
      /\ SumFunctionOnSet(Cost, B) = Spent(S \ T, a)
      /\ SumFunctionOnSet(Cost, A \cup B) = Spent(S, a)
  BY <1>1 DEF Spent
<1> HIDE DEF A, B
<1>5. SumFunctionOnSet(Cost, A \cup B)
        = SumFunctionOnSet(Cost, A) + SumFunctionOnSet(Cost, B)
  BY <1>1, <1>3, SumUnion
<1>6. Spent(S \ T, a) \in Nat /\ Spent(T, a) \in Nat
  BY <1>2, SpentNat
<1> QED BY <1>4, <1>5, <1>6

(* When every sender can pay for all of its transactions, each is applied  *)
(* whatever the order, and the balances say only which ones were.          *)
LEMMA AffordableRun ==
  ASSUME NEW b, IsBalances(b), IsFiniteSet(DOMAIN b),
         Supply(b) <= MaxU64,
         NEW S \in SUBSET Tx, CostsExact(S),
         \A a \in Account : Spent(S, a) <= GetBalance(b, a),
         NEW order \in SetToSeqs(S)
  PROVE  LET last == Run(b, order)[Len(order)] IN
         /\ IsBalances(last) /\ IsFiniteSet(DOMAIN last)
         /\ Supply(last) + FeesOf(S) = Supply(b)
         /\ DOMAIN last = DOMAIN b \cup Touched(S)
         /\ \A a \in Account :
              GetBalance(last, a) = GetBalance(b, a) + SumFunctionOnSet(Gain(a), S)
<1> DEFINE n == Len(order)
           run == Run(b, order)
           F(i) == First(order, i)
<1>1. /\ order \in Seq(Tx)
      /\ Range(order) = S
      /\ \A i \in 1..n : order[i] \notin F(i - 1)
      /\ n \in Nat
      /\ \A i \in 1..n : order[i] \in S /\ order[i] \in Tx
  <2>1. \A i \in 1..Len(order) : order[i] \in Range(order)
    BY EnumerationOf DEF Range
  <2> QED BY <2>1, EnumerationOf
<1>2. /\ \A i \in 0..n : IsBalances(run[i])
      /\ run[0] = b
      /\ \A i \in 1..n : run[i] = ApplyTx(run[i - 1], order[i])
  BY <1>1, RunType
<1>3. /\ F(0) = {}
      /\ F(n) = S
      /\ \A i \in 1..n : F(i) = F(i - 1) \cup {order[i]}
      /\ \A i \in 0..n : F(i) \subseteq S /\ IsFiniteSet(F(i))
  BY <1>1, FirstFacts, FS_Subset
<1>4. /\ \A t \in Tx : Fee[t] \in Nat /\ TotalCost(t) \in Nat
      /\ \A a \in Account, t \in Tx : Gain(a)[t] \in Int
  BY TxAssumption, TotalCostInRange DEF Gain
<1>5. Supply(b) \in Nat /\ \A a \in Account : GetBalance(b, a) \in Nat
  BY SupplyNat, BalanceInRange, TxAssumption
<1> HIDE DEF run, F
<1> DEFINE Total(i, a) == SumFunctionOnSet(Gain(a), F(i))
<1>6. ASSUME NEW i \in 0..n
      PROVE  /\ FeesOf(F(i)) \in Nat
             /\ \A a \in Account : Total(i, a) \in Int
  <2>1. /\ IsFiniteSet(F(i))
        /\ \A t \in F(i) : Fee[t] \in Nat
        /\ \A a \in Account : \A t \in F(i) : Gain(a)[t] \in Int
    BY <1>3, <1>4
  <2>2. FeesOf(F(i)) \in Nat
    BY <2>1, SumNat DEF FeesOf
  <2>3. ASSUME NEW a \in Account PROVE Total(i, a) \in Int
    <3>1. \A t \in F(i) : Gain(a)[t] \in Int
      BY <2>1
    <3> QED BY <2>1, <3>1, SumUnfold
  <2> QED BY <2>2, <2>3
<1>7. ASSUME NEW i \in 1..n
      PROVE  /\ FeesOf(F(i)) = Fee[order[i]] + FeesOf(F(i - 1))
             /\ \A a \in Account : Total(i, a) = Gain(a)[order[i]] + Total(i - 1, a)
             /\ Touched(F(i)) = Touched(F(i - 1)) \cup {Sender[order[i]], Receiver[order[i]]}
  <2>1. /\ i - 1 \in 0..n
        /\ F(i) = F(i - 1) \cup {order[i]}
        /\ order[i] \notin F(i - 1)
        /\ order[i] \in Tx
        /\ IsFiniteSet(F(i - 1))
        /\ F(i - 1) \subseteq Tx
    BY <1>1, <1>3
  <2>2. FeesOf(F(i)) = Fee[order[i]] + FeesOf(F(i - 1))
    <3>1. Fee[order[i]] \in Int /\ \A t \in F(i - 1) : Fee[t] \in Int
      BY <1>4, <2>1
    <3> QED BY <2>1, <3>1, SumInsert DEF FeesOf
  <2>3. ASSUME NEW a \in Account
        PROVE  Total(i, a) = Gain(a)[order[i]] + Total(i - 1, a)
    <3>1. Gain(a)[order[i]] \in Int /\ \A t \in F(i - 1) : Gain(a)[t] \in Int
      BY <1>4, <2>1
    <3> QED BY <2>1, <3>1, SumInsert
  <2>4. Touched(F(i)) = Touched(F(i - 1)) \cup {Sender[order[i]], Receiver[order[i]]}
    BY <2>1 DEF Touched
  <2> QED BY <2>2, <2>3, <2>4
<1> HIDE DEF Total
<1> DEFINE G == {i \in 0..n :
                   /\ IsFiniteSet(DOMAIN run[i])
                   /\ Supply(run[i]) + FeesOf(F(i)) = Supply(b)
                   /\ DOMAIN run[i] = DOMAIN b \cup Touched(F(i))
                   /\ \A a \in Account :
                        /\ GetBalance(run[i], a) = GetBalance(b, a) + Total(i, a)
                        /\ Total(i, a) + Spent(F(i), a) >= 0}
<1>8. G = 0..n
  <2>1. 0 \in G
    <3>1. /\ FeesOf(F(0)) = 0
          /\ Touched(F(0)) = {}
          /\ \A a \in Account : Total(0, a) = 0 /\ Spent(F(0), a) = 0
      <4>1. FeesOf({}) = 0 /\ \A a \in Account : SumFunctionOnSet(Gain(a), {}) = 0
        BY SumUnfold, FS_EmptySet DEF FeesOf
      <4>2. \A a \in Account : OwnOf({}, a) = {} /\ SumFunctionOnSet(Cost, {}) = 0
        BY SumUnfold, FS_EmptySet DEF OwnOf
      <4> QED BY <1>3, <4>1, <4>2 DEF Total, Touched, Spent
    <3> QED BY <1>1, <1>2, <1>5, <3>1
  <2>2. ASSUME NEW i \in 1..n, i - 1 \in G
        PROVE  i \in G
    <3> DEFINE old == run[i - 1]
               t == order[i]
    <3>1. /\ i - 1 \in 0..n /\ i \in 0..n
          /\ IsBalances(old)
          /\ IsFiniteSet(DOMAIN old)
          /\ Supply(old) + FeesOf(F(i - 1)) = Supply(b)
          /\ DOMAIN old = DOMAIN b \cup Touched(F(i - 1))
          /\ \A a \in Account :
               /\ GetBalance(old, a) = GetBalance(b, a) + Total(i - 1, a)
               /\ Total(i - 1, a) + Spent(F(i - 1), a) >= 0
          /\ run[i] = ApplyTx(old, t)
          /\ t \in S /\ t \in Tx
          /\ F(i) = F(i - 1) \cup {t}
      BY <1>1, <1>2, <1>3, <2>2
    <3>2. t \in S \ F(i - 1) /\ F(i - 1) \in SUBSET S
      BY <1>1, <1>3, <3>1
    <3> HIDE DEF old, t
    <3>3. \A a \in Account :
            /\ Spent(F(i - 1), a) \in Nat
            /\ Spent(F(i), a) = Spent(F(i - 1), a)
                                  + CostTo(t, a)
            /\ Spent(F(i), a) <= Spent(S, a)
            /\ Spent(S, a) \in Nat
      <4> SUFFICES ASSUME NEW a \in Account
                   PROVE  /\ Spent(F(i - 1), a) \in Nat
                          /\ Spent(F(i), a) = Spent(F(i - 1), a) + CostTo(t, a)
                          /\ Spent(F(i), a) <= Spent(S, a)
                          /\ Spent(S, a) \in Nat
        OBVIOUS
      <4>1. Spent(F(i - 1), a) \in Nat /\ Spent(S, a) \in Nat
        BY <3>2, SpentNat
      <4>2. Spent(F(i - 1) \cup {t}, a) = Spent(F(i - 1), a) + CostTo(t, a)
        <5> DEFINE T == F(i - 1)
        <5>1. T \subseteq Tx /\ t \in Tx /\ t \notin T
          BY <3>1, <3>2
        <5> HIDE DEF T
        <5>2. Spent(T \cup {t}, a) = Spent(T, a) + CostTo(t, a)
          BY <5>1, SpentGrows
        <5> QED BY <5>2 DEF T
      <4>3. Spent(F(i), a) = Spent(F(i - 1) \cup {t}, a)
        BY <3>1
      <4>4. Spent(F(i), a) <= Spent(S, a)
        <5>1. F(i) \subseteq S
          BY <3>1, <3>2
        <5> QED BY <5>1, SpentWithin
      <4> QED BY <4>1, <4>2, <4>3, <4>4
    <3>4. CanApply(old, t)
      <4>1. Sender[t] \in Account
        BY <3>1, TxAssumption
      <4>2. /\ GetBalance(old, Sender[t]) = GetBalance(b, Sender[t]) + Total(i - 1, Sender[t])
            /\ Total(i - 1, Sender[t]) + Spent(F(i - 1), Sender[t]) >= 0
            /\ Spent(F(i - 1), Sender[t]) + TotalCost(t) <= GetBalance(b, Sender[t])
        BY <1>5, <3>1, <3>3, <4>1, <1>4 DEF CostTo
      <4>3. /\ Total(i - 1, Sender[t]) \in Int
            /\ GetBalance(b, Sender[t]) \in Nat
            /\ Spent(F(i - 1), Sender[t]) \in Nat
            /\ TotalCost(t) \in Nat
        BY <1>4, <1>5, <1>6, <3>1, <3>3, <4>1
      <4> QED BY <4>2, <4>3 DEF CanApply, HasBalance
    <3>5. FeesOf(F(i - 1)) \in Nat /\ Supply(old) \in Nat
      BY <1>6, <3>1, SupplyNat
    <3>6. Supply(old) <= MaxU64
      BY <1>5, <3>1, <3>5, TxAssumption
    <3>13. CostsExact({t})
      BY <3>1 DEF CostsExact
    <3>7. /\ IsFiniteSet(DOMAIN run[i])
          /\ Supply(run[i]) \in Nat
          /\ Supply(run[i]) + Fee[t] = Supply(old)
      BY <3>1, <3>4, <3>6, <3>13, SupplyApply
    <3>8. /\ DOMAIN run[i] = DOMAIN old \cup {Sender[t], Receiver[t]}
          /\ \A a \in Account : GetBalance(run[i], a) = GetBalance(old, a) + Gain(a)[t]
      BY <3>1, <3>4, <3>6, <3>13, ApplyEffect
    <3>9. /\ FeesOf(F(i)) = Fee[t] + FeesOf(F(i - 1))
          /\ \A a \in Account : Total(i, a) = Gain(a)[t] + Total(i - 1, a)
          /\ Touched(F(i)) = Touched(F(i - 1)) \cup {Sender[t], Receiver[t]}
      BY <1>7 DEF t
    <3>10. Supply(run[i]) + FeesOf(F(i)) = Supply(b)
      BY <1>4, <3>1, <3>5, <3>7, <3>9
    <3>11. DOMAIN run[i] = DOMAIN b \cup Touched(F(i))
      BY <3>1, <3>8, <3>9
    <3>12. ASSUME NEW a \in Account
           PROVE  /\ GetBalance(run[i], a) = GetBalance(b, a) + Total(i, a)
                  /\ Total(i, a) + Spent(F(i), a) >= 0
      <4>1. /\ GetBalance(b, a) \in Nat
            /\ Total(i - 1, a) \in Int
            /\ Gain(a)[t] \in Int
            /\ Spent(F(i - 1), a) \in Nat
            /\ TotalCost(t) \in Nat
        BY <1>4, <1>5, <1>6, <3>1, <3>3
      <4>2. Gain(a)[t] + CostTo(t, a) >= 0
        <5>1. Amount[t] \in Nat
          BY <3>1, TxAssumption
        <5>2. Gain(a)[t] = (IF Receiver[t] = a THEN Amount[t] ELSE 0)
                             - (IF Sender[t] = a THEN TotalCost(t) ELSE 0)
          BY <3>1 DEF Gain
        <5> QED BY <4>1, <5>1, <5>2 DEF CostTo
      <4> DEFINE cost == CostTo(t, a)
      <4>3. /\ cost \in Nat
            /\ Gain(a)[t] + cost >= 0
            /\ Spent(F(i), a) = Spent(F(i - 1), a) + cost
        BY <3>3, <4>1, <4>2 DEF CostTo
      <4> HIDE DEF cost
      <4>4. /\ GetBalance(run[i], a) = GetBalance(old, a) + Gain(a)[t]
            /\ Total(i, a) = Gain(a)[t] + Total(i - 1, a)
            /\ GetBalance(old, a) = GetBalance(b, a) + Total(i - 1, a)
            /\ Total(i - 1, a) + Spent(F(i - 1), a) >= 0
        BY <3>1, <3>8, <3>9
      <4> QED BY <4>1, <4>3, <4>4
    <3> QED BY <3>1, <3>7, <3>10, <3>11, <3>12
  <2>3. G \in SUBSET (0..n)
    OBVIOUS
  <2> HIDE DEF G
  <2> QED BY <1>1, <2>1, <2>2, <2>3, BoundedInduction
<1>9. n \in G /\ n \in 0..n
  BY <1>1, <1>8
<1> QED BY <1>2, <1>3, <1>9 DEF run, Total

(* So two orders lead to the same balances. *)
LEMMA AnyOrder ==
  ASSUME NEW b, IsBalances(b), IsFiniteSet(DOMAIN b),
         Supply(b) <= MaxU64,
         NEW S \in SUBSET Tx, CostsExact(S),
         \A a \in Account : Spent(S, a) <= GetBalance(b, a),
         NEW p \in SetToSeqs(S), NEW q \in SetToSeqs(S)
  PROVE  Run(b, p)[Len(p)] = Run(b, q)[Len(q)]
<1> DEFINE x == Run(b, p)[Len(p)]
           y == Run(b, q)[Len(q)]
<1>1. /\ IsBalances(x) /\ DOMAIN x = DOMAIN b \cup Touched(S)
      /\ \A a \in Account :
           GetBalance(x, a) = GetBalance(b, a) + SumFunctionOnSet(Gain(a), S)
  BY AffordableRun
<1>2. /\ IsBalances(y) /\ DOMAIN y = DOMAIN b \cup Touched(S)
      /\ \A a \in Account :
           GetBalance(y, a) = GetBalance(b, a) + SumFunctionOnSet(Gain(a), S)
  BY AffordableRun
<1> HIDE DEF x, y
<1>3. \A a \in DOMAIN x : a \in Account /\ x[a] = GetBalance(x, a) /\ y[a] = GetBalance(y, a)
  BY <1>1, <1>2 DEF IsBalances, GetBalance
<1>4. \A a \in DOMAIN x : x[a] = y[a]
  BY <1>1, <1>2, <1>3
<1>5. x = [a \in DOMAIN x |-> x[a]] /\ y = [a \in DOMAIN y |-> y[a]]
  BY <1>1, <1>2 DEF IsBalances
<1>6. x = y
  BY <1>1, <1>2, <1>4, <1>5
<1> QED BY <1>6 DEF x, y

=============================================================================
