---------------------------- MODULE LibraryProofs ----------------------------
(***************************************************************************)
(* Proofs about the components that keep to themselves: the lifecycle of   *)
(* a transaction, cross-shard receipts, conflict votes, the rate limiter,  *)
(* the fee pool, reputations, the detectors that follow one node, the      *)
(* statistics of clock skew, and the prediction DAG.  The last section     *)
(* shows that the instance MCLibrary, which explores them one at a time,   *)
(* behaves like each of them.                                              *)
(***************************************************************************)
EXTENDS MCLibrary, LedgerProofs

VARIABLE status

INSTANCE TxLifecycle

-----------------------------------------------------------------------------
(* The lifecycle.  DagLogic implements it (DagLogicProofs), so that its    *)
(* transactions keep the same promises.                                    *)

(* Admission in the order of a sender's nonces keeps OnePerNonce: this is  *)
(* why Mempool::add may compare a nonce with the last one only.            *)
LEMMA LifecycleStep ==
  ASSUME Nonce \in [Tx -> Nat], LCTypeOK, OnePerNonce, [LCNext]_status
  PROVE  LCTypeOK' /\ OnePerNonce'
<1>1. ASSUME NEW S \in SUBSET Tx, AdmitSet(S)
      PROVE  LCTypeOK' /\ OnePerNonce'
  <2> DEFINE old == Tx \ Having("new")
  <2>1. LCTypeOK'
    BY <1>1 DEF AdmitSet, LCTypeOK, Status
  <2>2. ASSUME NEW t \in Tx, status'[t] # "new"
        PROVE  t \in S \cup old
    BY <1>1, <2>2 DEF AdmitSet, Having, LCTypeOK
  <2>3. ASSUME NEW t \in S, NEW u \in old, Sender[t] = Sender[u]
        PROVE  Nonce[t] # Nonce[u]
    <3>1. Nonce[u] < Nonce[t]
      BY <1>1, <2>3 DEF AdmitSet
    <3> QED BY <3>1
  <2>4. ASSUME NEW t \in Tx, NEW u \in Tx,
               status'[t] # "new", status'[u] # "new",
               Sender[t] = Sender[u], Nonce[t] = Nonce[u]
        PROVE  t = u
    <3>1. CASE t \in S /\ u \in S
      BY <1>1, <2>4, <3>1 DEF AdmitSet
    <3>2. CASE t \in old /\ u \in old
      BY <2>4, <3>2 DEF OnePerNonce
    <3>3. CASE t \in S /\ u \in old
      BY <2>3, <2>4, <3>3
    <3>4. CASE t \in old /\ u \in S
      BY <2>3, <2>4, <3>4
    <3> QED BY <2>2, <2>4, <3>1, <3>2, <3>3, <3>4
  <2> QED BY <2>1, <2>4 DEF OnePerNonce, Having
<1>2. ASSUME NEW final \in SUBSET Tx, NEW gone \in SUBSET Tx,
             Settle(final, gone)
      PROVE  LCTypeOK' /\ OnePerNonce'
  <2>1. LCTypeOK'
    BY <1>2 DEF Settle, LCTypeOK, Status
  <2>2. \A t \in Tx : status'[t] # "new" => status[t] # "new"
    BY <1>2 DEF Settle, Having, LCTypeOK
  <2> QED BY <2>1, <2>2 DEF OnePerNonce, Having
<1>3. CASE UNCHANGED status
  BY <1>3 DEF LCTypeOK, OnePerNonce, Having
<1> QED BY <1>1, <1>2, <1>3 DEF LCNext

(* No double spend: of the transactions a sender gave the same nonce, at   *)
(* most one is ever admitted (Mempool::add, DagLogic::check_double_spend). *)
THEOREM LifecycleOnePerNonce ==
  ASSUME Nonce \in [Tx -> Nat]
  PROVE  LCSpec => []OnePerNonce
<1>1. LCInit => LCTypeOK /\ OnePerNonce
  BY DEF LCInit, LCTypeOK, Status, OnePerNonce, Having
<1>2. LCTypeOK /\ OnePerNonce /\ [LCNext]_status => (LCTypeOK /\ OnePerNonce)'
  BY LifecycleStep
<1> QED BY <1>1, <1>2, PTL DEF LCSpec

(* A transaction that was finalized or evicted never changes its status:   *)
(* it is not evicted after it was finalized, nor finalized twice.          *)
THEOREM LifecycleSettledForGood == LCSpec => SettledForGood
<1>1. LCInit => LCTypeOK
  BY DEF LCInit, LCTypeOK, Status
<1>2. LCTypeOK /\ [LCNext]_status => LCTypeOK'
  BY DEF LCTypeOK, LCNext, AdmitSet, Settle, Status
<1>3. LCTypeOK /\ [LCNext]_status
        => [\A t \in Tx : status[t] \in {"final", "dropped"}
                            => status'[t] = status[t]]_status
  <2> SUFFICES ASSUME LCTypeOK, LCNext, NEW t \in Tx,
                      status[t] \in {"final", "dropped"}
               PROVE  status'[t] = status[t]
    OBVIOUS
  <2>1. t \notin Having("new") /\ t \notin Having("pending")
    BY DEF Having
  <2>2. ASSUME NEW S \in SUBSET Tx, AdmitSet(S) PROVE status'[t] = status[t]
    BY <2>1, <2>2 DEF AdmitSet
  <2>3. ASSUME NEW final \in SUBSET Tx, NEW gone \in SUBSET Tx,
               Settle(final, gone)
        PROVE  status'[t] = status[t]
    BY <2>1, <2>3 DEF Settle
  <2> QED BY <2>2, <2>3 DEF LCNext
<1> QED BY <1>1, <1>2, <1>3, PTL DEF LCSpec, SettledForGood

-----------------------------------------------------------------------------
(* Cross-shard receipts: for any number of nodes, locks and steps, and     *)
(* however gossip repeats and reorders them, a node credits a receipt at   *)
(* most once and settles one that it issued at most once.                  *)

(* What a node did with a receipt is written in its status.                *)
CSInv ==
  /\ CSTypeOK
  /\ \A m \in Manager : \A r \in DOMAIN incoming[m] : incoming[m][r] # "Expired"
  /\ \A m \in Manager, r \in Receipt :
       /\ credited[<<m, r>>] <= 1
       /\ credited[<<m, r>>] = 1 => Has(incoming[m], r, "Consumed")
       /\ refunded[<<m, r>>] <= 1
       /\ refunded[<<m, r>>] = 1 <=> Has(outgoing[m], r, "Expired")

(* Writing one status leaves the others.                                   *)
LEMMA WithFacts ==
  ASSUME NEW f, IsReceipts(f), NEW r \in Receipt, NEW s \in ReceiptStatus
  PROVE  /\ IsReceipts(With(f, r, s))
         /\ DOMAIN With(f, r, s) = DOMAIN f \cup {r}
         /\ With(f, r, s)[r] = s
         /\ \A x \in DOMAIN f : x # r => With(f, r, s)[x] = f[x]
  BY DEF IsReceipts, With

LEMMA HasAfterWith ==
  ASSUME NEW f, NEW r, NEW s
  PROVE  /\ \A x, t : x # r => (Has(With(f, r, s), x, t) <=> Has(f, x, t))
         /\ \A t : Has(With(f, r, s), r, t) <=> s = t
  BY DEF With, Has

LEMMA CSInitKeepsInv == CSInit => CSInv
<1> SUFFICES ASSUME CSInit PROVE CSInv
  OBVIOUS
<1>1. CSTypeOK
  BY CrossShardAssumption DEF CSInit, CSTypeOK, IsReceipts
<1> QED BY <1>1 DEF CSInit, CSInv, Has

(* A node issues the receipt of a lock once, so it overwrites none. *)
LEMMA IssueKeepsInv ==
  ASSUME CSInv, NEW m \in Manager, NEW l \in Lock, Issue(m, l)
  PROVE  CSInv'
<1> DEFINE new == [lock |-> l, step |-> shardStep[m]]
<1>1. CSTypeOK
  BY DEF CSInv
<1>2. /\ m \in Home[l]
      /\ \A r \in DOMAIN outgoing[m] : r.lock # l
      /\ outgoing' = [outgoing EXCEPT ![m] = With(@, new, "Pending")]
      /\ incoming' = incoming /\ shardStep' = shardStep
      /\ credited' = credited /\ refunded' = refunded
  BY DEF Issue
<1>3. new \in Receipt /\ new \notin DOMAIN outgoing[m] /\ new.lock = l
  BY <1>1, <1>2 DEF CSTypeOK, Receipt
<1> HIDE DEF new
<1>4. /\ IsReceipts(outgoing'[m])
      /\ DOMAIN outgoing'[m] = DOMAIN outgoing[m] \cup {new}
      /\ \A r, t : r # new => (Has(outgoing'[m], r, t) <=> Has(outgoing[m], r, t))
      /\ \A t : Has(outgoing'[m], new, t) <=> "Pending" = t
      /\ \A n \in Manager : n # m => outgoing'[n] = outgoing[n]
      /\ DOMAIN outgoing' = Manager
  <2>1. IsReceipts(outgoing[m]) /\ outgoing'[m] = With(outgoing[m], new, "Pending")
    BY <1>1, <1>2 DEF CSTypeOK
  <2>2. "Pending" \in ReceiptStatus
    BY DEF ReceiptStatus
  <2>3. /\ IsReceipts(outgoing'[m])
        /\ DOMAIN outgoing'[m] = DOMAIN outgoing[m] \cup {new}
    <3> DEFINE f == outgoing[m]
               g == With(f, new, "Pending")
    <3>1. IsReceipts(f)
      BY <2>1
    <3> HIDE DEF f
    <3>2. IsReceipts(g)
      BY <1>3, <2>2, <3>1, WithFacts
    <3>3. DOMAIN g = DOMAIN f \cup {new}
      BY <1>3, <2>2, <3>1, WithFacts
    <3> QED BY <2>1, <3>2, <3>3 DEF f
  <2>4. /\ \A r, t : r # new => (Has(outgoing'[m], r, t) <=> Has(outgoing[m], r, t))
        /\ \A t : Has(outgoing'[m], new, t) <=> "Pending" = t
    BY <2>1, HasAfterWith
  <2>5. DOMAIN outgoing' = Manager /\ \A n \in Manager : n # m => outgoing'[n] = outgoing[n]
    BY <1>1, <1>2 DEF CSTypeOK
  <2> QED BY <2>3, <2>4, <2>5
<1>5. CSTypeOK'
  BY <1>1, <1>2, <1>3, <1>4 DEF CSTypeOK
<1>6. ASSUME NEW n \in Manager, NEW r \in Receipt
      PROVE  refunded'[<<n, r>>] = 1 <=> Has(outgoing'[n], r, "Expired")
  <2>1. refunded[<<n, r>>] = 1 <=> Has(outgoing[n], r, "Expired")
    BY DEF CSInv
  <2>2. CASE n = m /\ r = new
    BY <1>2, <1>3, <1>4, <2>1, <2>2 DEF Has
  <2>3. CASE ~(n = m /\ r = new)
    BY <1>2, <1>4, <2>1, <2>3
  <2> QED BY <2>2, <2>3
<1> QED BY <1>2, <1>5, <1>6 DEF CSInv

(* A receipt that arrives again keeps its status. *)
LEMMA GossipKeepsInv ==
  ASSUME CSInv, NEW m \in Manager, NEW r \in Receipt, Gossip(m, r)
  PROVE  CSInv'
<1>1. CSTypeOK
  BY DEF CSInv
<1>2. /\ m \in Away[r.lock]
      /\ incoming' = [incoming EXCEPT ![m] = Received(@, r)]
      /\ outgoing' = outgoing /\ shardStep' = shardStep
      /\ credited' = credited /\ refunded' = refunded
  BY DEF Gossip
<1>3. /\ IsReceipts(incoming[m])
      /\ incoming'[m] = Received(incoming[m], r)
      /\ \A n \in Manager : n # m => incoming'[n] = incoming[n]
      /\ DOMAIN incoming' = Manager
  BY <1>1, <1>2 DEF CSTypeOK
<1>4. /\ IsReceipts(incoming'[m])
      /\ DOMAIN incoming'[m] = DOMAIN incoming[m] \cup {r}
      /\ \A x \in DOMAIN incoming[m] : incoming'[m][x] = incoming[m][x]
      /\ r \notin DOMAIN incoming[m] => incoming'[m][r] = "Pending"
  <2>1. CASE r \in DOMAIN incoming[m]
    BY <1>3, <2>1 DEF Received
  <2>2. CASE r \notin DOMAIN incoming[m]
    <3>1. incoming'[m] = With(incoming[m], r, "Pending")
      BY <1>3, <2>2 DEF Received
    <3>2. "Pending" \in ReceiptStatus
      BY DEF ReceiptStatus
    <3> QED BY <1>3, <2>2, <3>1, <3>2, WithFacts
  <2> QED BY <2>1, <2>2
<1>5. CSTypeOK'
  BY <1>1, <1>2, <1>3, <1>4 DEF CSTypeOK
<1>6. ASSUME NEW n \in Manager, NEW x \in DOMAIN incoming'[n]
      PROVE  incoming'[n][x] # "Expired"
  <2>1. CASE n = m
    BY <1>4, <2>1 DEF CSInv
  <2>2. CASE n # m
    BY <1>3, <2>2 DEF CSInv
  <2> QED BY <2>1, <2>2
<1>7. ASSUME NEW n \in Manager, NEW x \in Receipt
      PROVE  credited'[<<n, x>>] = 1 => Has(incoming'[n], x, "Consumed")
  <2>1. CASE n = m
    BY <1>2, <1>4, <2>1 DEF CSInv, Has
  <2>2. CASE n # m
    BY <1>2, <1>3, <2>2 DEF CSInv
  <2> QED BY <2>1, <2>2
<1> QED BY <1>2, <1>5, <1>6, <1>7 DEF CSInv

(* consume() turns one pending receipt into a consumed one, in one map. *)
LEMMA ConsumeFacts ==
  ASSUME CSInv, NEW m \in Manager, NEW r \in Receipt, Consume(m, r),
         shardStep' = shardStep,
         credited' \in [Manager \X Receipt -> Nat], refunded' = refunded
  PROVE  /\ CSTypeOK'
         /\ \A n \in Manager : \A x \in DOMAIN incoming'[n] :
              incoming'[n][x] # "Expired"
         /\ \A n \in Manager, x \in Receipt :
              /\ Has(incoming[n], x, "Consumed") => Has(incoming'[n], x, "Consumed")
              /\ Has(outgoing'[n], x, "Expired") <=> Has(outgoing[n], x, "Expired")
         /\ Has(incoming[m], r, "Pending") => Has(incoming'[m], r, "Consumed")
<1>1. CSTypeOK
  BY DEF CSInv
<1>2. "Consumed" \in ReceiptStatus
  BY DEF ReceiptStatus
<1>3. CASE /\ Has(incoming[m], r, "Pending")
           /\ incoming' = [incoming EXCEPT ![m] = With(@, r, "Consumed")]
           /\ outgoing' = outgoing
  <2>1. /\ IsReceipts(incoming[m])
        /\ incoming'[m] = With(incoming[m], r, "Consumed")
        /\ \A n \in Manager : n # m => incoming'[n] = incoming[n]
        /\ DOMAIN incoming' = Manager
        /\ r \in DOMAIN incoming[m]
    BY <1>1, <1>3 DEF CSTypeOK, Has
  <2>2. /\ IsReceipts(incoming'[m])
        /\ DOMAIN incoming'[m] = DOMAIN incoming[m]
        /\ incoming'[m][r] = "Consumed"
        /\ \A x \in DOMAIN incoming[m] : x # r => incoming'[m][x] = incoming[m][x]
    <3> DEFINE f == incoming[m]
               g == With(f, r, "Consumed")
    <3>1. DOMAIN f \cup {r} = DOMAIN f /\ IsReceipts(f)
      BY <2>1
    <3> HIDE DEF f
    <3>2. IsReceipts(g)
      BY <1>2, <3>1, WithFacts
    <3>3. DOMAIN g = DOMAIN f
      BY <1>2, <3>1, WithFacts
    <3>4. g[r] = "Consumed" /\ \A x \in DOMAIN f : x # r => g[x] = f[x]
      BY <1>2, <3>1, WithFacts
    <3> HIDE DEF g
    <3>5. incoming'[m] = g
      BY <2>1 DEF f, g
    <3> QED BY <3>2, <3>3, <3>4, <3>5 DEF f
  <2>3. CSTypeOK'
    BY <1>1, <1>3, <2>1, <2>2 DEF CSTypeOK
  <2>4. ASSUME NEW n \in Manager, NEW x \in DOMAIN incoming'[n]
        PROVE  incoming'[n][x] # "Expired"
    <3>1. CASE n = m
      BY <2>2, <3>1 DEF CSInv
    <3>2. CASE n # m
      BY <2>1, <3>2 DEF CSInv
    <3> QED BY <3>1, <3>2
  <2>5. ASSUME NEW n \in Manager, NEW x \in Receipt, Has(incoming[n], x, "Consumed")
        PROVE  Has(incoming'[n], x, "Consumed")
    <3>1. CASE n = m
      BY <2>2, <2>5, <3>1 DEF Has
    <3>2. CASE n # m
      BY <2>1, <2>5, <3>2
    <3> QED BY <3>1, <3>2
  <2>6. Has(incoming'[m], r, "Consumed")
    BY <2>1, <2>2 DEF Has
  <2> QED BY <1>3, <2>3, <2>4, <2>5, <2>6
<1>4. CASE /\ ~Has(incoming[m], r, "Pending")
           /\ Has(outgoing[m], r, "Pending")
           /\ outgoing' = [outgoing EXCEPT ![m] = With(@, r, "Consumed")]
           /\ incoming' = incoming
  <2>1. /\ IsReceipts(outgoing[m])
        /\ outgoing'[m] = With(outgoing[m], r, "Consumed")
        /\ \A n \in Manager : n # m => outgoing'[n] = outgoing[n]
        /\ DOMAIN outgoing' = Manager
        /\ r \in DOMAIN outgoing[m]
        /\ outgoing[m][r] = "Pending"
    BY <1>1, <1>4 DEF CSTypeOK, Has
  <2>2. /\ IsReceipts(outgoing'[m])
        /\ DOMAIN outgoing'[m] = DOMAIN outgoing[m]
        /\ outgoing'[m][r] = "Consumed"
        /\ \A x \in DOMAIN outgoing[m] : x # r => outgoing'[m][x] = outgoing[m][x]
    <3> DEFINE f == outgoing[m]
               g == With(f, r, "Consumed")
    <3>1. DOMAIN f \cup {r} = DOMAIN f /\ IsReceipts(f)
      BY <2>1
    <3> HIDE DEF f
    <3>2. IsReceipts(g)
      BY <1>2, <3>1, WithFacts
    <3>3. DOMAIN g = DOMAIN f
      BY <1>2, <3>1, WithFacts
    <3>4. g[r] = "Consumed" /\ \A x \in DOMAIN f : x # r => g[x] = f[x]
      BY <1>2, <3>1, WithFacts
    <3> HIDE DEF g
    <3>5. outgoing'[m] = g
      BY <2>1 DEF f, g
    <3> QED BY <3>2, <3>3, <3>4, <3>5 DEF f
  <2>3. CSTypeOK'
    BY <1>1, <1>4, <2>1, <2>2 DEF CSTypeOK
  <2>4. ASSUME NEW n \in Manager, NEW x \in Receipt
        PROVE  Has(outgoing'[n], x, "Expired") <=> Has(outgoing[n], x, "Expired")
    <3>1. CASE n = m
      BY <2>1, <2>2, <3>1 DEF Has
    <3>2. CASE n # m
      BY <2>1, <3>2
    <3> QED BY <3>1, <3>2
  <2> QED BY <1>4, <2>3, <2>4 DEF CSInv
<1> QED BY <1>3, <1>4 DEF Consume

(* A receipt that was credited is consumed, and is_consumed refuses it. *)
LEMMA CommitKeepsInv ==
  ASSUME CSInv, NEW m \in Manager, NEW r \in Receipt, Commit(m, r)
  PROVE  CSInv'
<1>1. /\ r \in DOMAIN incoming[m] /\ ~Has(incoming[m], r, "Consumed")
      /\ Consume(m, r)
      /\ credited' = [credited EXCEPT ![<<m, r>>] = @ + 1]
      /\ shardStep' = shardStep /\ refunded' = refunded
  BY DEF Commit, IsConsumed
<1>2. credited \in [Manager \X Receipt -> Nat] /\ IsReceipts(incoming[m])
  BY DEF CSInv, CSTypeOK
<1>3. credited' \in [Manager \X Receipt -> Nat]
  BY <1>1, <1>2
<1>4. Has(incoming[m], r, "Pending")
  BY <1>1, <1>2 DEF CSInv, Has, IsReceipts, ReceiptStatus
<1>5. credited[<<m, r>>] = 0
  <2>1. credited[<<m, r>>] \in Nat /\ credited[<<m, r>>] <= 1
    BY <1>2 DEF CSInv
  <2>2. credited[<<m, r>>] # 1
    BY <1>1 DEF CSInv
  <2> QED BY <2>1, <2>2
<1>6. ASSUME NEW n \in Manager, NEW x \in Receipt
      PROVE  /\ credited'[<<n, x>>] <= 1
             /\ credited'[<<n, x>>] = 1 => Has(incoming'[n], x, "Consumed")
  <2>1. CASE n = m /\ x = r
    BY <1>1, <1>2, <1>3, <1>4, <1>5, <2>1, ConsumeFacts
  <2>2. CASE ~(n = m /\ x = r)
    <3>1. credited'[<<n, x>>] = credited[<<n, x>>]
      BY <1>1, <1>2, <2>2
    <3> QED BY <1>1, <1>3, <3>1, ConsumeFacts DEF CSInv
  <2> QED BY <2>1, <2>2
<1> QED BY <1>1, <1>3, <1>6, ConsumeFacts DEF CSInv

LEMMA AcknowledgeKeepsInv ==
  ASSUME CSInv, NEW m \in Manager, NEW r \in Receipt, Acknowledge(m, r)
  PROVE  CSInv'
<1>1. /\ Consume(m, r)
      /\ credited' = credited /\ shardStep' = shardStep /\ refunded' = refunded
      /\ credited \in [Manager \X Receipt -> Nat]
  BY DEF Acknowledge, CSInv, CSTypeOK
<1> QED BY <1>1, ConsumeFacts DEF CSInv

(* What is refunded was pending, and is expired from then on. *)
LEMMA RefundKeepsInv ==
  ASSUME CSInv, NEW m \in Manager, Refund(m)
  PROVE  CSInv'
<1> DEFINE late == Overdue(m)
<1>1. CSTypeOK
  BY DEF CSInv
<1>2. /\ outgoing' = [outgoing EXCEPT
            ![m] = [r \in DOMAIN @ |-> IF r \in late THEN "Expired" ELSE @[r]]]
      /\ refunded' = [x \in DOMAIN refunded |->
            IF x[1] = m /\ x[2] \in late THEN refunded[x] + 1 ELSE refunded[x]]
      /\ incoming' = incoming /\ shardStep' = shardStep /\ credited' = credited
  BY DEF Refund
<1>3. late \subseteq DOMAIN outgoing[m] /\ \A r \in late : outgoing[m][r] = "Pending"
  BY DEF Overdue
<1> HIDE DEF late
<1>4. /\ IsReceipts(outgoing[m])
      /\ DOMAIN outgoing'[m] = DOMAIN outgoing[m]
      /\ \A r \in DOMAIN outgoing[m] :
           outgoing'[m][r] = IF r \in late THEN "Expired" ELSE outgoing[m][r]
      /\ outgoing'[m] = [r \in DOMAIN outgoing[m] |-> outgoing'[m][r]]
      /\ \A n \in Manager : n # m => outgoing'[n] = outgoing[n]
      /\ DOMAIN outgoing' = Manager
  BY <1>1, <1>2 DEF CSTypeOK
<1>5. IsReceipts(outgoing'[m])
  <2>1. \A r \in DOMAIN outgoing[m] : outgoing'[m][r] \in ReceiptStatus
    BY <1>4 DEF IsReceipts, ReceiptStatus
  <2> QED BY <1>4, <2>1 DEF IsReceipts
<1>6. /\ refunded \in [Manager \X Receipt -> Nat]
      /\ refunded' \in [Manager \X Receipt -> Nat]
      /\ \A n \in Manager, r \in Receipt :
           refunded'[<<n, r>>] = IF n = m /\ r \in late
                                 THEN refunded[<<n, r>>] + 1 ELSE refunded[<<n, r>>]
  BY <1>1, <1>2 DEF CSTypeOK
<1>7. CSTypeOK'
  BY <1>1, <1>2, <1>4, <1>5, <1>6 DEF CSTypeOK
<1>8. ASSUME NEW n \in Manager, NEW r \in Receipt
      PROVE  /\ refunded'[<<n, r>>] <= 1
             /\ refunded'[<<n, r>>] = 1 <=> Has(outgoing'[n], r, "Expired")
  <2>1. /\ refunded[<<n, r>>] \in Nat /\ refunded[<<n, r>>] <= 1
        /\ refunded[<<n, r>>] = 1 <=> Has(outgoing[n], r, "Expired")
    BY <1>6 DEF CSInv
  <2>2. CASE n = m /\ r \in late
    <3>1. refunded[<<n, r>>] = 0
      BY <1>3, <2>1, <2>2 DEF Has
    <3>2. refunded'[<<n, r>>] = 1
      BY <1>6, <2>2, <3>1
    <3>3. Has(outgoing'[n], r, "Expired")
      BY <1>3, <1>4, <2>2 DEF Has
    <3> QED BY <3>2, <3>3
  <2>3. CASE ~(n = m /\ r \in late)
    <3>1. Has(outgoing'[n], r, "Expired") <=> Has(outgoing[n], r, "Expired")
      BY <1>4, <2>3 DEF Has
    <3> QED BY <1>6, <2>1, <2>3, <3>1
  <2> QED BY <2>2, <2>3
<1> QED BY <1>2, <1>7, <1>8 DEF CSInv

LEMMA CSNextKeepsInv == CSInv /\ [CSNext]_csVars => CSInv'
<1> SUFFICES ASSUME CSInv, [CSNext]_csVars PROVE CSInv'
  OBVIOUS
<1>1. CASE CSNext
  <2> PICK m \in Manager :
        \/ ShardTick(m)
        \/ Refund(m)
        \/ \E l \in Lock : Issue(m, l)
        \/ \E r \in Receipt : Gossip(m, r) \/ Commit(m, r) \/ Acknowledge(m, r)
    BY <1>1 DEF CSNext
  <2>1. CASE ShardTick(m)
    BY <2>1, CrossShardAssumption DEF ShardTick, CSInv, CSTypeOK
  <2>2. CASE Refund(m)
    BY <2>2, RefundKeepsInv
  <2>3. CASE \E l \in Lock : Issue(m, l)
    BY <2>3, IssueKeepsInv
  <2>4. CASE \E r \in Receipt : Gossip(m, r) \/ Commit(m, r) \/ Acknowledge(m, r)
    BY <2>4, GossipKeepsInv, CommitKeepsInv, AcknowledgeKeepsInv
  <2> QED BY <2>1, <2>2, <2>3, <2>4
<1>2. CASE UNCHANGED csVars
  BY <1>2 DEF csVars, CSInv, CSTypeOK
<1> QED BY <1>1, <1>2

(* The inductive invariant of the receipts: the status of a receipt tells  *)
(* whether it was credited or refunded.                                    *)
THEOREM CSInvariance == CSSpec => []CSInv
  BY CSInitKeepsInv, CSNextKeepsInv, PTL DEF CSSpec

(* Types of the receipt manager: a node holds only receipts of its shard.  *)
THEOREM CSTypeCorrect == CSSpec => []CSTypeOK
<1>1. CSInv => CSTypeOK
  BY DEF CSInv
<1> QED BY <1>1, CSInvariance, PTL

(* No node credits a receipt twice, however often the gossip repeats it    *)
(* and the commit is replayed.                                             *)
THEOREM CreditedOnceHolds == CSSpec => []CreditedOnce
<1>1. CSInv => CreditedOnce
  <2> SUFFICES ASSUME CSInv, NEW x \in DOMAIN credited PROVE credited[x] <= 1
    BY DEF CreditedOnce
  <2>1. PICK m \in Manager, r \in Receipt : x = <<m, r>>
    BY DEF CSInv, CSTypeOK
  <2> QED BY <2>1 DEF CSInv
<1> QED BY <1>1, CSInvariance, PTL

(* A receipt that a node issued is refunded at most once, and then never   *)
(* counts as pending or consumed among its own again.                      *)
THEOREM OutgoingSettledOnceHolds == CSSpec => []OutgoingSettledOnce
<1>1. CSInv => OutgoingSettledOnce
  BY DEF CSInv, OutgoingSettledOnce
<1> QED BY <1>1, CSInvariance, PTL

(* A run refutes RefundedOnlyIfUnconsumed for a node that serves both      *)
(* shards: its two copies of a receipt part ways.  It holds when no node   *)
(* does, since a manager then has one copy, and expired_receipts never     *)
(* returns a consumed one.                                                 *)
THEOREM RefundSafeWithShardsApart ==
  ASSUME \A l \in Lock : Home[l] \cap Away[l] = {}
  PROVE  CSSpec => []RefundedOnlyIfUnconsumed
<1>1. CSInv => RefundedOnlyIfUnconsumed
  <2> SUFFICES ASSUME CSInv, NEW m \in Manager, NEW r \in Receipt,
                      IsConsumed(m, r), refunded[<<m, r>>] > 0
               PROVE  FALSE
    BY DEF RefundedOnlyIfUnconsumed
  <2>1. Has(outgoing[m], r, "Expired")
    BY DEF CSInv, CSTypeOK
  <2>2. m \in Home[r.lock]
    BY <2>1 DEF CSInv, CSTypeOK, Has
  <2>3. r \notin DOMAIN incoming[m]
    BY <2>2 DEF CSInv, CSTypeOK, Receipt
  <2> QED BY <2>1, <2>3 DEF IsConsumed, Has
<1> QED BY <1>1, CSInvariance, PTL

-----------------------------------------------------------------------------
(* Votes on conflicts.  No node votes before it knows two candidates, and  *)
(* then for the least it knows; as long as there are only two in all, that *)
(* is the lesser of the two for every node, in every vote, whenever it is  *)
(* emitted and wherever it is counted, in names other than the dissenters'.*)
Favoring(t) ==
  \/ \E v \in sent : v.favored = t
  \/ t \in won
  \/ \E n \in Resolver :
       \E v \in DOMAIN conflict[n].votes \ Dissenter : conflict[n].votes[v] = t

(* t is the lesser of the only two transactions observed *)
LesserOfTwo(t) == \E u \in seen : seen = {t, u} /\ t < u

VotesInv ==
  /\ CVTypeOK
  /\ \A n \in Resolver : conflict[n].candidates \subseteq seen
  /\ \A t \in Candidate : Favoring(t) => Cardinality(seen) > 2 \/ LesserOfTwo(t)

LEMMA FavoredIsLeast ==
  ASSUME ConflictAssumption, NEW C \in SUBSET Candidate, NEW t \in Candidate
  PROVE  /\ Favored(C, t) \in C \cup {t}
         /\ \A u \in C \cup {t} : Favored(C, t) <= u
<1>1. PICK i \in C \cup {t} : \A j \in C \cup {t} : i <= j
  <2>1. C \cup {t} \in SUBSET Nat /\ C \cup {t} # {}
    BY DEF ConflictAssumption
  <2> QED BY <2>1, LeastExists
<1> QED BY <1>1 DEF Favored, Min

(* A set with two elements has no others, or it has more than two.         *)
LEMMA MoreSeen ==
  ASSUME ConflictAssumption, NEW B \in SUBSET Candidate, NEW t \in B, NEW u \in B, t # u
  PROVE  Cardinality(B) > 2 \/ B = {t, u}
<1>1. IsFiniteSet({t, u}) /\ IsFiniteSet(B)
  BY FS_Subset DEF ConflictAssumption
<1>2. Cardinality({t, u}) = 2
  <2>1. Cardinality({t}) = 1 /\ IsFiniteSet({t})
    BY FS_Singleton
  <2>2. Cardinality({t} \cup {u}) = Cardinality({t}) + 1
    BY <2>1, FS_AddElement
  <2>3. {t, u} = {t} \cup {u}
    OBVIOUS
  <2> QED BY <2>1, <2>2, <2>3
<1>3. /\ Cardinality({t, u}) <= Cardinality(B)
      /\ Cardinality({t, u}) = Cardinality(B) => {t, u} = B
  BY <1>1, FS_Subset
<1>4. Cardinality(B) \in Nat
  BY <1>1, FS_CardinalityType
<1> QED BY <1>2, <1>3, <1>4

LEMMA OpenedFacts ==
  ASSUME NEW c, IsConflict(c), NEW s \in 0..LastVoteStep
  PROVE  /\ IsConflict(Opened(c, s))
         /\ Opened(c, s).candidates = c.candidates
         /\ Opened(c, s).votes = c.votes
<1>1. c = [candidates |-> c.candidates, votes |-> c.votes, started |-> c.started]
  BY DEF IsConflict
<1> QED BY <1>1 DEF IsConflict, Opened

LEMMA WithVoteFacts ==
  ASSUME NEW c, IsConflict(c), NEW v \in Voter, NEW t \in Candidate
  PROVE  /\ IsConflict(WithVote(c, v, t))
         /\ WithVote(c, v, t).candidates = c.candidates
         /\ \A x \in DOMAIN WithVote(c, v, t).votes :
              \/ x = v /\ WithVote(c, v, t).votes[x] = t
              \/ x \in DOMAIN c.votes /\ WithVote(c, v, t).votes[x] = c.votes[x]
<1>1. c = [candidates |-> c.candidates, votes |-> c.votes, started |-> c.started]
  BY DEF IsConflict
<1> QED BY <1>1 DEF IsConflict, WithVote

LEMMA WithCandidateFacts ==
  ASSUME NEW c, IsConflict(c), NEW t \in Candidate
  PROVE  /\ IsConflict([c EXCEPT !.candidates = @ \cup {t}])
         /\ [c EXCEPT !.candidates = @ \cup {t}].candidates = c.candidates \cup {t}
         /\ [c EXCEPT !.candidates = @ \cup {t}].votes = c.votes
<1>1. c = [candidates |-> c.candidates, votes |-> c.votes, started |-> c.started]
  BY DEF IsConflict
<1> QED BY <1>1 DEF IsConflict

LEMMA CVInitKeepsInv == ConflictAssumption /\ CVInit => VotesInv
<1> SUFFICES ASSUME ConflictAssumption, CVInit PROVE VotesInv
  OBVIOUS
<1>1. IsConflict(NoConflict)
  BY DEF IsConflict, NoConflict, ConflictAssumption
<1>2. CVTypeOK
  BY <1>1 DEF CVInit, CVTypeOK, ConflictAssumption
<1>3. \A t : ~ Favoring(t)
  BY DEF CVInit, Favoring, NoConflict
<1>4. \A n \in Resolver : conflict[n].candidates \subseteq seen
  BY DEF CVInit, NoConflict
<1> QED BY <1>2, <1>3, <1>4 DEF VotesInv

LEMMA ObserveKeepsInv ==
  ASSUME ConflictAssumption, VotesInv, NEW n \in Resolver, NEW t \in Candidate,
         Observe(n, t)
  PROVE  VotesInv'
<1> DEFINE c == Opened(conflict[n], voteStep[n])
           d == [c EXCEPT !.candidates = @ \cup {t}]
           f == Favored(c.candidates, t)
           e == IF c.candidates = {} THEN d ELSE WithVote(d, n, f)
<1>1. IsConflict(conflict[n]) /\ voteStep[n] \in 0..LastVoteStep
  BY DEF VotesInv, CVTypeOK
<1>2. IsConflict(c) /\ c.candidates = conflict[n].candidates /\ c.votes = conflict[n].votes
  BY <1>1, OpenedFacts
<1>3. IsConflict(d) /\ d.candidates = conflict[n].candidates \cup {t}
      /\ d.votes = conflict[n].votes
  <2> HIDE DEF c
  <2> QED BY <1>2, WithCandidateFacts
<1>4. f \in conflict[n].candidates \cup {t}
      /\ \A u \in conflict[n].candidates \cup {t} : f <= u
  <2>1. c.candidates \in SUBSET Candidate
    BY <1>2 DEF IsConflict
  <2> QED BY <1>2, <2>1, FavoredIsLeast
<1>5. f \in Candidate
  BY <1>1, <1>4 DEF IsConflict
<1>6. /\ IsConflict(e)
      /\ e.candidates = conflict[n].candidates \cup {t}
      /\ \A x \in DOMAIN e.votes :
           \/ c.candidates # {} /\ e.votes[x] = f
           \/ x \in DOMAIN conflict[n].votes /\ e.votes[x] = conflict[n].votes[x]
  <2> HIDE DEF c, d, f
  <2>1. CASE c.candidates = {}
    BY <1>3, <2>1
  <2>2. CASE c.candidates # {}
    BY <1>3, <1>5, <2>2, WithVoteFacts DEF ConflictAssumption
  <2> QED BY <2>1, <2>2
<1>7. /\ conflict' = [conflict EXCEPT ![n] = e]
      /\ seen' = seen \cup {t}
      /\ UNCHANGED <<voteStep, won>>
  BY DEF Observe
<1>8. /\ sent' \subseteq Vote
      /\ \A v \in sent' : v \in sent \/ (c.candidates # {} /\ v.favored = f)
  <2>1. CASE c.candidates = {}
    BY <2>1 DEF Observe, VotesInv, CVTypeOK
  <2>2. CASE c.candidates # {}
    <3>1. sent' = sent \cup {[voter |-> n, favored |-> f, step |-> voteStep[n]]}
      BY <2>2 DEF Observe
    <3>2. [voter |-> n, favored |-> f, step |-> voteStep[n]] \in Vote
      <4> HIDE DEF f
      <4> QED BY <1>1, <1>5 DEF Vote, ConflictAssumption
    <3> QED BY <2>2, <3>1, <3>2 DEF VotesInv, CVTypeOK
  <2> QED BY <2>1, <2>2
<1> HIDE DEF c, d, e, f
<1>9. CVTypeOK'
  BY <1>6, <1>7, <1>8 DEF VotesInv, CVTypeOK
<1>10. \A m \in Resolver : conflict'[m].candidates \subseteq seen'
  BY <1>6, <1>7 DEF VotesInv, CVTypeOK
<1>11. ASSUME NEW u \in Candidate, Favoring(u)'
       PROVE  (Cardinality(seen) > 2 \/ LesserOfTwo(u))'
  <2>1. seen \subseteq seen' /\ seen \in SUBSET Candidate /\ seen' \in SUBSET Candidate
    BY <1>7 DEF VotesInv, CVTypeOK
  <2>2. IsFiniteSet(seen') /\ IsFiniteSet(seen)
    BY <2>1, FS_Subset DEF ConflictAssumption
  <2>3. Cardinality(seen') \in Nat /\ Cardinality(seen) \in Nat
        /\ Cardinality(seen) <= Cardinality(seen')
    BY <2>1, <2>2, FS_Subset, FS_CardinalityType
  <2>4. CASE Favoring(u)
    <3>1. CASE Cardinality(seen) > 2
      BY <2>3, <3>1
    <3>2. CASE LesserOfTwo(u)
      <4>1. PICK w \in seen : seen = {u, w} /\ u < w
        BY <3>2 DEF LesserOfTwo
      <4>2. u \in seen /\ u # w
        <5>1. u \in Nat /\ w \in Nat
          BY <2>1, <4>1 DEF ConflictAssumption
        <5> QED BY <4>1, <5>1
      <4>3. Cardinality(seen') > 2 \/ seen' = seen
        BY <2>1, <4>1, <4>2, MoreSeen
      <4> QED BY <4>1, <4>3 DEF LesserOfTwo
    <3> QED BY <2>4, <3>1, <3>2 DEF VotesInv
  <2>5. CASE c.candidates # {} /\ u = f
    <3> DEFINE K == conflict[n].candidates
    <3>1. PICK k \in K : TRUE
      BY <1>2, <2>5
    <3>2. t \notin K
      BY <1>2 DEF Observe, c
    <3>3. K \cup {t} \subseteq seen' /\ K \subseteq Candidate
      BY <1>7, <1>1 DEF VotesInv, IsConflict
    <3>4. {k, t} \in SUBSET Candidate /\ k # t /\ {k, t} \subseteq seen'
      BY <3>1, <3>2, <3>3
    <3>5. Cardinality(seen') > 2 \/ seen' = {k, t}
      BY <2>1, <3>4, MoreSeen
    <3>6. CASE seen' = {k, t}
      <4>1. f \in {k, t} /\ f <= k /\ f <= t
        BY <1>4, <3>1, <3>3, <3>6
      <4>2. k \in Nat /\ t \in Nat
        BY <3>4 DEF ConflictAssumption
      <4>3. k # t
        BY <3>4
      <4> HIDE DEF f, K
      <4>4. (f = k /\ k < t) \/ (f = t /\ t < k)
        <5>1. CASE f = k
          <6>1. k <= t
            BY <4>1, <5>1
          <6> QED BY <4>3, <4>2, <5>1, <6>1
        <5>2. CASE f = t
          <6>1. t <= k
            BY <4>1, <5>2
          <6> QED BY <4>3, <4>2, <5>2, <6>1
        <5> QED BY <4>1, <5>1, <5>2
      <4> QED BY <2>5, <3>6, <4>4 DEF LesserOfTwo
    <3> QED BY <3>5, <3>6
  <2>6. Favoring(u) \/ (c.candidates # {} /\ u = f)
    <3>1. CASE \E v \in sent' : v.favored = u
      BY <1>8, <3>1 DEF Favoring
    <3>2. CASE u \in won'
      BY <1>7, <3>2 DEF Favoring
    <3>3. ASSUME NEW m \in Resolver, NEW v \in DOMAIN conflict'[m].votes \ Dissenter,
                 conflict'[m].votes[v] = u
          PROVE  Favoring(u) \/ (c.candidates # {} /\ u = f)
      <4>1. CASE m = n
        <5>1. conflict'[m] = e
          BY <1>7, <4>1 DEF VotesInv, CVTypeOK
        <5> QED BY <1>6, <3>3, <4>1, <5>1 DEF Favoring
      <4>2. CASE m # n
        BY <1>7, <3>3, <4>2 DEF Favoring
      <4> QED BY <4>1, <4>2
    <3> QED BY <1>11, <3>1, <3>2, <3>3 DEF Favoring
  <2> QED BY <2>4, <2>5, <2>6
<1> QED BY <1>9, <1>10, <1>11 DEF VotesInv

LEMMA RecordKeepsInv ==
  ASSUME ConflictAssumption, VotesInv, NEW n \in Resolver, NEW v \in Vote,
         v \in sent \/ v.voter \in Dissenter, RecordVote(n, v)
  PROVE  VotesInv'
<1> DEFINE c == Opened(conflict[n], v.step)
           e == WithVote(c, v.voter, v.favored)
<1>1. IsConflict(conflict[n])
  BY DEF VotesInv, CVTypeOK
<1>2. IsConflict(c) /\ c.candidates = conflict[n].candidates /\ c.votes = conflict[n].votes
  BY <1>1, OpenedFacts DEF Vote
<1>3. /\ IsConflict(e)
      /\ e.candidates = conflict[n].candidates
      /\ \A x \in DOMAIN e.votes :
           \/ x = v.voter /\ e.votes[x] = v.favored
           \/ x \in DOMAIN conflict[n].votes /\ e.votes[x] = conflict[n].votes[x]
  <2> HIDE DEF c
  <2> DEFINE w == v.voter
             u == v.favored
  <2>1. w \in Voter /\ u \in Candidate
    BY DEF Vote
  <2>2. e = WithVote(c, w, u)
    OBVIOUS
  <2> HIDE DEF c, e, w, u
  <2>3. /\ IsConflict(e)
        /\ e.candidates = c.candidates
        /\ \A x \in DOMAIN e.votes :
             \/ x = w /\ e.votes[x] = u
             \/ x \in DOMAIN c.votes /\ e.votes[x] = c.votes[x]
    BY <1>2, <2>1, <2>2, WithVoteFacts
  <2> QED BY <1>2, <2>3 DEF u, w
<1>4. conflict' = [conflict EXCEPT ![n] = e] /\ UNCHANGED <<voteStep, sent, seen, won>>
  BY DEF RecordVote
<1> HIDE DEF c, e
<1>5. CVTypeOK'
  BY <1>3, <1>4 DEF VotesInv, CVTypeOK
<1>6. \A m \in Resolver : conflict'[m].candidates \subseteq seen'
  BY <1>3, <1>4 DEF VotesInv, CVTypeOK
<1>7. ASSUME NEW u \in Candidate, Favoring(u)' PROVE Favoring(u)
  <2>1. ASSUME NEW m \in Resolver, NEW x \in DOMAIN conflict'[m].votes \ Dissenter,
               conflict'[m].votes[x] = u
        PROVE  Favoring(u)
    <3>1. CASE m = n
      <4>1. conflict'[m] = e
        BY <1>4, <3>1 DEF VotesInv, CVTypeOK
      <4> QED BY <1>3, <2>1, <3>1, <4>1 DEF Favoring
    <3>2. CASE m # n
      BY <1>4, <2>1, <3>2 DEF Favoring
    <3> QED BY <3>1, <3>2
  <2> QED BY <1>4, <1>7, <2>1 DEF Favoring
<1> QED BY <1>4, <1>5, <1>6, <1>7 DEF VotesInv, LesserOfTwo

(* There is one lesser of two.                                             *)
LEMMA OneLesser ==
  ASSUME ConflictAssumption, seen \in SUBSET Candidate,
         NEW t, LesserOfTwo(t), NEW u, LesserOfTwo(u)
  PROVE  t = u
<1>1. \A x \in seen : x \in Nat
  BY DEF ConflictAssumption
<1>2. PICK x \in seen : seen = {t, x} /\ t < x
  BY DEF LesserOfTwo
<1>3. PICK y \in seen : seen = {u, y} /\ u < y
  BY DEF LesserOfTwo
<1>4. t \in Nat /\ x \in Nat /\ u \in Nat /\ y \in Nat
  BY <1>1, <1>2, <1>3
<1>5. u \in {t, x} /\ t \in {u, y}
  BY <1>2, <1>3
<1> QED BY <1>2, <1>3, <1>4, <1>5

(* A part of a finite set of voters weighs no more than the whole.         *)
LEMMA PartOfVotes ==
  ASSUME NEW S, IsFiniteSet(S), NEW w, \A x \in S : w[x] \in Nat, NEW T \in SUBSET S
  PROVE  /\ SumFunctionOnSet(w, T) \in Nat /\ SumFunctionOnSet(w, S) \in Nat
         /\ SumFunctionOnSet(w, T) <= SumFunctionOnSet(w, S)
<1>1. /\ IsFiniteSet(T) /\ IsFiniteSet(S \ T)
      /\ T \cup (S \ T) = S /\ T \cap (S \ T) = {}
  BY FS_Subset
<1>2. SumFunctionOnSet(w, T \cup (S \ T))
        = SumFunctionOnSet(w, T) + SumFunctionOnSet(w, S \ T)
  BY <1>1, SumUnion
<1>3. /\ SumFunctionOnSet(w, T) \in Nat /\ SumFunctionOnSet(w, S) \in Nat
      /\ SumFunctionOnSet(w, S \ T) \in Nat
  BY <1>1, SumNat
<1> QED BY <1>1, <1>2, <1>3

(* When all votes but those of the dissenters favor one transaction, and   *)
(* the dissenters are outweighed, it wins, whatever they vote for.         *)
LEMMA CarriedWins ==
  ASSUME ConflictAssumption, CVTypeOK, NEW n \in Resolver, Carried(n), NEW t,
         \A v \in DOMAIN conflict[n].votes \ Dissenter : conflict[n].votes[v] = t
  PROVE  Winners(n) \subseteq {t}
<1> DEFINE votes == conflict[n].votes
           D == DOMAIN votes \cap Dissenter
           F == DOMAIN votes \ Dissenter
           W(S) == SumFunctionOnSet(Weight[n], S)
<1>1. DOMAIN votes \subseteq Voter /\ IsFiniteSet(DOMAIN votes)
  BY FS_Subset DEF CVTypeOK, IsConflict, ConflictAssumption
<1>2. \A S \in SUBSET DOMAIN votes : IsFiniteSet(S) /\ \A x \in S : Weight[n][x] \in Nat
  BY <1>1, FS_Subset DEF ConflictAssumption
<1>3. D \in SUBSET DOMAIN votes /\ F \in SUBSET DOMAIN votes /\ W(D) < W(F)
  BY DEF Carried
<1>4. W(D) \in Nat /\ W(F) \in Nat /\ W({}) = 0
  BY <1>2, <1>3, SumNat, SumUnfold, FS_EmptySet
<1>5. F # {}
  <2> SUFFICES ASSUME F = {} PROVE FALSE
    OBVIOUS
  <2>1. W(F) = 0
    BY <1>4
  <2> HIDE DEF W, F, D
  <2> QED BY <1>3, <1>4, <2>1
<1> SUFFICES ASSUME NEW u \in Winners(n), u # t PROVE FALSE
  OBVIOUS
<1>6. For(n, u) \in SUBSET D /\ F \in SUBSET For(n, t) /\ For(n, t) \in SUBSET DOMAIN votes
  BY DEF For
<1>7. /\ W(For(n, u)) \in Nat /\ W(For(n, u)) <= W(D)
      /\ W(For(n, t)) \in Nat /\ W(F) <= W(For(n, t))
  <2> HIDE DEF D, F
  <2>1. W(For(n, u)) \in Nat /\ W(For(n, u)) <= W(D)
    BY <1>2, <1>3, <1>6, PartOfVotes
  <2>2. W(For(n, t)) \in Nat /\ W(F) <= W(For(n, t))
    BY <1>2, <1>6, PartOfVotes
  <2> QED BY <2>1, <2>2
<1>8. Score(n, u) < Score(n, t)
  <2>1. Score(n, u) = W(For(n, u)) /\ Score(n, t) = W(For(n, t))
    BY DEF Score
  <2> HIDE DEF W, D, F
  <2> QED BY <1>3, <1>4, <1>7, <2>1
<1>9. t \in Range(votes)
  BY <1>5 DEF Range
<1>10. Score(n, u) > Score(n, t) \/ Score(n, u) = Score(n, t)
  BY <1>9 DEF Winners
<1>11. Score(n, u) \in Int /\ Score(n, t) \in Int
  BY <1>7 DEF Score
<1> QED BY <1>8, <1>10, <1>11

(* What is resolved to against outweighed dissenters is the lesser of two, *)
(* while there are two.                                                    *)
LEMMA ResolveKeepsInv ==
  ASSUME ConflictAssumption, VotesInv, NEW n \in Resolver, Resolve(n)
  PROVE  VotesInv'
<1>1. Winners(n) \subseteq Candidate
  BY DEF Winners, Range, VotesInv, CVTypeOK, IsConflict
<1>2. IsConflict(NoConflict) /\ NoConflict.candidates = {} /\ DOMAIN NoConflict.votes = {}
  BY DEF IsConflict, NoConflict, ConflictAssumption
<1>3. /\ won' = won \cup (IF Carried(n) THEN Winners(n) ELSE {})
      /\ conflict' = [conflict EXCEPT ![n] = NoConflict]
      /\ UNCHANGED <<voteStep, sent, seen>>
  BY DEF Resolve
<1> HIDE DEF NoConflict
<1>4. CVTypeOK'
  BY <1>1, <1>2, <1>3 DEF VotesInv, CVTypeOK
<1>5. \A m \in Resolver : conflict'[m].candidates \subseteq seen'
  BY <1>2, <1>3 DEF VotesInv, CVTypeOK
<1>6. ASSUME Carried(n), NEW u \in Winners(n)
      PROVE  Cardinality(seen) > 2 \/ LesserOfTwo(u)
  <2> SUFFICES ASSUME ~ (Cardinality(seen) > 2) PROVE LesserOfTwo(u)
    OBVIOUS
  <2> DEFINE votes == conflict[n].votes
             F == DOMAIN votes \ Dissenter
  <2>1. \A v \in F : votes[v] \in Candidate /\ LesserOfTwo(votes[v])
    BY DEF VotesInv, CVTypeOK, IsConflict, Favoring
  <2>2. \A v, w \in F : votes[v] = votes[w]
    BY <2>1, OneLesser DEF VotesInv, CVTypeOK
  <2>3. CASE F = {}
    <3>1. Winners(n) \subseteq {0} /\ Winners(n) \subseteq {1}
      BY <1>6, <2>3, CarriedWins DEF VotesInv
    <3> QED BY <1>6, <3>1
  <2>4. CASE F # {}
    <3>1. PICK t : LesserOfTwo(t) /\ \A v \in F : votes[v] = t
      BY <2>1, <2>2, <2>4
    <3>2. CVTypeOK /\ Carried(n)
      BY <1>6 DEF VotesInv
    <3>3. Winners(n) \subseteq {t}
      BY <3>1, <3>2, CarriedWins
    <3> QED BY <1>6, <3>1, <3>3
  <2> QED BY <2>3, <2>4
<1>7. ASSUME NEW u \in Candidate, Favoring(u)'
      PROVE  Cardinality(seen) > 2 \/ LesserOfTwo(u)
  <2>1. ASSUME NEW m \in Resolver, NEW x \in DOMAIN conflict'[m].votes \ Dissenter,
               conflict'[m].votes[x] = u
        PROVE  Favoring(u)
    <3>1. m # n /\ conflict'[m] = conflict[m]
      BY <1>2, <1>3, <2>1 DEF VotesInv, CVTypeOK
    <3> QED BY <2>1, <3>1 DEF Favoring
  <2>2. Favoring(u) \/ (Carried(n) /\ u \in Winners(n))
    BY <1>3, <1>7, <2>1 DEF Favoring
  <2> QED BY <1>6, <2>2 DEF VotesInv
<1> QED BY <1>3, <1>4, <1>5, <1>7 DEF VotesInv, LesserOfTwo

LEMMA CVNextKeepsInv ==
  ConflictAssumption /\ VotesInv /\ [CVNext]_cvVars => VotesInv'
<1> SUFFICES ASSUME ConflictAssumption, VotesInv, [CVNext]_cvVars PROVE VotesInv'
  OBVIOUS
<1>1. ASSUME NEW n \in Resolver, VoteTick(n) PROVE VotesInv'
  <2>1. CVTypeOK'
    BY <1>1 DEF VoteTick, VotesInv, CVTypeOK, ConflictAssumption
  <2> QED BY <1>1, <2>1 DEF VoteTick, VotesInv, Favoring, LesserOfTwo
<1>2. ASSUME UNCHANGED cvVars PROVE VotesInv'
  BY <1>2 DEF cvVars, VotesInv, CVTypeOK, Favoring, LesserOfTwo
<1>3. sent \subseteq Vote
  BY DEF VotesInv, CVTypeOK
<1> QED
  BY <1>1, <1>2, <1>3, ObserveKeepsInv, RecordKeepsInv, ResolveKeepsInv DEF CVNext

LEMMA VotesAgree == ConflictAssumption /\ VotesInv => PairAgreement
<1> SUFFICES ASSUME ConflictAssumption, VotesInv, Cardinality(seen) <= 2,
                    NEW t \in won, NEW u \in won
             PROVE  t = u
  BY DEF PairAgreement
<1>1. t \in Candidate /\ u \in Candidate /\ seen \in SUBSET Candidate
  BY DEF VotesInv, CVTypeOK
<1>2. ~ Cardinality(seen) > 2
  <2>1. Cardinality(seen) \in Nat
    BY <1>1, FS_Subset, FS_CardinalityType DEF ConflictAssumption
  <2> QED BY <2>1
<1>3. LesserOfTwo(t) /\ LesserOfTwo(u)
  BY <1>1, <1>2 DEF VotesInv, Favoring
<1> QED BY <1>1, <1>3, OneLesser

(* Every table of conflicts, every vote gossiped and every set of winners  *)
(* holds candidates and voters of the system only (ConflictResolver).      *)
THEOREM CVTypeCorrect == CVSpec => []CVTypeOK
<1>1. CVSpec => []VotesInv
  BY CVInitKeepsInv, CVNextKeepsInv, ConflictAssumption, PTL DEF CVSpec
<1>2. VotesInv => CVTypeOK
  BY DEF VotesInv
<1> QED BY <1>1, <1>2, PTL

(* As long as two conflicting transactions exist in all, no two nodes      *)
(* resolve the conflict for different ones, in whatever order transactions *)
(* and votes reach them and however often they resolve it, if each of them *)
(* has more weight of votes by the rule than of dissenters, who may favor  *)
(* anything, and vote differently to each.                                 *)
THEOREM PairAgreementHolds == CVSpec => []PairAgreement
<1>1. CVSpec => []VotesInv
  BY CVInitKeepsInv, CVNextKeepsInv, ConflictAssumption, PTL DEF CVSpec
<1>2. VotesInv => PairAgreement
  BY ConflictAssumption, VotesAgree
<1> QED BY <1>1, <1>2, PTL

-----------------------------------------------------------------------------
(* The rate of one peer.  What has been granted since any time, and what   *)
(* the bucket would grant now, are together no more than a burst and the   *)
(* refill since.  A forgotten bucket was full again, so that nothing is    *)
(* gained by forgetting it.                                                *)
Granted(s, t) == SumFunctionOnSet(allowed, s..t)

RateInv ==
  /\ RLTypeOK
  /\ bucket.refilled <= clock
  /\ \A t \in 0..EndTime : t > clock => allowed[t] = 0
  /\ \A s \in 0..clock : Granted(s, clock) + Refilled <= Burst + (clock - s) * Refill
  /\ \A s \in 0..clock : \A t \in s..clock : Granted(s, t) <= Burst + (t - s) * Refill

LEMMA OneMore == ASSUME NEW a \in Int, NEW k \in Int PROVE (a + 1) * k = a * k + k
OBVIOUS

LEMMA MoreTimes ==
  ASSUME NEW a \in Nat, NEW b \in Nat, a <= b, NEW k \in Nat
  PROVE  a * k <= b * k /\ a * k \in Nat /\ b * k \in Nat
OBVIOUS

LEMMA BucketFacts ==
  ASSUME RateLimiterAssumption, RateInv
  PROVE  /\ clock \in 0..EndTime /\ allowed \in [0..EndTime -> Nat]
         /\ Refilled \in 0..Burst
         /\ bucket # NoBucket => bucket \in Bucket /\ clock - bucket.refilled \in Nat
         /\ bucket = NoBucket => Refilled = Burst
<1>1. clock \in 0..EndTime /\ allowed \in [0..EndTime -> Nat]
  BY DEF RateInv, RLTypeOK
<1>2. CASE bucket = NoBucket
  BY <1>1, <1>2 DEF Refilled, RateLimiterAssumption
<1>3. CASE bucket # NoBucket
  <2>1. bucket \in Bucket
    BY <1>3 DEF RateInv, RLTypeOK
  <2>2. bucket.tokens \in 0..Burst /\ bucket.refilled \in 0..EndTime
    BY <2>1 DEF Bucket
  <2>3. clock - bucket.refilled \in Nat
    BY <1>1, <2>2 DEF RateInv, RateLimiterAssumption
  <2> DEFINE p == (clock - bucket.refilled) * Refill
  <2>4. p \in Nat
    BY <2>3, MoreTimes DEF RateLimiterAssumption
  <2> HIDE DEF p
  <2>5. Least(bucket.tokens + p, Burst) \in 0..Burst
    BY <2>2, <2>4 DEF Least, RateLimiterAssumption
  <2> QED BY <1>1, <1>3, <2>1, <2>3, <2>5 DEF Refilled, p
<1> QED BY <1>1, <1>2, <1>3

(* Sums over intervals of time *)
LEMMA GrantedFacts ==
  ASSUME RateLimiterAssumption, allowed \in [0..EndTime -> Nat],
         NEW s \in 0..EndTime, NEW t \in 0..EndTime
  PROVE  /\ Granted(s, t) \in Nat
         /\ s <= t => Granted(s, t) = allowed[t] + Granted(s, t - 1)
         /\ s > t => Granted(s, t) = 0
<1>1. s \in Int /\ t \in Int /\ IsFiniteSet(s..t) /\ \A i \in s..t : allowed[i] \in Nat
  <2>1. s \in Int /\ t \in Int /\ \A i \in s..t : allowed[i] \in Nat
    BY DEF RateLimiterAssumption
  <2>2. IsFiniteSet(s..t)
    BY <2>1, FS_Interval
  <2> QED BY <2>1, <2>2
<1>2. Granted(s, t) \in Nat
  BY <1>1, SumNat DEF Granted
<1>3. CASE s <= t
  <2>1. \A i \in s..t : allowed[i] \in Int
    BY <1>1
  <2>2. SumFunctionOnSet(allowed, s..t)
          = allowed[t] + SumFunctionOnSet(allowed, s..(t - 1))
    BY <1>1, <1>3, <2>1, SumLast
  <2>3. ~ (s > t)
    BY <1>1, <1>3
  <2> QED BY <1>2, <2>2, <2>3 DEF Granted
<1>4. CASE s > t
  <2>1. s..t = {}
    BY <1>1, <1>4
  <2>2. SumFunctionOnSet(allowed, {}) = 0
    BY FS_EmptySet, SumUnfold
  <2> QED BY <1>1, <1>2, <1>4, <2>1, <2>2 DEF Granted
<1> QED BY <1>1, <1>2, <1>3, <1>4

LEMMA RLInitKeepsInv == RateLimiterAssumption /\ RLInit => RateInv
<1> SUFFICES ASSUME RateLimiterAssumption, RLInit PROVE RateInv
  OBVIOUS
<1>1. RLTypeOK
  BY DEF RLInit, RLTypeOK, RateLimiterAssumption
<1>2. bucket.refilled <= clock
  BY DEF RLInit, NoBucket
<1>3. \A t \in 0..EndTime : allowed[t] = 0
  BY DEF RLInit
<1>4. Granted(0, 0) = 0
  <2>1. 0 \in 0..EndTime /\ IsFiniteSet(0..0) /\ 0..0 = {0}
    <3>1. 0..0 = {0}
      OBVIOUS
    <3>2. IsFiniteSet({0})
      BY FS_Singleton
    <3> QED BY <3>1, <3>2 DEF RateLimiterAssumption
  <2>2. \A i \in {0} : allowed[i] = 0
    BY <1>3, <2>1
  <2>3. SumFunctionOnSet(allowed, {0}) = allowed[0] + SumFunctionOnSet(allowed, {0} \ {0})
    BY <2>1, <2>2, SumUnfold
  <2>4. {0} \ {0} = {} /\ SumFunctionOnSet(allowed, {}) = 0
    BY FS_EmptySet, SumUnfold
  <2> QED BY <2>1, <2>2, <2>3, <2>4 DEF Granted
<1>5. Refilled = Burst
  BY DEF RLInit, Refilled
<1>6. \A s \in 0..clock : s = 0
  BY DEF RLInit
<1>7. \A s \in 0..clock : \A t \in s..clock : s = 0 /\ t = 0
  BY DEF RLInit
<1>8. clock = 0 /\ (0 - 0) * Refill = 0 /\ Burst \in Nat
  BY DEF RLInit, RateLimiterAssumption
<1> QED BY <1>1, <1>2, <1>3, <1>4, <1>5, <1>6, <1>7, <1>8 DEF RateInv

(* Time passes: what is refilled for one unit of time is no more than what *)
(* the bound grows by.                                                     *)
LEMMA PassKeepsInv ==
  ASSUME RateLimiterAssumption, RateInv, Pass
  PROVE  RateInv'
<1>1. /\ clock \in 0..EndTime /\ clock + 1 \in 0..EndTime
      /\ clock' = clock + 1 /\ calls' = 0
      /\ UNCHANGED <<bucket, dropped, allowed>>
  BY DEF Pass, RateInv, RLTypeOK, RateLimiterAssumption
<1>2. Burst \in Nat /\ Refill \in Nat /\ EndTime \in Nat /\ MaxCalls \in Nat
  BY DEF RateLimiterAssumption
<1>3. RLTypeOK'
  BY <1>1, <1>2 DEF RateInv, RLTypeOK
<1>4. (bucket.refilled <= clock)' /\ bucket.refilled \in Int
  <2>1. bucket.refilled \in Int
    BY <1>2 DEF RateInv, RLTypeOK, Bucket, NoBucket
  <2> QED BY <1>1, <2>1 DEF RateInv
<1>5. \A t \in 0..EndTime : (t > clock)' => allowed'[t] = 0
  BY <1>1 DEF RateInv
<1>6. /\ Refilled \in 0..Burst /\ Refilled' \in 0..Burst
      /\ Refilled' <= Refilled + Refill
  <2>1. Refilled \in 0..Burst
    BY BucketFacts
  <2>2. CASE bucket = NoBucket
    BY <1>1, <1>2, <2>2 DEF Refilled
  <2>3. CASE bucket # NoBucket
    <3>1. bucket \in Bucket /\ clock - bucket.refilled \in Nat
      BY <2>3, BucketFacts
    <3> DEFINE a == clock - bucket.refilled
               p == a * Refill
               q == (a + 1) * Refill
    <3>2. bucket.tokens \in Nat
      BY <3>1 DEF Bucket
    <3>3. q = p + Refill /\ p \in Nat
      <4> HIDE DEF a
      <4>1. a \in Nat
        BY <3>1 DEF a
      <4> QED BY <1>2, <4>1, OneMore, MoreTimes
    <3>4. clock' - bucket'.refilled = a + 1
      BY <1>1, <1>4
    <3>5. Refilled = Least(bucket.tokens + p, Burst)
      BY <2>3 DEF Refilled
    <3>6. Refilled' = Least(bucket.tokens + q, Burst)
      <4>1. Refilled' = Least(bucket.tokens + (clock' - bucket'.refilled) * Refill, Burst)
        BY <1>1, <2>3 DEF Refilled
      <4> QED BY <3>4, <4>1
    <3> HIDE DEF p, q, a
    <3> QED BY <1>2, <3>2, <3>3, <3>5, <3>6 DEF Least
  <2> QED BY <2>1, <2>2, <2>3
<1>7. ASSUME NEW s \in 0..clock
      PROVE  Granted(s, clock + 1) = Granted(s, clock) /\ Granted(s, clock) \in Nat
  <2>1. s \in 0..EndTime /\ s <= clock + 1 /\ (clock + 1) - 1 = clock
    BY <1>1
  <2>2. allowed \in [0..EndTime -> Nat] /\ allowed[clock + 1] = 0
    BY <1>1 DEF RateInv, RLTypeOK
  <2>3. Granted(s, clock + 1) = allowed[clock + 1] + Granted(s, (clock + 1) - 1)
    BY <1>1, <2>1, <2>2, GrantedFacts
  <2>4. Granted(s, clock) \in Nat
    BY <1>1, <2>1, <2>2, GrantedFacts
  <2> QED BY <2>1, <2>2, <2>3, <2>4
<1>8. Granted(clock + 1, clock + 1) = 0
  <2>1. allowed \in [0..EndTime -> Nat] /\ allowed[clock + 1] = 0
    BY <1>1 DEF RateInv, RLTypeOK
  <2>2. Granted(clock + 1, clock + 1) = allowed[clock + 1] + Granted(clock + 1, (clock + 1) - 1)
    BY <1>1, <2>1, GrantedFacts
  <2>3. (clock + 1) - 1 = clock /\ Granted(clock + 1, clock) = 0
    BY <1>1, <2>1, GrantedFacts
  <2> QED BY <2>1, <2>2, <2>3
<1>9. \A s, t : Granted(s, t)' = Granted(s, t)
  BY <1>1 DEF Granted
<1>10. ASSUME NEW s \in 0..clock'
       PROVE  Granted(s, clock') + Refilled' <= Burst + (clock' - s) * Refill
  <2>1. CASE s \in 0..clock
    <3> DEFINE p == (clock - s) * Refill
               q == ((clock - s) + 1) * Refill
    <3>1. q = p + Refill /\ p \in Int
      <4>1. clock - s \in Nat
        BY <1>1, <2>1
      <4> QED BY <1>2, <4>1, OneMore, MoreTimes
    <3>2. clock' - s = (clock - s) + 1
      BY <1>1, <2>1
    <3>3. (clock' - s) * Refill = q
      BY <3>2
    <3>4. Granted(s, clock) + Refilled <= Burst + p
      BY <2>1 DEF RateInv
    <3>5. Granted(s, clock') = Granted(s, clock) /\ Granted(s, clock) \in Nat
      BY <1>1, <1>7, <2>1
    <3> HIDE DEF p, q
    <3> QED BY <1>2, <1>6, <3>1, <3>3, <3>4, <3>5
  <2>2. CASE s = clock + 1
    <3>1. clock' - s = 0 /\ 0 * Refill = 0
      BY <1>1, <1>2, <2>2
    <3> QED BY <1>1, <1>2, <1>6, <1>8, <2>2, <3>1
  <2> QED BY <1>1, <2>1, <2>2
<1>11. ASSUME NEW s \in 0..clock', NEW t \in s..clock'
       PROVE  Granted(s, t) <= Burst + (t - s) * Refill
  <2>1. CASE t \in s..clock
    <3>1. s \in 0..clock
      BY <1>1, <2>1
    <3> QED BY <2>1, <3>1 DEF RateInv
  <2>2. CASE t = clock'
    <3> DEFINE p == (clock' - s) * Refill
    <3>1. Granted(s, clock') + Refilled' <= Burst + p
      BY <1>10
    <3>2. p \in Nat
      <4>1. clock' - s \in Nat
        BY <1>1
      <4> QED BY <1>2, <4>1, MoreTimes
    <3>3. Granted(s, clock') \in Nat
      BY <1>1, <1>7, <1>8
    <3> HIDE DEF p
    <3>4. Granted(s, clock') <= Burst + p
      BY <1>2, <1>6, <3>1, <3>2, <3>3
    <3> QED BY <2>2, <3>4 DEF p
  <2> QED BY <1>1, <2>1, <2>2
<1> QED BY <1>3, <1>4, <1>5, <1>9, <1>10, <1>11 DEF RateInv

LEMMA CheckKeepsInv ==
  ASSUME RateLimiterAssumption, RateInv, Check
  PROVE  RateInv'
<1>1. /\ clock \in 0..EndTime /\ allowed \in [0..EndTime -> Nat]
      /\ Refilled \in 0..Burst
  BY BucketFacts
<1>2. Burst \in Nat /\ Refill \in Nat /\ EndTime \in Nat /\ MaxCalls \in Nat
  BY DEF RateLimiterAssumption
<1> DEFINE k == IF Refilled >= 1 THEN 1 ELSE 0
<1>3. /\ k \in {0, 1} /\ k <= Refilled
      /\ bucket' = [tokens |-> Refilled - k, refilled |-> clock]
      /\ allowed' = [allowed EXCEPT ![clock] = @ + k]
      /\ dropped' \in Nat /\ clock' = clock /\ calls' \in 0..MaxCalls
  <2>1. CASE Refilled >= 1
    BY <1>1, <1>2, <2>1 DEF Check, RateInv, RLTypeOK
  <2>2. CASE ~ Refilled >= 1
    <3>1. Refilled = 0 /\ k = 0
      BY <1>1, <2>2
    <3>2. allowed' = allowed /\ allowed = [allowed EXCEPT ![clock] = @ + 0]
      BY <1>1, <2>2 DEF Check
    <3> QED BY <1>1, <1>2, <2>2, <3>1, <3>2 DEF Check, RateInv, RLTypeOK
  <2> QED BY <2>1, <2>2
<1> HIDE DEF k
<1>4. /\ bucket' \in Bucket /\ bucket'.refilled = clock
      /\ bucket'.tokens = Refilled - k /\ bucket' # NoBucket
  BY <1>1, <1>2, <1>3 DEF Bucket, NoBucket
<1>5. RLTypeOK' /\ (bucket.refilled <= clock)'
  BY <1>1, <1>2, <1>3, <1>4 DEF RateInv, RLTypeOK
<1>6. \A t \in 0..EndTime : (t > clock)' => allowed'[t] = 0
  BY <1>1, <1>3 DEF RateInv
<1>7. Refilled' = Refilled - k
  <2>1. Refilled' = Least(bucket'.tokens + (clock' - bucket'.refilled) * Refill, Burst)
    BY <1>4 DEF Refilled
  <2>2. (clock' - bucket'.refilled) * Refill = 0
    BY <1>1, <1>2, <1>3, <1>4
  <2>3. Refilled' = Least(Refilled - k + 0, Burst)
    BY <1>4, <2>1, <2>2
  <2> QED BY <1>1, <1>2, <1>3, <2>3 DEF Least
<1>8. ASSUME NEW s \in 0..clock, NEW t \in s..clock, t < clock
      PROVE  Granted(s, t)' = Granted(s, t)
  <2>1. \A i \in s..t : allowed[i] \in Int /\ allowed[i] = allowed'[i]
    BY <1>1, <1>3, <1>8
  <2>2. IsFiniteSet(s..t)
    BY FS_Interval
  <2> QED BY <2>1, <2>2, SumSame DEF Granted
<1>9. ASSUME NEW s \in 0..clock
      PROVE  Granted(s, clock)' = Granted(s, clock) + k /\ Granted(s, clock) \in Nat
  <2>1. clock \in s..clock /\ s \in 0..EndTime
    BY <1>1
  <2>2. /\ \A i \in s..clock : allowed[i] \in Int /\ allowed'[i] \in Int
        /\ \A i \in (s..clock) \ {clock} : allowed[i] = allowed'[i]
        /\ allowed'[clock] = allowed[clock] + k
    BY <1>1, <1>3
  <2>3. IsFiniteSet(s..clock)
    BY <1>1, FS_Interval
  <2>4. SumFunctionOnSet(allowed', s..clock)
          = SumFunctionOnSet(allowed, s..clock) - allowed[clock] + allowed'[clock]
    BY <2>1, <2>2, <2>3, SumUpdate
  <2>5. Granted(s, clock) \in Nat /\ allowed[clock] \in Nat
    BY <1>1, <2>1, GrantedFacts
  <2>6. Granted(s, clock)' = SumFunctionOnSet(allowed', s..clock)
    BY <1>3 DEF Granted
  <2> QED BY <1>3, <2>2, <2>4, <2>5, <2>6 DEF Granted
<1>10. ASSUME NEW s \in 0..clock
       PROVE  /\ Granted(s, clock)' + Refilled' <= Burst + (clock - s) * Refill
              /\ Granted(s, clock)' <= Burst + (clock - s) * Refill
  <2> DEFINE p == (clock - s) * Refill
  <2>1. p \in Nat
    <3>1. clock - s \in Nat
      BY <1>1
    <3> QED BY <1>2, <3>1, MoreTimes
  <2>2. Granted(s, clock) + Refilled <= Burst + p
    BY DEF RateInv
  <2> DEFINE g == Granted(s, clock)
             h == Granted(s, clock)'
             r == Refilled
             q == Refilled'
  <2>3. h = g + k /\ g \in Nat /\ q = r - k /\ r \in 0..Burst
    BY <1>1, <1>7, <1>9
  <2>4. g + r <= Burst + p /\ k \in 0..1 /\ k <= r /\ Burst \in Nat
    BY <1>2, <1>3, <2>2
  <2> HIDE DEF p, g, h, r, q
  <2>5. h + q <= Burst + p /\ h <= Burst + p
    BY <2>1, <2>3, <2>4
  <2> QED BY <2>5 DEF p, g, h, q
<1>11. ASSUME NEW s \in 0..clock, NEW t \in s..clock
       PROVE  Granted(s, t)' <= Burst + (t - s) * Refill
  <2>1. CASE t = clock
    BY <1>3, <1>10, <2>1
  <2>2. CASE t < clock
    BY <1>8, <2>2 DEF RateInv
  <2> QED BY <1>1, <2>1, <2>2
<1>12. \A s \in 0..clock : (Granted(s, clock) + Refilled <= Burst + (clock - s) * Refill)'
  BY <1>3, <1>10
<1>13. clock' = clock
  BY <1>3
<1> QED BY <1>5, <1>6, <1>11, <1>12, <1>13 DEF RateInv

(* A bucket that has been idle long enough to be forgotten is full.        *)
LEMMA CleanupKeepsInv ==
  ASSUME RateLimiterAssumption, RateInv, Cleanup
  PROVE  RateInv'
<1>1. UNCHANGED <<clock, dropped, allowed, calls>> /\ bucket # NoBucket
  BY DEF Cleanup
<1>2. Refilled' = Refilled
  <2>1. CASE IsRecent(bucket)
    BY <1>1, <2>1 DEF Cleanup, Refilled
  <2>2. CASE ~ IsRecent(bucket)
    <3>1. bucket' = NoBucket /\ Refilled' = Burst
      BY <1>1, <2>2 DEF Cleanup, Refilled
    <3>2. bucket \in Bucket /\ clock - bucket.refilled \in Nat
      BY <1>1, BucketFacts
    <3>3. bucket.tokens \in Nat /\ bucket.refilled \in Int /\ clock \in Int
      BY <3>2, BucketFacts DEF Bucket
    <3>4. Idle <= clock - bucket.refilled
      BY <2>2, <3>3 DEF IsRecent, RateLimiterAssumption
    <3> DEFINE p == (clock - bucket.refilled) * Refill
    <3>5. p >= Burst /\ p \in Nat /\ Burst \in Nat
      <4> DEFINE a == clock - bucket.refilled
      <4>1. Idle * Refill <= a * Refill /\ Idle * Refill \in Nat /\ a * Refill \in Nat
        <5> HIDE DEF a
        <5>1. Idle \in Nat /\ Refill \in Nat /\ a \in Nat /\ Idle <= a
          BY <3>2, <3>4 DEF RateLimiterAssumption, a
        <5> QED BY <5>1, MoreTimes
      <4> DEFINE q == Idle * Refill
      <4>2. q >= Burst /\ Burst \in Nat
        BY DEF RateLimiterAssumption
      <4> HIDE DEF p, q
      <4>3. q <= p /\ q \in Nat /\ p \in Nat
        BY <4>1 DEF p, q
      <4> QED BY <4>2, <4>3
    <3>6. Refilled = Least(bucket.tokens + p, Burst)
      BY <1>1 DEF Refilled
    <3> HIDE DEF p
    <3> QED BY <3>1, <3>3, <3>5, <3>6 DEF Least
  <2> QED BY <2>1, <2>2
<1>3. RLTypeOK' /\ (bucket.refilled <= clock)'
  <2>1. bucket' \in {bucket, NoBucket}
    BY DEF Cleanup
  <2>2. NoBucket.refilled = -1
    BY DEF NoBucket
  <2> QED BY <1>1, <2>1, <2>2 DEF RateInv, RLTypeOK
<1>4. \A s, t : Granted(s, t)' = Granted(s, t)
  BY <1>1 DEF Granted
<1> QED BY <1>1, <1>2, <1>3, <1>4 DEF RateInv

LEMMA RLNextKeepsInv ==
  RateLimiterAssumption /\ RateInv /\ [RLNext]_rlVars => RateInv'
<1>1. ASSUME RateInv, UNCHANGED rlVars PROVE RateInv'
  BY <1>1 DEF rlVars, RateInv, RLTypeOK, Granted, Refilled
<1> QED
  BY <1>1, PassKeepsInv, CheckKeepsInv, CleanupKeepsInv DEF RLNext

(* Over any span of time a peer is granted no more than a burst and the    *)
(* refill of that span, however checks and cleanups interleave.            *)
THEOREM RateHoldsAlways == RLSpec => []RateHolds
<1>1. RLSpec => []RateInv
  BY RLInitKeepsInv, RLNextKeepsInv, RateLimiterAssumption, PTL DEF RLSpec
<1>2. RateInv => RateHolds
  BY DEF RateInv, RateHolds, Granted
<1> QED BY <1>1, <1>2, PTL

(* A bucket never holds more tokens than a burst or fewer than none.       *)
THEOREM RLTypeCorrect == RLSpec => []RLTypeOK
<1>1. RLSpec => []RateInv
  BY RLInitKeepsInv, RLNextKeepsInv, RateLimiterAssumption, PTL DEF RLSpec
<1>2. RateInv => RLTypeOK
  BY DEF RateInv
<1> QED BY <1>1, <1>2, PTL

-----------------------------------------------------------------------------
(* The pool of fees.  A payout is stamped with the epoch it starts, so that *)
(* the last epoch separates it from the next; the shares of a payout come  *)
(* to half of the pool at most, whatever rounding and wrapping around make *)
(* of them.                                                                *)
TotalOf(f) == SumFunctionOnSet(f, Earner)

PaidOut(p) == SumFunctionOnSet([i \in DOMAIN p |-> p[i].amount], DOMAIN p)

FeesInv ==
  /\ FPTypeOK
  /\ collected < MaxFees => pool + (TotalOf(earned) + TotalOf(slashed)) = collected
  /\ TotalOf(earned) + TotalOf(slashed) = PaidOut(payouts)
  /\ \A i \in DOMAIN payouts : 2 * payouts[i].amount <= collected

EpochsInv ==
  /\ FPTypeOK
  /\ \A i \in DOMAIN payouts : payouts[i].step <= lastEpoch
  /\ EpochsApart

LEMMA TotalFacts ==
  ASSUME FeePoolAssumption, NEW f \in [Earner -> Nat]
  PROVE  /\ SumFunction(f) = TotalOf(f)
         /\ TotalOf(f) \in Nat
<1>1. DOMAIN f = Earner /\ \A n \in Earner : f[n] \in Nat
  OBVIOUS
<1> QED BY <1>1, SumNat DEF SumFunction, TotalOf, FeePoolAssumption

LEMMA PayoutFacts ==
  ASSUME NEW p \in Seq(Payout), NEW i \in DOMAIN p
  PROVE  p[i].step \in 0..LastEpochStep /\ p[i].amount \in 1..MaxFees
<1>1. p[i] \in Payout
  OBVIOUS
<1> QED BY <1>1 DEF Payout

LEMMA PaidOutFacts ==
  ASSUME NEW p \in Seq(Payout)
  PROVE  /\ PaidOut(p) \in Nat
         /\ PaidOut(<<>>) = 0
         /\ \A x \in Payout : PaidOut(Append(p, x)) = PaidOut(p) + x.amount
         /\ SumFunction([i \in DOMAIN p |-> p[i].amount]) = PaidOut(p)
<1> DEFINE f(q) == [i \in DOMAIN q |-> q[i].amount]
<1>1. IsFiniteSet(DOMAIN p) /\ \A i \in DOMAIN p : f(p)[i] \in Nat
  <2>1. DOMAIN p = 1..Len(p) /\ Len(p) \in Nat
    OBVIOUS
  <2>2. IsFiniteSet(1..Len(p))
    BY <2>1, FS_Interval
  <2>3. \A i \in DOMAIN p : p[i] \in Payout
    OBVIOUS
  <2> QED BY <2>1, <2>2, <2>3 DEF Payout
<1>2. PaidOut(p) \in Nat
  <2> HIDE DEF f
  <2> QED BY <1>1, SumNat DEF PaidOut, f
<1>3. PaidOut(<<>>) = 0
  <2>1. DOMAIN <<>> = {}
    OBVIOUS
  <2>2. \A g : SumFunctionOnSet(g, {}) = 0
    BY FS_EmptySet, SumUnfold
  <2> QED BY <2>1, <2>2 DEF PaidOut
<1>4. ASSUME NEW x \in Payout
      PROVE  PaidOut(Append(p, x)) = PaidOut(p) + x.amount
  <2> DEFINE q == Append(p, x)
             k == Len(p) + 1
  <2>1. /\ Len(p) \in Nat /\ DOMAIN q = DOMAIN p \cup {k} /\ k \notin DOMAIN p
        /\ q[k] = x /\ \A i \in DOMAIN p : q[i] = p[i]
    OBVIOUS
  <2>2. x.amount \in Nat
    BY DEF Payout
  <2> HIDE DEF q, k
  <2>3. /\ \A i \in DOMAIN p : f(q)[i] = f(p)[i] /\ f(q)[i] \in Int
        /\ f(q)[k] = x.amount
    BY <1>1, <2>1
  <2> HIDE DEF f
  <2>4. SumFunctionOnSet(f(q), DOMAIN p) = SumFunctionOnSet(f(p), DOMAIN p)
    BY <1>1, <2>3, SumSame
  <2>5. SumFunctionOnSet(f(q), DOMAIN p \cup {k})
          = f(q)[k] + SumFunctionOnSet(f(q), DOMAIN p)
    <3> DEFINE F == f(q)
    <3>1. (\A i \in DOMAIN p : F[i] \in Int) /\ F[k] \in Int
      BY <2>2, <2>3
    <3> HIDE DEF F
    <3>2. SumFunctionOnSet(F, DOMAIN p \cup {k}) = F[k] + SumFunctionOnSet(F, DOMAIN p)
      BY <1>1, <2>1, <3>1, SumInsert
    <3> QED BY <3>2 DEF F
  <2>6. PaidOut(q) = x.amount + PaidOut(p)
    BY <2>1, <2>3, <2>4, <2>5 DEF PaidOut, f
  <2> QED BY <1>2, <2>2, <2>6 DEF q
<1>5. SumFunction(f(p)) = PaidOut(p)
  <2>1. DOMAIN f(p) = DOMAIN p
    OBVIOUS
  <2> QED BY <2>1 DEF SumFunction, PaidOut
<1> QED BY <1>2, <1>3, <1>4, <1>5

LEMMA DivideFacts ==
  ASSUME NEW a \in Nat, NEW m \in Nat, NEW s \in Nat \ {0}
  PROVE  /\ (a % (m + 1)) \div s \in Nat
         /\ s * ((a % (m + 1)) \div s) <= a
<1> DEFINE b == a % (m + 1)
<1>1. b \in Nat /\ b <= a
  <2>1. \A k \in Nat \ {0} : a % k \in Nat /\ a % k <= a
    OBVIOUS
  <2> QED BY <2>1
<1> HIDE DEF b
<1>2. b \div s \in Nat /\ (b \div s) * s <= b
  BY <1>1
<1>3. s * (b \div s) <= a
  <2> DEFINE q == b \div s
  <2>1. s * q = q * s
    BY <1>2
  <2> QED BY <1>1, <1>2, <2>1
<1> QED BY <1>2, <1>3 DEF b

LEMMA ShareFacts ==
  ASSUME FeePoolAssumption, FPTypeOK,
         NEW E \in SUBSET Earner, NEW n \in E, \A m \in E : finalized[m] > 0
  PROVE  /\ SumFunctionOnSet(finalized, E) \in Nat \ {0}
         /\ Share(n, E) \in Nat
         /\ SumFunctionOnSet(finalized, E) * Share(n, E) <= (pool \div 2) * finalized[n]
<1>1. /\ \A m \in E : finalized[m] \in Nat
      /\ IsFiniteSet(E) /\ pool \in Nat /\ MaxFees \in Nat
  <2>1. IsFiniteSet(E)
    BY FS_Subset DEF FeePoolAssumption
  <2> QED BY <2>1 DEF FPTypeOK, FeePoolAssumption
<1> DEFINE s == SumFunctionOnSet(finalized, E)
           h == pool \div 2
           a == h * finalized[n]
<1>2. s \in Nat /\ finalized[n] <= s
  BY <1>1, SumNat
<1>3. h \in Nat
  BY <1>1
<1>4. a \in Nat
  <2> HIDE DEF h
  <2> QED BY <1>1, <1>3
<1>5. Share(n, E) = (a % (MaxFees + 1)) \div s
  BY DEF Share
<1>6. s \in Nat \ {0}
  <2> HIDE DEF s
  <2> QED BY <1>1, <1>2
<1> HIDE DEF a, s
<1>7. Share(n, E) \in Nat /\ s * Share(n, E) <= a
  BY <1>1, <1>4, <1>5, <1>6, DivideFacts
<1> QED BY <1>6, <1>7 DEF a, s

LEMMA HalfOfPool ==
  ASSUME NEW s \in Nat \ {0}, NEW x \in Nat, NEW h \in Nat, NEW t \in Nat,
         s * x <= h * t, t <= s
  PROVE  x <= h
<1>1. h * t <= h * s
  OBVIOUS
<1>2. s * x <= s * h
  <2>1. h * s = s * h /\ h * t \in Nat /\ h * s \in Nat /\ s * x \in Nat
    OBVIOUS
  <2> QED BY <1>1, <2>1
<1>3. ASSUME x > h PROVE FALSE
  <2>1. x >= h + 1
    BY <1>3
  <2>2. s * x >= s * (h + 1)
    BY <2>1
  <2>3. s * (h + 1) = s * h + s
    OBVIOUS
  <2> DEFINE a == s * x
             b == s * h
             c == s * (h + 1)
  <2>4. a \in Nat /\ b \in Nat /\ c \in Nat /\ a <= b /\ a >= c /\ c = b + s
    BY <1>2, <2>2, <2>3
  <2> HIDE DEF a, b, c
  <2> QED BY <2>4
<1> QED BY <1>3

Outlay(R) == SumFunction(EpochRewards(R))

LEMMA RewardsFacts ==
  ASSUME FeePoolAssumption, FPTypeOK, NEW R \in SUBSET Earner
  PROVE  /\ DOMAIN EpochRewards(R) \subseteq Earner
         /\ \A n \in DOMAIN EpochRewards(R) : EpochRewards(R)[n] \in Nat
         /\ Outlay(R) \in Nat /\ 2 * Outlay(R) <= pool
         /\ Outlay(R) # 0 => ShouldDistribute
<1> DEFINE E == IF ShouldDistribute THEN Eligible(R) ELSE {}
           P == {n \in E : Share(n, E) > 0}
           r == EpochRewards(R)
           amount == SumFunctionOnSet(r, P)
           s == SumFunctionOnSet(finalized, E)
           h == pool \div 2
<1>1. r = [n \in P |-> Share(n, E)] /\ DOMAIN r = P
  BY DEF EpochRewards
<1>2. E \in SUBSET Earner /\ \A m \in E : finalized[m] > 0
  BY DEF Eligible
<1>3. P \subseteq E /\ IsFiniteSet(P) /\ IsFiniteSet(E \ P) /\ IsFiniteSet(E)
  <2>1. P \subseteq Earner /\ E \ P \subseteq Earner /\ P \subseteq E
    BY <1>2
  <2> QED BY <1>2, <2>1, FS_Subset DEF FeePoolAssumption
<1>4. \A n \in E : /\ s \in Nat \ {0} /\ Share(n, E) \in Nat
                   /\ s * Share(n, E) <= h * finalized[n] /\ finalized[n] \in Nat
  <2> HIDE DEF E
  <2>1. \A n \in E : finalized[n] \in Nat
    BY <1>2 DEF FPTypeOK
  <2> QED BY <1>2, <2>1, ShareFacts
<1>5. pool \in Nat /\ h \in Nat /\ 2 * h <= pool
  <2>1. pool \in Nat
    BY DEF FPTypeOK
  <2> QED BY <2>1
<1>6. \A n \in P : r[n] \in Nat
  BY <1>1, <1>3, <1>4
<1>7. amount \in Nat
  <2> HIDE DEF P, r
  <2> QED BY <1>3, <1>6, SumNat
<1>8. Outlay(R) = amount
  BY <1>1 DEF Outlay, SumFunction
<1>9. DOMAIN EpochRewards(R) \subseteq Earner
  BY <1>1, <1>2, <1>3
<1>10. \A n \in DOMAIN EpochRewards(R) : EpochRewards(R)[n] \in Nat
  BY <1>1, <1>6
<1>11. CASE P = {}
  <2>1. amount = 0
    <3> HIDE DEF r
    <3> QED BY <1>11, FS_EmptySet, SumUnfold
  <2> HIDE DEF amount, P, E, r
  <2> QED BY <1>5, <1>8, <1>9, <1>10, <2>1
<1>12. CASE P # {}
  <2>1. ShouldDistribute /\ s \in Nat \ {0}
    BY <1>3, <1>4, <1>12
  <2> DEFINE g == [n \in P |-> s * r[n]]
             k == [n \in P |-> h * finalized[n]]
             t == SumFunctionOnSet(finalized, P)
  <2> HIDE DEF E, P, r, s, h
  <2>2. \A n \in P : finalized[n] \in Nat /\ r[n] = Share(n, E) /\ n \in E
    BY <1>1, <1>3, <1>4
  <2>3. SumFunctionOnSet(g, P) = s * amount
    <3>1. \A n \in P : r[n] \in Int /\ g[n] = s * r[n]
      BY <1>6
    <3> QED BY <1>3, <2>1, <3>1, SumScaled
  <2>4. SumFunctionOnSet(k, P) = h * t
    <3>1. \A n \in P : finalized[n] \in Int /\ k[n] = h * finalized[n]
      BY <2>2
    <3> QED BY <1>3, <1>5, <3>1, SumScaled
  <2>5. SumFunctionOnSet(g, P) <= SumFunctionOnSet(k, P)
    <3>1. ASSUME NEW n \in P PROVE g[n] \in Int /\ k[n] \in Int /\ g[n] <= k[n]
      <4>1. s * r[n] \in Int /\ h * finalized[n] \in Int
        BY <1>5, <1>6, <2>1, <2>2
      <4>2. s * r[n] <= h * finalized[n]
        BY <1>4, <2>2
      <4> QED BY <4>1, <4>2
    <3> HIDE DEF g, k
    <3> QED BY <1>3, <3>1, SumMonotonic
  <2>6. t \in Nat /\ t <= s
    <3>1. P \cup (E \ P) = E /\ P \cap (E \ P) = {}
      BY <1>3
    <3>2. \A n \in E : finalized[n] \in Nat
      BY <1>4
    <3>3. SumFunctionOnSet(finalized, P \cup (E \ P))
            = t + SumFunctionOnSet(finalized, E \ P)
      BY <1>3, <3>1, <3>2, SumUnion
    <3>4. t \in Nat /\ SumFunctionOnSet(finalized, E \ P) \in Nat
      BY <1>3, <2>2, <3>2, SumNat
    <3>5. s = t + SumFunctionOnSet(finalized, E \ P)
      BY <3>1, <3>3 DEF s
    <3> HIDE DEF t
    <3> QED BY <3>4, <3>5
  <2>7. amount <= h
    <3> HIDE DEF amount, t, g, k
    <3>1. s * amount <= h * t
      BY <2>3, <2>4, <2>5
    <3> QED BY <1>5, <1>7, <2>1, <2>6, <3>1, HalfOfPool
  <2>8. 2 * amount <= pool
    <3> HIDE DEF amount
    <3> QED BY <1>5, <1>7, <2>7
  <2> HIDE DEF amount
  <2> QED BY <1>7, <1>8, <1>9, <1>10, <2>1, <2>8
<1> QED BY <1>11, <1>12

LEMMA FPInitKeepsInv == FeePoolAssumption /\ FPInit => FeesInv /\ EpochsInv
<1> SUFFICES ASSUME FeePoolAssumption, FPInit PROVE FeesInv /\ EpochsInv
  OBVIOUS
<1>1. FPTypeOK /\ payouts = <<>> /\ DOMAIN payouts = {} /\ payouts \in Seq(Payout)
  BY DEF FPInit, FPTypeOK, FeePoolAssumption
<1>2. TotalOf([n \in Earner |-> 0]) = 0
  <2> DEFINE z == [n \in Earner |-> 0]
  <2>1. \A n \in Earner : z[n] = 0
    OBVIOUS
  <2> HIDE DEF z
  <2>2. SumFunctionOnSet(z, Earner) = 0
    BY <2>1, SumZero DEF FeePoolAssumption
  <2> QED BY <2>2 DEF TotalOf, z
<1>3. TotalOf(earned) = 0 /\ TotalOf(slashed) = 0
  BY <1>2 DEF FPInit
<1>4. PaidOut(payouts) = 0
  BY <1>1, PaidOutFacts
<1> QED BY <1>1, <1>3, <1>4 DEF FPInit, FeesInv, EpochsInv, EpochsApart

LEMMA CollectKeepsInv ==
  ASSUME FeePoolAssumption, FPTypeOK, NEW n \in Earner, NEW fee \in FeeAmount,
         Collect(n, fee)
  PROVE  FPTypeOK' /\ (FeesInv => FeesInv')
<1>1. /\ fee \in Nat /\ MaxFees \in Nat /\ MaxCount \in Nat
      /\ collected \in 0..MaxFees /\ pool \in 0..collected
      /\ finalized \in [Earner -> 0..MaxCount]
  BY DEF FPTypeOK, FeePoolAssumption
<1>2. /\ collected' = SaturatingSum(collected, fee) /\ pool' = SaturatingSum(pool, fee)
      /\ finalized' = [finalized EXCEPT ![n] = @ + 1] /\ finalized[n] < MaxCount
      /\ UNCHANGED <<lastEpoch, payouts, earned, slashed, epochStep>>
  BY DEF Collect
<1>3. /\ collected' \in 0..MaxFees /\ pool' \in 0..collected' /\ collected <= collected'
      /\ collected' < MaxFees => /\ collected < MaxFees
                                 /\ collected' = collected + fee /\ pool' = pool + fee
  BY <1>1, <1>2 DEF SaturatingSum
<1>4. FPTypeOK'
  BY <1>1, <1>2, <1>3 DEF FPTypeOK
<1>5. ASSUME FeesInv PROVE FeesInv'
  <2>1. TotalOf(earned)' = TotalOf(earned) /\ TotalOf(slashed)' = TotalOf(slashed)
        /\ PaidOut(payouts)' = PaidOut(payouts)
    BY <1>2 DEF TotalOf, PaidOut
  <2>2. TotalOf(earned) \in Nat /\ TotalOf(slashed) \in Nat
    BY TotalFacts DEF FPTypeOK
  <2>3. \A i \in DOMAIN payouts : payouts[i].amount \in Nat
    <3>1. \A i \in DOMAIN payouts : payouts[i].amount \in 1..MaxFees
      BY PayoutFacts DEF FPTypeOK
    <3> QED BY <1>1, <3>1
  <2>4. (\A i \in DOMAIN payouts : 2 * payouts[i].amount <= collected)'
    BY <1>1, <1>2, <1>3, <1>5, <2>3 DEF FeesInv
  <2>5. (collected < MaxFees => pool + (TotalOf(earned) + TotalOf(slashed)) = collected)'
    <3> DEFINE paid == TotalOf(earned) + TotalOf(slashed)
    <3>1. paid \in Nat /\ (collected < MaxFees => pool + paid = collected)
      BY <1>5, <2>2 DEF FeesInv
    <3> HIDE DEF paid
    <3>2. collected' < MaxFees => pool' + paid = collected'
      BY <1>1, <1>3, <3>1
    <3>3. MaxFees' = MaxFees /\ (TotalOf(earned) + TotalOf(slashed))' = paid
      BY <2>1 DEF paid
    <3> QED BY <3>2, <3>3
  <2> QED BY <1>4, <1>5, <2>1, <2>4, <2>5 DEF FeesInv
<1> QED BY <1>4, <1>5

LEMMA DistributeKeepsInv ==
  ASSUME FeePoolAssumption, FPTypeOK, NEW R \in SUBSET Earner,
         DistributeEpochRewards(R)
  PROVE  FPTypeOK' /\ (FeesInv => FeesInv') /\ (EpochsInv => EpochsInv')
<1> DEFINE r == EpochRewards(R)
           amount == Outlay(R)
<1>1. /\ DOMAIN r \subseteq Earner /\ \A n \in DOMAIN r : r[n] \in Nat
      /\ amount \in Nat /\ 2 * amount <= pool
      /\ amount # 0 => ShouldDistribute
  BY RewardsFacts
<1>2. /\ MaxFees \in Nat /\ Epoch \in Nat /\ collected \in 0..MaxFees /\ pool \in 0..collected
      /\ lastEpoch \in 0..epochStep /\ epochStep \in 0..LastEpochStep
      /\ LastEpochStep \in Nat /\ payouts \in Seq(Payout)
      /\ earned \in [Earner -> Nat] /\ slashed \in [Earner -> Nat]
  BY DEF FPTypeOK, FeePoolAssumption
<1> DEFINE x == [step |-> epochStep, amount |-> amount]
<1>3. /\ lastEpoch' = EpochAfter
      /\ earned' = [n \in Earner |-> IF n \in DOMAIN r
                                     THEN earned[n] + r[n] ELSE earned[n]]
      /\ pool' = pool - amount
      /\ payouts' = IF amount = 0 THEN payouts ELSE Append(payouts, x)
      /\ UNCHANGED <<collected, finalized, slashed, epochStep>>
  BY DEF DistributeEpochRewards, Outlay
<1> HIDE DEF r, amount
<1>4. amount # 0 => x \in Payout
  BY <1>1, <1>2 DEF Payout
<1>5. lastEpoch' \in 0..epochStep
  BY <1>2, <1>3 DEF EpochAfter
<1>6. payouts' \in Seq(Payout)
  BY <1>2, <1>3, <1>4
<1>7. earned' \in [Earner -> Nat]
  BY <1>1, <1>2, <1>3
<1>8. FPTypeOK'
  <2>1. pool' \in 0..collected
    BY <1>1, <1>2, <1>3
  <2> QED BY <1>2, <1>3, <1>5, <1>6, <1>7, <2>1 DEF FPTypeOK
<1>9. ASSUME FeesInv PROVE FeesInv'
  <2>1. TotalOf(earned) \in Nat /\ TotalOf(slashed) \in Nat
    BY TotalFacts DEF FPTypeOK
  <2>2. TotalOf(earned') = TotalOf(earned) + amount
    <3> DEFINE D == DOMAIN r
               g == [n \in Earner |-> IF n \in D THEN r[n] ELSE 0]
               h == earned'
    <3>1. \A n \in Earner : /\ earned[n] \in Int /\ g[n] \in Int
                            /\ h[n] = earned[n] + g[n]
      BY <1>1, <1>2, <1>3
    <3>2. D \cup (Earner \ D) = Earner /\ D \cap (Earner \ D) = {}
      BY <1>1
    <3>3. IsFiniteSet(D) /\ IsFiniteSet(Earner \ D) /\ IsFiniteSet(Earner)
      BY <1>1, FS_Subset DEF FeePoolAssumption
    <3>4. \A n \in D : r[n] \in Int /\ r[n] = g[n]
      BY <1>1
    <3>5. \A n \in Earner \ D : g[n] = 0
      OBVIOUS
    <3> HIDE DEF D, g, h
    <3>6. TotalOf(h) = TotalOf(earned) + TotalOf(g)
      BY <3>1, <3>3, SumPlus DEF TotalOf
    <3>7. SumFunctionOnSet(g, D \cup (Earner \ D))
            = SumFunctionOnSet(g, D) + SumFunctionOnSet(g, Earner \ D)
      BY <3>1, <3>2, <3>3, SumUnion
    <3>8. SumFunctionOnSet(g, Earner \ D) = 0
      BY <3>3, <3>5, SumZero
    <3>9. SumFunctionOnSet(g, D) = SumFunctionOnSet(r, D)
      BY <3>3, <3>4, SumSame
    <3>10. amount = SumFunctionOnSet(r, D)
      BY DEF amount, Outlay, SumFunction, D, r
    <3>11. TotalOf(g) = amount + 0
      BY <3>2, <3>7, <3>8, <3>9, <3>10 DEF TotalOf
    <3> QED BY <1>1, <3>6, <3>11 DEF h
  <2>3. PaidOut(payouts') = PaidOut(payouts) + amount /\ PaidOut(payouts) \in Nat
    <3>1. PaidOut(payouts) \in Nat
      BY <1>2, PaidOutFacts
    <3>2. CASE amount = 0
      BY <1>3, <3>1, <3>2
    <3>3. CASE amount # 0
      <4> HIDE DEF x
      <4>1. PaidOut(Append(payouts, x)) = PaidOut(payouts) + x.amount
        BY <1>2, <1>4, <3>3, PaidOutFacts
      <4> QED BY <1>3, <3>1, <3>3, <4>1 DEF x
    <3> QED BY <3>2, <3>3
  <2>4. TotalOf(slashed') = TotalOf(slashed)
    BY <1>3
  <2>5. (collected < MaxFees => pool + (TotalOf(earned) + TotalOf(slashed)) = collected)'
    <3> DEFINE e == TotalOf(earned)
               f == TotalOf(slashed)
               d == TotalOf(earned')
    <3>1. /\ e \in Nat /\ f \in Nat /\ d = e + amount
          /\ (collected < MaxFees => pool + (e + f) = collected)
      BY <1>9, <2>1, <2>2 DEF FeesInv
    <3> HIDE DEF d, e, f
    <3>2. collected < MaxFees => pool' + (d + f) = collected
      BY <1>1, <1>2, <1>3, <3>1
    <3>3. (TotalOf(earned) + TotalOf(slashed))' = d + f
      BY <2>4 DEF d, f, TotalOf
    <3> QED BY <1>3, <3>2, <3>3
  <2>6. (TotalOf(earned) + TotalOf(slashed) = PaidOut(payouts))'
    <3>1. TotalOf(earned) + TotalOf(slashed) = PaidOut(payouts)
      BY <1>9 DEF FeesInv
    <3>2. TotalOf(earned') + TotalOf(slashed') = PaidOut(payouts')
      <4> DEFINE a == TotalOf(earned)
                 b == TotalOf(slashed)
                 c == PaidOut(payouts)
      <4> HIDE DEF a, b, c
      <4>1. a \in Nat /\ b \in Nat /\ c \in Nat /\ a + b = c
        BY <2>1, <2>3, <3>1 DEF a, b, c
      <4>2. TotalOf(earned') = a + amount /\ TotalOf(slashed') = b
            /\ PaidOut(payouts') = c + amount
        BY <2>2, <2>3, <2>4 DEF a, b, c
      <4> QED BY <1>1, <4>1, <4>2
    <3> QED BY <3>2 DEF TotalOf, PaidOut
  <2>7. (\A i \in DOMAIN payouts : 2 * payouts[i].amount <= collected)'
    <3>1. \A i \in DOMAIN payouts : 2 * payouts[i].amount <= collected
      BY <1>9 DEF FeesInv
    <3>2. 2 * x.amount <= collected
      BY <1>1, <1>2
    <3> HIDE DEF x
    <3>3. \A i \in DOMAIN payouts' :
            \/ i \in DOMAIN payouts /\ payouts'[i] = payouts[i]
            \/ payouts'[i] = x
      BY <1>2, <1>3
    <3> QED BY <1>3, <3>1, <3>2, <3>3
  <2> QED BY <1>8, <2>5, <2>6, <2>7 DEF FeesInv
<1>10. ASSUME EpochsInv PROVE EpochsInv'
  <2> DEFINE k == Len(payouts) + 1
  <2>1. \A i \in DOMAIN payouts : payouts[i].step \in 0..LastEpochStep
    BY <1>2, PayoutFacts
  <2>2. CASE amount = 0
    <3>1. payouts' = payouts /\ lastEpoch <= lastEpoch' /\ lastEpoch \in Int
          /\ lastEpoch' \in Int
      BY <1>2, <1>3, <2>2 DEF EpochAfter
    <3> QED BY <1>8, <1>10, <2>1, <3>1 DEF EpochsInv, EpochsApart
  <2>3. CASE amount # 0
    <3>1. lastEpoch' = epochStep /\ epochStep >= lastEpoch + Epoch
      BY <1>1, <1>3, <2>3 DEF EpochAfter, ShouldDistribute
    <3>2. /\ DOMAIN payouts = 1..Len(payouts) /\ DOMAIN payouts' = 1..k
          /\ Len(payouts) \in Nat
          /\ payouts'[k].step = epochStep
          /\ \A i \in DOMAIN payouts : payouts'[i] = payouts[i]
      BY <1>2, <1>3, <2>3
    <3>3. \A i \in DOMAIN payouts : payouts[i].step + Epoch <= epochStep
      BY <1>2, <1>10, <2>1, <3>1 DEF EpochsInv
    <3>4. \A i \in DOMAIN payouts' : payouts'[i].step <= lastEpoch'
      BY <1>2, <2>1, <3>1, <3>2, <3>3
    <3>5. ASSUME NEW i \in DOMAIN payouts', NEW j \in DOMAIN payouts', i < j
          PROVE  payouts'[j].step - payouts'[i].step >= Epoch
      <4>1. i \in DOMAIN payouts
        BY <3>2, <3>5
      <4>2. CASE j \in DOMAIN payouts
        BY <1>10, <3>2, <3>5, <4>1, <4>2 DEF EpochsInv, EpochsApart
      <4>3. CASE j = k
        BY <1>2, <2>1, <3>2, <3>3, <4>1, <4>3
      <4> QED BY <3>2, <4>2, <4>3
    <3> QED BY <1>8, <3>4, <3>5 DEF EpochsInv, EpochsApart
  <2> QED BY <2>2, <2>3
<1> QED BY <1>8, <1>9, <1>10

LEMMA SlashKeepsInv ==
  ASSUME FeePoolAssumption, FPTypeOK, NEW n \in Earner, SlashNode(n)
  PROVE  FPTypeOK' /\ (FeesInv => FeesInv')
<1>1. /\ earned \in [Earner -> Nat] /\ slashed \in [Earner -> Nat]
      /\ SlashTenths \in 0..10 /\ IsFiniteSet(Earner)
  BY DEF FPTypeOK, FeePoolAssumption
<1>2. /\ earned' = [earned EXCEPT ![n] = AfterSlash(@)]
      /\ slashed' = [slashed EXCEPT ![n] = @ + earned[n] - AfterSlash(earned[n])]
      /\ UNCHANGED <<collected, pool, lastEpoch, payouts, finalized, epochStep>>
  BY DEF SlashNode
<1>3. AfterSlash(earned[n]) \in 0..earned[n] /\ earned[n] \in Nat
  <2>1. \A a \in Nat, t \in 0..10 :
          (a * (10 - t)) \div 10 \in Nat /\ (a * (10 - t)) \div 10 <= a
    OBVIOUS
  <2>2. earned[n] \in Nat
    BY <1>1
  <2> QED BY <1>1, <2>1, <2>2 DEF AfterSlash
<1> DEFINE d == earned[n] - AfterSlash(earned[n])
<1>4. d \in Nat
  BY <1>3
<1>5. /\ earned' = [earned EXCEPT ![n] = earned[n] - d]
      /\ slashed' = [slashed EXCEPT ![n] = slashed[n] + d]
      /\ earned[n] - d \in Nat /\ slashed[n] + d \in Nat /\ slashed[n] \in Nat
  <2>1. slashed[n] \in Nat
    BY <1>1
  <2> DEFINE a == AfterSlash(earned[n])
  <2> HIDE DEF a
  <2>2. a \in 0..earned[n] /\ earned[n] - (earned[n] - a) = a
        /\ slashed[n] + earned[n] - a = slashed[n] + (earned[n] - a)
    BY <1>3, <2>1 DEF a
  <2>3. earned[n] - d = a /\ slashed[n] + d = slashed[n] + earned[n] - a
    BY <2>2 DEF a
  <2>4. earned[n] - d \in Nat /\ slashed[n] + d \in Nat
    BY <1>4, <2>1, <2>2, <2>3
  <2>5. earned' = [earned EXCEPT ![n] = earned[n] - d]
    BY <1>2, <2>3 DEF a
  <2>6. slashed' = [slashed EXCEPT ![n] = slashed[n] + d]
    BY <1>2, <2>3 DEF a
  <2> QED BY <1>3, <2>1, <2>4, <2>5, <2>6
<1> HIDE DEF d
<1>6. earned' \in [Earner -> Nat] /\ slashed' \in [Earner -> Nat]
  BY <1>1, <1>5
<1>7. FPTypeOK'
  BY <1>2, <1>6 DEF FPTypeOK
<1>8. ASSUME FeesInv PROVE FeesInv'
  <2>1. /\ \A m \in Earner : /\ earned[m] \in Int /\ earned'[m] \in Int
                             /\ slashed[m] \in Int /\ slashed'[m] \in Int
        /\ \A m \in Earner \ {n} : earned[m] = earned'[m] /\ slashed[m] = slashed'[m]
        /\ earned'[n] = earned[n] - d /\ slashed'[n] = slashed[n] + d
    BY <1>1, <1>5, <1>6
  <2>2. TotalOf(earned') = TotalOf(earned) - earned[n] + earned'[n]
    BY <1>1, <2>1, SumUpdate DEF TotalOf
  <2>3. TotalOf(slashed') = TotalOf(slashed) - slashed[n] + slashed'[n]
    BY <1>1, <2>1, SumUpdate DEF TotalOf
  <2>4. TotalOf(earned) \in Nat /\ TotalOf(slashed) \in Nat
    BY <1>1, TotalFacts
  <2>5. TotalOf(earned') + TotalOf(slashed') = TotalOf(earned) + TotalOf(slashed)
    BY <1>3, <1>4, <1>5, <2>1, <2>2, <2>3, <2>4
  <2>6. (TotalOf(earned) + TotalOf(slashed))' = TotalOf(earned) + TotalOf(slashed)
    BY <2>5 DEF TotalOf
  <2>7. PaidOut(payouts)' = PaidOut(payouts)
    BY <1>2 DEF PaidOut
  <2> QED BY <1>2, <1>7, <1>8, <2>6, <2>7 DEF FeesInv
<1> QED BY <1>7, <1>8

LEMMA FPNextKeepsInv ==
  FeePoolAssumption /\ FPTypeOK /\ [FPNext]_fpVars
    => FPTypeOK' /\ (FeesInv => FeesInv') /\ (EpochsInv => EpochsInv')
<1> SUFFICES ASSUME FeePoolAssumption, FPTypeOK, [FPNext]_fpVars
             PROVE  FPTypeOK' /\ (FeesInv => FeesInv') /\ (EpochsInv => EpochsInv')
  OBVIOUS
<1>1. ASSUME UNCHANGED <<collected, pool, payouts, earned, slashed>>, FPTypeOK'
      PROVE  FeesInv => FeesInv'
  BY <1>1 DEF FeesInv, TotalOf, PaidOut
<1>2. ASSUME UNCHANGED payouts, lastEpoch <= lastEpoch', FPTypeOK'
      PROVE  EpochsInv => EpochsInv'
  <2>1. \A i \in DOMAIN payouts : payouts[i].step \in Int
    <3>1. \A i \in DOMAIN payouts : payouts[i].step \in 0..LastEpochStep
      BY PayoutFacts DEF FPTypeOK
    <3> QED BY <3>1
  <2>2. lastEpoch \in Int /\ lastEpoch' \in Int
    BY <1>2 DEF FPTypeOK, FeePoolAssumption
  <2> QED BY <1>2, <2>1, <2>2 DEF EpochsInv, EpochsApart
<1>3. lastEpoch <= lastEpoch /\ lastEpoch <= EpochAfter /\ EpochAfter \in 0..epochStep
  BY DEF FPTypeOK, EpochAfter, FeePoolAssumption
<1>4. CASE EpochTick
  <2>1. FPTypeOK'
    BY <1>4 DEF EpochTick, FPTypeOK, FeePoolAssumption
  <2>2. UNCHANGED <<collected, pool, lastEpoch, payouts, finalized, earned, slashed>>
    BY <1>4 DEF EpochTick
  <2> QED BY <1>1, <1>2, <1>3, <2>1, <2>2
<1>5. CASE ComputeEpochRewards
  <2>1. /\ UNCHANGED <<collected, pool, payouts, finalized, earned, slashed, epochStep>>
        /\ lastEpoch' = EpochAfter
    BY <1>5 DEF ComputeEpochRewards
  <2>2. FPTypeOK'
    BY <1>3, <2>1 DEF FPTypeOK
  <2> QED BY <1>1, <1>2, <1>3, <2>1, <2>2
<1>6. ASSUME NEW n \in Earner, NEW fee \in FeeAmount, Collect(n, fee)
      PROVE  FPTypeOK' /\ (FeesInv => FeesInv') /\ (EpochsInv => EpochsInv')
  <2>1. FPTypeOK' /\ (FeesInv => FeesInv')
    BY <1>6, CollectKeepsInv
  <2>2. UNCHANGED <<payouts, lastEpoch>>
    BY <1>6 DEF Collect
  <2> QED BY <1>2, <1>3, <2>1, <2>2
<1>7. ASSUME NEW n \in Earner, SlashNode(n)
      PROVE  FPTypeOK' /\ (FeesInv => FeesInv') /\ (EpochsInv => EpochsInv')
  <2>1. FPTypeOK' /\ (FeesInv => FeesInv')
    BY <1>7, SlashKeepsInv
  <2>2. UNCHANGED <<payouts, lastEpoch>>
    BY <1>7 DEF SlashNode
  <2> QED BY <1>2, <1>3, <2>1, <2>2
<1>8. CASE UNCHANGED fpVars
  BY <1>8 DEF fpVars, FPTypeOK, FeesInv, EpochsInv, EpochsApart, TotalOf, PaidOut
<1> QED BY <1>4, <1>5, <1>6, <1>7, <1>8, DistributeKeepsInv DEF FPNext

LEMMA FeePoolInvariance == FPSpec => [](FPTypeOK /\ FeesInv /\ EpochsInv)
<1>1. FeesInv => FPTypeOK
  BY DEF FeesInv
<1> QED
  BY <1>1, FPInitKeepsInv, FPNextKeepsInv, FeePoolAssumption, PTL DEF FPSpec

(* The pool never holds more than was collected, nor less than nothing,    *)
(* however the products of the shares wrap around.                         *)
THEOREM FPTypeCorrect == FPSpec => []FPTypeOK
BY FeePoolInvariance, PTL

(* Two payouts of the pool are at least an epoch apart.                    *)
THEOREM EpochsApartHolds == FPSpec => []EpochsApart
<1>1. EpochsInv => EpochsApart
  BY DEF EpochsInv
<1> QED BY <1>1, FeePoolInvariance, PTL

(* distribute_epoch_rewards and slash_node lose and make no fees: until it *)
(* saturates, what was collected is in the pool, with the nodes or slashed,*)
(* rounding included, and a payout is at most half of what was collected.  *)
THEOREM FeesConservedHolds == FPSpec => []FeesConserved
<1>1. ASSUME FPTypeOK, FeesInv PROVE FeesConserved
  <2>1. SumFunction(earned) = TotalOf(earned) /\ SumFunction(slashed) = TotalOf(slashed)
    BY <1>1, FeePoolAssumption, TotalFacts DEF FPTypeOK
  <2>2. SumFunction([i \in DOMAIN payouts |-> payouts[i].amount]) = PaidOut(payouts)
    BY <1>1, PaidOutFacts DEF FPTypeOK
  <2> QED BY <1>1, <2>1, <2>2 DEF FeesInv, FeesConserved
<1> QED BY <1>1, FeePoolInvariance, PTL

-----------------------------------------------------------------------------
(* The floor of a reputation.  The streak is the number of updates in a    *)
(* row, up to the last, that reached the threshold; the floor is that of   *)
(* the latest update that ended a streak, as steps only grow.              *)
Raw == [raw : {"low", "high"}, step : Bootstrap..LastUpdateStep]

Lifted ==
  \/ past[Len(past)].raw = "high"
  \/ past[Len(past)].step < floorUntil
  \/ past[Len(past)].step < Bootstrap + Extension

FloorInv ==
  /\ RepTypeOK
  /\ past \in Seq(Raw)
  /\ \A i \in DOMAIN past : past[i].step <= repStep
  /\ \A i \in (Len(past) - streak + 1)..Len(past) : past[i].raw = "high"
  /\ streak < Len(past) => past[Len(past) - streak].raw = "low"
  /\ \A i \in DOMAIN past : StreakEnded(i) => past[i].step + FloorGrace <= floorUntil
  /\ floorUntil > 0 =>
       \E i \in DOMAIN past : StreakEnded(i) /\ floorUntil = past[i].step + FloorGrace
  /\ past # <<>> /\ reputation = "high" => Lifted
  /\ past # <<>> /\ Lifted /\ ~cut => reputation = "high"

LEMMA RawFacts ==
  ASSUME NEW p \in Seq(Raw), NEW i \in DOMAIN p
  PROVE  p[i].step \in Bootstrap..LastUpdateStep /\ p[i].raw \in {"low", "high"}
<1>1. p[i] \in Raw
  OBVIOUS
<1> QED BY <1>1 DEF Raw

LEMMA RepInitKeepsInv == ReputationAssumption /\ RepInit => FloorInv
<1> SUFFICES ASSUME ReputationAssumption, RepInit PROVE FloorInv
  OBVIOUS
<1>1. past = <<>> /\ DOMAIN past = {} /\ Len(past) = 0 /\ past \in Seq(Raw)
  BY DEF RepInit
<1>2. RepTypeOK
  <2>1. cut \in BOOLEAN
    BY ZenonT(20) DEF RepInit
  <2> QED BY <1>1, <2>1 DEF RepInit, RepTypeOK, ReputationAssumption
<1>3. streak = 0 /\ floorUntil = 0
  BY DEF RepInit
<1>4. (Len(past) - streak + 1)..Len(past) = {}
  BY <1>1, <1>3
<1> HIDE DEF Raw, RepTypeOK
<1> QED BY <1>1, <1>2, <1>3, <1>4 DEF FloorInv

(* An update ends a streak of MinSteps if and only if the streak with it   *)
(* is that long.                                                           *)
LEMMA UpdateKeepsInv ==
  ASSUME ReputationAssumption, FloorInv,
         NEW raw \in {"low", "high"}, NEW violating \in BOOLEAN,
         Update(raw, violating)
  PROVE  FloorInv'
<1>0. PICK n \in Nat : n = Len(past)
  BY DEF FloorInv
<1> DEFINE x == [raw |-> raw, step |-> repStep]
           longer == StreakAfter(raw)
<1>1. /\ Bootstrap \in Nat /\ Extension \in Nat /\ MinSteps \in Nat \ {0}
      /\ FloorGrace \in Nat /\ LastUpdateStep \in Nat
  BY DEF ReputationAssumption
<1>2. /\ repStep \in 0..LastUpdateStep /\ repStep >= Bootstrap
      /\ repStep' = repStep /\ updates' \in 0..2
      /\ violations' \in 0..(n + 1)
      /\ streak \in 0..n /\ streak' = longer
      /\ floorUntil \in 0..(LastUpdateStep + FloorGrace)
      /\ floorUntil' = FloorAfter(longer)
      /\ reputation' = Floored(raw, floorUntil')
      /\ outliers' \in 0..3 /\ cut' = FALSE
      /\ past \in Seq(Raw) /\ past' = Append(past, x)
  BY <1>0 DEF Update, Called, FloorInv, RepTypeOK
<1>3. x \in Raw
  BY <1>1, <1>2 DEF Raw
<1>4. /\ n \in Nat /\ DOMAIN past = 1..n /\ DOMAIN past' = 1..(n + 1)
      /\ Len(past') = n + 1 /\ past' \in Seq(Raw)
      /\ \A i \in 1..n : past'[i] = past[i]
      /\ past'[n + 1] = x
  BY <1>0, <1>2, <1>3
<1>5. x.raw = raw /\ x.step = repStep
  OBVIOUS
<1>6. longer \in 0..(n + 1)
  BY <1>2, <1>4 DEF StreakAfter
<1>7. floorUntil' \in 0..(LastUpdateStep + FloorGrace)
  BY <1>1, <1>2 DEF FloorAfter
<1>8. RepTypeOK'
  <2>1. \A i \in DOMAIN past' : past'[i].step \in Bootstrap..LastUpdateStep
    BY <1>4, RawFacts
  <2>2. reputation' \in {"low", "high"}
    BY <1>2 DEF Floored
  <2> HIDE DEF longer
  <2> QED BY <1>2, <1>4, <1>6, <1>7, <2>1, <2>2 DEF RepTypeOK
<1> HIDE DEF x
<1>9. n \in Nat /\ streak \in 0..n /\ MinSteps \in Nat \ {0}
  BY <1>1, <1>2
<1>10. repStep \in Int /\ FloorGrace \in Int /\ x.step = repStep /\ x.raw = raw
  BY <1>1, <1>2, <1>5
<1>11. \A i \in DOMAIN past' : past'[i].step <= repStep'
  BY <1>1, <1>2, <1>4, <1>5 DEF FloorInv
<1>12. /\ \A i \in (n + 1 - longer + 1)..(n + 1) : past'[i].raw = "high"
       /\ longer < n + 1 => past'[n + 1 - longer].raw = "low"
  <2>1. CASE raw = "high"
    <3>1. longer = streak + 1
      BY <2>1 DEF StreakAfter
    <3>2. n + 1 - longer = n - streak
      <4> HIDE DEF longer
      <4> QED BY <1>9, <3>1
    <3>3. \A i \in (n - streak + 1)..n : past[i].raw = "high" /\ i \in 1..n
      BY <1>0, <1>2, <1>4 DEF FloorInv
    <3>4. \A i \in (n - streak + 1)..(n + 1) : past'[i].raw = "high"
      <4> SUFFICES ASSUME NEW i \in (n - streak + 1)..(n + 1)
                   PROVE  past'[i].raw = "high"
        OBVIOUS
      <4>1. i \in (n - streak + 1)..n \/ i = n + 1
        BY <1>2, <1>4
      <4> QED BY <1>4, <1>5, <2>1, <3>3, <4>1
    <3>5. longer < n + 1 => past'[n - streak].raw = "low"
      <4>1. longer < n + 1 => streak < n /\ n - streak \in 1..n
        BY <1>2, <1>4, <3>1
      <4> QED BY <1>0, <1>4, <4>1 DEF FloorInv
    <3> QED BY <3>2, <3>4, <3>5
  <2>2. CASE raw = "low"
    <3>1. longer = 0 /\ n + 1 - 0 = n + 1 /\ (n + 1 + 1)..(n + 1) = {}
      BY <1>4, <2>2 DEF StreakAfter
    <3> QED BY <1>4, <1>5, <2>2, <3>1
  <2> QED BY <2>1, <2>2
<1> HIDE DEF longer
<1>13. \A i \in 1..n : StreakEnded(i)' <=> StreakEnded(i)
  <2> SUFFICES ASSUME NEW i \in 1..n PROVE StreakEnded(i)' <=> StreakEnded(i)
    OBVIOUS
  <2>1. i >= MinSteps => \A j \in (i - MinSteps + 1)..i : past'[j] = past[j]
    BY <1>1, <1>4
  <2> QED BY <2>1 DEF StreakEnded
<1>14. StreakEnded(n + 1)' <=> longer >= MinSteps
  <2>1. ASSUME longer >= MinSteps PROVE StreakEnded(n + 1)'
    <3>1. n + 1 >= MinSteps /\ \A j \in (n + 1 - MinSteps + 1)..(n + 1) :
                                 j \in (n + 1 - longer + 1)..(n + 1)
      BY <1>6, <1>9, <2>1
    <3>2. \A j \in (n + 1 - MinSteps + 1)..(n + 1) : past'[j].raw = "high"
      BY <1>12, <3>1
    <3> QED BY <3>1, <3>2 DEF StreakEnded
  <2>2. ASSUME StreakEnded(n + 1)', ~(longer >= MinSteps) PROVE FALSE
    <3>1. /\ n + 1 >= MinSteps
          /\ \A j \in (n + 1 - MinSteps + 1)..(n + 1) : past'[j].raw = "high"
      BY <2>2 DEF StreakEnded
    <3>2. longer < n + 1 /\ n + 1 - longer \in (n + 1 - MinSteps + 1)..(n + 1)
      BY <1>6, <1>9, <2>2, <3>1
    <3> QED BY <1>12, <3>1, <3>2
  <2> QED BY <2>1, <2>2
<1>15. \A i \in 1..n : past[i].step \in Int /\ past[i].step <= repStep
  <2>1. \A i \in 1..n : past[i].step \in Bootstrap..LastUpdateStep
    BY <1>2, <1>4, RawFacts
  <2> QED BY <1>1, <1>4, <2>1 DEF FloorInv
<1>16. /\ \A i \in DOMAIN past' : StreakEnded(i)' => past'[i].step + FloorGrace <= floorUntil'
       /\ floorUntil' > 0 =>
            \E i \in DOMAIN past' :
              StreakEnded(i)' /\ floorUntil' = past'[i].step + FloorGrace
  <2>1. CASE longer >= MinSteps
    <3>1. floorUntil' = repStep + FloorGrace
      BY <1>2, <2>1 DEF FloorAfter
    <3>2. \A i \in DOMAIN past' : past'[i].step + FloorGrace <= floorUntil'
      <4> SUFFICES ASSUME NEW i \in 1..(n + 1)
                   PROVE  past'[i].step + FloorGrace <= floorUntil'
        BY <1>4
      <4>1. past'[i].step \in Int /\ past'[i].step <= repStep
        <5>1. CASE i \in 1..n
          BY <1>4, <1>15, <5>1
        <5>2. CASE i = n + 1
          BY <1>4, <1>10, <5>2
        <5> QED BY <1>9, <5>1, <5>2
      <4> QED BY <1>10, <3>1, <4>1
    <3>3. n + 1 \in DOMAIN past' /\ StreakEnded(n + 1)'
          /\ floorUntil' = past'[n + 1].step + FloorGrace
      <4>1. n + 1 \in 1..(n + 1)
        BY <1>9
      <4> QED BY <1>4, <1>14, <1>10, <2>1, <3>1, <4>1
    <3> QED BY <3>2, <3>3
  <2>2. CASE ~(longer >= MinSteps)
    <3>1. floorUntil' = floorUntil
      BY <1>2, <2>2 DEF FloorAfter
    <3>2. \A i \in DOMAIN past' : StreakEnded(i)' => i \in 1..n
      <4>1. \A i \in 1..(n + 1) : i \in 1..n \/ i = n + 1
        BY <1>9
      <4>2. ~ StreakEnded(n + 1)'
        BY <1>14, <2>2
      <4> QED BY <1>4, <4>1, <4>2
    <3>3. \A i \in 1..n : StreakEnded(i) => past[i].step + FloorGrace <= floorUntil
      BY <1>4 DEF FloorInv
    <3>4. floorUntil > 0 =>
            \E i \in 1..n : StreakEnded(i) /\ floorUntil = past[i].step + FloorGrace
      BY <1>4 DEF FloorInv
    <3>5. 1..n \subseteq DOMAIN past'
      BY <1>4
    <3> QED BY <1>4, <1>13, <3>1, <3>2, <3>3, <3>4, <3>5
  <2> QED BY <2>1, <2>2
<1>17. /\ past'[Len(past')] = x /\ past' # <<>>
       /\ (reputation' = "high" <=> \/ raw = "high"
                                    \/ repStep < floorUntil'
                                    \/ repStep < Bootstrap + Extension)
  <2>1. reputation' = "high" <=> \/ raw = "high"
                                 \/ repStep < floorUntil'
                                 \/ repStep < Bootstrap + Extension
    BY <1>2 DEF Floored
  <2> QED BY <1>4, <2>1
<1>18. streak' = longer /\ Len(past') = n + 1
  BY <1>2, <1>4
<1>19. \A i \in (Len(past') - streak' + 1)..Len(past') : past'[i].raw = "high"
  <2>1. (Len(past') - streak' + 1)..Len(past') = (n + 1 - longer + 1)..(n + 1)
    BY <1>6, <1>9, <1>18
  <2> QED BY <1>12, <2>1
<1>20. streak' < Len(past') => past'[Len(past') - streak'].raw = "low"
  <2>1. Len(past') - streak' = n + 1 - longer
    BY <1>6, <1>9, <1>18
  <2> QED BY <1>12, <1>18, <2>1
<1>21. past'[Len(past')].raw = raw /\ past'[Len(past')].step = repStep
  BY <1>5, <1>17
<1>22. past' \in Seq(Raw)
  BY <1>4
<1>23. Lifted' <=> reputation' = "high"
  BY <1>17, <1>21, <1>2 DEF Lifted
<1> QED BY <1>8, <1>11, <1>16, <1>19, <1>20, <1>22, <1>23 DEF FloorInv, Raw

LEMMA RepNextKeepsInv ==
  ReputationAssumption /\ FloorInv /\ [RepNext]_repVars => FloorInv'
<1> SUFFICES ASSUME ReputationAssumption, FloorInv, [RepNext]_repVars PROVE FloorInv'
  OBVIOUS
<1>1. CASE RepTick
  <2>1. /\ UNCHANGED <<reputation, streak, floorUntil, violations, outliers, past, cut>>
        /\ repStep < LastUpdateStep /\ repStep' = repStep + 1 /\ updates' = 0
    BY <1>1 DEF RepTick
  <2>2. repStep \in 0..LastUpdateStep /\ LastUpdateStep \in Nat
    BY DEF FloorInv, RepTypeOK, ReputationAssumption
  <2>3. RepTypeOK'
    BY <2>1, <2>2 DEF FloorInv, RepTypeOK
  <2>4. \A i \in DOMAIN past' : past'[i].step <= repStep'
    <3>1. \A i \in DOMAIN past : past[i].step \in Bootstrap..LastUpdateStep
      BY DEF FloorInv, RepTypeOK
    <3> QED BY <2>1, <2>2, <3>1 DEF FloorInv, ReputationAssumption
  <2>5. \A i : StreakEnded(i)' <=> StreakEnded(i)
    BY <2>1 DEF StreakEnded
  <2> QED BY <2>1, <2>3, <2>4, <2>5 DEF FloorInv, Lifted, Raw
<1>2. CASE WarmUp
  <2>1. /\ UNCHANGED <<repStep, streak, floorUntil, violations, outliers, past, cut>>
        /\ repStep < Bootstrap /\ updates < 2 /\ updates' = updates + 1
        /\ reputation' = "high"
    BY <1>2 DEF WarmUp, Called
  <2>2. past = <<>>
    <3> SUFFICES ASSUME past # <<>> PROVE FALSE
      OBVIOUS
    <3>1. past \in Seq(Raw)
      BY DEF FloorInv
    <3>2. 1 \in DOMAIN past
      BY <3>1
    <3>3. past[1].step \in Bootstrap..LastUpdateStep /\ past[1].step <= repStep
      BY <3>2 DEF FloorInv, RepTypeOK
    <3>4. repStep \in Int /\ Bootstrap \in Int
      BY DEF FloorInv, RepTypeOK, ReputationAssumption
    <3> QED BY <2>1, <3>3, <3>4
  <2>3. RepTypeOK'
    BY <2>1 DEF FloorInv, RepTypeOK
  <2>4. \A i : StreakEnded(i)' <=> StreakEnded(i)
    BY <2>1 DEF StreakEnded
  <2> QED BY <2>1, <2>2, <2>3, <2>4 DEF FloorInv, Lifted, Raw
<1>3. CASE UNCHANGED repVars
  <2>1. \A i : StreakEnded(i)' <=> StreakEnded(i)
    BY <1>3 DEF StreakEnded, repVars
  <2> QED BY <1>3, <2>1 DEF repVars, FloorInv, Lifted, RepTypeOK, Raw
<1>4. ASSUME UNCHANGED <<repStep, updates, streak, floorUntil, violations, past>>,
             outliers' \in 0..3,
             UNCHANGED <<reputation, cut>> \/ CutDown
      PROVE  FloorInv'
  <2>1. \A i : StreakEnded(i)' <=> StreakEnded(i)
    BY <1>4 DEF StreakEnded
  <2>2. Lifted' <=> Lifted
    BY <1>4 DEF Lifted
  <2>3. RepTypeOK'
    BY <1>4 DEF FloorInv, RepTypeOK, CutDown
  <2>4. /\ reputation' = "high" => reputation = "high"
        /\ cut' \/ UNCHANGED <<reputation, cut>>
    BY <1>4 DEF CutDown
  <2> QED BY <1>4, <2>1, <2>2, <2>3, <2>4 DEF FloorInv, Raw
<1>5. CASE ApplyReplayPenalty
  BY <1>4, <1>5 DEF ApplyReplayPenalty, FloorInv, RepTypeOK
<1>6. CASE MarkOutlier
  BY <1>4, <1>6 DEF MarkOutlier, FloorInv, RepTypeOK
<1> QED BY <1>1, <1>2, <1>3, <1>5, <1>6, UpdateKeepsInv DEF RepNext

LEMMA FloorIsExact == ReputationAssumption /\ FloorInv => FloorExact
<1> DEFINE Protected ==
             \/ Last(past).raw = "high"
             \/ Last(past).step < Bootstrap + Extension
             \/ \E i \in DOMAIN past :
                  StreakEnded(i) /\ Last(past).step < past[i].step + FloorGrace
<1> SUFFICES ASSUME ReputationAssumption, FloorInv, past # <<>>
             PROVE  /\ reputation = "high" => Protected
                    /\ Protected /\ ~cut => reputation = "high"
  BY DEF FloorExact
<1> DEFINE n == Len(past)
<1>1. Last(past) = past[n] /\ n \in DOMAIN past /\ past \in Seq(Raw)
  BY DEF FloorInv, Last
<1>2. \A i \in DOMAIN past : past[i].step \in Bootstrap..LastUpdateStep
  BY <1>1, RawFacts
<1>3. Bootstrap \in Nat /\ FloorGrace \in Nat /\ floorUntil \in Int /\ LastUpdateStep \in Nat
  BY DEF FloorInv, RepTypeOK, ReputationAssumption
<1>4. past[n].step < floorUntil <=>
        \E i \in DOMAIN past : StreakEnded(i) /\ past[n].step < past[i].step + FloorGrace
  <2>1. ASSUME past[n].step < floorUntil
        PROVE  \E i \in DOMAIN past :
                 StreakEnded(i) /\ past[n].step < past[i].step + FloorGrace
    <3>1. floorUntil > 0
      BY <1>1, <1>2, <1>3, <2>1
    <3> QED BY <2>1, <3>1 DEF FloorInv
  <2>2. ASSUME NEW i \in DOMAIN past, StreakEnded(i),
               past[n].step < past[i].step + FloorGrace
        PROVE  past[n].step < floorUntil
    <3>1. past[i].step + FloorGrace <= floorUntil
      BY <2>2 DEF FloorInv
    <3> QED BY <1>1, <1>2, <1>3, <2>2, <3>1
  <2> QED BY <2>1, <2>2
<1>5. Protected <=> Lifted
  BY <1>1, <1>4 DEF Lifted
<1> HIDE DEF Protected
<1> QED BY <1>5 DEF FloorInv

LEMMA FloorInvariance == RepSpec => []FloorInv
BY RepInitKeepsInv, RepNextKeepsInv, ReputationAssumption, PTL DEF RepSpec

(* The streak is never longer than the updates there were, and the floor   *)
(* reaches no further than the grace after the last step.                  *)
THEOREM RepTypeCorrect == RepSpec => []RepTypeOK
<1>1. FloorInv => RepTypeOK
  BY DEF FloorInv
<1> QED BY <1>1, FloorInvariance, PTL

(* The reputation is lifted by the floor exactly as long as the streaks of *)
(* the past entitle the node to it, but for penalties since its update.    *)
THEOREM FloorExactHolds == RepSpec => []FloorExact
<1>1. FloorInv => FloorExact
  BY ReputationAssumption, FloorIsExact
<1> QED BY <1>1, FloorInvariance, PTL

-----------------------------------------------------------------------------
(* The statistics of clock skew.  At any time the statistics over all are  *)
(* those by peer and the checks between their two locks, whatever the      *)
(* order in which the threads take them.                                   *)
Stats == [checked : Nat, warnings : Nat, severe : Nat, worst : Int, sum : Int]

(* The four statistics that add up *)
Added(s, k) ==
  CASE k = 1 -> s.checked [] k = 2 -> s.warnings [] k = 3 -> s.severe [] k = 4 -> s.sum

Adds(skew, k) ==
  CASE k = 1 -> 1
    [] k = 2 -> IF Verdict(skew) = "ok" THEN 0 ELSE 1
    [] k = 3 -> IF Verdict(skew) = "severe" THEN 1 ELSE 0
    [] k = 4 -> skew

Counts(k) == [p \in DOMAIN perPeer |-> Added(perPeer[p], k)]

Gains(k) == [h \in halfway |-> Adds(h.skew, k)]

SkewInv ==
  /\ global \in Stats
  /\ DOMAIN perPeer \subseteq SkewPeer /\ \A p \in DOMAIN perPeer : perPeer[p] \in Stats
  /\ IsFiniteSet(halfway) /\ halfway \subseteq [caller : Caller, peer : SkewPeer, skew : Skew]
  /\ \A k \in 1..4 :
       Added(global, k) = SumFunctionOnSet(Counts(k), DOMAIN perPeer)
                            + SumFunctionOnSet(Gains(k), halfway)
  /\ \A p \in DOMAIN perPeer : Abs(perPeer[p].worst) <= Abs(global.worst)
  /\ \A h \in halfway : Abs(h.skew) <= Abs(global.worst)
  /\ global.checked = 0 => global.worst = 0
  /\ global.checked > 0 =>
       \/ \E p \in DOMAIN perPeer : Abs(perPeer[p].worst) = Abs(global.worst)
       \/ \E h \in halfway : Abs(h.skew) = Abs(global.worst)

LEMMA CountedFacts ==
  ASSUME NEW s \in Stats, NEW x \in Int
  PROVE  /\ Counted(s, x) \in Stats
         /\ \A k \in 1..4 : /\ Added(s, k) \in Int /\ Adds(x, k) \in Int
                            /\ Added(NoStats, k) = 0
                            /\ Added(Counted(s, x), k) = Added(s, k) + Adds(x, k)
         /\ Abs(s.worst) \in Nat /\ Abs(x) \in Nat
         /\ Abs(s.worst) <= Abs(Counted(s, x).worst) /\ Abs(x) <= Abs(Counted(s, x).worst)
         /\ Abs(Counted(s, x).worst) \in {Abs(s.worst), Abs(x)}
         /\ Counted(s, x).checked > 0
<1>1. /\ s.checked \in Nat /\ s.warnings \in Nat /\ s.severe \in Nat
      /\ s.worst \in Int /\ s.sum \in Int
  BY DEF Stats
<1> DEFINE c == Counted(s, x)
<1>2. /\ c.checked = s.checked + 1
      /\ c.warnings = s.warnings + (IF Verdict(x) = "ok" THEN 0 ELSE 1)
      /\ c.severe = s.severe + (IF Verdict(x) = "severe" THEN 1 ELSE 0)
      /\ c.worst = IF Abs(x) > Abs(s.worst) THEN x ELSE s.worst
      /\ c.sum = s.sum + x
  BY DEF Counted
<1>3. c \in Stats
  BY <1>1 DEF Counted, Stats
<1> HIDE DEF c
<1>4. \A k \in 1..4 : /\ Added(s, k) \in Int /\ Adds(x, k) \in Int
                      /\ Added(NoStats, k) = 0
                      /\ Added(c, k) = Added(s, k) + Adds(x, k)
  <2> SUFFICES ASSUME NEW k \in 1..4
               PROVE  /\ Added(s, k) \in Int /\ Adds(x, k) \in Int
                      /\ Added(NoStats, k) = 0
                      /\ Added(c, k) = Added(s, k) + Adds(x, k)
    OBVIOUS
  <2>1. CASE k = 1
    BY <1>1, <1>2, <2>1 DEF Added, Adds, NoStats
  <2>2. CASE k = 2
    BY <1>1, <1>2, <2>2 DEF Added, Adds, NoStats
  <2>3. CASE k = 3
    BY <1>1, <1>2, <2>3 DEF Added, Adds, NoStats
  <2>4. CASE k = 4
    BY <1>1, <1>2, <2>4 DEF Added, Adds, NoStats
  <2> QED BY <2>1, <2>2, <2>3, <2>4
<1>5. /\ Abs(s.worst) \in Nat /\ Abs(x) \in Nat
      /\ Abs(s.worst) <= Abs(c.worst) /\ Abs(x) <= Abs(c.worst)
      /\ Abs(c.worst) \in {Abs(s.worst), Abs(x)}
  <2>1. Abs(s.worst) \in Nat /\ Abs(x) \in Nat
    BY <1>1 DEF Abs
  <2>2. CASE Abs(x) > Abs(s.worst)
    BY <1>2, <2>1, <2>2
  <2>3. CASE ~(Abs(x) > Abs(s.worst))
    BY <1>2, <2>1, <2>3
  <2> QED BY <2>1, <2>2, <2>3
<1>6. c.checked > 0
  BY <1>1, <1>2
<1> QED BY <1>3, <1>4, <1>5, <1>6 DEF c

LEMMA NoStatsFacts == NoStats \in Stats /\ Abs(NoStats.worst) = 0
BY DEF NoStats, Stats, Abs

LEMMA CountsFacts ==
  ASSUME SkewAssumption, SkewInv
  PROVE  /\ IsFiniteSet(DOMAIN perPeer)
         /\ \A k \in 1..4 : \A p \in DOMAIN perPeer : Counts(k)[p] \in Int
         /\ \A k \in 1..4 : \A h \in halfway : Gains(k)[h] \in Int
         /\ \A k \in 1..4 : /\ SumFunctionOnSet(Counts(k), DOMAIN perPeer) \in Int
                            /\ SumFunctionOnSet(Gains(k), halfway) \in Int
<1>1. IsFiniteSet(DOMAIN perPeer) /\ IsFiniteSet(halfway)
  BY FS_Subset DEF SkewInv, SkewAssumption
<1>2. \A k \in 1..4 : \A p \in DOMAIN perPeer : Counts(k)[p] \in Int
  <2>1. \A p \in DOMAIN perPeer : perPeer[p] \in Stats
    BY DEF SkewInv
  <2>2. 0 \in Int
    OBVIOUS
  <2>3. \A s \in Stats : \A k \in 1..4 : Added(s, k) \in Int
    BY <2>2, CountedFacts
  <2> QED BY <2>1, <2>3 DEF Counts
<1>3. \A k \in 1..4 : \A h \in halfway : Gains(k)[h] \in Int
  <2>1. \A h \in halfway : h.skew \in Int
    BY DEF SkewInv, SkewAssumption
  <2>2. \A x \in Int : \A k \in 1..4 : Adds(x, k) \in Int
    BY NoStatsFacts, CountedFacts
  <2> QED BY <2>1, <2>2 DEF Gains
<1>4. ASSUME NEW k \in 1..4
      PROVE  /\ SumFunctionOnSet(Counts(k), DOMAIN perPeer) \in Int
             /\ SumFunctionOnSet(Gains(k), halfway) \in Int
  BY <1>1, <1>2, <1>3, SumUnfold
<1> QED BY <1>1, <1>2, <1>3, <1>4

LEMMA SkewInitKeepsInv == SkewInit => SkewInv
<1> SUFFICES ASSUME SkewInit PROVE SkewInv
  OBVIOUS
<1>1. DOMAIN perPeer = {} /\ halfway = {} /\ global = NoStats /\ IsFiniteSet(halfway)
  BY FS_EmptySet DEF SkewInit
<1>2. \A k \in 1..4 : Added(global, k) = 0
  <2>1. \A k \in 1..4 : Added(NoStats, k) = 0
    <3>1. NoStats \in Stats /\ 0 \in Int
      BY NoStatsFacts
    <3> QED BY <3>1, CountedFacts
  <2> QED BY <1>1, <2>1
<1>3. \A f : SumFunctionOnSet(f, {}) = 0
  BY FS_EmptySet, SumUnfold
<1>4. \A k \in 1..4 :
       Added(global, k) = SumFunctionOnSet(Counts(k), DOMAIN perPeer)
                            + SumFunctionOnSet(Gains(k), halfway)
  BY <1>1, <1>2, <1>3
<1>5. ~(global.checked > 0)
  BY <1>1 DEF NoStats
<1>6. global.worst = 0
  BY <1>1 DEF NoStats
<1> QED BY <1>1, <1>4, <1>5, <1>6, NoStatsFacts DEF SkewInv

LEMMA CheckGlobalKeepsInv ==
  ASSUME SkewAssumption, SkewInv, NEW c \in Caller, NEW p \in SkewPeer, NEW x \in Skew,
         CheckGlobal(c, p, x)
  PROVE  SkewInv'
<1> DEFINE h == [caller |-> c, peer |-> p, skew |-> x]
<1>1. x \in Int /\ global \in Stats
  BY DEF SkewInv, SkewAssumption
<1>2. /\ global' = Counted(global, x) /\ perPeer' = perPeer
      /\ halfway' = halfway \cup {h} /\ h \notin halfway /\ h.skew = x
      /\ h \in [caller : Caller, peer : SkewPeer, skew : Skew]
  BY DEF CheckGlobal
<1> HIDE DEF h
<1>3. /\ global' \in Stats
      /\ \A k \in 1..4 : Added(global', k) = Added(global, k) + Adds(x, k)
      /\ Abs(global.worst) <= Abs(global'.worst) /\ Abs(x) <= Abs(global'.worst)
      /\ Abs(global.worst) \in Nat /\ Abs(x) \in Nat
      /\ Abs(global'.worst) \in {Abs(global.worst), Abs(x)}
  BY <1>1, <1>2, CountedFacts
<1>4. IsFiniteSet(halfway') /\ IsFiniteSet(halfway)
  BY <1>2, FS_AddElement DEF SkewInv
<1>5. ASSUME NEW k \in 1..4
      PROVE  Added(global', k) = SumFunctionOnSet(Counts(k)', DOMAIN perPeer')
                                   + SumFunctionOnSet(Gains(k)', halfway')
  <2> DEFINE g == Gains(k)'
             f == Gains(k)
  <2>1. /\ \A i \in halfway : g[i] \in Int /\ f[i] \in Int /\ f[i] = g[i]
        /\ g[h] = Adds(x, k) /\ Adds(x, k) \in Int
    <3>1. g = [i \in halfway' |-> Adds(i.skew, k)] /\ f = [i \in halfway |-> Adds(i.skew, k)]
      BY DEF Gains
    <3>2. Adds(x, k) \in Int
      BY <1>1, CountedFacts
    <3>3. \A i \in halfway : f[i] \in Int
      BY CountsFacts
    <3> QED BY <1>2, <3>1, <3>2, <3>3
  <2> HIDE DEF f, g
  <2>2. SumFunctionOnSet(g, halfway \cup {h}) = g[h] + SumFunctionOnSet(g, halfway)
    BY <1>2, <1>4, <2>1, SumInsert
  <2>3. SumFunctionOnSet(f, halfway) = SumFunctionOnSet(g, halfway)
    BY <1>4, <2>1, SumSame
  <2>4. Counts(k)' = Counts(k) /\ DOMAIN perPeer' = DOMAIN perPeer
    BY <1>2 DEF Counts
  <2> DEFINE a == SumFunctionOnSet(Counts(k), DOMAIN perPeer)
             b == SumFunctionOnSet(f, halfway)
  <2>5. a \in Int /\ b \in Int /\ Added(global, k) = a + b
    BY CountsFacts DEF SkewInv, f
  <2> HIDE DEF a, b
  <2>6. Added(global', k) = a + (Adds(x, k) + b)
    BY <1>3, <2>1, <2>5
  <2> QED BY <1>2, <2>1, <2>2, <2>3, <2>4, <2>6 DEF a, b, g
<1>6. \A q \in DOMAIN perPeer' : Abs(perPeer'[q].worst) <= Abs(global'.worst)
  <2>1. \A q \in DOMAIN perPeer : Abs(perPeer[q].worst) \in Nat
    BY NoStatsFacts, CountedFacts, <1>1 DEF SkewInv
  <2>2. Abs(global'.worst) \in Nat
    BY <1>3
  <2>3. \A q \in DOMAIN perPeer : Abs(perPeer[q].worst) <= Abs(global.worst)
    BY DEF SkewInv
  <2> QED BY <1>2, <1>3, <2>1, <2>2, <2>3
<1>7. \A i \in halfway' : Abs(i.skew) <= Abs(global'.worst)
  <2>1. \A i \in halfway : i.skew \in Int /\ Abs(i.skew) \in Nat
    <3>1. \A i \in halfway : i.skew \in Int
      BY DEF SkewInv, SkewAssumption
    <3> QED BY <3>1 DEF Abs
  <2>2. \A i \in halfway : Abs(i.skew) <= Abs(global.worst)
    BY DEF SkewInv
  <2> QED BY <1>2, <1>3, <2>1, <2>2
<1>8. \/ \E q \in DOMAIN perPeer' : Abs(perPeer'[q].worst) = Abs(global'.worst)
      \/ \E i \in halfway' : Abs(i.skew) = Abs(global'.worst)
  <2>1. CASE Abs(global'.worst) = Abs(x)
    BY <1>2, <2>1
  <2>2. CASE Abs(global'.worst) = Abs(global.worst) /\ global.checked > 0
    BY <1>2, <2>2 DEF SkewInv
  <2>3. CASE Abs(global'.worst) = Abs(global.worst) /\ ~(global.checked > 0)
    <3>1. global.checked \in Nat
      BY <1>1 DEF Stats
    <3>2. Abs(global.worst) = 0
      BY <2>3, <3>1 DEF SkewInv, Abs
    <3>3. Abs(global'.worst) = Abs(x)
      BY <1>3, <2>3, <3>2
    <3> QED BY <2>1, <3>3
  <2> QED BY <1>3, <2>1, <2>2, <2>3
<1>9. global'.checked > 0 /\ global'.checked \in Nat
  <2>1. Counted(global, x).checked > 0
    BY <1>1, CountedFacts
  <2> QED BY <1>2, <1>3, <2>1 DEF Stats
<1>10. ~(global'.checked = 0)
  BY <1>9
<1>11. /\ DOMAIN perPeer' \subseteq SkewPeer
       /\ \A q \in DOMAIN perPeer' : perPeer'[q] \in Stats
       /\ halfway' \subseteq [caller : Caller, peer : SkewPeer, skew : Skew]
  BY <1>2 DEF SkewInv
<1> QED BY <1>3, <1>4, <1>5, <1>6, <1>7, <1>8, <1>10, <1>11 DEF SkewInv, Stats

LEMMA CheckPeerKeepsInv ==
  ASSUME SkewAssumption, SkewInv, NEW h \in halfway, CheckPeer(h)
  PROVE  SkewInv'
<1> DEFINE q == h.peer
           x == h.skew
           old == PeerStats(q)
           new == Counted(old, x)
           D == DOMAIN perPeer
<1>1. x \in Int /\ q \in SkewPeer
  BY DEF SkewInv, SkewAssumption
<1>2. old \in Stats /\ (q \in D => old = perPeer[q]) /\ (q \notin D => old = NoStats)
  BY NoStatsFacts DEF SkewInv, PeerStats
<1>3. /\ DOMAIN perPeer' = D \cup {q} /\ perPeer'[q] = new
      /\ \A p \in D \ {q} : perPeer'[p] = perPeer[p]
      /\ halfway' = halfway \ {h} /\ global' = global
  BY DEF CheckPeer
<1> HIDE DEF q, x, old
<1>4. /\ new \in Stats
      /\ \A k \in 1..4 : /\ Added(new, k) = Added(old, k) + Adds(x, k)
                         /\ Added(old, k) \in Int /\ Adds(x, k) \in Int
                         /\ Added(NoStats, k) = 0
      /\ Abs(old.worst) \in Nat /\ Abs(x) \in Nat
      /\ Abs(old.worst) <= Abs(new.worst) /\ Abs(x) <= Abs(new.worst)
      /\ Abs(new.worst) \in {Abs(old.worst), Abs(x)}
  BY <1>1, <1>2, CountedFacts
<1> HIDE DEF new
<1>5. \A p \in DOMAIN perPeer' : perPeer'[p] \in Stats
  <2>1. \A p \in D : perPeer[p] \in Stats
    BY DEF SkewInv
  <2> QED BY <1>3, <1>4, <2>1
<1>6. IsFiniteSet(halfway) /\ IsFiniteSet(halfway') /\ IsFiniteSet(D)
  <2>1. IsFiniteSet(halfway)
    BY DEF SkewInv
  <2>2. IsFiniteSet(halfway \ {h})
    BY <2>1, FS_RemoveElement
  <2> QED BY <1>3, <2>1, <2>2, CountsFacts
<1>7. ASSUME NEW k \in 1..4
      PROVE  Added(global', k) = SumFunctionOnSet(Counts(k)', DOMAIN perPeer')
                                   + SumFunctionOnSet(Gains(k)', halfway')
  <2> DEFINE f == Counts(k)
             g == Counts(k)'
             u == Gains(k)
             v == Gains(k)'
             G == SumFunctionOnSet(u, halfway)
  <2>1. /\ \A p \in D : f[p] \in Int /\ f[p] = Added(perPeer[p], k)
        /\ \A i \in halfway : u[i] \in Int /\ u[i] = Adds(i.skew, k)
        /\ SumFunctionOnSet(f, D) \in Int /\ G \in Int
    <3>1. f = [p \in D |-> Added(perPeer[p], k)] /\ u = [i \in halfway |-> Adds(i.skew, k)]
      BY DEF Counts, Gains
    <3> QED BY <3>1, CountsFacts
  <2>2. /\ \A p \in D \ {q} : g[p] = f[p]
        /\ g[q] = Added(old, k) + Adds(x, k)
    <3>1. g = [p \in DOMAIN perPeer' |-> Added(perPeer'[p], k)]
      BY DEF Counts
    <3>2. g[q] = Added(new, k) /\ \A p \in D \ {q} : g[p] = Added(perPeer[p], k)
      BY <1>3, <3>1
    <3> QED BY <1>4, <2>1, <3>2
  <2>3. \A i \in halfway' : v[i] = u[i]
    <3>1. v = [i \in halfway' |-> Adds(i.skew, k)]
      BY DEF Gains
    <3> QED BY <1>3, <2>1, <3>1
  <2>4. u[h] = Adds(x, k)
    BY <2>1 DEF x
  <2> HIDE DEF f, g, u, v, G
  <2>5. SumFunctionOnSet(v, halfway') = G - Adds(x, k)
    <3>1. SumFunctionOnSet(u, halfway) = u[h] + SumFunctionOnSet(u, halfway \ {h})
      BY <1>6, <2>1, SumUnfold
    <3>2. \A i \in halfway' : u[i] \in Int
      BY <1>3, <2>1
    <3>3. SumFunctionOnSet(v, halfway') = SumFunctionOnSet(u, halfway')
      BY <1>6, <2>3, <3>2, SumSame
    <3>4. SumFunctionOnSet(u, halfway') \in Int
      BY <1>6, <3>2, SumUnfold
    <3> QED BY <1>3, <1>4, <2>1, <2>4, <3>1, <3>3, <3>4 DEF G
  <2>6. SumFunctionOnSet(g, D \cup {q}) = SumFunctionOnSet(f, D) + Adds(x, k)
    <3>1. CASE q \in D
      <4>1. f[q] = Added(old, k) /\ D \cup {q} = D
        BY <1>2, <2>1, <3>1
      <4>2. \A p \in D : g[p] \in Int
        BY <1>4, <2>1, <2>2
      <4>3. SumFunctionOnSet(g, D) = SumFunctionOnSet(f, D) - f[q] + g[q]
        <5>1. \A p \in D : f[p] \in Int /\ g[p] \in Int
          BY <2>1, <4>2
        <5>2. \A p \in D \ {q} : f[p] = g[p]
          BY <2>2
        <5> HIDE DEF D
        <5> QED BY <1>6, <3>1, <5>1, <5>2, SumUpdate
      <4> QED BY <1>4, <2>1, <2>2, <4>1, <4>3
    <3>2. CASE q \notin D
      <4>1. g[q] = Adds(x, k)
        BY <1>2, <1>4, <2>2, <3>2
      <4>2. \A p \in D : f[p] \in Int /\ f[p] = g[p] /\ g[p] \in Int
        BY <2>1, <2>2, <3>2
      <4>3. SumFunctionOnSet(f, D) = SumFunctionOnSet(g, D)
        BY <1>6, <4>2, SumSame
      <4>4. g[q] \in Int
        BY <1>4, <4>1
      <4>5. SumFunctionOnSet(g, D \cup {q}) = g[q] + SumFunctionOnSet(g, D)
        <5> HIDE DEF D
        <5> QED BY <1>6, <3>2, <4>2, <4>4, SumInsert
      <4> QED BY <1>4, <2>1, <4>1, <4>3, <4>5
    <3> QED BY <3>1, <3>2
  <2>7. Added(global, k) = SumFunctionOnSet(f, D) + G
    BY DEF SkewInv, f, u, G
  <2> DEFINE a == SumFunctionOnSet(f, D)
             b == SumFunctionOnSet(g, D \cup {q})
             d == SumFunctionOnSet(v, halfway')
             y == Adds(x, k)
  <2>8. a \in Int /\ G \in Int /\ y \in Int /\ b = a + y /\ d = G - y
        /\ Added(global, k) = a + G
    BY <1>4, <2>1, <2>5, <2>6, <2>7
  <2> HIDE DEF a, b, d, y
  <2>9. Added(global, k) = b + d
    BY <2>8
  <2> QED BY <1>3, <2>9 DEF b, d, g, v
<1>8. Abs(new.worst) <= Abs(global.worst) /\ Abs(global.worst) \in Nat
  <2>1. Abs(global.worst) \in Nat
    BY <1>1, CountedFacts DEF SkewInv
  <2>2. Abs(x) <= Abs(global.worst)
    BY DEF SkewInv, x
  <2>3. Abs(old.worst) <= Abs(global.worst)
    <3>1. CASE q \in D
      BY <1>2, <3>1 DEF SkewInv
    <3>2. CASE q \notin D
      BY <1>2, <2>1, <3>2, NoStatsFacts
    <3> QED BY <3>1, <3>2
  <2> QED BY <1>4, <2>1, <2>2, <2>3
<1>9. ASSUME NEW z \in {x, old.worst}, Abs(z) = Abs(global.worst)
       PROVE  Abs(new.worst) = Abs(global.worst)
  <2> DEFINE a == Abs(new.worst)
             b == Abs(global.worst)
  <2>1. a \in Nat /\ b \in Nat /\ a <= b
    BY <1>4, <1>8
  <2>2. b <= a
    BY <1>4, <1>9
  <2> HIDE DEF a, b
  <2>3. a = b
    BY <2>1, <2>2
  <2> QED BY <2>3 DEF a, b
<1>10. \A p \in DOMAIN perPeer' : Abs(perPeer'[p].worst) <= Abs(global'.worst)
  <2>1. \A p \in D : Abs(perPeer[p].worst) <= Abs(global.worst)
    BY DEF SkewInv
  <2> QED BY <1>3, <1>8, <2>1
<1>11. ASSUME global.checked > 0
       PROVE  \/ \E p \in DOMAIN perPeer' : Abs(perPeer'[p].worst) = Abs(global.worst)
              \/ \E i \in halfway' : Abs(i.skew) = Abs(global.worst)
  <2>1. CASE Abs(x) = Abs(global.worst)
    <3>1. Abs(new.worst) = Abs(global.worst)
      BY <1>9, <2>1
    <3> QED BY <1>3, <3>1
  <2>2. ASSUME NEW p \in D, Abs(perPeer[p].worst) = Abs(global.worst)
        PROVE  \E r \in DOMAIN perPeer' : Abs(perPeer'[r].worst) = Abs(global.worst)
    <3>1. CASE p = q
      <4>1. Abs(old.worst) = Abs(global.worst)
        BY <1>2, <2>2, <3>1
      <4>2. Abs(new.worst) = Abs(global.worst)
        BY <1>9, <4>1
      <4> QED BY <1>3, <4>2
    <3>2. CASE p # q
      BY <1>3, <2>2, <3>2
    <3> QED BY <3>1, <3>2
  <2>3. ASSUME NEW i \in halfway, Abs(i.skew) = Abs(global.worst), Abs(x) # Abs(global.worst)
        PROVE  i \in halfway'
    BY <1>3, <2>3 DEF x
  <2>4. \/ \E p \in D : Abs(perPeer[p].worst) = Abs(global.worst)
        \/ \E i \in halfway : Abs(i.skew) = Abs(global.worst)
    BY <1>11 DEF SkewInv
  <2> QED BY <2>1, <2>2, <2>3, <2>4
<1>12. /\ global' \in Stats /\ DOMAIN perPeer' \subseteq SkewPeer
       /\ halfway' \subseteq [caller : Caller, peer : SkewPeer, skew : Skew]
       /\ \A i \in halfway' : Abs(i.skew) <= Abs(global'.worst)
       /\ global'.checked = 0 => global'.worst = 0
  BY <1>1, <1>3 DEF SkewInv
<1> QED BY <1>3, <1>5, <1>6, <1>7, <1>10, <1>11, <1>12 DEF SkewInv, Stats

LEMMA SkewInvariance == SkewSpec => []SkewInv
<1>1. ASSUME SkewInv, [SkewNext]_skewVars PROVE SkewInv'
  <2>1. CASE UNCHANGED skewVars
    BY <1>1, <2>1 DEF skewVars, SkewInv, Counts, Gains
  <2> QED
    BY <1>1, <2>1, SkewAssumption, CheckGlobalKeepsInv, CheckPeerKeepsInv DEF SkewNext
<1> QED BY <1>1, SkewInitKeepsInv, PTL DEF SkewSpec

(* Whenever no check is between its two locks, the statistics over all     *)
(* peers are those by peer taken together.                                 *)
THEOREM StatisticsAgreeAlways == SkewSpec => []StatisticsAgree
<1>1. ASSUME SkewInv, halfway = {}
      PROVE  /\ global.checked = SumFunction([p \in DOMAIN perPeer |-> perPeer[p].checked])
             /\ global.warnings = SumFunction([p \in DOMAIN perPeer |-> perPeer[p].warnings])
             /\ global.severe = SumFunction([p \in DOMAIN perPeer |-> perPeer[p].severe])
             /\ global.sum = SumFunction([p \in DOMAIN perPeer |-> perPeer[p].sum])
             /\ global.checked > 0 =>
                  Abs(global.worst) = Max({Abs(perPeer[p].worst) : p \in DOMAIN perPeer})
  <2>1. ASSUME NEW k \in 1..4
        PROVE  Added(global, k) = SumFunction(Counts(k))
    <3>1. SumFunctionOnSet(Gains(k), {}) = 0
      BY FS_EmptySet, SumUnfold
    <3>2. SumFunctionOnSet(Counts(k), DOMAIN perPeer) \in Int
      BY <1>1, SkewAssumption, CountsFacts
    <3>3. DOMAIN Counts(k) = DOMAIN perPeer
      BY DEF Counts
    <3>4. Added(global, k) = SumFunctionOnSet(Counts(k), DOMAIN perPeer)
                               + SumFunctionOnSet(Gains(k), halfway)
      BY <1>1 DEF SkewInv
    <3> QED BY <1>1, <3>1, <3>2, <3>3, <3>4 DEF SumFunction
  <2>2. global.checked = SumFunction([p \in DOMAIN perPeer |-> perPeer[p].checked])
    <3>1. Counts(1) = [p \in DOMAIN perPeer |-> perPeer[p].checked]
      BY DEF Counts, Added
    <3> QED BY <2>1, <3>1 DEF Added
  <2>3. global.warnings = SumFunction([p \in DOMAIN perPeer |-> perPeer[p].warnings])
    <3>1. Counts(2) = [p \in DOMAIN perPeer |-> perPeer[p].warnings]
      BY DEF Counts, Added
    <3> QED BY <2>1, <3>1 DEF Added
  <2>4. global.severe = SumFunction([p \in DOMAIN perPeer |-> perPeer[p].severe])
    <3>1. Counts(3) = [p \in DOMAIN perPeer |-> perPeer[p].severe]
      BY DEF Counts, Added
    <3> QED BY <2>1, <3>1 DEF Added
  <2>5. global.sum = SumFunction([p \in DOMAIN perPeer |-> perPeer[p].sum])
    <3>1. Counts(4) = [p \in DOMAIN perPeer |-> perPeer[p].sum]
      BY DEF Counts, Added
    <3> QED BY <2>1, <3>1 DEF Added
  <2>6. ASSUME global.checked > 0
        PROVE  Abs(global.worst) = Max({Abs(perPeer[p].worst) : p \in DOMAIN perPeer})
    <3> DEFINE W == {Abs(perPeer[p].worst) : p \in DOMAIN perPeer}
               m == Abs(global.worst)
    <3>1. m \in W
      BY <1>1, <2>6 DEF SkewInv
    <3>2. \A w \in W : w \in Int /\ w <= m
      <4>1. \A p \in DOMAIN perPeer : perPeer[p].worst \in Int
        BY <1>1 DEF SkewInv, Stats
      <4> QED BY <1>1, <4>1 DEF SkewInv, Abs
    <3>3. \A w \in W : (\A y \in W : w >= y) => w = m
      BY <3>1, <3>2
    <3>4. \A y \in W : m >= y
      BY <3>1, <3>2
    <3> HIDE DEF W, m
    <3>5. Max(W) = m
      BY <3>1, <3>3, <3>4 DEF Max
    <3> QED BY <3>5 DEF W, m
  <2> QED BY <2>2, <2>3, <2>4, <2>5, <2>6
<1>2. SkewInv => StatisticsAgree
  BY <1>1 DEF StatisticsAgree
<1> QED BY <1>2, SkewInvariance, PTL

-----------------------------------------------------------------------------
(* The detectors that follow one node.  The streak counts the jumps at the *)
(* end of what the node showed, and the window of the temporal detector is *)
(* the end of it, so that both can be compared with one another.           *)
IsJump(i) == Distance(shown[i].prediction, shown[i - 1].prediction) > JumpThreshold

(* The window holds the last k of n observations. *)
Holds(n, k) == \A i \in 1..k : predictions[i] = shown[n - k + i].prediction

WindowInv(n, k) ==
  /\ n = Len(shown) /\ k = Len(predictions)
  /\ k <= n /\ k <= TemporalWindow /\ k \in {n, TemporalWindow}
  /\ Holds(n, k)

(* The last j of n observations are the jumps that are counted. *)
StreakInv(n, j) ==
  /\ j = jumpStreak
  /\ n > 0 => j < n
  /\ \A i \in (n - j + 1)..n : IsJump(i)
  /\ j + 1 < n => ~ IsJump(n - j)

PenaltiesInv ==
  /\ "jump" \in penalties <=> (present /\ jumpStreak >= JumpStreak)
  /\ "temporal" \in penalties <=> (present /\ Inconsistent(predictions))
  /\ "adaptive" \in penalties => Adaptive(errors)

HistoryInv ==
  /\ HistoryTypeOK
  /\ PenaltiesInv
  /\ \E n, k, j \in Nat : WindowInv(n, k) /\ StreakInv(n, j)

(* A window keeps the last entries, in their order. *)
LEMMA LastEntriesFacts ==
  ASSUME NEW S, NEW s \in Seq(S), NEW w \in Nat
  PROVE  /\ LastEntries(s, w) \in Seq(S)
         /\ Len(LastEntries(s, w)) = IF Len(s) > w THEN w ELSE Len(s)
         /\ \A i \in 1..Len(LastEntries(s, w)) :
              LastEntries(s, w)[i] = s[Len(s) - Len(LastEntries(s, w)) + i]
<1>1. CASE Len(s) > w
  <2> DEFINE m == Len(s) - w + 1
             n == Len(s)
  <2>1. m \in 1..(n + 1) /\ n \in Nat /\ LastEntries(s, w) = SubSeq(s, m, n) /\ n - m + 1 = w
    BY <1>1 DEF LastEntries
  <2>2. \A i \in m..n : s[i] \in S
    BY <2>1
  <2>3. /\ SubSeq(s, m, n) \in Seq(S)
        /\ Len(SubSeq(s, m, n)) = n - m + 1
        /\ \A i \in 1..(n - m + 1) : SubSeq(s, m, n)[i] = s[m + i - 1]
    BY <2>1, <2>2
  <2>4. \A i \in 1..w : m + i - 1 = n - w + i
    BY <2>1
  <2> QED BY <1>1, <2>1, <2>3, <2>4
<1>2. CASE ~(Len(s) > w)
  BY <1>2 DEF LastEntries
<1> QED BY <1>1, <1>2

LEMMA AppendFacts ==
  ASSUME NEW S, NEW s \in Seq(S), NEW x \in S
  PROVE  /\ Append(s, x) \in Seq(S) /\ Len(Append(s, x)) = Len(s) + 1
         /\ \A i \in 1..Len(s) : Append(s, x)[i] = s[i]
         /\ Append(s, x)[Len(s) + 1] = x
OBVIOUS

LEMMA EntryTyped == ASSUME NEW S, NEW s \in Seq(S), NEW i \in 1..Len(s) PROVE s[i] \in S
OBVIOUS

LEMMA Indexes ==
  ASSUME NEW n \in Nat
  PROVE  /\ n > 0 => n \in 1..n /\ n + 1 - 1 = n
         /\ \A i \in 2..n : i \in 1..n /\ i - 1 \in 1..n
OBVIOUS

(* The last j + 1 of n + 1 indexes *)
LEMMA LastIndexes ==
  ASSUME NEW n \in Nat, NEW j \in 0..n, j < n, NEW m \in Nat, m = j + 1,
         NEW i \in (n + 1 - m + 1)..(n + 1)
  PROVE  i = n + 1 \/ (i \in (n - j + 1)..n /\ i \in 2..n)
OBVIOUS

LEMMA EmptyOrNot == ASSUME NEW S, NEW s \in Seq(S) PROVE s = <<>> <=> Len(s) = 0
OBVIOUS

LEMMA HistoryInitKeepsInv == HistoryAssumption /\ HistoryInit => HistoryInv
<1> SUFFICES ASSUME HistoryAssumption, HistoryInit PROVE HistoryInv
  OBVIOUS
<1>1. /\ shown = <<>> /\ predictions = <<>> /\ errors = <<>>
      /\ Len(shown) = 0 /\ Len(predictions) = 0 /\ Len(errors) = 0
      /\ jumpStreak = 0 /\ penalties = {} /\ present = FALSE /\ rounds = 0
  BY DEF HistoryInit
<1>2. TemporalWindow \in Nat /\ AdaptiveWindow \in Nat /\ LastObservation \in Nat
  BY DEF HistoryAssumption
<1>3. HistoryTypeOK
  <2>1. /\ shown \in Seq(Observation) /\ predictions \in Seq(Nat)
        /\ errors \in Seq(Nat \X BOOLEAN)
    BY <1>1
  <2>2. jumpStreak \in 0..Len(shown) /\ rounds \in Len(shown)..LastObservation
    BY <1>1, <1>2
  <2>3. Len(predictions) <= TemporalWindow /\ Len(errors) <= AdaptiveWindow
    BY <1>1, <1>2
  <2>4. present \in BOOLEAN /\ penalties \subseteq {"adaptive", "temporal", "jump"}
    BY <1>1
  <2> QED BY <2>1, <2>2, <2>3, <2>4 DEF HistoryTypeOK
<1>4. WindowInv(0, 0)
  BY <1>1, <1>2 DEF WindowInv, Holds
<1>5. StreakInv(0, 0)
  BY <1>1 DEF StreakInv
<1>6. PenaltiesInv
  BY <1>1 DEF PenaltiesInv
<1> QED BY <1>3, <1>4, <1>5, <1>6 DEF HistoryInv

LEMMA AnalyseOthersKeepsInv ==
  ASSUME HistoryAssumption, HistoryInv, AnalyseOthers
  PROVE  HistoryInv'
<1>1. /\ UNCHANGED <<errors, predictions, jumpStreak, shown>>
      /\ rounds < LastObservation /\ rounds' = rounds + 1
      /\ present' = FALSE /\ penalties' = Penalties
  BY DEF AnalyseOthers
<1>2. HistoryTypeOK
  BY DEF HistoryInv
<1>3. PICK n \in Nat, k \in Nat, j \in Nat : WindowInv(n, k) /\ StreakInv(n, j)
  BY DEF HistoryInv
<1>4. /\ "jump" \notin penalties' /\ "temporal" \notin penalties'
      /\ "adaptive" \in penalties' => Adaptive(errors')
      /\ penalties' \subseteq {"adaptive", "temporal", "jump"}
  BY <1>1 DEF Penalties
<1>5. HistoryTypeOK'
  <2>1. /\ shown \in Seq(Observation) /\ rounds \in Len(shown)..LastObservation
        /\ LastObservation \in Nat
    BY <1>2 DEF HistoryTypeOK, HistoryAssumption
  <2>2. rounds' \in Len(shown)..LastObservation
    BY <1>1, <2>1
  <2> QED BY <1>1, <1>2, <1>4, <2>2 DEF HistoryTypeOK
<1>6. PenaltiesInv'
  BY <1>1, <1>4 DEF PenaltiesInv
<1>7. WindowInv(n, k)' /\ StreakInv(n, j)'
  BY <1>1, <1>3 DEF WindowInv, Holds, StreakInv, IsJump
<1> QED BY <1>5, <1>6, <1>7 DEF HistoryInv

(* o is shown after n other observations. *)
Shows(n, o) ==
  /\ shown' \in Seq(Observation) /\ Len(shown') = n + 1
  /\ \A i \in 1..n : shown'[i] = shown[i]
  /\ shown'[n + 1] = o

LEMMA WindowAfter ==
  ASSUME HistoryAssumption, HistoryTypeOK, NEW o \in Observation, Analyse(o),
         NEW n \in Nat, NEW k \in Nat, WindowInv(n, k)
  PROVE  /\ Shows(n, o)
         /\ predictions' \in Seq(Nat)
         /\ \E j \in Nat : WindowInv(n + 1, j)'
<1>1. /\ shown \in Seq(Observation) /\ predictions \in Seq(Nat)
      /\ n = Len(shown) /\ k = Len(predictions)
      /\ k <= n /\ k <= TemporalWindow /\ k \in {n, TemporalWindow}
  BY DEF WindowInv, HistoryTypeOK
<1>2. TemporalWindow \in Nat /\ TemporalWindow >= 2 /\ o.prediction \in Nat
  BY DEF HistoryAssumption
<1>3. shown' = Append(shown, o)
  BY DEF Analyse
<1>4. /\ shown' \in Seq(Observation) /\ Len(shown') = n + 1
      /\ \A i \in 1..n : shown'[i] = shown[i]
      /\ shown'[n + 1] = o
  BY <1>1, <1>3
<1> DEFINE s == Append(predictions, o.prediction)
           t == LastEntries(s, TemporalWindow)
<1>5. /\ s \in Seq(Nat) /\ Len(s) = k + 1
      /\ \A i \in 1..k : s[i] = predictions[i]
      /\ s[k + 1] = o.prediction
  <2> DEFINE p == o.prediction
  <2>1. p \in Nat
    BY <1>2
  <2> HIDE DEF p
  <2>2. /\ Append(predictions, p) \in Seq(Nat)
        /\ Len(Append(predictions, p)) = k + 1
        /\ \A i \in 1..k : Append(predictions, p)[i] = predictions[i]
        /\ Append(predictions, p)[k + 1] = p
    <3>1. predictions \in Seq(Nat) /\ k = Len(predictions)
      BY <1>1
    <3> QED BY <2>1, <3>1, AppendFacts
  <2> QED BY <2>2 DEF p
<1>6. predictions' = t
  BY DEF Analyse
<1> HIDE DEF s
<1>7. /\ t \in Seq(Nat)
      /\ Len(t) = IF Len(s) > TemporalWindow THEN TemporalWindow ELSE Len(s)
      /\ \A i \in 1..Len(t) : t[i] = s[Len(s) - Len(t) + i]
  BY <1>2, <1>5, LastEntriesFacts
<1> HIDE DEF t
<1>8. PICK j \in Nat : j = Len(t)
  BY <1>7
<1>9. j <= n + 1 /\ j <= TemporalWindow /\ j \in {n + 1, TemporalWindow}
  <2>1. Len(s) = k + 1 /\ k <= n /\ k <= TemporalWindow /\ k \in {n, TemporalWindow}
    BY <1>1, <1>5
  <2>2. j = IF Len(s) > TemporalWindow THEN TemporalWindow ELSE Len(s)
    BY <1>7, <1>8
  <2> QED BY <1>2, <2>1, <2>2
<1>10. ASSUME NEW i \in 1..j
       PROVE  t[i] = shown'[n + 1 - j + i].prediction
  <2>1. PICK m \in Int : m = k + 1 - j + i
    <3>1. k + 1 - j + i \in Int
      OBVIOUS
    <3> QED BY <3>1
  <2>2. t[i] = s[m]
    <3>1. Len(s) - Len(t) + i = m /\ i \in 1..Len(t)
      BY <1>5, <1>8, <2>1
    <3> QED BY <1>7, <3>1
  <2>3. m \in 1..(k + 1) /\ n - k + m = n + 1 - j + i /\ n - k \in Nat
    <3>1. k <= n /\ k <= TemporalWindow /\ k \in {n, TemporalWindow}
      BY <1>1
    <3>2. i \in Int /\ 1 <= i /\ i <= j /\ k <= n /\ j <= k + 1 /\ TemporalWindow \in Nat
      BY <1>2, <1>9, <3>1
    <3> QED BY <2>1, <3>2
  <2>4. CASE m = k + 1
    <3>1. n + 1 - j + i = n + 1
      BY <2>3, <2>4
    <3> QED BY <1>4, <1>5, <2>2, <2>4, <3>1
  <2>5. CASE m # k + 1
    <3>1. m \in 1..k /\ n - k + m \in 1..n
      BY <2>3, <2>5
    <3>2. predictions[m] = shown[n - k + m].prediction
      BY <3>1 DEF WindowInv, Holds
    <3> QED BY <1>4, <1>5, <2>2, <2>3, <3>1, <3>2
  <2> QED BY <2>4, <2>5
<1>11. WindowInv(n + 1, j)'
  <2>1. \A i \in 1..j : predictions'[i] = shown'[n + 1 - j + i].prediction
    BY <1>6, <1>10
  <2>2. n + 1 = Len(shown') /\ j = Len(predictions')
    BY <1>4, <1>6, <1>8
  <2>3. Holds(n + 1, j)'
    BY <2>1 DEF Holds
  <2>4. (n + 1 = Len(shown) /\ j = Len(predictions))'
    BY <2>2
  <2>5. (j <= n + 1 /\ j <= TemporalWindow /\ j \in {n + 1, TemporalWindow})'
    BY <1>9
  <2> QED BY <2>3, <2>4, <2>5 DEF WindowInv
<1>12. Shows(n, o)
  BY <1>4 DEF Shows
<1> QED BY <1>6, <1>7, <1>11, <1>12

(* A jump prolongs the streak, any other observation but the first ends it. *)
LEMMA JumpStreakAfter ==
  ASSUME HistoryAssumption, HistoryTypeOK, NEW o \in Observation, Analyse(o),
         NEW n \in Nat, NEW k \in Nat, NEW j \in Nat,
         WindowInv(n, k), StreakInv(n, j), Shows(n, o)
  PROVE  /\ \E m \in 0..(n + 1) : StreakInv(n + 1, m)'
         /\ predictions = <<>> => jumpStreak' = 0
<1>1. /\ predictions \in Seq(Nat) /\ k = Len(predictions)
      /\ k <= n /\ k <= TemporalWindow /\ k \in {n, TemporalWindow}
      /\ \A i \in 1..k : predictions[i] = shown[n - k + i].prediction
      /\ TemporalWindow \in Nat /\ TemporalWindow >= 2
  BY DEF WindowInv, Holds, HistoryTypeOK, HistoryAssumption
<1>2. j = jumpStreak
  BY DEF StreakInv
<1>3. j \in 0..n /\ (n > 0 => j < n)
  <2>1. jumpStreak \in 0..n
    BY DEF HistoryTypeOK, WindowInv
  <2> QED BY <1>2, <2>1 DEF StreakInv
<1>4. n > 0 => Last(predictions) = shown[n].prediction
  <2> SUFFICES ASSUME n > 0 PROVE Last(predictions) = shown[n].prediction
    OBVIOUS
  <2>1. k \in 1..k /\ n - k + k = n
    <3>1. k \in {n, TemporalWindow} /\ TemporalWindow \in Nat /\ TemporalWindow >= 2
      BY <1>1
    <3> QED BY <3>1
  <2> QED BY <1>1, <2>1 DEF Last
<1>5. \A i \in 2..n : IsJump(i)' <=> IsJump(i)
  <2> SUFFICES ASSUME NEW i \in 2..n PROVE IsJump(i)' <=> IsJump(i)
    OBVIOUS
  <2>1. i \in 1..n /\ i - 1 \in 1..n
    BY Indexes
  <2>2. shown'[i] = shown[i] /\ shown'[i - 1] = shown[i - 1]
    BY <2>1 DEF Shows
  <2> QED BY <2>2 DEF IsJump
<1>6. PICK m \in Nat : m = jumpStreak'
  <2>1. jumpStreak' = Jumped(j, predictions, o.prediction)
    BY <1>2 DEF Analyse
  <2>2. Jumped(j, predictions, o.prediction) \in {0, j, j + 1}
    BY DEF Jumped
  <2> QED BY <2>1, <2>2
<1>7. predictions = <<>> <=> n = 0
  <2>1. predictions = <<>> <=> k = 0
    BY <1>1, EmptyOrNot
  <2>2. k = 0 <=> n = 0
    <3>1. /\ k <= n /\ k <= TemporalWindow /\ k \in {n, TemporalWindow}
          /\ TemporalWindow \in Nat /\ TemporalWindow >= 2
      BY <1>1
    <3> QED BY <3>1
  <2> QED BY <2>1, <2>2
<1>8. CASE n = 0
  <2>1. m = 0
    BY <1>2, <1>3, <1>6, <1>7, <1>8 DEF Analyse, Jumped
  <2> QED BY <1>6, <1>8, <2>1 DEF StreakInv
<1>9. CASE n > 0
  <2>1. IsJump(n + 1)' <=> Distance(o.prediction, Last(predictions)) > JumpThreshold
    <3>1. n \in 1..n /\ n + 1 - 1 = n
      BY <1>9, Indexes
    <3>2. shown'[n + 1] = o /\ shown'[n] = shown[n]
      BY <3>1 DEF Shows
    <3>3. IsJump(n + 1)' <=> Distance(shown'[n + 1].prediction, shown'[n].prediction) > JumpThreshold
      <4>1. IsJump(n + 1)' <=> (Distance(shown[n + 1].prediction, shown[n + 1 - 1].prediction)
                                  > JumpThreshold)'
        BY DEF IsJump
      <4> QED BY <3>1, <4>1
    <3>4. shown[n].prediction = Last(predictions)
      BY <1>4, <1>9
    <3> QED BY <3>2, <3>3, <3>4
  <2>2. /\ IsJump(n + 1)' => m = j + 1
        /\ ~ IsJump(n + 1)' => m = 0
    <3>1. m = Jumped(j, predictions, o.prediction)
      BY <1>2, <1>6 DEF Analyse
    <3>2. predictions # <<>>
      BY <1>7, <1>9
    <3> QED BY <2>1, <3>1, <3>2 DEF Jumped
  <2>3. CASE IsJump(n + 1)'
    <3>1. m = j + 1 /\ m < n + 1
      <4>1. m = j + 1
        BY <2>2, <2>3
      <4> QED BY <1>3, <1>9, <4>1
    <3>2. ASSUME NEW i \in (n + 1 - m + 1)..(n + 1) PROVE IsJump(i)'
      <4>1. i = n + 1 \/ (i \in (n - j + 1)..n /\ i \in 2..n)
        BY <1>3, <1>9, <3>1, LastIndexes
      <4>2. i \in (n - j + 1)..n => IsJump(i)
        BY DEF StreakInv
      <4> QED BY <1>5, <2>3, <4>1, <4>2
    <3>3. m + 1 < n + 1 => ~ IsJump(n + 1 - m)'
      <4>1. PICK i \in Int : i = n + 1 - m
        OBVIOUS
      <4>2. i = n - j /\ (m + 1 < n + 1 => j + 1 < n /\ i \in 2..n)
        BY <1>3, <1>9, <3>1, <4>1
      <4>3. j + 1 < n => ~ IsJump(i)
        BY <4>2 DEF StreakInv
      <4>4. m + 1 < n + 1 => ~ IsJump(i)'
        BY <1>5, <4>2, <4>3
      <4> QED BY <4>1, <4>4
    <3>4. StreakInv(n + 1, m)'
      BY <1>6, <3>1, <3>2, <3>3 DEF StreakInv
    <3>5. m \in 0..(n + 1)
      BY <3>1
    <3> QED BY <1>7, <1>9, <3>4, <3>5
  <2>4. CASE ~ IsJump(n + 1)'
    <3>1. m = 0 /\ n + 1 - m = n + 1 /\ (n + 1 - m + 1)..(n + 1) = {}
      BY <2>2, <2>4
    <3>2. StreakInv(n + 1, m)'
      BY <1>6, <2>4, <3>1 DEF StreakInv
    <3> QED BY <1>6, <3>1, <3>2
  <2> QED BY <2>3, <2>4
<1> QED BY <1>8, <1>9

LEMMA AnalyseKeepsInv ==
  ASSUME HistoryAssumption, HistoryInv, NEW o \in Observation, Analyse(o)
  PROVE  HistoryInv'
<1>1. HistoryTypeOK
  BY DEF HistoryInv
<1>2. PICK n \in Nat, k \in Nat, h \in Nat : WindowInv(n, k) /\ StreakInv(n, h)
  BY DEF HistoryInv
<1>3. Shows(n, o) /\ predictions' \in Seq(Nat)
  BY <1>1, <1>2, WindowAfter
<1>4. PICK j \in Nat : WindowInv(n + 1, j)'
  BY <1>1, <1>2, WindowAfter
<1>5. PICK m \in 0..(n + 1) : StreakInv(n + 1, m)'
  BY <1>1, <1>2, <1>3, JumpStreakAfter
<1>6. errors' \in Seq(Nat \X BOOLEAN) /\ Len(errors') <= AdaptiveWindow
  <2> DEFINE s == Append(errors, <<o.error, o.inZone>>)
  <2>1. s \in Seq(Nat \X BOOLEAN) /\ Len(s) \in Nat
    <3>1. <<o.error, o.inZone>> \in Nat \X BOOLEAN /\ errors \in Seq(Nat \X BOOLEAN)
      BY <1>1 DEF HistoryAssumption, HistoryTypeOK
    <3> QED BY <3>1
  <2>2. errors' = LastEntries(s, AdaptiveWindow)
    BY DEF Analyse
  <2>3. AdaptiveWindow \in Nat
    BY DEF HistoryAssumption
  <2> HIDE DEF s
  <2>4. /\ LastEntries(s, AdaptiveWindow) \in Seq(Nat \X BOOLEAN)
        /\ Len(LastEntries(s, AdaptiveWindow))
             = IF Len(s) > AdaptiveWindow THEN AdaptiveWindow ELSE Len(s)
    BY <2>1, <2>3, LastEntriesFacts
  <2> QED BY <2>1, <2>2, <2>3, <2>4
<1>7. /\ present' = TRUE
      /\ penalties' \subseteq {"adaptive", "temporal", "jump"}
      /\ PenaltiesInv'
  <2>1. present' = TRUE /\ penalties' = Penalties
    BY DEF Analyse
  <2>2. jumpStreak' >= JumpStreak => predictions # <<>>
    <3>1. predictions = <<>> => jumpStreak' = 0
      BY <1>1, <1>2, <1>3, JumpStreakAfter
    <3> QED BY <3>1 DEF HistoryAssumption
  <2>3. /\ "jump" \in penalties' <=> jumpStreak' >= JumpStreak
        /\ "temporal" \in penalties' <=> Inconsistent(predictions')
        /\ "adaptive" \in penalties' => Adaptive(errors')
        /\ penalties' \subseteq {"adaptive", "temporal", "jump"}
    BY <2>1, <2>2 DEF Penalties
  <2> QED BY <2>1, <2>3 DEF PenaltiesInv
<1>8. HistoryTypeOK'
  <2>1. rounds \in n..LastObservation /\ TemporalWindow \in Nat /\ LastObservation \in Nat
    <3>1. rounds \in Len(shown)..LastObservation
      BY <1>1 DEF HistoryTypeOK
    <3>2. n = Len(shown)
      BY <1>2 DEF WindowInv
    <3>3. TemporalWindow \in Nat /\ LastObservation \in Nat
      BY DEF HistoryAssumption
    <3> QED BY <3>1, <3>2, <3>3
  <2>2. rounds' \in (n + 1)..LastObservation
    <3>1. rounds' = rounds + 1 /\ rounds < LastObservation
      BY DEF Analyse
    <3> QED BY <2>1, <3>1
  <2>3. Len(predictions') <= TemporalWindow
    <3>1. j <= TemporalWindow /\ j = Len(predictions')
      BY <1>4 DEF WindowInv
    <3> QED BY <2>1, <3>1
  <2>4. jumpStreak' \in 0..(n + 1)
    BY <1>5 DEF StreakInv
  <2>5. shown' \in Seq(Observation) /\ Len(shown') = n + 1
    BY <1>3 DEF Shows
  <2> QED BY <1>3, <1>6, <1>7, <2>2, <2>3, <2>4, <2>5 DEF HistoryTypeOK
<1>9. n + 1 \in Nat /\ m \in Nat
  BY <1>5
<1> QED BY <1>4, <1>5, <1>7, <1>8, <1>9 DEF HistoryInv

LEMMA HistoryInvariance == HistorySpec => []HistoryInv
<1>1. ASSUME HistoryInv, [HistoryNext]_historyVars PROVE HistoryInv'
  <2>1. CASE UNCHANGED historyVars
    BY <1>1, <2>1 DEF historyVars, HistoryInv, HistoryTypeOK, PenaltiesInv, WindowInv, Holds,
       StreakInv, IsJump
  <2> QED
    BY <1>1, <2>1, HistoryAssumption, AnalyseKeepsInv, AnalyseOthersKeepsInv
       DEF HistoryNext
<1> QED BY <1>1, HistoryAssumption, HistoryInitKeepsInv, PTL DEF HistorySpec

(* The detectors keep their streaks and windows within their bounds. *)
THEOREM HistoryTypeCorrect == HistorySpec => []HistoryTypeOK
<1>1. HistoryInv => HistoryTypeOK
  BY DEF HistoryInv
<1> QED BY <1>1, HistoryInvariance, PTL

LEMMA JumpsAreExact == HistoryAssumption /\ HistoryInv => JumpsExact
<1> SUFFICES ASSUME HistoryAssumption, HistoryInv PROVE JumpsExact
  OBVIOUS
<1>1. PICK n \in Nat, k \in Nat, j \in Nat : WindowInv(n, k) /\ StreakInv(n, j)
  BY DEF HistoryInv
<1>2. n = Len(shown) /\ j = jumpStreak
  BY <1>1 DEF WindowInv, StreakInv
<1>3. /\ n > 0 => j < n
      /\ \A i \in (n - j + 1)..n : IsJump(i)
      /\ j + 1 < n => ~ IsJump(n - j)
  BY <1>1 DEF StreakInv
<1>4. "jump" \in penalties <=> (present /\ j >= JumpStreak)
  BY <1>2 DEF HistoryInv, PenaltiesInv
<1>5. JumpStreak \in Nat \ {0}
  BY DEF HistoryAssumption
<1> DEFINE recent == (n - JumpStreak + 1)..n
<1>6. ASSUME j >= JumpStreak PROVE n > JumpStreak /\ \A i \in recent : IsJump(i)
  <2>1. n > JumpStreak
    <3>1. j \in 0..n
      BY <1>2 DEF HistoryInv, HistoryTypeOK
    <3> QED BY <1>3, <1>5, <1>6, <3>1
  <2>2. \A i \in recent : i \in (n - j + 1)..n
    BY <1>5, <1>6
  <2> QED BY <1>3, <2>1, <2>2
<1>7. ASSUME j < JumpStreak, n > JumpStreak PROVE \E i \in recent : ~ IsJump(i)
  <2>1. PICK i \in Int : i = n - j
    OBVIOUS
  <2>2. j + 1 < n /\ i \in recent
    BY <1>5, <1>7, <2>1
  <2> QED BY <1>3, <2>1, <2>2
<1>8. (j >= JumpStreak) <=> (n > JumpStreak /\ \A i \in recent : IsJump(i))
  <2>1. j >= JumpStreak \/ j < JumpStreak
    BY <1>5
  <2> QED BY <1>5, <1>6, <1>7, <2>1
<1> QED BY <1>2, <1>4, <1>8 DEF JumpsExact, IsJump

(* PredictionJumpDetector punishes exactly those who proposed with a jump  *)
(* the last JumpStreak times, absences aside.                              *)
THEOREM JumpsExactHolds == HistorySpec => []JumpsExact
<1>1. HistoryInv => JumpsExact
  BY HistoryAssumption, JumpsAreExact
<1> QED BY <1>1, HistoryInvariance, PTL

(* A product grows with its factors. *)
LEMMA ProductsGrow ==
  ASSUME NEW a \in Nat, NEW b \in Nat, NEW c \in Nat, a <= b
  PROVE  a * c <= b * c /\ c * a <= c * b /\ a * c \in Nat /\ b * c \in Nat
OBVIOUS

LEMMA ProductPlus ==
  ASSUME NEW a \in Nat, NEW b \in Nat
  PROVE  (a + 1) * b = a * b + b
OBVIOUS

(* m jumps among the steps of the window, if they are all of the steps or  *)
(* enough of them, carry the sum over the threshold.                       *)
LEMMA EnoughJumps ==
  ASSUME HistoryAssumption, NEW steps \in Nat, steps > 0, steps <= TemporalWindow - 1,
         NEW j \in Nat, j * JumpThreshold >= VariationThreshold * (TemporalWindow - 1),
         NEW m \in Nat, m = IF j < steps THEN j ELSE steps
  PROVE  (JumpThreshold + 1) * m > VariationThreshold * steps
<1>1. /\ JumpThreshold \in Nat /\ VariationThreshold \in Nat /\ VariationThreshold > 0
      /\ VariationThreshold <= JumpThreshold
      /\ TemporalWindow - 1 \in Nat /\ TemporalWindow - 1 > 0
  BY DEF HistoryAssumption
<1>2. VariationThreshold * steps <= VariationThreshold * (TemporalWindow - 1)
  BY <1>1, ProductsGrow
<1>3. (JumpThreshold + 1) * m = JumpThreshold * m + m
  BY <1>1, ProductPlus
<1>4. CASE j < steps
  <2>1. m = j
    BY <1>4
  <2>2. VariationThreshold * (TemporalWindow - 1) > 0
    <3> DEFINE w == TemporalWindow - 1
    <3>1. w \in Nat /\ 1 <= w
      BY <1>1
    <3> HIDE DEF w
    <3>2. VariationThreshold * 1 <= VariationThreshold * w
      <4>1. 1 \in Nat
        OBVIOUS
      <4> QED BY <1>1, <3>1, <4>1, ProductsGrow
    <3>3. VariationThreshold * 1 = VariationThreshold
      BY <1>1
    <3>4. VariationThreshold * w \in Int
      BY <1>1, <3>1
    <3>5. VariationThreshold * w > 0
      BY <1>1, <3>2, <3>3, <3>4
    <3> QED BY <3>5 DEF w
  <2>3. j * JumpThreshold = JumpThreshold * j /\ JumpThreshold * j \in Nat
    BY <1>1
  <2>4. j > 0
    <3>1. j = 0 => j * JumpThreshold = 0
      BY <1>1
    <3>2. VariationThreshold * (TemporalWindow - 1) \in Int
      BY <1>1
    <3> QED BY <2>2, <3>1, <3>2
  <2> DEFINE a == JumpThreshold * j
             b == VariationThreshold * (TemporalWindow - 1)
             c == VariationThreshold * steps
  <2>5. a \in Int /\ b \in Int /\ c \in Int /\ a >= b /\ c <= b /\ j > 0
        /\ (JumpThreshold + 1) * m = a + j
    BY <1>1, <1>2, <1>3, <2>1, <2>3, <2>4
  <2> HIDE DEF a, b, c
  <2>6. a + j > c
    BY <2>5
  <2> QED BY <2>5, <2>6 DEF c
<1>5. CASE ~(j < steps)
  <2>1. m = steps
    BY <1>5
  <2> DEFINE a == JumpThreshold * steps
             c == VariationThreshold * steps
  <2>2. a \in Int /\ c \in Int /\ c <= a /\ (JumpThreshold + 1) * m = a + steps
    BY <1>1, <1>3, <2>1, ProductsGrow
  <2> HIDE DEF a, c
  <2>3. a + steps > c
    BY <2>2
  <2> QED BY <2>2, <2>3 DEF c
<1> QED BY <1>4, <1>5

LEMMA PersistentJumpersAreCaught ==
  HistoryAssumption /\ HistoryInv => PersistentJumpersAreInconsistent
<1> SUFFICES ASSUME HistoryAssumption, HistoryInv, present,
                    Len(shown) >= TemporalWindow \div 2,
                    jumpStreak * JumpThreshold >= VariationThreshold * (TemporalWindow - 1)
             PROVE  "temporal" \in penalties
  BY DEF PersistentJumpersAreInconsistent
<1>1. PICK n \in Nat, k \in Nat, j \in Nat : WindowInv(n, k) /\ StreakInv(n, j)
  BY DEF HistoryInv
<1>2. n = Len(shown) /\ k = Len(predictions) /\ j = jumpStreak
  BY <1>1 DEF WindowInv, StreakInv
<1>3. /\ k <= n /\ k <= TemporalWindow /\ k \in {n, TemporalWindow}
      /\ \A i \in 1..k : predictions[i] = shown[n - k + i].prediction
  BY <1>1 DEF WindowInv, Holds
<1>4. /\ n > 0 => j < n
      /\ \A i \in (n - j + 1)..n : IsJump(i)
  BY <1>1 DEF StreakInv
<1>5. /\ TemporalWindow \in Nat /\ TemporalWindow >= 2
      /\ JumpThreshold \in Nat /\ VariationThreshold \in Nat /\ VariationThreshold > 0
  BY DEF HistoryAssumption
<1>6. j \in 0..n /\ predictions \in Seq(Nat)
  BY <1>2 DEF HistoryInv, HistoryTypeOK
<1>7. j > 0
  <2> DEFINE w == TemporalWindow - 1
  <2>1. w \in Nat /\ 1 <= w /\ 1 \in Nat
    BY <1>5
  <2>2. j * JumpThreshold >= VariationThreshold * w
    BY <1>2
  <2> HIDE DEF w
  <2>3. VariationThreshold * 1 <= VariationThreshold * w
    BY <1>5, <2>1, ProductsGrow
  <2>4. VariationThreshold * w \in Int /\ VariationThreshold * 1 = VariationThreshold
    BY <1>5, <2>1
  <2>5. j = 0 => j * JumpThreshold = 0
    BY <1>5
  <2> QED BY <1>5, <2>2, <2>3, <2>4, <2>5
<1>8. n > 1 /\ k > 1
  <2>1. n > 1
    BY <1>4, <1>6, <1>7
  <2> QED BY <1>3, <1>5, <2>1
<1>9. PICK steps \in Nat : steps = k - 1 /\ steps > 0 /\ steps <= TemporalWindow - 1
  BY <1>3, <1>5, <1>8
<1>10. PICK m \in Nat : m = IF j < steps THEN j ELSE steps
  OBVIOUS
<1> DEFINE f == [i \in 1..steps |-> Distance(predictions[i + 1], predictions[i])]
           S == 1..steps
           T == (steps - m + 1)..steps
<1>11. ASSUME NEW i \in S
       PROVE  /\ i \in 1..k /\ i + 1 \in 1..k
              /\ f[i] = Distance(predictions[i + 1], predictions[i])
              /\ predictions[i] \in Nat /\ predictions[i + 1] \in Nat
              /\ f[i] \in Nat
  <2>1. i \in 1..k /\ i + 1 \in 1..k
    BY <1>9
  <2>2. predictions[i] \in Nat /\ predictions[i + 1] \in Nat
    <3>1. i \in 1..Len(predictions) /\ i + 1 \in 1..Len(predictions)
      BY <1>2, <2>1
    <3> QED BY <1>6, <3>1, EntryTyped
  <2>3. f[i] = Distance(predictions[i + 1], predictions[i])
    OBVIOUS
  <2>4. \A p, q \in Nat : Distance(p, q) \in Nat
    BY DEF Distance
  <2>5. Distance(predictions[i + 1], predictions[i]) \in Nat
    BY <2>2, <2>4
  <2> HIDE DEF f
  <2> QED BY <2>1, <2>2, <2>3, <2>5
<1>12. ASSUME NEW i \in T PROVE i \in S /\ JumpThreshold + 1 <= f[i]
  <2>1. i \in S
    BY <1>9, <1>10
  <2>2. PICK q \in Int : q = n - k + (i + 1)
    BY <2>1
  <2>3. q \in (n - j + 1)..n /\ q - 1 = n - k + i
    BY <1>6, <1>9, <1>10, <2>1, <2>2
  <2>4. Distance(shown[q].prediction, shown[q - 1].prediction) > JumpThreshold
    BY <1>4, <2>3 DEF IsJump
  <2>5. f[i] > JumpThreshold
    BY <1>3, <1>11, <2>1, <2>2, <2>3, <2>4
  <2>6. f[i] \in Nat
    BY <1>11, <2>1
  <2> QED BY <1>5, <2>1, <2>5, <2>6
<1>13. IsFiniteSet(S) /\ Cardinality(T) = m
  <2>1. IsFiniteSet(S)
    <3>1. 1 \in Int /\ steps \in Int
      OBVIOUS
    <3> QED BY <3>1, FS_Interval
  <2>2. m <= steps /\ steps - m + 1 \in Int /\ steps \in Int
    BY <1>10
  <2>3. Cardinality(T) = IF steps - m + 1 > steps THEN 0 ELSE steps - (steps - m + 1) + 1
    BY <2>2, FS_Interval
  <2> QED BY <2>1, <2>2, <2>3
<1>14. SumFunction(f) = SumFunctionOnSet(f, S)
  BY DEF SumFunction, FoldFunction, SumFunctionOnSet
<1> HIDE DEF f, S, T
<1>15. (JumpThreshold + 1) * Cardinality(T) <= SumFunctionOnSet(f, S)
  <2>1. T \in SUBSET S /\ JumpThreshold + 1 \in Int
    BY <1>5, <1>12
  <2>2. \A i \in S : f[i] \in Nat
    BY <1>11
  <2>3. \A i \in T : JumpThreshold + 1 <= f[i]
    BY <1>12
  <2> QED BY <1>13, <2>1, <2>2, <2>3, SumAtLeast
<1>16. (JumpThreshold + 1) * m > VariationThreshold * steps
  BY <1>2, <1>9, <1>10, EnoughJumps
<1>17. SumFunctionOnSet(f, S) > VariationThreshold * steps
  <2> DEFINE a == (JumpThreshold + 1) * m
             b == SumFunctionOnSet(f, S)
             c == VariationThreshold * steps
  <2>1. a \in Int /\ b \in Int /\ c \in Int
    <3>1. \A i \in S : f[i] \in Int
      BY <1>11
    <3>2. b \in Int
      BY <1>13, <3>1, SumUnfold
    <3> QED BY <1>5, <3>2
  <2>2. a > c /\ a <= b
    BY <1>13, <1>15, <1>16
  <2> HIDE DEF a, b, c
  <2>3. b > c
    BY <2>1, <2>2
  <2> QED BY <2>3 DEF b, c
<1>18. Len(predictions) >= TemporalWindow \div 2
  <2>1. \A w \in Nat : w >= 2 => w \div 2 <= w /\ w \div 2 \in Nat
    OBVIOUS
  <2>2. TemporalWindow \div 2 <= TemporalWindow /\ TemporalWindow \div 2 \in Nat
    BY <1>5, <2>1
  <2>3. n >= TemporalWindow \div 2
    BY <1>2
  <2> HIDE DEF f
  <2> QED BY <1>2, <1>3, <2>2, <2>3
<1>19. Inconsistent(predictions)
  <2>1. steps = Len(predictions) - 1
    BY <1>2, <1>9
  <2>2. SumFunction(f) > VariationThreshold * steps
    BY <1>14, <1>17
  <2> QED BY <1>9, <1>18, <2>1, <2>2 DEF Inconsistent, f
<1> QED BY <1>19 DEF HistoryInv, PenaltiesInv

(* TemporalConsistencyDetector punishes whoever goes on jumping, whatever  *)
(* the calm part of the window says.                                       *)
THEOREM PersistentJumpersHold == HistorySpec => []PersistentJumpersAreInconsistent
<1>1. HistoryInv => PersistentJumpersAreInconsistent
  BY HistoryAssumption, PersistentJumpersAreCaught
<1> QED BY <1>1, HistoryInvariance, PTL

(* Some error in the zone exceeds the high threshold, and one outside it   *)
(* is below the low one.                                                   *)
LEMMA AdaptiveWitnesses ==
  ASSUME HistoryAssumption, errors \in Seq(Nat \X BOOLEAN), Adaptive(errors)
  PROVE  \E i, j \in DOMAIN errors : errors[i][1] > 3 * errors[j][1]
<1> DEFINE f == [i \in DOMAIN errors |-> errors[i][1]]
           near == Samples(errors, TRUE)
           far == Samples(errors, FALSE)
<1>1. \A i \in DOMAIN errors : f[i] \in Nat /\ f[i] = errors[i][1]
  <2>1. \A i \in DOMAIN errors : errors[i] \in Nat \X BOOLEAN
    OBVIOUS
  <2>2. \A i \in DOMAIN errors : errors[i][1] \in Nat
    BY <2>1
  <2> QED BY <2>2
<1>2. near \in SUBSET DOMAIN errors /\ far \in SUBSET DOMAIN errors
  BY DEF Samples
<1>3. IsFiniteSet(near) /\ IsFiniteSet(far)
  <2>1. DOMAIN errors = 1..Len(errors) /\ 1 \in Int /\ Len(errors) \in Int
    OBVIOUS
  <2>2. IsFiniteSet(DOMAIN errors)
    BY <2>1, FS_Interval
  <2> QED BY <1>2, <2>2, FS_Subset
<1>4. ErrHigh \in Nat /\ ErrLow \in Nat /\ 3 * ErrLow <= ErrHigh
  BY DEF HistoryAssumption
<1>5. /\ SumFunctionOnSet(f, near) > ErrHigh * Cardinality(near)
      /\ SumFunctionOnSet(f, far) < ErrLow * Cardinality(far)
  BY DEF Adaptive, SumOfErrors
<1> HIDE DEF f, near, far
<1>6. PICK i \in near : f[i] > ErrHigh
  <2> SUFFICES ASSUME \A i \in near : ~(f[i] > ErrHigh) PROVE FALSE
    OBVIOUS
  <2>1. \A i \in near : f[i] \in Int /\ f[i] <= ErrHigh
    BY <1>1, <1>2, <1>4
  <2>2. SumFunctionOnSet(f, near) <= ErrHigh * Cardinality(near)
    <3>1. ErrHigh \in Int
      BY <1>4
    <3> QED BY <1>3, <2>1, <3>1, SumAtMost
  <2>3. SumFunctionOnSet(f, near) \in Int /\ Cardinality(near) \in Nat
    BY <1>3, <2>1, SumUnfold, FS_CardinalityType
  <2>4. ErrHigh * Cardinality(near) \in Int
    BY <1>4, <2>3
  <2> QED BY <1>5, <2>2, <2>3, <2>4
<1>7. PICK j \in far : f[j] < ErrLow
  <2> SUFFICES ASSUME \A j \in far : ~(f[j] < ErrLow) PROVE FALSE
    OBVIOUS
  <2>1. \A j \in far : f[j] \in Nat /\ ErrLow <= f[j]
    BY <1>1, <1>2, <1>4
  <2>2. ErrLow * Cardinality(far) <= SumFunctionOnSet(f, far)
    <3>1. far \in SUBSET far /\ ErrLow \in Int
      BY <1>4
    <3> QED BY <1>3, <2>1, <3>1, SumAtLeast
  <2>3. SumFunctionOnSet(f, far) \in Int /\ Cardinality(far) \in Nat
    <3>1. \A j \in far : f[j] \in Int
      BY <2>1
    <3> QED BY <1>3, <3>1, SumUnfold, FS_CardinalityType
  <2>4. ErrLow * Cardinality(far) \in Int
    BY <1>4, <2>3
  <2> QED BY <1>5, <2>2, <2>3, <2>4
<1>8. /\ i \in DOMAIN errors /\ j \in DOMAIN errors
      /\ f[i] \in Nat /\ f[j] \in Nat /\ f[i] = errors[i][1] /\ f[j] = errors[j][1]
  BY <1>1, <1>2, <1>6, <1>7
<1>9. f[i] > 3 * f[j]
  BY <1>4, <1>6, <1>7, <1>8
<1> QED BY <1>8, <1>9

(* AdaptiveDetector never takes a node for an attacker whose errors differ *)
(* by a factor of three at most.                                           *)
THEOREM EvenErrorsHold == HistorySpec => []EvenErrorsAreNotAdaptive
<1>1. HistoryInv => EvenErrorsAreNotAdaptive
  BY HistoryAssumption, AdaptiveWitnesses
     DEF HistoryInv, HistoryTypeOK, PenaltiesInv, EvenErrorsAreNotAdaptive
<1> QED BY <1>1, HistoryInvariance, PTL

-----------------------------------------------------------------------------
(* The DAG that a node predicts from.  The vertices are named by the       *)
(* length of "order", which pruning keeps at Keep: the names stop at Keep, *)
(* and the vertex of that name becomes its own parent.                     *)
Named(n) == MinOf(n, Keep + 1) - 1

ADInv ==
  /\ made \in 0..EndStep /\ predictedBy \in 0..EndStep
  /\ order \in Seq(0..Keep) /\ Len(order) = MinOf(made, Keep)
  /\ DOMAIN nodes \subseteq 0..Keep /\ nodes \in [DOMAIN nodes -> 1..EndStep]
  /\ DOMAIN parents \subseteq 0..Keep /\ parents \in [DOMAIN parents -> 0..Keep]
  /\ last = IF made = 0 THEN NoVertex ELSE Named(made)
  /\ made \in 1..Keep => last \in DOMAIN nodes /\ nodes[last] = made
  /\ made >= 2 => predictedBy = IF made <= Keep + 1 THEN made - 1 ELSE made

(* prune forgets entries of the maps, and all but Keep names.              *)
LEMMA PruneFacts ==
  ASSUME NEW o \in Seq(0..Keep), Len(o) <= Keep + 1, NEW T,
         NEW f, DOMAIN f \subseteq 0..Keep, f \in [DOMAIN f -> T]
  PROVE  /\ PruneOrder(o) \in Seq(0..Keep)
         /\ Len(PruneOrder(o)) = MinOf(Len(o), Keep)
         /\ DOMAIN PruneIn(o, f) \subseteq 0..Keep
         /\ PruneIn(o, f) \in [DOMAIN PruneIn(o, f) -> T]
         /\ Len(o) <= Keep => PruneIn(o, f) = f
<1> USE AdaptiveDagAssumption
<1>1. CASE Len(o) <= Keep
  BY <1>1 DEF PruneOrder, PruneIn, MinOf
<1>2. CASE Len(o) = Keep + 1
  <2> DEFINE S == DOMAIN f \ Range(SubSeq(o, 1, Len(o) - Keep))
  <2>1. PruneIn(o, f) = [x \in S |-> f[x]] /\ S \subseteq DOMAIN f
    BY <1>2 DEF PruneIn, Restrict
  <2>2. PruneOrder(o) = SubSeq(o, 2, Len(o))
    <3>1. Len(o) - Keep + 1 = 2 /\ ~(Len(o) <= Keep)
      BY <1>2
    <3> QED BY <3>1 DEF PruneOrder
  <2>3. SubSeq(o, 2, Len(o)) \in Seq(0..Keep) /\ Len(SubSeq(o, 2, Len(o))) = Keep
    BY <1>2
  <2> HIDE DEF S
  <2> QED BY <1>2, <2>1, <2>2, <2>3 DEF MinOf
<1> QED BY <1>1, <1>2

LEMMA PredictionKeepsInv ==
  ASSUME ADInv, GeneratePrediction
  PROVE  ADInv'
<1> USE AdaptiveDagAssumption
<1> DEFINE id     == Len(order)
           grown  == Append(order, id)
           signal == Entered(nodes, id, made + 1)
           parent == CreateBelow(id)
<1>1. /\ made < EndStep /\ made' = made + 1
      /\ predictedBy' = Predicted(id, signal, parent)
      /\ last' = id
      /\ order' = PruneOrder(grown)
      /\ nodes' = PruneIn(grown, signal)
      /\ parents' = PruneIn(grown, parent)
  BY DEF GeneratePrediction
<1>2. id \in 0..Keep /\ id = MinOf(made, Keep) /\ made \in Nat
  BY DEF ADInv, MinOf
<1>3. grown \in Seq(0..Keep) /\ Len(grown) = id + 1
  BY <1>2 DEF ADInv
<1>4. /\ DOMAIN signal = DOMAIN nodes \cup {id} /\ DOMAIN signal \subseteq 0..Keep
      /\ signal \in [DOMAIN signal -> 1..EndStep]
      /\ signal[id] = made + 1
      /\ \A x \in DOMAIN nodes : x # id => signal[x] = nodes[x]
  <2>1. made + 1 \in 1..EndStep
    BY <1>1, <1>2
  <2>2. DOMAIN nodes \subseteq 0..Keep /\ nodes \in [DOMAIN nodes -> 1..EndStep]
    BY DEF ADInv
  <2> HIDE DEF id
  <2> QED BY <1>2, <2>1, <2>2 DEF Entered
<1>5. /\ DOMAIN parent \subseteq 0..Keep /\ parent \in [DOMAIN parent -> 0..Keep]
      /\ made > 0 => id \in DOMAIN parent /\ parent[id] = last
  <2>1. CASE made = 0
    BY <2>1 DEF ADInv, CreateBelow
  <2>2. CASE made > 0
    <3>1. last \in 0..Keep /\ last # NoVertex
      BY <1>2, <2>2 DEF ADInv, Named, MinOf, NoVertex
    <3>2. parent = Entered(parents, id, last)
      BY <3>1 DEF CreateBelow
    <3>3. DOMAIN parents \subseteq 0..Keep /\ parents \in [DOMAIN parents -> 0..Keep]
      BY DEF ADInv
    <3> HIDE DEF id, parent
    <3> QED BY <1>2, <3>1, <3>2, <3>3 DEF Entered
  <2> QED BY <1>2, <2>1, <2>2
<1>6. /\ order' \in Seq(0..Keep) /\ Len(order') = MinOf(id + 1, Keep)
      /\ DOMAIN nodes' \subseteq 0..Keep /\ nodes' \in [DOMAIN nodes' -> 1..EndStep]
      /\ DOMAIN parents' \subseteq 0..Keep /\ parents' \in [DOMAIN parents' -> 0..Keep]
      /\ id + 1 <= Keep => nodes' = signal
  <2> HIDE DEF id, grown, signal, parent
  <2>1. Len(grown) <= Keep + 1
    BY <1>2, <1>3
  <2> QED BY <1>1, <1>2, <1>3, <1>4, <1>5, <2>1, PruneFacts
<1>7. /\ predictedBy' \in 0..EndStep
      /\ made >= 1 => predictedBy' = IF made <= Keep THEN made ELSE made + 1
  <2> HIDE DEF id, grown, signal, parent
  <2>1. CASE made = 0
    <3>1. predictedBy' \in 1..EndStep
      BY <1>1, <1>4, <1>5 DEF Predicted
    <3> QED BY <2>1, <3>1
  <2>2. CASE made >= 1 /\ made <= Keep
    <3>1. last = made - 1 /\ last # id /\ last \in DOMAIN nodes /\ nodes[last] = made
      BY <1>2, <2>2 DEF ADInv, Named, MinOf
    <3>2. predictedBy' = made
      BY <1>1, <1>4, <1>5, <2>2, <3>1 DEF Predicted
    <3> QED BY <1>1, <1>2, <2>2, <3>2
  <2>3. CASE made > Keep
    <3>1. last = Keep /\ id = Keep
      BY <1>2, <2>3 DEF ADInv, Named, MinOf
    <3>2. id \in DOMAIN parent /\ parent[id] = id /\ id \in DOMAIN signal
      BY <1>2, <1>4, <1>5, <2>3, <3>1
    <3>3. predictedBy' = made + 1
      BY <1>1, <1>4, <3>2 DEF Predicted
    <3> QED BY <1>1, <1>2, <2>3, <3>3
  <2> QED BY <1>2, <2>1, <2>2, <2>3
<1> HIDE DEF id, grown, signal, parent
<1>8. Len(order') = MinOf(made', Keep) /\ last' = Named(made')
  BY <1>1, <1>2, <1>6 DEF MinOf, Named
<1>9. made' \in 1..Keep => last' \in DOMAIN nodes' /\ nodes'[last'] = made'
  BY <1>1, <1>2, <1>4, <1>6 DEF MinOf
<1>10. made' >= 2 => predictedBy' = IF made' <= Keep + 1 THEN made' - 1 ELSE made'
  BY <1>1, <1>2, <1>7
<1>11. made' \in 0..EndStep /\ made' # 0
  BY <1>1, <1>2
<1> QED BY <1>6, <1>7, <1>8, <1>9, <1>10, <1>11 DEF ADInv

LEMMA ADInvariance == ADSpec => []ADInv
<1>1. ADInit => ADInv
  <2> SUFFICES ASSUME ADInit PROVE ADInv
    OBVIOUS
  <2>1. order = <<>> /\ <<>> \in Seq(0..Keep) /\ Len(<<>>) = 0
    BY DEF ADInit
  <2> QED BY <2>1, AdaptiveDagAssumption DEF ADInit, ADInv, MinOf
<1>2. ADInv /\ [GeneratePrediction]_adVars => ADInv'
  <2>1. ADInv /\ UNCHANGED adVars => ADInv'
    BY DEF ADInv, adVars
  <2> QED BY <2>1, PredictionKeepsInv
<1> QED BY <1>1, <1>2, PTL DEF ADSpec

LEMMA ADTypeCorrect == ADSpec => []ADTypeOK
<1>1. ADInv => ADTypeOK
  <2> SUFFICES ASSUME ADInv PROVE ADTypeOK
    OBVIOUS
  <2> USE AdaptiveDagAssumption
  <2>1. Len(order) <= Keep /\ order \in Seq(0..(Keep + 1))
    BY DEF ADInv, MinOf
  <2>2. last \in 0..(Keep + 1) \cup {NoVertex}
    BY DEF ADInv, MinOf, Named
  <2>3. 0..Keep \subseteq 0..(Keep + 1)
    OBVIOUS
  <2> QED BY <2>1, <2>2, <2>3 DEF ADInv, ADTypeOK
<1> QED BY <1>1, ADInvariance, PTL

(* A run refutes PredictsFromParent, which dag.rs says of predict.  Up to  *)
(* step Keep + 1 the prediction is made of the signal of the step before;  *)
(* from then on, for ever, of the node's own signal of the step itself.    *)
THEOREM PredictsFromParentUntilPruned ==
  ADSpec => []/\ made <= Keep + 1 => PredictsFromParent
              /\ made >  Keep + 1 => predictedBy = made
<1>1. ADInv => /\ made <= Keep + 1 => PredictsFromParent
               /\ made >  Keep + 1 => predictedBy = made
  BY AdaptiveDagAssumption DEF ADInv, PredictsFromParent
<1> QED BY <1>1, ADInvariance, PTL

-----------------------------------------------------------------------------
(* The components together.  They share no state: a behaviour of the       *)
(* composition that the runs check is a behaviour of each component, so    *)
(* that what is proved of a component holds in it.                         *)
LEMMA LibraryComposes ==
  MCSpec => LSpec /\ CSSpec /\ CVSpec /\ RLSpec /\ ADSpec /\ FPSpec /\ RepSpec
              /\ HistorySpec
<1>1. MCInit => LInit /\ CSInit /\ CVInit /\ RLInit /\ ADInit /\ FPInit /\ RepInit
                  /\ HistoryInit
  BY DEF MCInit
<1>2. [MCNext]_libraryVars =>
        /\ [LNext]_ledger /\ [CSNext]_csVars /\ [CVNext]_cvVars /\ [RLNext]_rlVars
        /\ [GeneratePrediction]_adVars /\ [FPNext]_fpVars /\ [RepNext]_repVars
        /\ [HistoryNext]_historyVars
  BY DEF MCNext, Frame, Still, libraryVars
<1> QED BY <1>1, <1>2, PTL DEF MCSpec, LSpec, CSSpec, CVSpec, RLSpec, ADSpec, FPSpec,
                               RepSpec, HistorySpec

(* The types of all the components, in every behaviour of the composition. *)
THEOREM LibraryTypeCorrect == MCSpec => []LibraryTypeOK
<1>1. LSpec => []LTypeOK
  <2>1. LedgerExact(ledger) => LTypeOK
    BY DEF LedgerExact, LTypeOK
  <2> QED BY <2>1, LedgerInvariance, PTL
<1> QED BY <1>1, LibraryComposes, CSTypeCorrect, CVTypeCorrect, RLTypeCorrect, ADTypeCorrect,
           FPTypeCorrect, RepTypeCorrect, HistoryTypeCorrect, PTL DEF LibraryTypeOK

=============================================================================
