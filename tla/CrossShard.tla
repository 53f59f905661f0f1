----------------------------- MODULE CrossShard -----------------------------
(***************************************************************************)
(* Receipts of cross-shard transactions (src/cross_shard.rs): each node    *)
(* has a manager with the receipts it issued (outgoing) and those that the *)
(* gossip brought it (incoming), each node counts its own steps, and the   *)
(* gossip repeats and reorders receipts as it likes.                       *)
(*                                                                         *)
(* The manager is a library: no caller exists yet, so the callers below    *)
(* follow the protocol of the module's documentation.  A node issues the   *)
(* receipt of a lock it finalized, stamped with its own step; a node of    *)
(* the receiver's shard credits what consume() returns; a node of the      *)
(* sender's shard consumes a receipt when it hears of the commit, and      *)
(* refunds what expired_receipts() returns.                                *)
(***************************************************************************)
EXTENDS Integers, FiniteSets, Functions

CONSTANTS
  Manager,   \* the nodes
  Lock,      \* cross-shard transactions whose LockTx is finalized
  Home,      \* [Lock -> SUBSET Manager], the nodes of the sender's shard
  Away,      \* [Lock -> SUBSET Manager], the nodes of the receiver's shard
  Expiry,    \* CROSS_SHARD_RECEIPT_EXPIRY
  LastShardStep   \* bound on the steps

ASSUME CrossShardAssumption ==
  /\ Home \in [Lock -> SUBSET Manager]
  /\ Away \in [Lock -> SUBSET Manager]
  /\ Expiry \in Nat
  /\ LastShardStep \in Nat

VARIABLES
  outgoing,  \* [Manager -> a partial function from Receipt to ReceiptStatus]
  incoming,  \* likewise
  shardStep, \* the step of each node
  credited,  \* history variable: how often each node credited a receipt
  refunded   \* history variable: how often each node refunded a receipt

csVars == <<outgoing, incoming, shardStep, credited, refunded>>

(* CrossShardReceipt: its hash covers the lock and the step it was made in.*)
Receipt == [lock : Lock, step : 0..LastShardStep]

ReceiptStatus == {"Pending", "Consumed", "Expired"}

IsReceipts(f) == DOMAIN f \subseteq Receipt /\ f \in [DOMAIN f -> ReceiptStatus]

CSTypeOK ==
  /\ DOMAIN outgoing = Manager /\ DOMAIN incoming = Manager
  /\ \A m \in Manager :
       /\ IsReceipts(outgoing[m]) /\ \A r \in DOMAIN outgoing[m] : m \in Home[r.lock]
       /\ IsReceipts(incoming[m]) /\ \A r \in DOMAIN incoming[m] : m \in Away[r.lock]
  /\ shardStep \in [Manager -> 0..LastShardStep]
  /\ credited \in [Manager \X Receipt -> Nat]
  /\ refunded \in [Manager \X Receipt -> Nat]

CSInit ==
  /\ outgoing = [m \in Manager |-> [r \in {} |-> "Pending"]]
  /\ incoming = outgoing
  /\ shardStep = [m \in Manager |-> 0]
  /\ credited = [x \in Manager \X Receipt |-> 0]
  /\ refunded = credited

Has(f, r, status) == r \in DOMAIN f /\ f[r] = status

With(f, r, status) ==
  [x \in DOMAIN f \cup {r} |-> IF x = r THEN status ELSE f[x]]

-----------------------------------------------------------------------------
ShardTick(m) ==
  /\ shardStep[m] < LastShardStep
  /\ shardStep' = [shardStep EXCEPT ![m] = @ + 1]
  /\ UNCHANGED <<outgoing, incoming, credited, refunded>>

(* CrossShardReceipt::from_tx and register_outgoing, once the lock is      *)
(* finalized at m.  A manager registers a lock once, as it is finalized    *)
(* once; register_outgoing itself would put "Pending" in the place of what *)
(* became of the receipt, were it called with the same one again.          *)
Issue(m, l) ==
  /\ m \in Home[l]
  /\ \A r \in DOMAIN outgoing[m] : r.lock # l
  /\ outgoing' = [outgoing EXCEPT
       ![m] = With(@, [lock |-> l, step |-> shardStep[m]], "Pending")]
  /\ UNCHANGED <<incoming, shardStep, credited, refunded>>

ReceivedAgain(f, r) == With(f, r, "Pending")                     \* mutant

(* register_incoming keeps what it knows of a receipt it has already.      *)
Received(f, r) == IF r \in DOMAIN f THEN f ELSE With(f, r, "Pending")

Gossip(m, r) ==
  /\ m \in Away[r.lock]
  /\ \E n \in Manager : r \in DOMAIN outgoing[n]
  /\ incoming' = [incoming EXCEPT ![m] = Received(@, r)]
  /\ UNCHANGED <<outgoing, shardStep, credited, refunded>>

IsConsumed(m, r) ==
  Has(incoming[m], r, "Consumed") \/ Has(outgoing[m], r, "Consumed")

ConsumeBoth(m, r) ==                                             \* mutant
  /\ incoming' = [incoming EXCEPT ![m] = With(@, r, "Consumed")]
  /\ outgoing' = [outgoing EXCEPT ![m] = With(@, r, "Consumed")]

(* CrossShardManager::consume looks for a pending receipt among the        *)
(* incoming ones, then among the outgoing ones.                            *)
Consume(m, r) ==
  \/ /\ Has(incoming[m], r, "Pending")
     /\ incoming' = [incoming EXCEPT ![m] = With(@, r, "Consumed")]
     /\ UNCHANGED outgoing
  \/ /\ ~Has(incoming[m], r, "Pending")
     /\ Has(outgoing[m], r, "Pending")
     /\ outgoing' = [outgoing EXCEPT ![m] = With(@, r, "Consumed")]
     /\ UNCHANGED incoming

(* CommitTx in the receiver's shard: is_consumed guards against a replay.  *)
Commit(m, r) ==
  /\ m \in Away[r.lock]
  /\ r \in DOMAIN incoming[m]
  /\ ~IsConsumed(m, r)
  /\ Consume(m, r)
  /\ credited' = [credited EXCEPT ![<<m, r>>] = @ + 1]
  /\ UNCHANGED <<shardStep, refunded>>

(* The sender's shard hears that some node committed the receipt. *)
Acknowledge(m, r) ==
  /\ m \in Home[r.lock]
  /\ \E n \in Manager : Has(incoming[n], r, "Consumed")
  /\ ~IsConsumed(m, r)
  /\ Consume(m, r)
  /\ UNCHANGED <<shardStep, credited, refunded>>

OverdueAtAnyStatus(m) ==                                         \* mutant
  {r \in DOMAIN outgoing[m] : shardStep[m] > r.step + Expiry}

(* expired_receipts *)
Overdue(m) ==
  {r \in DOMAIN outgoing[m] :
     outgoing[m][r] = "Pending" /\ shardStep[m] > r.step + Expiry}

Refund(m) ==
  /\ Overdue(m) # {}
  /\ outgoing' = [outgoing EXCEPT
       ![m] = [r \in DOMAIN @ |-> IF r \in Overdue(m) THEN "Expired" ELSE @[r]]]
  /\ refunded' = [x \in DOMAIN refunded |->
       IF x[1] = m /\ x[2] \in Overdue(m) THEN refunded[x] + 1 ELSE refunded[x]]
  /\ UNCHANGED <<incoming, shardStep, credited>>

CSNext ==
  \E m \in Manager :
    \/ ShardTick(m)
    \/ Refund(m)
    \/ \E l \in Lock : Issue(m, l)
    \/ \E r \in Receipt : Gossip(m, r) \/ Commit(m, r) \/ Acknowledge(m, r)

CSSpec == CSInit /\ [][CSNext]_csVars

-----------------------------------------------------------------------------
(* Gossip repeats receipts, commits are replayed, and yet a node credits a *)
(* receipt at most once.  (Receipts of one lock with different steps are   *)
(* different receipts, and the caller asks is_consumed first.)             *)
CreditedOnce == \A x \in DOMAIN credited : credited[x] <= 1

(* A node that issued a receipt either learns of its consumption or        *)
(* refunds it, once, and never changes its mind.                           *)
OutgoingSettledOnce ==
  \A m \in Manager, r \in Receipt :
    /\ refunded[<<m, r>>] <= 1
    /\ refunded[<<m, r>>] = 1 <=> Has(outgoing[m], r, "Expired")

(* cross_shard.rs: the sender is refunded if the receipt is not consumed.  *)
(* So a manager that says a receipt is consumed does not refund it.        *)
RefundedOnlyIfUnconsumed ==
  \A m \in Manager, r \in Receipt :
    ~(IsConsumed(m, r) /\ refunded[<<m, r>>] > 0)

=============================================================================
