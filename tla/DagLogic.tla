------------------------------ MODULE DagLogic ------------------------------
(***************************************************************************)
(* The transaction core of one node (src/dag_logic.rs): a mempool, a       *)
(* ledger and the balances behind one lock.  Every action below is one     *)
(* critical section of that lock.                                          *)
(*                                                                         *)
(* The consensus that selects what to finalize is an input here: the       *)
(* approved transactions in any order, as they come out of a HashMap, with *)
(* any node as the proposer of each (module NodeLoop computes them).       *)
(***************************************************************************)
EXTENDS Mempool, Ledger, StateManager

CONSTANTS
  Node,          \* the nodes that propose, hence may be rewarded
  MaxRetries,    \* MAX_FINALIZE_RETRIES
  GenesisLimit   \* bound: how many genesis allocations a behaviour makes

ASSUME DagLogicAssumption ==
  /\ Node \subseteq Account
  /\ MaxRetries \in Nat \ {0}
  /\ GenesisLimit \in Nat

VARIABLES
  balances,   \* the StateManager's map
  retries,    \* finalize_retry_count; an absent counter is 0
  genesis,    \* number of genesis allocations so far (a bound)
  applied     \* history variable: the transactions whose apply_tx succeeded

dlVars == <<mpVars, ledger, balances, retries, genesis, applied>>

DLTypeOK ==
  /\ MPTypeOK
  /\ LTypeOK
  /\ IsBalances(balances)
  /\ retries \in [Tx -> Nat]
  /\ genesis \in 0..GenesisLimit
  /\ applied \subseteq Tx

(* The loop of DagLogic::new: every sender's last finalized nonce is       *)
(* pushed into the mempool.                                                *)
SyncNonces(m, l) ==
  LET synced(a) == SetLastNonce(m, a, l.last[a])
  IN  [m EXCEPT !.last = [a \in Account |-> synced(a).last[a]],
                !.history = [a \in Account |-> synced(a).history[a]]]

(* DagLogic::new in an empty data directory *)
DLInit ==
  /\ MPInit
  /\ LInit
  /\ balances = NoBalances
  /\ retries = [t \in Tx |-> 0]
  /\ genesis = 0
  /\ applied = {}

-----------------------------------------------------------------------------
(* DagLogic::check_double_spend: TRUE when the transaction may be added. *)
CheckDoubleSpend(m, l, t) ==
  /\ ~IsKnownNonce(m, Sender[t], Nonce[t])
  /\ <<Sender[t], Nonce[t]>> \notin l.nonces
  /\ Nonce[t] > MaxOf(m.last[Sender[t]], l.last[Sender[t]])
  /\ t \notin m.pending

(* The part that add_transaction, add_transaction_from_gossip and          *)
(* add_verified_batch share                                                *)
Admit(t) ==
  /\ t \in Signed
  /\ CheckDoubleSpend(mempool, ledger, t)
  /\ MPAdd(t)

(* DagLogic::add_transaction: a local submission must be covered by the    *)
(* current balance; what is already pending is not subtracted from it.     *)
AddTransaction(t) ==
  /\ Admit(t)
  /\ HasBalance(balances, Sender[t], TotalCost(t))
  /\ UNCHANGED <<ledger, balances, retries, genesis, applied>>

(* DagLogic::add_transaction_from_gossip: no balance is asked for. *)
AddTransactionFromGossip(t) ==
  /\ Admit(t)
  /\ UNCHANGED <<ledger, balances, retries, genesis, applied>>

(* DagLogic::add_verified_batch: the mempool after the first i             *)
(* transactions of the batch were checked and added, one after the other.  *)
(* Only those that pass both their checks change it.                       *)
Passes(m, l, t) == t \in Signed /\ CheckDoubleSpend(m, l, t) /\ Accepts(m, t)

Intake(m, l, batch) ==
  LET intake[i \in 0..Len(batch)] ==
        IF i = 0 THEN m
        ELSE IF Passes(intake[i - 1], l, batch[i])
             THEN Insert(intake[i - 1], batch[i])
             ELSE intake[i - 1]
  IN  intake

AddVerifiedBatch(batch) ==
  LET intake == Intake(mempool, ledger, batch)
  IN  /\ mempool' = intake[Len(batch)]
      /\ admitted' = admitted \cup
           {batch[i] : i \in {j \in DOMAIN batch :
                                Passes(intake[j - 1], ledger, batch[j])}}
      /\ UNCHANGED <<ledger, balances, retries, genesis, applied>>

(* App::genesis_allocate, the CLI's genesis command *)
AllocateGenesis(a) ==
  /\ genesis < GenesisLimit
  /\ genesis' = genesis + 1
  /\ balances' = GenesisAllocate(balances, a)
  /\ UNCHANGED <<mpVars, ledger, retries, applied>>

-----------------------------------------------------------------------------
(* finalize_batch, phase by phase. *)

AllApproved(m, approved) == approved                             \* mutant

(* The approved transactions that are still pending *)
StillPending(m, approved) == approved \cap m.pending

(* The defensive check compares each transaction alone with the balances   *)
(* before the batch.                                                       *)
Affordable(b, t) == t \in Signed /\ HasBalance(b, Sender[t], TotalCost(t))

(* Signed, but its sender cannot pay: it is retried, MaxRetries times. *)
Waiting(b, t) == t \in Signed /\ ~HasBalance(b, Sender[t], TotalCost(t))

EvictedOneLate(b, r, t) ==                                       \* mutant
  \/ t \notin Signed
  \/ Waiting(b, t) /\ r[t] + 1 > MaxRetries

Evicted(b, r, t) ==
  \/ t \notin Signed
  \/ Waiting(b, t) /\ r[t] + 1 >= MaxRetries

(* The balances after the first i transactions of "order" were applied *)
Run(b, order) ==
  LET run[i \in 0..Len(order)] ==
        IF i = 0 THEN b ELSE ApplyTx(run[i - 1], order[i])
  IN  run

(* The balances after each proposer was credited the fee of each of its    *)
(* transactions, whether or not apply_tx succeeded                         *)
PayRewards(b, order, proposer) ==
  LET paid[i \in 0..Len(order)] ==
        IF i = 0 THEN b
        ELSE Credit(paid[i - 1], proposer[order[i]], Fee[order[i]])
  IN  paid[Len(order)]

(* What a round can finalize of the approved transactions *)
Finalizable(m, b, approved) ==
  {t \in StillPending(m, approved) : Affordable(b, t)}

(* DagLogic::finalize_batch, with what is finalizable in the order it came *)
(* out of the HashMap.  Nothing after the eviction happens when nothing    *)
(* can be finalized; otherwise all approved transactions leave the         *)
(* mempool, those that wait for a retry included.                          *)
FinalizeBatch(approved, order, proposer) ==
  LET seen  == StillPending(mempool, approved)
      evict == {t \in seen : Evicted(balances, retries, t)}
      run   == Run(balances, order)
  IN  /\ retries' = [t \in Tx |->
                       IF t \in evict THEN 0
                       ELSE IF t \in seen /\ Waiting(balances, t)
                            THEN retries[t] + 1
                       ELSE retries[t]]
      /\ IF order = <<>>
         THEN /\ mempool' = RemoveBatch(mempool, evict)
              /\ UNCHANGED <<ledger, balances, applied>>
         ELSE /\ mempool' = RemoveBatch(mempool, evict \cup approved)
              /\ balances' = PayRewards(run[Len(order)], order, proposer)
              /\ ledger' = AddBatch(ledger, order, proposer)
              /\ applied' = applied \cup
                   {order[i] : i \in {j \in DOMAIN order :
                                        CanApply(run[j - 1], order[j])}}
      /\ UNCHANGED <<admitted, genesis>>

(* Proposals are not updated when a transaction is finalized or evicted,   *)
(* so what they approve may have left the mempool.                         *)
Finalize ==
  \E approved \in SUBSET admitted :
    LET final == Finalizable(mempool, balances, approved)
    IN  \E order \in SetToSeqs(final), proposer \in [approved -> Node] :
          FinalizeBatch(approved, order, proposer)

DLNext ==
  \/ \E t \in Tx : AddTransaction(t)
  \/ \E t \in Tx : AddTransactionFromGossip(t)
  \/ \E S \in SUBSET Tx : \E batch \in SetToSeqs(S) : AddVerifiedBatch(batch)
  \/ \E a \in Account : AllocateGenesis(a)
  \/ Finalize

DLSpec == DLInit /\ [][DLNext]_dlVars

-----------------------------------------------------------------------------
(* Double spending.  Whatever the order of gossip, however stale the       *)
(* proposals are, no nonce of a sender is finalized twice, no transaction  *)
(* is rewarded twice, and what is pending could still be finalized.        *)
NoDoubleSpend ==
  /\ \A t, u \in FinalizedTxs(ledger) : Key(t) = Key(u) => t = u
  /\ \A r, s \in ledger.rewards : r.source = s.source => r = s
  /\ \A t \in mempool.pending, u \in FinalizedTxs(ledger) : Key(t) # Key(u)

(* Every finalized transaction has the one reward entry that pays its fee. *)
RewardsCoverLedger ==
  {r.source : r \in ledger.rewards} = FinalizedTxs(ledger)

(* The approved transactions come out of a HashMap in an order that        *)
(* differs from node to node.  Wherever each sender can pay for all of its *)
(* transactions, every order leads to the same balances, and paying the    *)
(* fees to the proposers keeps the money supply.                           *)
JointlyAffordable(b, S) ==
  \A a \in Account :
    LET own == {t \in S : Sender[t] = a}
    IN  SumFunction([t \in own |-> TotalCost(t)]) <= GetBalance(b, a)

OrderIrrelevant ==
  \A S \in SUBSET mempool.pending :
    JointlyAffordable(balances, S) =>
      \A p, q \in SetToSeqs(S) :
        LET n == Cardinality(S)
        IN  /\ Run(balances, p)[n] = Run(balances, q)[n]
            /\ \A proposer \in [S -> Node] :
                 Supply(PayRewards(Run(balances, p)[n], p, proposer))
                   = Supply(balances)

(* Money.  Fees are paid out although nothing pays them in when apply_tx   *)
(* fails, and genesis overwrites a balance whenever it is asked for.  All  *)
(* money still comes from a genesis allocation or from a fee of a final    *)
(* transaction that was not applied.                                       *)
SupplyIsBacked ==
  LET unpaid == FinalizedTxs(ledger) \ applied
  IN  Supply(balances) <= genesis * GenesisBalance
                            + SumFunction([t \in unpaid |-> Fee[t]])

(* A transaction without balance is not retried for ever: the counter of a *)
(* transaction that is still pending is below the limit that evicts it.    *)
RetriesBelowLimit ==
  \A t \in mempool.pending : retries[t] < MaxRetries

(* The core implements the lifecycle: from new to pending in the order of  *)
(* the nonces, from pending to final or dropped once, whatever interleaving*)
(* of gossip, submissions, batches, stale approvals and evictions.         *)
LifecycleOf(t) ==
  IF t \notin admitted THEN "new"
  ELSE IF t \in mempool.pending THEN "pending"
  ELSE IF t \in FinalizedTxs(ledger) THEN "final"
  ELSE "dropped"

LC == INSTANCE TxLifecycle WITH status <- [t \in Tx |-> LifecycleOf(t)]

ImplementsLifecycle == LC!LCSpec

-----------------------------------------------------------------------------
(* What the comments promise and the code does not keep. *)

(* dag_logic.rs: the state is applied before a transaction enters the      *)
(* ledger.                                                                 *)
FinalizedWereApplied == FinalizedTxs(ledger) \subseteq applied

(* dag_logic.rs: a transaction without balance is removed from the mempool *)
(* once it failed MaxRetries times; before, it waits for a retry.          *)
RemovedAfterRetries ==
  [][\A t \in mempool.pending \ mempool'.pending :
       \/ t \in FinalizedTxs(ledger')
       \/ retries[t] + 1 >= MaxRetries]_dlVars

=============================================================================
