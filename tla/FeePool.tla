------------------------------ MODULE FeePool ------------------------------
(***************************************************************************)
(* The pool of fees that is paid out to the proposers by epochs            *)
(* (src/incentives.rs).  It is a library without callers; the caller here  *)
(* collects fees, counts finalized transactions, and asks for a payout     *)
(* whenever it likes, with distribute_epoch_rewards or with                *)
(* compute_epoch_rewards alone; it may slash a node at any time.           *)
(***************************************************************************)
EXTENDS Integers, FiniteSets, Functions, Sequences

CONSTANTS
  Earner,        \* the nodes that propose
  Epoch,         \* EPOCH_LENGTH
  MaxFees,       \* the largest value of a u64
  FeeAmount,     \* the amounts that are collected at once
  SlashTenths,   \* SLASHING_RATIO, in tenths
  MaxCount,      \* bound on the transactions finalized for one node
  LastEpochStep  \* bound on the steps

ASSUME FeePoolAssumption ==
  /\ IsFiniteSet(Earner)
  /\ Epoch \in Nat \ {0}
  /\ FeeAmount \subseteq Nat
  /\ SlashTenths \in 0..10
  /\ MaxFees \in Nat /\ MaxCount \in Nat /\ LastEpochStep \in Nat

VARIABLES
  collected,  \* total_collected
  pool,       \* current_pool
  lastEpoch,  \* last_epoch_step
  payouts,    \* distributed_per_epoch
  finalized,  \* finalized_count_per_node of the ledger
  earned,     \* the balance of each node, which starts without one
  slashed,    \* history variable: what the slashings took from each node
  epochStep   \* the step of the caller

fpVars == <<collected, pool, lastEpoch, payouts, finalized, earned, slashed,
           epochStep>>

Payout == [step : 0..LastEpochStep, amount : 1..MaxFees]

FPTypeOK ==
  /\ collected \in 0..MaxFees /\ pool \in 0..collected
  /\ lastEpoch \in 0..epochStep /\ epochStep \in 0..LastEpochStep
  /\ payouts \in Seq(Payout)
  /\ finalized \in [Earner -> 0..MaxCount]
  /\ earned \in [Earner -> Nat] /\ slashed \in [Earner -> Nat]

FPInit ==
  /\ collected = 0 /\ pool = 0 /\ lastEpoch = 0 /\ payouts = <<>>
  /\ finalized = [n \in Earner |-> 0]
  /\ earned = [n \in Earner |-> 0] /\ slashed = [n \in Earner |-> 0]
  /\ epochStep = 0

-----------------------------------------------------------------------------
EpochTick ==
  /\ epochStep < LastEpochStep
  /\ epochStep' = epochStep + 1
  /\ UNCHANGED <<collected, pool, lastEpoch, payouts, finalized, earned, slashed>>

(* u64::saturating_add *)
SaturatingSum(m, n) == IF m + n > MaxFees THEN MaxFees ELSE m + n

(* A transaction proposed by n is finalized: the ledger has one more       *)
(* reward entry for n, and the caller calls FeePool::collect.              *)
Collect(n, fee) ==
  /\ finalized[n] < MaxCount
  /\ finalized' = [finalized EXCEPT ![n] = @ + 1]
  /\ collected' = SaturatingSum(collected, fee)
  /\ pool' = SaturatingSum(pool, fee)
  /\ UNCHANGED <<lastEpoch, payouts, earned, slashed, epochStep>>

DueAtMultiples == epochStep > 0 /\ epochStep % Epoch = 0         \* mutant

ShouldDistribute == epochStep > 0 /\ epochStep >= lastEpoch + Epoch

(* The nodes with enough reputation and a finalized transaction *)
Eligible(reputable) == {n \in reputable : finalized[n] > 0}

ShareOfPool(n, eligible) ==                                      \* mutant
  (pool * finalized[n]) \div SumFunctionOnSet(finalized, eligible)

(* The share of an eligible node, rounded down: of half of the pool        *)
(* (EPOCH_DISTRIBUTION_RATIO; exact while the pool is below 2^53, as it is *)
(* computed in f64), in proportion to all it ever proposed.  The product   *)
(* wraps around, as a release build computes it.                           *)
Share(n, eligible) ==
  (((pool \div 2) * finalized[n]) % (MaxFees + 1))
     \div SumFunctionOnSet(finalized, eligible)

(* FeePool::compute_epoch_rewards: the map it returns.  It starts a new    *)
(* epoch, be there something to distribute or not.                         *)
EpochRewards(reputable) ==
  LET eligible == IF ShouldDistribute THEN Eligible(reputable) ELSE {}
      paid     == {n \in eligible : Share(n, eligible) > 0}
  IN  [n \in paid |-> Share(n, eligible)]

EpochAfter == IF ShouldDistribute THEN epochStep ELSE lastEpoch

ComputeEpochRewards ==
  /\ lastEpoch' = EpochAfter
  /\ UNCHANGED <<collected, pool, payouts, finalized, earned, slashed, epochStep>>

(* FeePool::distribute_epoch_rewards *)
DistributeEpochRewards(reputable) ==
  LET rewards == EpochRewards(reputable)
      amount  == SumFunction(rewards)
  IN  /\ lastEpoch' = EpochAfter
      /\ earned' = [n \in Earner |-> IF n \in DOMAIN rewards
                                     THEN earned[n] + rewards[n] ELSE earned[n]]
      /\ pool' = pool - amount
      /\ payouts' = IF amount = 0 THEN payouts
                    ELSE Append(payouts, [step |-> epochStep, amount |-> amount])
      /\ UNCHANGED <<collected, finalized, slashed, epochStep>>

(* FeePool::slash_node, that is StateManager::slash: the rest is rounded   *)
(* down, so that a small balance is lost altogether.                       *)
AfterSlash(balance) == (balance * (10 - SlashTenths)) \div 10

SlashNode(n) ==
  /\ earned' = [earned EXCEPT ![n] = AfterSlash(@)]
  /\ slashed' = [slashed EXCEPT ![n] = @ + earned[n] - AfterSlash(earned[n])]
  /\ UNCHANGED <<collected, pool, lastEpoch, payouts, finalized, epochStep>>

FPNext ==
  \/ EpochTick
  \/ \E n \in Earner, fee \in FeeAmount : Collect(n, fee)
  \/ ComputeEpochRewards
  \/ \E reputable \in SUBSET Earner : DistributeEpochRewards(reputable)
  \/ \E n \in Earner : SlashNode(n)

FPSpec == FPInit /\ [][FPNext]_fpVars

-----------------------------------------------------------------------------
(* No fee is lost in rounding or paid twice: while the counters do not     *)
(* saturate, what was collected is in the pool, with the nodes, or taken   *)
(* from them by slashing; and no payout takes more than half of what was   *)
(* collected so far.                                                       *)
FeesConserved ==
  LET paid == SumFunction(earned) + SumFunction(slashed)
  IN  /\ collected < MaxFees => pool + paid = collected
      /\ paid = SumFunction([i \in DOMAIN payouts |-> payouts[i].amount])
      /\ \A i \in DOMAIN payouts : 2 * payouts[i].amount <= collected

(* However often it is asked for, the pool pays out once in an epoch. *)
EpochsApart ==
  \A i, j \in DOMAIN payouts : i < j => payouts[j].step - payouts[i].step >= Epoch

=============================================================================
