# NeuroGraph-ANGP: specifications and proofs

TLA+ specifications of the NeuroGraph-ANGP node (Rust, `src/src/`), TLC
configurations that check them on small instances, and TLAPS proofs of the
refinements and of every safety property that holds of the code, for any number
of nodes, transactions and so on. `PROJECT.json` lists the components, the runs,
the mutants, the map from definitions to source lines, the findings, the hazards
and the theorems.

    tlc -workers 2 -config MCDagLogic.cfg MCDagLogic.tla     # a run
    tlapm DagLogicProofs.tla                                 # the proofs of a module

## 1. The system

A node is one process. Its **main loop** (`main.rs`) receives predictions and
transactions from channels, sends its own, computes a consensus over the
proposals it knows, and finalizes a batch every fifth step. Its **command line**
(`app.rs`) is a thread that submits transactions and allocates genesis balances;
it gets its lines over a channel from a third thread that **reads the standard
input**. The first two share the **transaction core** (`dag_logic.rs`: mempool,
ledger, balances) behind one lock, which each call takes and releases: between
two calls of the loop any number of commands may run. The last of them to drop
its reference to the core saves the files. Nodes gossip transactions and
predictions and otherwise share nothing.

| Component | State | Operations | Talks to |
|---|---|---|---|
| Mempool (`mempool.rs`) | pending, nonce index, arrival times and the next one, last nonce and bounded nonce history per sender | `add`, `remove(_batch)`, `set_last_nonce`, load, save | DagLogic |
| Ledger (`ledger.rs`) | finalized and reward entries, edges, children cache, nonce indexes, batch number | `add`, `add_batch`, `get_tips`, reload | DagLogic, disk |
| State manager (`state.rs`) | balances (u64) | `apply_tx`, `apply_reward`, `genesis_allocate`, `slash` | DagLogic, FeePool, disk |
| DagLogic (`dag_logic.rs`) | the three above, `finalize_retry_count` | admission by submission, gossip and batch; `finalize_batch`; `apply_snapshot`; tips; proposals; consensus | main loop, App |
| Node (`node.rs`) | last proposal and `last_seen_step` of each sender, reputation engine, prediction DAG | record proposals, select active ones, update reputations, predict | main loop |
| Main loop, App, network (`main.rs`, `app.rs`, `network.rs`) | step, channels | receive, announce, propose, consensus, finalize | all |
| Threads (`main.rs`, `app.rs`) | `exit_signal`, the line channel, the core's reference count | read, run a command, iterate, signal, join, save | all |
| Clock skew (`clock_skew.rs`) | statistics over all transactions and by peer | `check`, `reset` | main loop |
| Shard consensus (`shard_consensus.rs`) | digests of the shards, global anchor | `compute_hybrid`, `is_shard_compromised` | tests only |
| Robust consensus (`dag_logic.rs`, `utils.rs`) | none | clusters and weight caps, weighted median, votes | Node |
| Prediction DAG (`dag.rs`) | vertices, parents, order | `create_node`, `update`, `predict`, `prune` | Node |
| Reputation (`reputation.rs`) | averages, flags, streak, floor per target | `update_reputation`; `apply_replay_penalty`, `mark_outlier` (no caller) | Node |
| Attack detection (`attack_detection.rs`) | streaks, histories | `detect_all` of five detectors | tests only |
| Fee pool (`incentives.rs`) | pool, last epoch | `collect`, `distribute_epoch_rewards`, `compute_epoch_rewards`, `slash_node` | tests only |
| Cross-shard receipts (`cross_shard.rs`) | incoming and outgoing receipts with status | register, `consume`, `expired_receipts` | tests only |
| Conflict votes (`conflict.rs`) | open conflicts: candidates and votes | `observe`, `record_vote`, `resolve`, `losers_for` | tests only |
| Rate limiter (`rate_limit.rs`) | a token bucket per peer | `check`, `cleanup` | tests only |
| Sharding (`sharding.rs`) | the shard of the node | `shard_of_address`, `processes_tx` | main loop, shard consensus |
| Transactions, security, wallet, p2p, attack, config | | pure functions, keys, transport, constants | |

"Tests only" means that no code of the node calls the component yet; its
callers are then modelled from its documentation and its tests, as freely as
these allow.

**What is hard.** (1) Gossip is one-shot, unordered and unreliable, while nonces
must grow: `mempool.rs` compares with the last nonce only. (2) Proposals are
snapshots of mempools at different times, up to 200 steps old, and are not
updated when a transaction leaves. (3) HashMap iteration decides the order of a
batch, the proposer who earns a fee and the last nonce the ledger remembers.
(4) `finalize_batch` can fail in part: transactions without balance are
retried, evicted, or removed with a batch; `apply_tx` may fail after the check.
(5) Redundant state: index and pending set, children cache and edges, nonce
indexes and entries, last nonces in two structs; some of it maintained in one
place, rebuilt in another and saved in a third. (6) Three files saved one after
the other, at the end of the process only. (7) Bounded windows: nonce history,
mempool, proposals, retries, buckets, prediction DAG. (8) The end of the process:
two threads that can end it, one of which may wait for input for ever, and a
file that only the last of them writes. (9) Thresholds on thresholds: a consensus
over consensuses, a mean over a window of jumps. `PROJECT.json` lists each of these as a hazard, at its line.

**What makes each part correct.** Mempool: index, arrival order and nonce
discipline. Ledger: the caches equal what a reload rebuilds. Balances: no
underflow; the order of a batch is irrelevant when it can be paid. Core: no
double spend, rewards for exactly what is final, bounded retries, each
transaction settled once. Network: all nodes agree on what a nonce was spent
for. Storage: the same across restarts. Threads: the process ends and what it
did is saved. Loop: it only approves what was pending together, everything is settled and
announced, and the user finds a free nonce until the greatest u64 was used in the
name of the account. Library components: receipts credited and refunded
once, votes that agree while dissenters are outweighed, rates that hold, clusters that cannot decide, in one
layer or in two, fees conserved, floors that end, statistics that agree.

## 2. The modules

    Transactions ── Mempool ──┐
                 ── Ledger ───┼── DagLogic ──┬── NodeLoop      (loop + command line + peers)
                 ── StateManager             ├── NodeStorage ┐ (files, restarts, snapshots)
                                             │   Process ────┴── MCNodeStorage
                                             ├── Network ─────── MCDagLogic
                                             │                 (several nodes that gossip)
                                             └── refines TxLifecycle
    Consensus ── ShardConsensus ┐
    Ledger, CrossShard, ConflictVotes, RateLimiter, AdaptiveDag, FeePool,
    Reputation, AttackDetection, HistoryDetection, ClockSkew ─── MCLibrary

| Module | What it models |
|---|---|
| `Transactions` | What a transaction is: a model value with sender, receiver, amount, fee, nonce, parents, and whether it is well signed (`Signed`); u64 saturation. |
| `Mempool` | The struct as a record and its methods as operators on it, so that several calls compose inside one step; its own small specification for the proofs. `admitted` is a history variable: everything ever accepted. |
| `Ledger` | Likewise. A reward entry is `[source, node, batch]`; a parent may be a transaction, a reward entry or something unknown. |
| `StateManager` | Balances, `apply_tx` with its early return, rewards, genesis. |
| `DagLogic` | The core. One action per critical section: `AddTransaction`, `AddTransactionFromGossip`, `AddVerifiedBatch`, `AllocateGenesis`, `Finalize`. What consensus approved and who proposed it is any choice; NodeLoop shows that the loop's choice is one of them. |
| `TxLifecycle` | The abstract specification: new → pending in the order of nonces → final or dropped, once. |
| `Network` | Mempools and ledgers of several nodes, and every transaction that was ever sent. `Deliver` may come late, again or never; `SettleAt` finalizes and drops any choice of what a node holds, which covers every consensus and every balance; `RestartOf` ends a process after it saved all its files or, `KilledAt`, some of them, and starts the next one from what it finds. |
| `Process` | The three threads from the start to the end of the process: `exit_signal`, which the main loop does not read, the line channel with its timeout and its disconnection, `join`, and the save when the last reference is dropped. Changes to the data are counted only. |
| `NodeStorage` | Core plus disk: a process that stops after saving any number of its files, `DagLogic::new` on what it finds, `apply_snapshot`. |
| `NodeLoop` | Core plus loop: `pc` is the phase of the loop, `CommandLine` may come between any two phases, `Network` delivers predictions and transactions at will. A remote proposal is built by the receiver from its own mempool, as `main.rs` does. The next nonce of the command line is a u64: beyond the greatest it is 0 (built with optimizations) or the addition panics under the lock (`SubmitPanics`), which the loop then finds `poisoned`. |
| `Consensus` | Phases 2 to 4 of `compute_consensus`: clusters of near predictions by their union-find, weight cap, weighted median, tip and root votes, on integers. Weights are compared multiplied by a common scale. |
| `ShardConsensus` | `compute_hybrid` on top of `Consensus`: a consensus in each shard, digests weighted by the mean reputation of their members, a consensus over the digests. |
| `AdaptiveDag` | Ids, parents, pruning and prediction of the prediction DAG. |
| `Reputation` | What decides whether the floor replaces a reputation, and the two penalties that cut below it, `ApplyReplayPenalty` and `MarkOutlier`. `past` and `cut` are history. |
| `AttackDetection` | The two detectors that compare the proposals of a step: clones and, by union-find, coordination. The two loops over the proposals are `Row` and `Forest`. |
| `HistoryDetection` | The three that follow one node: jumps, mean variation in a window, errors that are large only where the consensus is near one half. What the calls saw of the node (`shown`, `present`) is history, for the properties. |
| `ClockSkew` | `check` as its two critical sections, so that the checks of several threads could overlap; today its only caller is the main loop. |
| `FeePool` | Epochs, shares and their rounding and overflow; slashing. |
| `ConflictVotes` | Several resolvers that exchange votes. `record_vote` takes any vote in any name, so some voters, `Dissenter`, do not vote by the rule of `observe`, or others use their names. `won` records what a node resolved with the dissenters outweighed among the votes it had. |
| `CrossShard`, `RateLimiter` | Several managers that gossip receipts; one bucket with time. |
| `MC*` | Instances for TLC. |
| `*Proofs` | Theorems (section 5). |

Definitions whose body is followed by `\* mutant` are not part of any
specification: each is the mapped definition below it with a plausible mistake,
and the property that the mistake breaks is named in `PROJECT.json`.

## 3. The runs

| Run | Question | Bounds |
|---|---|---|
| `dag_core` | Does the core stay consistent, whatever is approved, and implement the lifecycle? Do nodes that gossip agree on nonces? (171,218 states) | core: 4 transactions of 2 accounts: two successive ones that cannot both be paid, a conflicting self-transfer, one that spends what it received; parents of each kind; mempool of 2, history of 1, 2 retries, 2 genesis allocations of 3, u64 of 0..8. Network: the same transactions, 2 nodes, any loss, repetition, order and number of restarts; one of the nodes (`Unreliable`) may be killed while it saves, at the latest when its ledger numbered `LastBatch` = 1 batch |
| `storage` | Does a clean restart go unnoticed, what survives a crash between the saves and a snapshot, and does the process end with everything saved? (23,004 states) | 3 transactions, two with one nonce; stops after 0 to 3 saves, one snapshot, no restart after more than `MaxBatch` = 3 batches. Threads: 4 steps, 2 lines, 3 changes |
| `node_loop` | Does the loop use the core as allowed, is everything settled, and does the command line find a free nonce? (178,757 states) | 2 nodes, 3 transactions: two in the name of the user, which may come from the command line or by gossip, the second one with the greatest u64, 2, as its nonce; one that can only come by gossip. Grace period 1, interval 2, peers up to 1 step ahead |
| `library` | Are the ledger and the stand-alone components correct? (389,354 states) | see the cfg; the focus variable explores twelve components one at a time, the state space is the sum of theirs |
| `retry_removal`, `finalized_applied`, `snapshot_indexes`, `dag_ids`, `refund`, `first_seen`, `flush`, `floor_steps` | Does the code keep what a comment says? | each finds a counterexample (section 4) |

Components that share no state share a run: `focus` (or `mode`) is chosen at the
start and tells which of them moves, so a behaviour of the run is a behaviour of
one component, and no property is weakened by the others standing still.

Why the bounds suffice. The windows are small enough to overflow: a history of
one nonce forgets, a mempool of two is full, two retries run out, three genesis
units leave a second transaction unpaid. The nonces 0, 1 and 2
include 0, which the code treats differently from an absent nonce, and in
`node_loop` 2 is the greatest u64, so that the next nonce overflows there. No
amount does: the greatest u64 of `dag_core`, 8, is all the money that its two
allocations and its fees can make, so a run reaches the limit at most, and what
holds when a balance or a cost saturates rests on the proofs (`DLTypeOK`, and the
hypotheses of section 5). The network
needs two nodes to disagree, both of them senders, and a history shorter than
what is delivered late; one that may be killed and one that may not, to tell
what a kill destroys. In `storage`, four steps are enough for an exit before, at and after the
end of the loop. Three managers hold the roles sender, receiver and both. Two nodes
resolve a conflict that three voters vote on, the third for anything, and each
node weighs itself less than the others, so that a dissenter outweighs a node's
own vote but not both. The reputation run has 4 steps with up to two updates
each, so that floors end and begin anew. The
consensus needs four proposers to have a cluster of two against two others; the coordination
detector needs four for a chain whose ends are not near. The sharded node has
four shards, one of three members, so that a cluster can be a minority within a
shard and its shard a minority of the shards. The window of the temporal
detector is 4 and a node is observed 6 times: the window slides. Two callers of
the skew statistics overlap on one peer and on two. `GenesisLimit`,
`MaxBatch`, `MaxVotes`, `MaxCalls`, `MaxCount`, `MaxFees`, `MaxChecks`,
`MaxLines`, `MaxChanges` and the constants named `Last...`
and `End...` bound counters that the program lets grow; each is a guard of one
action and is named where it is declared. `MaxBatch` matters only because a
process that is killed after it saved the ledger alone finalizes the same
transaction again after each restart.

Deadlock is checked for the core with the network and for the loop: finalizing
nothing or restarting is always possible, and the loop stops nowhere but where it
panics, which is an action of its own (`LoopPanics`). It is off
in `storage`, where a process ends, in `library`, and in the violation runs of
these, whose steps and calls are bounded: there every behaviour ends, and a
library may simply not be called.

**Fairness.** `PendingSettles` and `AcceptedIsAnnounced` assume `WF(MainLoop)` of
`NodeLoop`. The loop thread never blocks: `try_recv` returns at once and its
inner loops end when a channel is empty; only a panic of the command line under
the lock ends it too, and both properties say so. Nothing is assumed of peers, gossip or
the user; a peer that stays silent or labels its predictions with later steps is
a behaviour of the run. That the inner loops do end, which a flood of messages
could delay, is the one thing taken from the scheduler. The program ends itself
after 5000 steps; these properties speak of a node that goes on. `ProcessEnds`,
which is about that end, assumes `WF(Main)` and `WF(Cli)` of `Process`: the
operating system runs both threads, and `recv_timeout` returns after 200 ms. The
reader thread gets no fairness: it may wait for the user for ever, and the
process still ends, because nobody joins it.

**What the runs show about the code.** In the loop, no pending transaction
stays for ever: outdated proposals block an approval for at most the grace
period. Two approved transactions were once pending in the same mempool, so two
spendings of a nonce are never approved together, although proposals are stale.
The next nonce of the command line is free as long as the greatest u64
has not been used as a nonce in the user's name; as nothing ties the sender of a
transaction to its key, that may be anybody's doing, and then the user is locked
out (section 4). Two transactions with one nonce are resolved alike by all nodes,
whatever dissenting votes they hold, where these weigh less than the others. Nodes that lose each other's
messages keep different parts of the history but never different transactions
for one nonce, although a restart rebuilds the nonces from two files. If the
process of a sender is killed while it saves, the sender may sign two
transactions for one nonce, and two nodes may keep different ones; still no
single node keeps both. A clean
restart is invisible to the lifecycle although retry counters, clock and indexes change. The order
of a batch matters only when senders cannot pay for all of it. No coin appears
but by genesis and by the fee that a transaction pays out although its
`apply_tx` failed (a balance that saturates loses coins; a cost that saturates
would make some, which section 5 excludes by a hypothesis). A cluster that the weight cap restrains cannot move
the median, and in two layers it cannot, either, by being weak in some shards
and owning others. Jumping in every step is noticed by the temporal detector
too, whatever the rest of its window holds.

## 4. Where code and comments differ

1. `FinalizedWereApplied`: the check before `apply_tx` looks at each
   transaction alone, so of two transactions that are only affordable one by
   one, both are finalized, both fees are paid, and one transfer never happens
   (`dag_logic.rs:749`).
2. `RemovedAfterRetries`: a transaction that waits for balance is removed as
   soon as anything else of the approved set is finalized (`dag_logic.rs:767`
   against the comment at 687-689).
3. `LedgerRefusesItsNonces`: `apply_snapshot` "completely overwrites" the ledger
   but leaves the nonce indexes of the old one (`dag_logic.rs:796`).
4. `PredictsFromParent`: pruning makes ids repeat; from then on a vertex is its
   own parent and the prediction is the node's own signal (`dag.rs:24`, `:106`).
   Checked with the real limit of 50.
5. `RefundedOnlyIfUnconsumed`: a manager in both shards, which every node is
   without sharding, refunds what it consumed (`cross_shard.rs:167`).
6. `FirstSeenWins`: a node votes for the smallest hash it has seen, not for the
   transaction it saw first, so that one that nobody saw first wins
   (`conflict.rs:97`, with the comment at 92-96; against it `conflict.rs:10-12`
   and 27, `README.md:180`).
7. `FlushedInTime`: `flush_if_dirty`, "called periodically from the main loop",
   has no caller; everything since the start of the process is lost with it
   (`state.rs:143`, `config.rs:228`).
8. `FloorTakesMinSteps`: the floor is for a node that was above the threshold for
   20 steps (`config.rs:104`, `reputation.rs:242`), but the streak counts updates,
   of which the node's own reputation gets two in each step, as its id is put
   before the senders that include it (`node.rs:235`).

Other disagreements, which have no run of their own: the floor's extended
bootstrap is 100 steps in the comment and 200 in the code (`reputation.rs:244`,
`:261`; the model follows the code); a reputation "cannot fall below" the floor
(`config.rs:105`), but `apply_replay_penalty` and `mark_outlier` cut it below
(`reputation.rs:103`, `:280`) until the next update, which `FloorExact` says;
`losers_for` lists the losers "for a resolved conflict" (`conflict.rs:174`) but
reads the open ones, from which `resolve` has removed it (`:160`); `exit`, "stop the
node" (`app.rs:111`), ends the command line only, and the main loop goes on to its
last step (`main.rs:212`; the `CliRuns` and `MainStep` of `Process`).

Without a comment to contradict, and so without a run: whoever gossips a
transaction in the user's name with the nonce u64::MAX locks the user out of the
command line, as `submit_transaction_with_fee` then asks for nonce 0, which is
refused, or, built for debugging, panics and poisons the lock of the core
(`app.rs:58`, `transaction.rs:96`); a crash between the
saves leaves a transaction both final and pending, and it is finalized and
rewarded again; `compute_epoch_rewards`, "without applying", uses up the epoch
(`incentives.rs:74`); the clone detector counts the node that was copied as a
suspect too (`attack_detection.rs:77`), and its streak is not interrupted by a
step with fewer than two proposals; the main loop means to check the clock skew
of every transaction "anyway, for global monitoring" (`main.rs`), but the
`continue` of the shard filter comes first; `clock_skew.rs` documents a positive
skew as a timestamp in the future and computes now minus timestamp;
`select_tips_mcmc` repeats its walks until it has two tips and does not end when
every walk reaches the same one.

## 5. The proofs

The theorems hold for every set of transactions, accounts, hosts, managers,
voters, shards, limits and windows that satisfies the assumptions of the modules
(`TxAssumption`, `MempoolAssumption`, `ConsensusAssumption` and so on: finitely
many transactions and peers, nonnegative amounts within u64, a window, a retry
limit and a finalization interval of at least one, hosts that are accounts; and,
in `HistoryAssumption`, what holds of the constants of `attack_detection.rs`: a
jump is larger than the mean variation that is allowed, and a high error at least
three times a low one).

| Module | Theorems |
|---|---|
| `DagLogicProofs` | Mempool: `MempoolInv` is inductive; types, `IndexExact`, `ArrivalsOrder`, `NonceSpentOnce`. Core: `DLInv` is inductive; `DLTypeOK`, `NoDoubleSpend`, `RewardsCoverLedger`, `RetriesBelowLimit`; `DLSpec => LC!LCSpec`. Money: `MoneyInv` is inductive; `SupplyIsBacked`, `OrderIrrelevant`, `MoneyStaysBelowLimit`. Rounds: `RoundsPaidTogetherAreApplied`, `FinalizedWereApplied` and `MoneyComesFromGenesis` under a hypothesis, `RemovalsExplained` |
| `LedgerProofs` | `LedgerExact` is inductive; `TipsExact`, `ReloadKeepsRefusing`; what operations on balances cost and pay |
| `NodeLoopProofs` | `LoopInv` is inductive; `LoopSpec => DLSpec`, and with it `NoDoubleSpend`, `SupplyIsBacked` and `OrderIrrelevant` for the node with its loop; `LoopTypeOK`, `ApprovedTogether`, `NextNonceIsFree` |
| `NetworkProofs` | `NetworkInv` is inductive, processes that are killed while they save included; `NonceAgreement` |
| `NodeStorageProofs` | `StorageInv` and `SpendingInv` are inductive; `StorageTypeOK`, `ArrivalsOrder` across restarts, `OneSpendingPerNonce`; `LedgerRefusesItsNonces` without snapshots and after every restart; `StorageSpec => LC!LCSpec` for clean ends; `EndsSaved` |
| `ConsensusProofs` | `ClusterCannotMoveMedian`, `ClusterCannotDecideRoot`, `AttackersCannotMoveAnchor`, `HonestShardsAreTrusted`, `CoordinationExact` |
| `LibraryProofs` | Lifecycle: one transaction per nonce, settled for good. Receipts: `CreditedOnce`, `OutgoingSettledOnce`, `RefundedOnlyIfUnconsumed` with the shards apart. Votes: `PairAgreement`. Rates: `RateHolds`. Fees: `EpochsApart`, `FeesConserved`. Floors: `FloorExact`. History: `JumpsExact`, `PersistentJumpersAreInconsistent`, `EvenErrorsAreNotAdaptive`. Skew: `StatisticsAgree`. Prediction DAG: `PredictsFromParentUntilPruned`. The instance of the run implements each component (`LibraryComposes`), whence `LibraryTypeOK` |
| `RecursionProofs` | the lemmas that the others cite: induction and recursion up to a bound and over the subsets of a finite set, as statements about sets and functions; sums over functions and sets, that every order gives the same; a finite set of integers has a bound and a least element |

### Hypotheses

A few theorems need more than the assumptions, and say so:

- `[]PayableCostsExact` (`SupplyIsBacked`): no sender of a pending transaction can
  pay a cost that saturates. `apply_tx` takes the saturated sum from the sender but
  pays amount and fee in full, so that a sender who owns exactly u64::MAX could pay
  less than is received. The hypothesis is about states, not about transactions: any
  transaction may be sent, with any amount.
- `[]MoneyBelowLimit` (`OrderIrrelevant`): there is less money than u64 can count.
  Otherwise a balance saturates in one order and not in another. It implies
  `PayableCostsExact` (`PayableBelowLimit`), and it always holds if what genesis and
  all fees can make is less than u64 can count (`MoneyStaysBelowLimit`).
- `SnapshotsUncontested` (`OneSpendingPerNonce`): the transactions that a snapshot
  brings have no rival with their nonce. `apply_snapshot` takes the ledger of a peer
  as it is; whether the peer finalized the rival of a transaction that is pending
  here is nothing a node can see. Without it the property is false; the snapshot of
  the run satisfies it, although that run has two rivals for another nonce.
- `[]PaidTogether` (`FinalizedWereAppliedTogether`, `MoneyComesFromGenesis`): what
  each sender can pay for one by one among its pending transactions, it can pay for
  together. This is what the check of `finalize_batch` takes for granted.
- Shards apart (`RefundSafeWithShardsApart`): no manager serves both shards of a
  receipt, as it does without sharding.
- `Snapshots = {}` (`LedgerRefusesWithoutSnapshots`): no snapshot arrives.
- `CleanEnds` (the refinement across restarts): every process saves its three
  files, and no snapshot comes. A crash between the saves leaves a transaction both
  final and pending, which no lifecycle allows (section 4).

### The arguments

**Mempool.** What it checks is local: `Accepts` compares a nonce with
the last one of its sender, and the index and history hold only what is still
pending or recent. That no nonce is spent twice is a statement about the whole
past, so `MempoolInv` speaks of `admitted`: every nonce ever admitted is at most
the last one. Removal, which forgets index and history, does not disturb it;
`add` needs it to exclude an old nonce. `MempoolInv` is stated of any record and
any set, so that a batch of admissions or removals can be followed
inside one step, by induction over the function that `Intake` defines, and so
that a mempool can be said to vouch for what it holds only.

**Core.** `DLInv` adds the ledger: what is final is admitted and no longer pending
(`LedgerInv`), whence the same nonce cannot be final twice, as it was admitted
once; rewards and ledger have the same sources; retry counters of pending
transactions are below the limit and those of transactions not yet admitted are
0 (`RetriesInv`: without it a new transaction could inherit a counter). A
finalization round takes only what is pending, however stale the approval, and
removes it: this is the step where dropping the `StillPending` filter breaks the
proof, as it does the run. The refinement maps each admission to `AdmitSet` and
each round to `Settle`; it needs `DLInv` to know that what is admitted is new
and above all earlier nonces.

**Money.** `MoneyInv` bounds the supply by genesis and by the fees of what is final
but was not applied. One `apply_tx` moves its cost from the supply, its fee comes
back with the reward: the two are followed along the batch, whose order is any.
For `OrderIrrelevant`, when each sender can pay for all of its transactions, no
`apply_tx` of a batch fails, in any order: the balance of an account after any part
of a batch is what it had, plus what that part paid to it, minus what that part cost
it, a sum over a set, which has no order. It does not saturate, as the money is
below the limit.

**Where a refuted claim holds.** Five of the comments that section 4 contradicts are
theorems under a hypothesis, which shows that nothing else is wrong with them.
A round whose transactions can be paid together applies them all (`RoundApplies`, by
the same induction over the batch as the money), and then no coin comes from anywhere
but genesis. What is removed without being final has used up its retries, except in a
round that finalizes something else (`RemovalsExplained`). The ledger refuses what it
holds (`Indexed`) through crashes; a snapshot ends that until the next restart, since
what is read from a file is indexed then. A refund follows no consumption where a
manager has one copy of a receipt. A prediction comes from the parent until step
`Keep` + 1 and never after (`ADInv` says which ids the vertices have by then).

**Ledger.** `LedgerExact` says that everything a reload derives is what the entries say:
edges, children and nonces exactly, and the last nonce of a sender is one that
an entry spent. It is not the greatest one, since `add_batch` keeps the nonce
inserted last; that it is one of the entries' is what makes the greatest nonce,
which a reload computes, cover it, and so what was refused before stays refused
(`ReloadKeepsRefusing`).

**Network.** `NetworkInv` reasons about nodes that share no memory. `NodeInv` is about
one: everything it keeps, in memory or in the files that a kill would bring back, is
`Recalled`: its mempool has seen the nonce or its ledger has burnt it. After a kill
mempool and ledger are of different times, so it takes both: neither alone knows all.
Admission asks both, so no node keeps two rivals. `WireInv` is about what was sent: a
node sends only what it gives a new nonce of its own account, and until it is killed
its mempool remembers the last one, so that no two messages have the same sender and
nonce; all that any node keeps came over the wire. Hence `NonceAgreement` for every
number of nodes, with no assumption on delivery, and for the senders that were never
killed also between nodes.

**Files.** A crash tears the files apart, so most of `DLInv` is false after it:
what is final may be pending again, a balance may not be the one the ledger implies.
What remains is that the mempool vouches for what it holds itself (`StorageInv`),
and that everything held, in memory or in the files a crash would fall back to, is
`Recalled`: its nonce is at most the last one of its sender in the mempool, or
burnt in the ledger. Both must be said of memory and disk together, as a restart after k
saves takes some of each. With
clean ends, `DLInv` itself survives, although retry counters and indexes are
rebuilt.

**Threads.** `EndInv`: when the loop has ended, so has the command line, which it
joined, and nobody is left to change what the last of them saved.

**Loop.** `LoopInv` is about any number of peers. The proposals hold only what was
admitted (`TableInv`), so what is agreed is a set of admitted transactions with
nodes as proposers, and `FinishStep` is a `Finalize` of the core or leaves it
alone: that is the whole refinement. `ApprovedTogether` rests on `VotersMeet`:
two sets of 70% of the active proposals, rounded up, share a member; the table
does not change between `ComputeConsensus` and `FinishStep`, and `agreed` is
empty elsewhere. `NextNonceIsFree` needs `NonceBound`: what the history
remembers is at most the last nonce, and what the ledger holds was admitted; the
ledger's own last nonce is no such bound. Where the addition overflows, the next
nonce is 0 and not above anything (`SmallRemainder`).

**Consensus.** The clusters that the union-find of `compute_consensus` makes are the
connected groups (`ClustersAreClasses`), the cap takes from a restrained cluster
just what leaves it a minority (`CapBalance`), and the weighted median lies between
two proposers of any majority (`MedianBetween`). The scale that makes the weights
whole numbers divides by each of them (`ProductDivides`). With two layers: the attackers own the shards of a set that is restrained in the
upper layer and are restrained in each other shard; there the digest lies between
members who are no attackers, and the anchor lies between such digests.

**Union-find.** `CoordinationExact` follows the two loops: after each visit the forest
has no cycle (`find` ends), and two nodes have one root if and only if the pairs
visited so far connect them. Attaching one root below the other joins two classes
and disturbs no other.

**Stand-alone components.** `CSInv`: the status of a receipt tells what was credited or
refunded, and leaves "Pending" once. `VotesInv`: as long as two transactions contest a
nonce, everyone who votes by the rule knows both and votes for the lesser, so that the
lesser wins wherever the other votes are outweighed (`CarriedWins`). `RateInv`: what has
been granted since any time and what the bucket still holds are together no more
than a burst and the refill since; a forgotten bucket was full. `FeesInv`: pool,
payouts and slashed fees add up to what was collected; shares are rounded down and
come to half the pool at most, however their products wrap around. `FloorInv`: the
floor is that of the latest update that ended a streak, and it lifts what it should
(`Lifted`), but for what was cut since. `HistoryInv`: the streak
counts the jumps at the end of what was shown, and the window holds its end, so
that the two can be compared. `SkewInv`: the global statistics are those by peer and
the checks between their two locks.

**Only model-checked.** Liveness (`PendingSettles`, `AcceptedIsAnnounced`,
`ProcessEnds`), which is out of the prover's reach. `LifecycleAcrossRestarts` is the
theorem `CleanRestartsStutter`, worded for a run that also explores crashes and
threads. The counterexamples of section 4. Every invariant that a run checks has a
theorem.

## 6. Not modelled

Cryptography, hashing, Merkle roots and the canonical encodings (`Signed` stands
for verification, a model value for a hash); the floating-point formulas of
reputations, errors and the sizes of penalties (thresholds are compared on
integers); tip selection; attack simulation; libp2p and process I/O beyond the
order of the saves (a file that is cut in the middle makes `load_from_disk` start
empty); logging and metrics; receipts that are registered twice, reputations below
the 0.01 to which `compute_consensus` raises weights, and clock skews that overflow an
i64 in milliseconds. `PROJECT.json` gives the reason per component.

## 7. Plan

Done: core, network with killed nodes, storage, threads, loop, consensus in both
layers, all detectors, and the stand-alone components that decide something; the
proofs of every invariant among them. Next, in this order:

1. `PairAgreement` for conflicts of more than two transactions: under which
   conditions on the delivery it remains true.
2. Two nodes with their loops and balances: `Network` lets every node finalize
   what it likes, so it says nothing of when two ledgers become equal.
3. `Sharding` composed with `CrossShard`: an abstract atomic transfer, which
   receipts implement unless a node serves both shards.
