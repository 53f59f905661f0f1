------------------------------ MODULE NodeLoop ------------------------------
(***************************************************************************)
(* The main loop of a node (src/main.rs) around its transaction core, with *)
(* the table of the proposals it knows (src/node.rs) and the approval that *)
(* compute_consensus derives from them (src/dag_logic.rs), while the       *)
(* command line runs in a thread of its own: a command may come between    *)
(* any two steps of the loop.                                              *)
(*                                                                         *)
(* A remote proposal is built by the receiver, from its own mempool, when  *)
(* the prediction of the peer arrives.  Predictions arrive in any order,   *)
(* late, twice or never, and are labelled with the step of the peer, which *)
(* may be behind or ahead of the receiver's.  The code only ever uses the  *)
(* difference of the two, so a proposal has an "age" and no step number.   *)
(***************************************************************************)
EXTENDS DagLogic

CONSTANTS
  Self,       \* the id of this node
  Processed,  \* transactions of the shards this node is assigned to
  Grace,      \* GRACE_PERIOD
  Interval,   \* FINALIZATION_INTERVAL
  Ahead       \* bound: how many steps a peer may be ahead of this node

ASSUME NodeLoopAssumption ==
  /\ IsFiniteSet(Node) /\ Self \in Node
  /\ Processed \subseteq Tx
  /\ Grace \in Nat /\ Interval \in Nat \ {0} /\ Ahead \in Nat
  /\ MaxU64 >= 1
  /\ \A t \in Tx : Nonce[t] <= MaxU64

VARIABLES
  pc,         \* where the loop is
  step,       \* 0, then the steps modulo Interval, counted 1..Interval
  proposals,  \* seen_tx_hashes of the last proposal of each known sender
  age,        \* current step - last_seen_step of each known sender
  agreed,     \* proposer_of, for the approved transactions
  outbox,     \* the channel from the command line to the gossip of the loop
  poisoned,   \* a thread panicked while it held the lock of dag_logic
  announced   \* history variable: transactions sent to the peers

tableVars == <<proposals, age>>
loopVars == <<dlVars, pc, step, tableVars, agreed, outbox, poisoned,
              announced>>

Peer == Node \ {Self}

(* Ages beyond the grace period need not be told apart. *)
Age == (-Ahead)..(Grace + 1)

LoopTypeOK ==
  /\ DLTypeOK
  /\ pc \in {"predictions", "gossip", "propose", "consensus", "finalize"}
  /\ step \in 0..Interval
  /\ DOMAIN proposals \subseteq Node
  /\ \A s \in DOMAIN proposals : proposals[s] \subseteq Tx
  /\ age \in [DOMAIN proposals -> Age]
  /\ DOMAIN agreed \subseteq Tx
  /\ \A t \in DOMAIN agreed : agreed[t] \in Node
  /\ outbox \subseteq Tx
  /\ poisoned \in BOOLEAN
  /\ announced \subseteq Tx

Nothing == [x \in {} |-> 0]

LoopInit ==
  /\ DLInit
  /\ pc = "predictions" /\ step = 0
  /\ proposals = Nothing /\ age = Nothing /\ agreed = Nothing
  /\ outbox = {} /\ poisoned = FALSE /\ announced = {}

-----------------------------------------------------------------------------
(* The command line *)

(* The nonces that App takes for used: by its account, as far as mempool   *)
(* and ledger know, whoever sent the transactions.                         *)
LastUsed == MaxOf(0, MaxOf(mempool.last[Self], ledger.last[Self]))

(* The nonce that App gives to the next transaction, a u64: built with     *)
(* optimizations, the addition wraps around.                               *)
NextNonce == (LastUsed + 1) % (MaxU64 + 1)

(* App::submit_transaction_with_fee *)
Submit(t) ==
  /\ ~poisoned
  /\ Sender[t] = Self
  /\ Nonce[t] = NextNonce
  /\ AddTransaction(t)
  /\ outbox' = outbox \cup {t}
  /\ UNCHANGED <<pc, step, tableVars, agreed, poisoned, announced>>

(* Built for debugging, the addition panics instead, under the lock: the   *)
(* command line is gone, and so is the loop, when it next needs the lock.  *)
SubmitPanics ==
  /\ ~poisoned
  /\ LastUsed = MaxU64
  /\ poisoned' = TRUE
  /\ UNCHANGED <<dlVars, pc, step, tableVars, agreed, outbox, announced>>

(* App::genesis_allocate *)
Genesis(a) ==
  /\ ~poisoned
  /\ AllocateGenesis(a)
  /\ UNCHANGED <<pc, step, tableVars, agreed, outbox, poisoned, announced>>

-----------------------------------------------------------------------------
(* The loop *)

(* DagLogic::build_proposal, of which the approval reads seen_tx_hashes    *)
BuildProposal == mempool.pending

(* AngpNode::add_remote_proposal and add_own_proposal: the proposal of s   *)
(* becomes the last one, whatever the step of the one before.              *)
Record(s, a) ==
  /\ proposals' = Put(proposals, s, BuildProposal)
  /\ age' = Put(age, s, a)

ReceivePrediction(s, a) ==
  /\ pc = "predictions" /\ ~poisoned
  /\ Record(s, a)
  /\ UNCHANGED <<dlVars, pc, step, agreed, outbox, poisoned, announced>>

EndPredictions ==
  /\ pc = "predictions"
  /\ pc' = "gossip"
  /\ UNCHANGED <<dlVars, step, tableVars, agreed, outbox, poisoned, announced>>

(* A gossiped transaction that is new to the node is sent on. *)
ReceiveTransaction(t) ==
  /\ pc = "gossip" /\ ~poisoned
  /\ t \in Processed
  /\ AddTransactionFromGossip(t)
  /\ announced' = announced \cup {t}
  /\ UNCHANGED <<pc, step, tableVars, agreed, outbox, poisoned>>

AnnounceNewest ==                                                \* mutant
  /\ pc = "gossip"
  /\ pc' = "propose"
  /\ outbox' = {}
  /\ announced' = announced \cup
       {t \in outbox \cap Processed : \A u \in outbox : Nonce[u] <= Nonce[t]}
  /\ UNCHANGED <<dlVars, step, tableVars, agreed, poisoned>>

(* What the command line has queued is sent to the peers, once. *)
Announce ==
  /\ pc = "gossip"
  /\ pc' = "propose"
  /\ outbox' = {}
  /\ announced' = announced \cup (outbox \cap Processed)
  /\ UNCHANGED <<dlVars, step, tableVars, agreed, poisoned>>

Propose ==
  /\ pc = "propose" /\ ~poisoned
  /\ pc' = "consensus"
  /\ Record(Self, 0)
  /\ UNCHANGED <<dlVars, step, agreed, outbox, poisoned, announced>>

ActiveForEver == {s \in DOMAIN age : age[s] >= 0}                \* mutant

(* AngpNode::collect_active_proposals: neither too old nor from the future *)
Active == {s \in DOMAIN age : age[s] \in 0..Grace}

ThresholdRoundedDown(n) == (7 * n) \div 10                       \* mutant

(* (n * BATCH_APPROVAL_THRESHOLD).ceil() *)
Threshold(n) == (7 * n + 9) \div 10

(* compute_consensus, phase 4 *)
Voters(t) == {s \in Active : t \in proposals[s]}

Approved == {t \in Tx : /\ Voters(t) # {}
                        /\ Cardinality(Voters(t)) >= Threshold(Cardinality(Active))}

MayEarnSender(t) == {Sender[t]}                                  \* mutant

(* proposer_of keeps the first proposer in the order in which the HashMap  *)
(* yields the proposals, so it may be any of them.                         *)
MayEarn(t) == Voters(t)

ComputeConsensus ==
  /\ pc = "consensus" /\ ~poisoned
  /\ pc' = "finalize"
  /\ \E proposer \in [Approved -> Account] :
       /\ \A t \in Approved : proposer[t] \in MayEarn(t)
       /\ agreed' = proposer
  /\ UNCHANGED <<dlVars, step, tableVars, outbox, poisoned, announced>>

(* should_finalize: the steps above 0 that are multiples of the interval *)
FinalizeRound ==
  IF step = Interval
  THEN LET final == Finalizable(mempool, balances, DOMAIN agreed)
       IN  \E order \in SetToSeqs(final) :
             FinalizeBatch(DOMAIN agreed, order, agreed)
  ELSE UNCHANGED dlVars

(* The end of an iteration: every known proposal is one step older. *)
FinishStep ==
  /\ pc = "finalize"
  /\ poisoned => step # Interval
  /\ pc' = "predictions"
  /\ FinalizeRound
  /\ agreed' = Nothing
  /\ step' = IF step = Interval THEN 1 ELSE step + 1
  /\ age' = [s \in DOMAIN age |-> MinOf(age[s] + 1, Grace + 1)]
  /\ UNCHANGED <<proposals, outbox, poisoned, announced>>

-----------------------------------------------------------------------------
(* The loop panics in its turn: the process ends. *)
LoopPanics ==
  /\ poisoned
  /\ pc \in {"propose", "consensus"} \/ (pc = "finalize" /\ step = Interval)
  /\ UNCHANGED loopVars

CommandLine ==
  (\E t \in Tx : Submit(t)) \/ SubmitPanics \/ (\E a \in Account : Genesis(a))

Network ==
  \/ \E s \in Peer, a \in Age : ReceivePrediction(s, a)
  \/ \E t \in Tx : ReceiveTransaction(t)

MainLoop ==
  EndPredictions \/ Announce \/ Propose \/ ComputeConsensus \/ FinishStep

LoopNext == CommandLine \/ Network \/ MainLoop \/ LoopPanics

LoopSpec == LoopInit /\ [][LoopNext]_loopVars

(* The loop thread is never blocked: try_recv returns at once, and the     *)
(* channels run empty between two messages.  Nothing is asked of the       *)
(* peers, nor of the command line.                                         *)
FairLoopSpec == LoopSpec /\ WF_loopVars(MainLoop)

-----------------------------------------------------------------------------
(* The loop uses the core as DagLogic allows it, so all that holds of      *)
(* DLSpec, whose approvals and proposers are arbitrary, holds of the node. *)
ImplementsDagLogic == DLSpec

(* Proposals are snapshots of the mempool at different times and are not   *)
(* updated when a transaction leaves it.  Still, two approved transactions *)
(* were pending together when one of the proposals was made: so no         *)
(* approved set holds two spendings of one nonce.                          *)
ApprovedTogether ==
  \A t, u \in DOMAIN agreed :
    \E s \in DOMAIN proposals : {t, u} \subseteq proposals[s]

(* The nonce that the command line will use next is neither remembered,   *)
(* pending nor finalized and above the last ones, whatever the gossip      *)
(* about the same account was, until somebody, whom nothing ties to that   *)
(* account, has used u64::MAX in its name: then the user is locked out.    *)
NextNonceIsFree ==
  LastUsed < MaxU64 <=>
    /\ ~IsKnownNonce(mempool, Self, NextNonce)
    /\ <<Self, NextNonce>> \notin DOMAIN mempool.index
    /\ <<Self, NextNonce>> \notin ledger.nonces
    /\ NextNonce > MaxOf(mempool.last[Self], ledger.last[Self])

(* What is pending is settled, whatever the peers do: outdated proposals   *)
(* of peers that fell silent, even of peers ahead of the node, block the   *)
(* approval only as long as the grace period, and a transaction without    *)
(* balance is given up.  Only a panic prevents it.                         *)
PendingSettles ==
  \A t \in Tx :
    t \in mempool.pending ~> (t \notin mempool.pending \/ poisoned)

(* What the node accepts for its shards, from gossip or from the command   *)
(* line, it sends to its peers, unless it panics.                          *)
AcceptedIsAnnounced ==
  \A t \in Processed : t \in admitted ~> (t \in announced \/ poisoned)

=============================================================================
