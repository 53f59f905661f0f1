--------------------------- MODULE NodeLoopProofs ---------------------------
(***************************************************************************)
(* Proofs about the main loop of a node: it uses the transaction core as   *)
(* DagLogic allows it, what it approves was pending together, and the      *)
(* nonce of the command line is free as long as there is one.              *)
(***************************************************************************)
EXTENDS NodeLoop, DagLogicProofs

(* Every nonce that the mempool remembers or the ledger holds is one of a  *)
(* transaction that was admitted, or at most the last one of its sender.   *)
NonceBound ==
  /\ \A a \in Account : \A i \in DOMAIN mempool.history[a] :
       mempool.history[a][i] <= mempool.last[a]
  /\ ledger.nonces \subseteq {Key(t) : t \in admitted}

(* The table of the proposals and what was agreed from it                  *)
TableInv ==
  /\ pc \in {"predictions", "gossip", "propose", "consensus", "finalize"}
  /\ step \in 0..Interval
  /\ DOMAIN proposals \subseteq Node
  /\ \A s \in DOMAIN proposals : proposals[s] \subseteq admitted
  /\ age \in [DOMAIN proposals -> Age]
  /\ DOMAIN agreed \subseteq admitted
  /\ agreed \in [DOMAIN agreed -> Node]
  /\ pc # "finalize" => DOMAIN agreed = {}
  /\ ApprovedTogether
  /\ outbox \subseteq admitted
  /\ poisoned \in BOOLEAN
  /\ announced \subseteq admitted

LoopInv == DLInv /\ NonceBound /\ TableInv

-----------------------------------------------------------------------------
(* Voting *)

(* Two sets that each hold 70% of the active proposals, rounded up, share  *)
(* a proposal.                                                             *)
LEMMA VotersMeet ==
  ASSUME NEW A, IsFiniteSet(A), NEW V \in SUBSET A, NEW W \in SUBSET A,
         V # {},
         Cardinality(V) >= Threshold(Cardinality(A)),
         Cardinality(W) >= Threshold(Cardinality(A))
  PROVE  V \cap W # {}
<1>1. /\ IsFiniteSet(V) /\ IsFiniteSet(W)
      /\ Cardinality(V \cup W) =
           Cardinality(V) + Cardinality(W) - Cardinality(V \cap W)
      /\ Cardinality(V \cup W) <= Cardinality(A)
  BY FS_Subset, FS_Union
<1>2. /\ Cardinality(A) \in Nat /\ Cardinality(A) # 0
      /\ Cardinality(V) \in Nat /\ Cardinality(W) \in Nat
      /\ Cardinality(V \cup W) \in Nat /\ Cardinality(V \cap W) \in Nat
  BY <1>1, FS_CardinalityType, FS_EmptySet, FS_Subset
<1>3. 2 * Threshold(Cardinality(A)) > Cardinality(A)
  <2> SUFFICES ASSUME NEW n \in Nat, n # 0 PROVE 2 * Threshold(n) > n
    BY <1>2
  <2> QED BY SMT DEF Threshold
<1>4. Threshold(Cardinality(A)) \in Nat
  BY <1>2 DEF Threshold
<1>5. Cardinality(V \cap W) > 0
  BY <1>1, <1>2, <1>3, <1>4
<1> QED BY <1>5, FS_EmptySet

(* What compute_consensus approves of proposals made from the mempool was  *)
(* admitted, earns an active node its fee, and was seen in common.         *)
LEMMA ConsensusFacts ==
  ASSUME TableInv, ComputeConsensus
  PROVE  /\ DOMAIN agreed' \subseteq admitted
         /\ agreed' \in [DOMAIN agreed' -> Node]
         /\ \A t, u \in DOMAIN agreed' :
              \E s \in DOMAIN proposals : {t, u} \subseteq proposals[s]
<1>1. PICK proposer \in [Approved -> Account] :
        /\ \A t \in Approved : proposer[t] \in MayEarn(t)
        /\ agreed' = proposer
  BY DEF ComputeConsensus
<1>2. Active \subseteq DOMAIN proposals /\ DOMAIN proposals \subseteq Node
  BY DEF TableInv, Active
<1>3. IsFiniteSet(Active)
  BY <1>2, NodeLoopAssumption, FS_Subset
<1>4. \A t \in Approved : Voters(t) \subseteq Active /\ Voters(t) # {}
  BY DEF Approved, Voters
<1>5. \A t \in Approved : t \in admitted
  BY <1>2, <1>4 DEF TableInv, Voters
<1>6. ASSUME NEW t \in Approved, NEW u \in Approved
      PROVE  \E s \in DOMAIN proposals : {t, u} \subseteq proposals[s]
  <2>1. Voters(t) \cap Voters(u) # {}
    <3>1. /\ Cardinality(Voters(t)) >= Threshold(Cardinality(Active))
          /\ Cardinality(Voters(u)) >= Threshold(Cardinality(Active))
      BY DEF Approved
    <3> QED BY <1>3, <1>4, <3>1, VotersMeet
  <2> QED BY <1>2, <2>1 DEF Voters
<1>7. \A t \in Approved : proposer[t] \in Node
  BY <1>1, <1>2, <1>4 DEF MayEarn
<1> QED BY <1>1, <1>5, <1>6, <1>7

-----------------------------------------------------------------------------
(* The core under the loop *)

(* The end of an iteration finalizes what was agreed, or nothing.          *)
LEMMA FinishIsFinalize ==
  ASSUME TableInv, FinishStep
  PROVE  Finalize \/ UNCHANGED dlVars
<1>1. CASE step = Interval
  <2>1. PICK order \in SetToSeqs(Finalizable(mempool, balances, DOMAIN agreed)) :
          FinalizeBatch(DOMAIN agreed, order, agreed)
    BY <1>1 DEF FinishStep, FinalizeRound
  <2>2. DOMAIN agreed \in SUBSET admitted /\ agreed \in [DOMAIN agreed -> Node]
    BY DEF TableInv
  <2> QED BY <2>1, <2>2 DEF Finalize
<1>2. CASE step # Interval
  BY <1>2 DEF FinishStep, FinalizeRound
<1> QED BY <1>1, <1>2

(* Each step of the loop is one of the core, or leaves the core alone.     *)
LEMMA CoreStep ==
  ASSUME TableInv, [LoopNext]_loopVars
  PROVE  [DLNext]_dlVars
<1>1. ASSUME NEW t \in Tx, Submit(t) PROVE DLNext
  BY <1>1 DEF Submit, DLNext
<1>2. ASSUME NEW a \in Account, Genesis(a) PROVE DLNext
  BY <1>2 DEF Genesis, DLNext
<1>3. ASSUME NEW t \in Tx, ReceiveTransaction(t) PROVE DLNext
  BY <1>3 DEF ReceiveTransaction, DLNext
<1>4. ASSUME FinishStep PROVE [DLNext]_dlVars
  BY <1>4, FinishIsFinalize DEF DLNext
<1>5. ASSUME \/ \E s \in Peer, a \in Age : ReceivePrediction(s, a)
             \/ EndPredictions \/ Announce \/ Propose \/ ComputeConsensus
             \/ SubmitPanics \/ LoopPanics \/ UNCHANGED loopVars
      PROVE  UNCHANGED dlVars
  BY <1>5 DEF ReceivePrediction, EndPredictions, Announce, Propose,
              ComputeConsensus, SubmitPanics, LoopPanics, loopVars
<1> QED
  BY <1>1, <1>2, <1>3, <1>4, <1>5 DEF LoopNext, CommandLine, Network, MainLoop

(* Transactions are admitted for ever.                                     *)
LEMMA AdmittedGrows ==
  ASSUME DLInv, [DLNext]_dlVars
  PROVE  admitted \subseteq admitted'
<1>1. CASE UNCHANGED dlVars
  BY <1>1 DEF dlVars, mpVars
<1>2. CASE Finalize
  BY <1>2, FinalizeFacts
<1>3. CASE DLNext /\ ~Finalize
  BY <1>3 DEF DLNext, AddTransaction, AddTransactionFromGossip, Admit, MPAdd,
              AddVerifiedBatch, AllocateGenesis, mpVars
<1> QED BY <1>1, <1>2, <1>3

(* Mempool::add remembers a nonce above those it remembers already.        *)
LEMMA AdmitKeepsNonces ==
  ASSUME DLInv, NonceBound, NEW t \in Tx, Admit(t), UNCHANGED ledger
  PROVE  NonceBound'
<1> DEFINE a == Sender[t]  h == mempool.history[a]
<1>1. /\ mempool' = Insert(mempool, t)
      /\ admitted' = admitted \cup {t}
      /\ Nonce[t] > mempool.last[a]
  BY DEF Admit, MPAdd, Accepts
<1>2. /\ mempool.history \in [Account -> Seq(Nat)]
      /\ mempool.last \in [Account -> Nat \cup {NoNonce}]
      /\ a \in Account /\ Nonce[t] \in Nat
  BY KeyType DEF DLInv, MempoolInv, IsMempool
<1>3. /\ mempool'.history = [mempool.history EXCEPT ![a] = Remember(@, Nonce[t])]
      /\ mempool'.last = [mempool.last EXCEPT ![a] = Nonce[t]]
  BY <1>1 DEF Insert
<1>4. ASSUME NEW i \in DOMAIN Remember(h, Nonce[t])
      PROVE  Remember(h, Nonce[t])[i] <= Nonce[t]
  <2> DEFINE longer == Append(h, Nonce[t])
  <2>1. h \in Seq(Nat) /\ longer \in Seq(Nat) /\ Len(longer) = Len(h) + 1
    BY <1>2
  <2>2. \A j \in 1..Len(h) : h[j] \in Nat /\ h[j] <= mempool.last[a]
    BY <1>2, <2>1 DEF NonceBound
  <2>3. mempool.last[a] < Nonce[t] /\ mempool.last[a] \in Int
    BY <1>1, <1>2 DEF NoNonce
  <2>4. \A j \in 1..Len(h) : h[j] <= Nonce[t]
    BY <1>2, <2>2, <2>3
  <2>5. \A j \in 1..Len(longer) : longer[j] <= Nonce[t]
    BY <1>2, <2>1, <2>4
  <2> HIDE DEF h
  <2>6. CASE Remember(h, Nonce[t]) = longer
    BY <2>1, <2>5, <2>6
  <2>7. CASE Remember(h, Nonce[t]) = Tail(longer)
    BY <1>4, <2>1, <2>5, <2>7
  <2> QED BY <2>6, <2>7 DEF Remember
<1>5. ASSUME NEW b \in Account, NEW i \in DOMAIN mempool'.history[b]
      PROVE  mempool'.history[b][i] <= mempool'.last[b]
  BY <1>2, <1>3, <1>4, <1>5 DEF NonceBound
<1> QED BY <1>1, <1>5 DEF NonceBound

(* finalize_batch keeps the nonce tables of the mempool, and the ledger    *)
(* only gets nonces of admitted transactions.                              *)
LEMMA FinalizeKeepsNonces ==
  ASSUME DLInv, NonceBound, Finalize
  PROVE  NonceBound'
<1>1. PICK approved \in SUBSET admitted :
        \E order \in SetToSeqs(Finalizable(mempool, balances, approved)),
           proposer \in [approved -> Node] :
             FinalizeBatch(approved, order, proposer)
  BY DEF Finalize
<1> DEFINE final == Finalizable(mempool, balances, approved)
<1>2. PICK order \in SetToSeqs(final), proposer \in [approved -> Node] :
             FinalizeBatch(approved, order, proposer)
  BY <1>1
<1>3. final \subseteq admitted /\ admitted \subseteq Tx /\ admitted' = admitted
  BY <1>2 DEF Finalizable, StillPending, FinalizeBatch, DLInv, MempoolInv
<1>4. Range(order) \subseteq admitted
  BY <1>3, SequenceOf
<1>5. mempool'.history = mempool.history /\ mempool'.last = mempool.last
  <2>1. \E gone : mempool' = RemoveBatch(mempool, gone)
    BY <1>2 DEF FinalizeBatch
  <2> QED BY <2>1 DEF RemoveBatch
<1>6. \/ ledger' = ledger
      \/ ledger' = AddBatch(ledger, order, proposer)
  BY <1>2 DEF FinalizeBatch
<1>7. AddBatch(ledger, order, proposer).nonces =
        ledger.nonces \cup {Key(t) : t \in Range(order)}
  BY DEF AddBatch, Key
<1>8. ledger'.nonces \subseteq {Key(t) : t \in admitted}
  BY <1>4, <1>6, <1>7 DEF NonceBound
<1> QED BY <1>3, <1>5, <1>8 DEF NonceBound

-----------------------------------------------------------------------------
(* The steps *)

(* A node starts without proposals and without anything agreed.            *)
LEMMA LoopInitKeepsInv == LoopInit => LoopInv
<1> SUFFICES ASSUME LoopInit PROVE LoopInv
  OBVIOUS
<1>1. DLInv
  BY InitKeepsInv DEF LoopInit
<1>2. NonceBound
  BY DEF LoopInit, DLInit, MPInit, LInit, EmptyMempool, EmptyLedger, NonceBound
<1>3. TableInv
  <2>1. poisoned \in BOOLEAN
    BY DEF LoopInit
  <2> QED
    BY <2>1, NodeLoopAssumption DEF LoopInit, Nothing, TableInv, ApprovedTogether
<1> QED BY <1>1, <1>2, <1>3 DEF LoopInv

(* Each step of the loop keeps the nonces bounded.                         *)
LEMMA NonceStep ==
  ASSUME LoopInv, [LoopNext]_loopVars
  PROVE  NonceBound'
<1> USE DEF LoopInv
<1>1. ASSUME NEW t \in Tx, Submit(t) PROVE NonceBound'
  BY <1>1, AdmitKeepsNonces DEF Submit, AddTransaction
<1>2. ASSUME NEW t \in Tx, ReceiveTransaction(t) PROVE NonceBound'
  BY <1>2, AdmitKeepsNonces DEF ReceiveTransaction, AddTransactionFromGossip
<1>3. ASSUME UNCHANGED <<mpVars, ledger>> PROVE NonceBound'
  BY <1>3 DEF NonceBound, mpVars
<1>4. ASSUME NEW a \in Account, Genesis(a) PROVE NonceBound'
  BY <1>3, <1>4 DEF Genesis, AllocateGenesis
<1>5. ASSUME FinishStep PROVE NonceBound'
  <2>1. CASE Finalize
    BY <2>1, FinalizeKeepsNonces
  <2>2. CASE UNCHANGED dlVars
    BY <1>3, <2>2 DEF dlVars
  <2> QED BY <1>5, <2>1, <2>2, FinishIsFinalize
<1>6. ASSUME \/ \E s \in Peer, a \in Age : ReceivePrediction(s, a)
             \/ EndPredictions \/ Announce \/ Propose \/ ComputeConsensus
             \/ SubmitPanics \/ LoopPanics \/ UNCHANGED loopVars
      PROVE  NonceBound'
  <2>1. UNCHANGED dlVars
    BY <1>6 DEF ReceivePrediction, EndPredictions, Announce, Propose,
                ComputeConsensus, SubmitPanics, LoopPanics, loopVars
  <2> QED BY <1>3, <2>1 DEF dlVars
<1> QED
  BY <1>1, <1>2, <1>4, <1>5, <1>6 DEF LoopNext, CommandLine, Network, MainLoop

(* A proposal that is recorded holds what is pending.                      *)
LEMMA RecordFacts ==
  ASSUME DLInv, TableInv, NEW s \in Node, NEW a \in Age, Record(s, a)
  PROVE  /\ DOMAIN proposals' \subseteq Node
         /\ \A q \in DOMAIN proposals' : proposals'[q] \subseteq admitted
         /\ age' \in [DOMAIN proposals' -> Age]
<1>1. mempool.pending \subseteq admitted
  BY DEF DLInv, MempoolInv
<1> QED BY <1>1 DEF TableInv, Record, BuildProposal, Put

(* Each step of the loop keeps the table of proposals consistent.          *)
LEMMA TableStep ==
  ASSUME DLInv, TableInv, LoopNext, admitted \subseteq admitted'
  PROVE  TableInv'
<1>1. ASSUME UNCHANGED <<pc, step, tableVars, agreed>>,
             poisoned' \in BOOLEAN, outbox' \subseteq admitted', announced' \subseteq admitted'
      PROVE  TableInv'
  BY <1>1 DEF TableInv, tableVars, ApprovedTogether
<1>2. ASSUME NEW t \in Tx, Submit(t) PROVE TableInv'
  BY <1>1, <1>2 DEF Submit, AddTransaction, Admit, MPAdd, TableInv
<1>3. ASSUME NEW a \in Account, Genesis(a) PROVE TableInv'
  BY <1>1, <1>3 DEF Genesis, TableInv
<1>4. ASSUME NEW t \in Tx, ReceiveTransaction(t) PROVE TableInv'
  BY <1>1, <1>4 DEF ReceiveTransaction, AddTransactionFromGossip, Admit, MPAdd,
                    TableInv
<1>5. ASSUME NEW s \in Peer, NEW a \in Age, ReceivePrediction(s, a)
      PROVE  TableInv'
  <2>1. /\ DOMAIN proposals' \subseteq Node
        /\ \A q \in DOMAIN proposals' : proposals'[q] \subseteq admitted
        /\ age' \in [DOMAIN proposals' -> Age]
    BY <1>5, RecordFacts DEF ReceivePrediction, Peer
  <2> QED BY <1>5, <2>1 DEF ReceivePrediction, TableInv, ApprovedTogether
<1>6. ASSUME EndPredictions PROVE TableInv'
  BY <1>6 DEF EndPredictions, TableInv, tableVars, ApprovedTogether
<1>7. ASSUME Announce PROVE TableInv'
  BY <1>7 DEF Announce, TableInv, tableVars, ApprovedTogether
<1>8. ASSUME Propose PROVE TableInv'
  <2>1. /\ Self \in Node /\ 0 \in Age
    BY NodeLoopAssumption DEF Age
  <2>2. /\ DOMAIN proposals' \subseteq Node
        /\ \A q \in DOMAIN proposals' : proposals'[q] \subseteq admitted
        /\ age' \in [DOMAIN proposals' -> Age]
    BY <1>8, <2>1, RecordFacts DEF Propose
  <2> QED BY <1>8, <2>2 DEF Propose, TableInv, ApprovedTogether
<1>9. ASSUME ComputeConsensus PROVE TableInv'
  <2>1. /\ DOMAIN agreed' \subseteq admitted
        /\ agreed' \in [DOMAIN agreed' -> Node]
        /\ \A t, u \in DOMAIN agreed' :
             \E s \in DOMAIN proposals : {t, u} \subseteq proposals[s]
    BY <1>9, ConsensusFacts
  <2>2. /\ pc' = "finalize"
        /\ UNCHANGED <<dlVars, step, tableVars, outbox, poisoned, announced>>
    BY <1>9 DEF ComputeConsensus
  <2> QED BY <2>1, <2>2 DEF TableInv, tableVars, ApprovedTogether
<1>10. ASSUME FinishStep PROVE TableInv'
  <2>1. step' \in 0..Interval
    BY <1>10, NodeLoopAssumption DEF FinishStep, TableInv
  <2>2. age' \in [DOMAIN proposals' -> Age]
    <3>1. \A a \in Age : MinOf(a + 1, Grace + 1) \in Age
      BY NodeLoopAssumption DEF Age, MinOf
    <3> QED BY <1>10, <3>1 DEF FinishStep, TableInv
  <2>3. /\ agreed' = Nothing /\ pc' = "predictions"
        /\ UNCHANGED <<proposals, outbox, poisoned, announced>>
    BY <1>10 DEF FinishStep
  <2> QED BY <2>1, <2>2, <2>3 DEF TableInv, Nothing, ApprovedTogether
<1>11. ASSUME SubmitPanics \/ LoopPanics PROVE TableInv'
  BY <1>1, <1>11 DEF SubmitPanics, LoopPanics, loopVars, TableInv
<1> QED
  BY <1>2, <1>3, <1>4, <1>5, <1>6, <1>7, <1>8, <1>9, <1>10, <1>11
  DEF LoopNext, CommandLine, Network, MainLoop

(* Every step of the loop keeps the invariant.                             *)
LEMMA LoopNextKeepsInv ==
  ASSUME LoopInv, [LoopNext]_loopVars
  PROVE  LoopInv'
<1>1. DLInv /\ TableInv
  BY DEF LoopInv
<1>2. [DLNext]_dlVars
  BY <1>1, CoreStep
<1>3. DLInv'
  BY <1>1, <1>2, NextKeepsInv
<1>4. NonceBound'
  BY NonceStep
<1>5. TableInv'
  <2>1. CASE LoopNext
    BY <1>1, <1>2, <2>1, AdmittedGrows, TableStep
  <2>2. CASE UNCHANGED loopVars
    BY <1>1, <2>2
    DEF loopVars, dlVars, mpVars, tableVars, TableInv, ApprovedTogether
  <2> QED BY <2>1, <2>2
<1> QED BY <1>3, <1>4, <1>5 DEF LoopInv

(* What is in the range of a width is its own remainder.                   *)
LEMMA SmallRemainder ==
  ASSUME NEW m \in Nat, NEW n \in Nat, m < n
  PROVE  m % n = m
  BY SMT

-----------------------------------------------------------------------------
(* The theorems *)

(* The inductive invariant of the main loop.                               *)
THEOREM LoopInvariance == LoopSpec => []LoopInv
<1>1. LoopInv /\ [LoopNext]_loopVars => LoopInv'
  BY LoopNextKeepsInv
<1> QED BY LoopInitKeepsInv, <1>1, PTL DEF LoopSpec

(* Type correctness of the loop and of the core under it.                  *)
THEOREM LoopTypeCorrect == LoopSpec => []LoopTypeOK
<1>1. ASSUME LoopInv PROVE LoopTypeOK
  <2>1. DLTypeOK
    BY <1>1 DEF LoopInv, DLInv, DLTypeOK, MempoolInv, MPTypeOK, LedgerInv, LTypeOK,
                RetriesInv
  <2>2. admitted \subseteq Tx
    BY <1>1 DEF LoopInv, DLInv, MempoolInv
  <2> QED BY <1>1, <2>1, <2>2 DEF LoopInv, TableInv, LoopTypeOK
<1> QED BY <1>1, LoopInvariance, PTL

(* The loop, whose approvals come from the proposals and whose proposers   *)
(* are their senders, implements the core, where both are arbitrary.       *)
THEOREM LoopImplementsDagLogic == LoopSpec => ImplementsDagLogic
<1>1. LoopInit => DLInit
  BY DEF LoopInit
<1>2. LoopInv /\ [LoopNext]_loopVars => [DLNext]_dlVars
  BY CoreStep DEF LoopInv
<1> QED BY <1>1, <1>2, LoopInvariance, PTL DEF LoopSpec, ImplementsDagLogic, DLSpec

(* Two transactions that compute_consensus approves were pending together, *)
(* however many peers there are and however stale their proposals.         *)
THEOREM LoopApprovedTogether == LoopSpec => []ApprovedTogether
<1>1. LoopInv => ApprovedTogether
  BY DEF LoopInv, TableInv
<1> QED BY <1>1, LoopInvariance, PTL

(* The nonce after the last one used is one that neither the mempool nor   *)
(* the ledger refuses, unless that last one is the greatest u64: then the  *)
(* addition wraps around, and what it gives is refused.                    *)
THEOREM LoopNextNonceIsFree == LoopSpec => []NextNonceIsFree
<1>1. ASSUME LoopInv PROVE NextNonceIsFree
  <2> DEFINE last == MaxOf(mempool.last[Self], ledger.last[Self])
  <2>1. /\ Self \in Account
        /\ mempool.history \in [Account -> Seq(Nat)]
        /\ mempool.last \in [Account -> Nat \cup {NoNonce}]
        /\ ledger.last \in [Account -> Nat \cup {NoNonce}]
        /\ MaxU64 \in Nat \ {0}
    BY <1>1, NodeLoopAssumption, DagLogicAssumption, TxAssumption
    DEF LoopInv, DLInv, MempoolInv, IsMempool, LedgerInv, IsLedger
  <2>2. /\ mempool.last[Self] \in Int /\ ledger.last[Self] \in Int
        /\ LastUsed \in Nat /\ last \in Int /\ last <= LastUsed
        /\ mempool.last[Self] <= last
        /\ LastUsed > 0 => LastUsed = last
    <3>1. mempool.last[Self] \in Int /\ ledger.last[Self] \in Int
      BY <2>1 DEF NoNonce
    <3> QED BY <3>1 DEF LastUsed, MaxOf
  <2>3. CASE LastUsed < MaxU64
    <3>1. NextNonce = LastUsed + 1
      <4>1. /\ LastUsed + 1 \in Nat /\ MaxU64 + 1 \in Nat
            /\ LastUsed + 1 < MaxU64 + 1
        BY <2>1, <2>2, <2>3
      <4> QED BY <4>1, SmallRemainder DEF NextNonce
    <3>2. NextNonce > last /\ NextNonce > mempool.last[Self]
      BY <2>2, <3>1
    <3>3. \A t \in admitted : Key(t) # <<Self, NextNonce>>
      <4> SUFFICES ASSUME NEW t \in admitted, Sender[t] = Self, Nonce[t] = NextNonce
                   PROVE  FALSE
        BY DEF Key
      <4>1. Nonce[t] <= mempool.last[Self]
        BY <1>1 DEF LoopInv, DLInv, MempoolInv
      <4> QED BY <2>2, <3>1, <3>2, <4>1
    <3>4. ~IsKnownNonce(mempool, Self, NextNonce)
      <4> SUFFICES ASSUME NEW i \in DOMAIN mempool.history[Self],
                          mempool.history[Self][i] = NextNonce
                   PROVE  FALSE
        BY DEF IsKnownNonce
      <4>1. NextNonce <= mempool.last[Self]
        BY <1>1, <2>1 DEF LoopInv, NonceBound
      <4> QED BY <2>2, <3>1, <3>2, <4>1
    <3>5. <<Self, NextNonce>> \notin DOMAIN mempool.index
      BY <1>1, <3>3 DEF LoopInv, DLInv, MempoolInv
    <3>6. <<Self, NextNonce>> \notin ledger.nonces
      BY <1>1, <3>3 DEF LoopInv, NonceBound
    <3> QED BY <2>3, <3>2, <3>4, <3>5, <3>6 DEF NextNonceIsFree
  <2>4. CASE ~(LastUsed < MaxU64)
    <3>1. NextNonce <= last
      <4>1. LastUsed = last /\ last >= MaxU64
        BY <2>1, <2>2, <2>4
      <4>2. (LastUsed + 1) % (MaxU64 + 1) \in 0..MaxU64
        BY <2>1, <2>2
      <4> QED BY <2>1, <2>2, <4>1, <4>2 DEF NextNonce
    <3>2. NextNonce \in Int
      BY <2>1, <2>2 DEF NextNonce
    <3> QED BY <2>2, <2>4, <3>1, <3>2 DEF NextNonceIsFree
  <2> QED BY <2>3, <2>4
<1> QED BY <1>1, LoopInvariance, PTL

(* Double spending is excluded for the node with its loop, its table of    *)
(* stale proposals and its command line.                                   *)
THEOREM LoopNoDoubleSpend == LoopSpec => []NoDoubleSpend
  BY LoopImplementsDagLogic, NoDoubleSpendHolds DEF ImplementsDagLogic

(* Nor does the loop, whatever it approves, make money of its own.         *)
THEOREM LoopSupplyIsBacked ==
  LoopSpec /\ []PayableCostsExact => []SupplyIsBacked
  BY LoopImplementsDagLogic, SupplyIsBackedHolds DEF ImplementsDagLogic

(* Whatever order its HashMap yields, the balances of the node are the     *)
(* same.                                                                   *)
THEOREM LoopOrderIrrelevant ==
  LoopSpec /\ []MoneyBelowLimit => []OrderIrrelevant
  BY LoopImplementsDagLogic, OrderIrrelevantHolds DEF ImplementsDagLogic

=============================================================================
