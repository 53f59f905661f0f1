--------------------------- MODULE ShardConsensus ---------------------------
(***************************************************************************)
(* ShardConsensusManager::compute_hybrid (src/shard_consensus.rs) on a     *)
(* sharded node: a consensus within each shard, and one over the digests   *)
(* of the shards.  Without sharding it is the consensus of module          *)
(* Consensus itself, with one digest that nobody compares with another.    *)
(*                                                                         *)
(* The digest hash covers median, state root and the number of approved    *)
(* transactions.  No transactions are proposed here, so it stands for the  *)
(* median and the root.                                                    *)
(***************************************************************************)
EXTENDS Consensus

CONSTANTS
  Member,      \* senders of proposals
  Tolerance,   \* the distance up to which is_shard_compromised trusts a shard
  ShardOf,     \* shard_of_address: [Member -> shards]
  Submission   \* the lists of proposals that are considered

ASSUME ShardAssumption ==
  /\ IsFiniteSet(Member)
  /\ Tolerance \in Nat
  /\ DOMAIN ShardOf = Member
  /\ \A s \in Submission :
       DOMAIN s \subseteq Member /\ DOMAIN s # {} /\ s \in [DOMAIN s -> Proposal]

VARIABLES
  submitted,  \* the proposals, with the weights of their senders
  digests,    \* shard_digests: the consensus of each shard
  anchor      \* global_consensus

shardVars == <<submitted, digests, anchor>>

ShardInit ==
  /\ submitted \in Submission
  /\ digests = None /\ anchor = None

-----------------------------------------------------------------------------
Shards == {ShardOf[p] : p \in DOMAIN submitted}

MembersOf(s) == {p \in DOMAIN submitted : ShardOf[p] = s}

ProposalsOf(s) == Restrict(submitted, MembersOf(s))

(* What compute_consensus may return (a bound variable is evaluated once)  *)
ConsensusOf(P) ==
  UNION {Outcomes(P, w) : w \in {Capped(P, c) : c \in {Clusters(P)}}}

(* Layer 1: compute_consensus in every shard, and its digest *)
ShardLayer ==
  /\ digests = None
  /\ \E outcomes \in {[s \in Shards |-> ConsensusOf(ProposalsOf(s))]} :
       digests' \in {f \in [Shards -> UNION Range(outcomes)] :
                       \A s \in Shards : f[s] \in outcomes[s]}
  /\ UNCHANGED <<submitted, anchor>>

(* The product of the sizes of the shards, which makes all means whole     *)
MeanScale == Product([s \in Shards |-> Cardinality(MembersOf(s))], Shards)

(* The mean reputation of the members of a shard.  The code averages the   *)
(* reputations themselves, while compute_consensus raises those below 0.01 *)
(* to 0.01 for its weights; here no reputation is that small, so that the  *)
(* two are the same.                                                       *)
Mean(s) ==
  WeightOf(submitted, MembersOf(s)) * (MeanScale \div Cardinality(MembersOf(s)))

TotalReputation(s) == WeightOf(submitted, MembersOf(s))    \* mutant

(* shard_rep_map *)
ShardReputation(s) == Mean(s)

(* ShardDigest::to_proposal *)
DigestProposals ==
  [s \in Shards |->
     [ prediction |-> digests[s].median, weight |-> ShardReputation(s),
       tips |-> {}, root |-> <<digests[s].median, digests[s].root>> ]]

(* Layer 2: compute_consensus over the digests *)
GlobalAnchor ==
  /\ digests # None /\ anchor = None
  /\ anchor' \in ConsensusOf(DigestProposals)
  /\ UNCHANGED <<submitted, digests>>

Deviation(s) == Apart(digests[s].median, anchor.median)

CompromisedAtTolerance(s) == Deviation(s) >= Square(Tolerance)  \* mutant

(* is_shard_compromised *)
Compromised(s) == Deviation(s) > Square(Tolerance)

ShardNext == ShardLayer \/ GlobalAnchor

ShardSpec == ShardInit /\ [][ShardNext]_shardVars

-----------------------------------------------------------------------------
(* The sets of senders that the cap holds down among P: nobody, and every  *)
(* cluster that it restrains                                               *)
Weak(P) ==
  {{}} \cup UNION {{C \in Range(c) : Restrained(P, c, C)} : c \in {Clusters(P)}}

WeakShards ==
  Weak([s \in Shards |-> [prediction |-> digests[s].median, weight |-> Mean(s)]])

(* The members who may be coordinated when they control the shards S: all  *)
(* members of these, and a weak set of members in each other shard         *)
Attackers(S) ==
  UNION {{A \in SUBSET DOMAIN submitted :
            \A s \in Shards : IF s \in S THEN MembersOf(s) \subseteq A
                              ELSE A \cap MembersOf(s) \in weak[s]} :
           weak \in {[s \in Shards |-> Weak(ProposalsOf(s))]}}

(* Two layers protect as one: members who coordinate, weak in some shards  *)
(* and in control of others that are weak as shards, cannot move the       *)
(* median of the anchor beyond the range of what the other members         *)
(* predict, whatever the sizes of the shards.                              *)
AttackersCannotMoveAnchor ==
  anchor # None =>
    \A S \in WeakShards : \A A \in Attackers(S) :
      \A d \in Dim : \E p, q \in DOMAIN submitted \ A :
        /\ submitted[p].prediction[d] <= anchor.median[d]
        /\ anchor.median[d] <= submitted[q].prediction[d]

(* The coordinated members cannot discredit a shard that they do not       *)
(* control either: as long as the others are within the tolerance of each  *)
(* other, none of their shards is called compromised.                      *)
Spread(A, d) ==
  LET honest == {submitted[p].prediction[d] : p \in DOMAIN submitted \ A}
  IN  Max(honest) - Min(honest)

HonestShardsAreTrusted ==
  anchor # None =>
    \A S \in WeakShards : \A A \in Attackers(S) :
      Total([d \in Dim |-> Square(Spread(A, d))], Dim) <= Square(Tolerance)
        => \A s \in Shards \ S : ~Compromised(s)

=============================================================================
