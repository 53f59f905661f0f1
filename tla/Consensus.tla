----------------------------- MODULE Consensus -----------------------------
(***************************************************************************)
(* The numbers of DagLogic::compute_consensus (src/dag_logic.rs): the      *)
(* weights of the proposals, capped by cluster, their weighted median, the *)
(* common tips and the common state root.  (The approval of transactions   *)
(* is in NodeLoop.)  An operator takes the proposals as a function P of    *)
(* their senders, as ShardConsensus computes a consensus of several sets.  *)
(*                                                                         *)
(* Predictions have whole coordinates, in a unit of which Epsilon is the   *)
(* clustering distance; weights are whole too.  The ratio of the cap is    *)
(* kept, and Scale makes the capped weights whole.                         *)
(***************************************************************************)
EXTENDS Integers, FiniteSets, FiniteSetsExt, Functions

CONSTANTS
  Proposer,   \* senders of the active proposals
  Dim,        \* the coordinates of a prediction
  Coordinate, \* the values of a coordinate
  Epsilon,    \* CLUSTER_CAPPING_EPSILON
  RawWeight,  \* the weights that reputations give
  Tip,        \* hashes proposed as tips
  Root,       \* state roots
  TipsCount,  \* PROPOSAL_TIPS_COUNT
  Input       \* the sets of active proposals that are considered

(* The fields of a DagProposal, and the weight of its sender *)
Proposal == [prediction : [Dim -> Coordinate], weight : RawWeight,
             tips : SUBSET Tip, root : Root]

ASSUME ConsensusAssumption ==
  /\ IsFiniteSet(Proposer) /\ Proposer # {}
  /\ RawWeight \subseteq Nat \ {0}    \* .max(0.01)
  /\ IsFiniteSet(Dim) /\ Coordinate \subseteq Int
  /\ Epsilon \in Nat /\ TipsCount \in Nat
  /\ Input \subseteq [Proposer -> Proposal]

VARIABLES
  proposal,   \* the active proposals, with the weights of their senders
  cluster,    \* the classes of the union-find: [Proposer -> SUBSET Proposer]
  capped,     \* weights: [Proposer -> Nat]
  result      \* the DagConsensus

consVars == <<proposal, cluster, capped, result>>

(* Not computed yet *)
None == [p \in {} |-> 0]

Total(f, S) == SumFunctionOnSet(f, S)

Product(f, S) == FoldFunctionOnSet( *, 1, f, S)

(* The weight of the senders S among P *)
WeightOf(P, S) == Total([p \in DOMAIN P |-> P[p].weight], S)

(* The square of the Euclidean distance of two points *)
Square(n) == n * n

Apart(a, b) == Total([d \in Dim |-> Square(a[d] - b[d])], Dim)

ConsInit ==
  /\ proposal \in Input
  /\ cluster = None /\ capped = None /\ result = None

-----------------------------------------------------------------------------
(* euclidean(a, b) < CLUSTER_CAPPING_EPSILON *)
Close(P, a, b) == Apart(P[a].prediction, P[b].prediction) < Square(Epsilon)

(* The classes of the union-find over all close pairs: q is in the class   *)
(* of p if no set of proposals that is closed under closeness separates    *)
(* them.                                                                   *)
Clusters(P) ==
  LET close  == {e \in (DOMAIN P) \X (DOMAIN P) : Close(P, e[1], e[2])}
      closed == {S \in SUBSET DOMAIN P : \A e \in close : e[1] \in S => e[2] \in S}
  IN  [p \in DOMAIN P |-> {q \in DOMAIN P : \A S \in closed : p \in S => q \in S}]

(* Ten times the product of the weights of the clusters: a number that     *)
(* makes the capped weights whole                                          *)
Scale(P, clusters) ==
  10 * Product([C \in Range(clusters) |-> WeightOf(P, C)], Range(clusters))

Uncapped(own, all, w, scale) == w * scale                        \* mutant

(* A cluster of more than 30% of the weight is scaled down to 30%. *)
Cap(own, all, w, scale) ==
  IF 10 * own > 3 * all
  THEN w * 3 * all * (scale \div (10 * own))
  ELSE w * scale

Capped(P, clusters) ==
  LET all   == WeightOf(P, DOMAIN P)
      scale == Scale(P, clusters)
  IN  [p \in DOMAIN P |->
         Cap(WeightOf(P, clusters[p]), all, P[p].weight, scale)]

(* weighted_median_arrays: in each coordinate the smallest value that half *)
(* of the weight does not exceed                                           *)
WeightedMedian(P, w) ==
  LET below(d, v) == Total(w, {p \in DOMAIN P : P[p].prediction[d] <= v})
  IN  [d \in Dim |->
         Min({v \in {P[p].prediction[d] : p \in DOMAIN P} :
                2 * below(d, v) >= Total(w, DOMAIN P)})]

TipVotes(P, w, t) == Total(w, {p \in DOMAIN P : t \in P[p].tips})

(* The sort of the votes, and take(PROPOSAL_TIPS_COUNT): ties come in the  *)
(* order of a HashMap, so any choice among them is possible.               *)
HeaviestTips(P, w) ==
  LET proposed == UNION {P[p].tips : p \in DOMAIN P}
  IN  {S \in SUBSET proposed :
         /\ Cardinality(S) = Min({TipsCount, Cardinality(proposed)})
         /\ \A t \in S, u \in proposed \ S : TipVotes(P, w, t) >= TipVotes(P, w, u)}

RootVotes(P, w, r) == Total(w, {p \in DOMAIN P : P[p].root = r})

HeaviestRoots(P, w) ==
  LET reported == {P[p].root : p \in DOMAIN P}
  IN  {r \in reported : \A s \in reported : RootVotes(P, w, r) >= RootVotes(P, w, s)}

(* What compute_consensus may return for P with the weights w              *)
Outcomes(P, w) ==
  {[median |-> WeightedMedian(P, w), tips |-> S, root |-> r] :
     S \in HeaviestTips(P, w), r \in HeaviestRoots(P, w)}

-----------------------------------------------------------------------------
FindClusters ==
  /\ cluster = None
  /\ cluster' = Clusters(proposal)
  /\ UNCHANGED <<proposal, capped, result>>

CapWeights ==
  /\ cluster # None /\ capped = None
  /\ capped' = Capped(proposal, cluster)
  /\ UNCHANGED <<proposal, cluster, result>>

Decide ==
  /\ capped # None /\ result = None
  /\ result' \in Outcomes(proposal, capped)
  /\ UNCHANGED <<proposal, cluster, capped>>

ConsNext == FindClusters \/ CapWeights \/ Decide

ConsSpec == ConsInit /\ [][ConsNext]_consVars

-----------------------------------------------------------------------------
(* The cap speaks for the cluster C: C has less than 70% of the weight,    *)
(* and no other cluster needs a cap.                                       *)
Restrained(P, clusters, C) ==
  LET all == WeightOf(P, DOMAIN P)
  IN  /\ 10 * WeightOf(P, C) < 7 * all
      /\ \A D \in Range(clusters) \ {C} : 10 * WeightOf(P, D) <= 3 * all

(* The point of the cap: predictions that form one cluster do not move the *)
(* median beyond the range of the others, even with most of the weight.    *)
ClusterCannotMoveMedian ==
  result # None =>
    \A C \in Range(cluster) : Restrained(proposal, cluster, C) =>
      \A d \in Dim : \E p, q \in Proposer \ C :
        /\ proposal[p].prediction[d] <= result.median[d]
        /\ result.median[d] <= proposal[q].prediction[d]

(* Nor do they decide the common state root against all the others.        *)
ClusterCannotDecideRoot ==
  result # None =>
    \A C \in Range(cluster), r \in Root :
      (\A p \in Proposer \ C : proposal[p].root = r) /\ Restrained(proposal, cluster, C)
        => result.root = r

=============================================================================
