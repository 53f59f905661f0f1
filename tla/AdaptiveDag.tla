----------------------------- MODULE AdaptiveDag -----------------------------
(***************************************************************************)
(* The DAG of past signals that a node predicts from (src/dag.rs), as      *)
(* generate_prediction uses it (src/node.rs): create a vertex below the    *)
(* last one, learn, predict, prune.  A vertex is named by the number that  *)
(* its id "node_<number>" ends in, which is the length of "order".  The    *)
(* signals, of which the model keeps none, are told apart by the step they *)
(* were made in; weights only scale them.                                  *)
(***************************************************************************)
EXTENDS Integers, Sequences, SequencesExt, Functions

CONSTANTS
  Keep,      \* the 50 vertices that prune() keeps
  EndStep    \* bound on the steps

ASSUME AdaptiveDagAssumption == Keep \in Nat \ {0} /\ EndStep \in Nat

VARIABLES
  order,       \* AdaptiveDag.order
  nodes,       \* nodes: [id -> the step its signal was made in]
  parents,     \* parents: [id -> id], absent for the first vertex
  last,        \* last_dag_node_id, or NoVertex
  made,        \* the current step
  predictedBy  \* history variable: the step whose signal the last prediction
               \* is made of

adVars == <<order, nodes, parents, last, made, predictedBy>>

NoVertex == -1

ADTypeOK ==
  /\ order \in Seq(0..(Keep + 1)) /\ Len(order) <= Keep
  /\ DOMAIN nodes \subseteq 0..(Keep + 1)
  /\ nodes \in [DOMAIN nodes -> 1..EndStep]
  /\ DOMAIN parents \subseteq 0..(Keep + 1)
  /\ parents \in [DOMAIN parents -> 0..(Keep + 1)]
  /\ last \in 0..(Keep + 1) \cup {NoVertex}
  /\ made \in 0..EndStep
  /\ predictedBy \in 0..EndStep

ADInit ==
  /\ order = <<>>
  /\ nodes = [i \in {} |-> 0] /\ parents = [i \in {} |-> 0]
  /\ last = NoVertex
  /\ made = 0 /\ predictedBy = 0

(* HashMap::insert *)
Entered(f, k, v) == [x \in DOMAIN f \cup {k} |-> IF x = k THEN v ELSE f[x]]

(* AdaptiveDag::create_node: the parents of the vertex id, if it has one   *)
CreateBelow(id) == IF last = NoVertex THEN parents ELSE Entered(parents, id, last)

(* AdaptiveDag::predict: the signal of the parent, as far as it is known;  *)
(* otherwise the vertex's own.                                             *)
Predicted(id, signal, parent) ==
  IF id \in DOMAIN parent /\ parent[id] \in DOMAIN signal
  THEN signal[parent[id]]
  ELSE signal[id]

(* AdaptiveDag::prune removes from the front and forgets the ids. *)
PruneIn(o, f) ==
  IF Len(o) <= Keep THEN f
  ELSE Restrict(f, DOMAIN f \ Range(SubSeq(o, 1, Len(o) - Keep)))

PruneOrder(o) ==
  IF Len(o) <= Keep THEN o ELSE SubSeq(o, Len(o) - Keep + 1, Len(o))

(* AngpNode::generate_prediction: create_node, update_with_alpha, predict, *)
(* prune.                                                                  *)
GeneratePrediction ==
  LET id     == Len(order)
      grown  == Append(order, id)
      signal == Entered(nodes, id, made + 1)
      parent == CreateBelow(id)
  IN  /\ made < EndStep
      /\ made' = made + 1
      /\ predictedBy' = Predicted(id, signal, parent)
      /\ last' = id
      /\ order' = PruneOrder(grown)
      /\ nodes' = PruneIn(grown, signal)
      /\ parents' = PruneIn(grown, parent)

ADSpec == ADInit /\ [][GeneratePrediction]_adVars

-----------------------------------------------------------------------------
(* dag.rs: "the prediction is based on the direct parent (the last node)". *)
(* From the second step on, that is the signal of the step before.         *)
PredictsFromParent == made >= 2 => predictedBy = made - 1

=============================================================================
