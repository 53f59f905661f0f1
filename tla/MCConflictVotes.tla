--------------------------- MODULE MCConflictVotes ---------------------------
(***************************************************************************)
(* Reputations for ConflictVotes: nodes that trust themselves less than    *)
(* each other.                                                             *)
(***************************************************************************)
EXTENDS ConflictVotes

MCWeight ==
  [m \in Resolver |-> [n \in Voter |-> IF m = n THEN 1 ELSE 2]]

=============================================================================
