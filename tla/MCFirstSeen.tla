----------------------------- MODULE MCFirstSeen -----------------------------
(***************************************************************************)
(* ConflictVotes with a memory of what each node saw first.                *)
(***************************************************************************)
EXTENDS MCConflictVotes

VARIABLE first   \* history variable: the transaction each node saw first

FSInit == CVInit /\ first = [n \in Resolver |-> {}]

(* The first transaction is for a while the only one. *)
Remember(n) == IF first[n] = {} THEN conflict'[n].candidates ELSE first[n]

FSNext == CVNext /\ first' = [n \in Resolver |-> Remember(n)]

FSSpec == FSInit /\ [][FSNext]_<<cvVars, first>>

(* conflict.rs: a node votes for the transaction it saw first, so that     *)
(* what wins, when all vote by the rule, was seen first by one of them.    *)
FirstSeenWins ==
  \A t \in won : \E n \in Resolver : t \in first[n]

=============================================================================
