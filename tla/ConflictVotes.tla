---------------------------- MODULE ConflictVotes ----------------------------
(***************************************************************************)
(* The votes on conflicting transactions (src/conflict.rs): transactions   *)
(* with one (sender, nonce) reach the nodes in different orders; each node *)
(* votes, spreads its vote and, when its window ends, resolves the         *)
(* conflict with the votes it has.  Votes are late, repeated, reordered or *)
(* lost, and each node counts its own steps.                               *)
(*                                                                         *)
(* ConflictResolver is a library without callers; the callers here call    *)
(* its methods in any order.  Votes are not signed, and record_vote takes  *)
(* any: some names may be those of nodes that do not vote by the rule of   *)
(* observe, or be used by others.  Conflicts on other keys are             *)
(* independent, so one key is modelled.  A transaction is the number its   *)
(* hash compares as.                                                       *)
(***************************************************************************)
EXTENDS Integers, FiniteSets, FiniteSetsExt, Functions

CONSTANTS
  Voter,         \* the names in which votes arrive
  Resolver,      \* the voters that are nodes with a ConflictResolver
  Dissenter,     \* the voters in whose names any vote may arrive
  Candidate,     \* the conflicting transactions, a set of numbers
  Weight,        \* [Resolver -> [Voter -> Nat]]: the reputations each node knows
  Window,        \* CONFLICT_VOTE_WINDOW
  LastVoteStep,  \* bound on the steps
  MaxVotes       \* bound on the different votes emitted

ASSUME ConflictAssumption ==
  /\ IsFiniteSet(Voter) /\ Resolver \subseteq Voter /\ Dissenter \subseteq Voter
  /\ IsFiniteSet(Candidate) /\ Candidate \subseteq Nat
  /\ Weight \in [Resolver -> [Voter -> Nat]]
  /\ Window \in Nat \ {0} /\ LastVoteStep \in Nat /\ MaxVotes \in Nat

VARIABLES
  conflict,  \* the ConflictState of each node, or NoConflict
  voteStep,  \* the step of each node
  sent,      \* the votes that the nodes emitted
  seen,      \* history variable: the transactions observed by some node
  won        \* history variable: what conflicts were resolved to by nodes
             \* in whose votes the dissenters were outweighed

cvVars == <<conflict, voteStep, sent, seen, won>>

Vote == [voter : Voter, favored : Candidate, step : 0..LastVoteStep]

NoConflict == [candidates |-> {}, votes |-> [v \in {} |-> 0], started |-> -1]

IsConflict(c) ==
  /\ c = [candidates |-> c.candidates, votes |-> c.votes, started |-> c.started]
  /\ c.candidates \subseteq Candidate
  /\ DOMAIN c.votes \subseteq Voter /\ c.votes \in [DOMAIN c.votes -> Candidate]
  /\ c.started \in -1..LastVoteStep

CVTypeOK ==
  /\ DOMAIN conflict = Resolver
  /\ \A n \in Resolver : IsConflict(conflict[n])
  /\ voteStep \in [Resolver -> 0..LastVoteStep]
  /\ sent \subseteq Vote
  /\ seen \subseteq Candidate
  /\ won \subseteq Candidate

CVInit ==
  /\ conflict = [n \in Resolver |-> NoConflict]
  /\ voteStep = [n \in Resolver |-> 0]
  /\ sent = {} /\ seen = {} /\ won = {}

(* entry(key).or_insert_with(...) *)
Opened(c, step) == IF c.started = -1 THEN [c EXCEPT !.started = step] ELSE c

WithVote(c, v, t) ==
  [c EXCEPT !.votes = [x \in DOMAIN @ \cup {v} |-> IF x = v THEN t ELSE @[x]]]

-----------------------------------------------------------------------------
VoteTick(n) ==
  /\ voteStep[n] < LastVoteStep
  /\ voteStep' = [voteStep EXCEPT ![n] = @ + 1]
  /\ UNCHANGED <<conflict, sent, seen, won>>

(* The candidate a node votes for when t makes a conflict *)
Favored(candidates, t) == Min(candidates \cup {t})

(* ConflictResolver::observe; the vote of a conflict goes to the peers. *)
Observe(n, t) ==
  LET c == Opened(conflict[n], voteStep[n])
      d == [c EXCEPT !.candidates = @ \cup {t}]
      f == Favored(c.candidates, t)
  IN  /\ t \notin c.candidates
      /\ Cardinality(sent) < MaxVotes
      /\ seen' = seen \cup {t}
      /\ IF c.candidates = {}
         THEN /\ conflict' = [conflict EXCEPT ![n] = d]
              /\ UNCHANGED sent
         ELSE /\ conflict' = [conflict EXCEPT ![n] = WithVote(d, n, f)]
              /\ sent' = sent \cup {[voter |-> n, favored |-> f, step |-> voteStep[n]]}
      /\ UNCHANGED <<voteStep, won>>

(* ConflictResolver::record_vote: the vote that arrives last in a name     *)
(* counts, whenever and by whomever it was emitted.                        *)
RecordVote(n, v) ==
  /\ conflict' = [conflict EXCEPT
       ![n] = WithVote(Opened(@, v.step), v.voter, v.favored)]
  /\ UNCHANGED <<voteStep, sent, seen, won>>

For(n, t) == {v \in DOMAIN conflict[n].votes : conflict[n].votes[v] = t}

Score(n, t) == SumFunctionOnSet(Weight[n], For(n, t))

LightestWins(n) ==                                               \* mutant
  LET voted == Range(conflict[n].votes)
  IN  {t \in voted : \A u \in voted :
         Score(n, t) < Score(n, u) \/ (Score(n, t) = Score(n, u) /\ t <= u)}

(* The heaviest transaction, the one with the smaller hash if they tie *)
Winners(n) ==
  LET voted == Range(conflict[n].votes)
  IN  {t \in voted : \A u \in voted :
         Score(n, t) > Score(n, u) \/ (Score(n, t) = Score(n, u) /\ t <= u)}

(* The votes of the dissenters that a node has weigh less than the others. *)
Carried(n) ==
  LET voters == DOMAIN conflict[n].votes
  IN  SumFunctionOnSet(Weight[n], voters \cap Dissenter)
        < SumFunctionOnSet(Weight[n], voters \ Dissenter)

(* ConflictResolver::resolve, after the window: the conflict is forgotten, *)
(* with a winner if there was a vote.                                      *)
Resolve(n) ==
  /\ conflict[n].started # -1
  /\ voteStep[n] >= conflict[n].started + Window
  /\ won' = won \cup (IF Carried(n) THEN Winners(n) ELSE {})
  /\ conflict' = [conflict EXCEPT ![n] = NoConflict]
  /\ UNCHANGED <<voteStep, sent, seen>>

CVNext ==
  \E n \in Resolver :
    \/ VoteTick(n)
    \/ \E t \in Candidate : Observe(n, t)
    \/ \E v \in sent \cup {w \in Vote : w.voter \in Dissenter} : RecordVote(n, v)
    \/ Resolve(n)

CVSpec == CVInit /\ [][CVNext]_cvVars

-----------------------------------------------------------------------------
(* A double spend of two transactions is resolved alike by every node,     *)
(* every time, with whatever part of the votes it has and whatever the     *)
(* reputations are, when the votes that were cast by the rule of observe   *)
(* outweigh, for the node that resolves, those that were not: the          *)
(* dissenters among the voters may favor anything, differently to each     *)
(* node.                                                                   *)
PairAgreement ==
  Cardinality(seen) <= 2 => \A t, u \in won : t = u

=============================================================================
