--------------------------- MODULE AttackDetection ---------------------------
(***************************************************************************)
(* Two of the detectors of src/attack_detection.rs, which compare the      *)
(* predictions of one step with each other: the clone detector and the     *)
(* coordination detector.  (The other three follow one node over time,     *)
(* module HistoryDetection.)                                               *)
(*                                                                         *)
(* A prediction is a point on a line.  Its sender is its place in the list *)
(* of proposals; as every assignment of points to places is tried, so is   *)
(* every order of the list.                                                *)
(***************************************************************************)
EXTENDS Integers, FiniteSets

CONSTANTS
  Predictors,      \* how many nodes predict
  Point,           \* the predictions
  Nearness,        \* CLONE_EPSILON and COORDINATION_EPSILON, which are equal
  CloneThreshold,  \* CLONE_STREAK_THRESHOLD
  MinCluster,      \* COORDINATION_MIN_CLUSTER
  LastAnalysis     \* bound on the calls of detect_all

ASSUME AttackDetectionAssumption ==
  /\ Predictors \in Nat /\ Point \subseteq Int /\ Nearness \in Nat
  /\ CloneThreshold \in Nat \ {0} /\ MinCluster \in Nat /\ MinCluster >= 2
  /\ LastAnalysis \in Nat

VARIABLES
  point,        \* what was analysed last: the prediction of each sender
  cloneStreak,  \* clone_streak
  clones,       \* the penalties of the clone detector
  coordinated,  \* the penalties of the coordination detector
  analyses      \* calls of detect_all (a bound)

attackVars == <<point, cloneStreak, clones, coordinated, analyses>>

Senders == 1..Predictors

AttackInit ==
  /\ point = [p \in {} |-> 0]
  /\ cloneStreak = [p \in Senders |-> 0]
  /\ clones = {} /\ coordinated = {}
  /\ analyses = 0

-----------------------------------------------------------------------------
(* euclidean(a, b) < EPSILON *)
Near(f, p, q) == f[p] - f[q] < Nearness /\ f[q] - f[p] < Nearness

(* Both nodes of a pair become suspects: the distance does not tell which  *)
(* one copied the other.                                                   *)
Suspects(f) == {q \in DOMAIN f : \E p \in DOMAIN f \ {q} : Near(f, p, q)}

(* CloneDetector::detect.  The streaks are those of the nodes that sent a  *)
(* prediction; none changes when there are less than two proposals.        *)
DetectClones(f) ==
  IF Cardinality(DOMAIN f) < 2
  THEN clones' = {} /\ UNCHANGED cloneStreak
  ELSE /\ cloneStreak' = [p \in Senders |->
                            IF p \notin DOMAIN f THEN cloneStreak[p]
                            ELSE IF p \in Suspects(f) THEN cloneStreak[p] + 1
                            ELSE 0]
       /\ clones' = {p \in DOMAIN f : cloneStreak'[p] >= CloneThreshold}

-----------------------------------------------------------------------------
(* The union-find of the coordination detector (compute_consensus has the  *)
(* same one), with its find().  A forest maps each sender to its parent.   *)
(* find() also makes the paths shorter, which changes no root and is left  *)
(* out.                                                                    *)
Find(forest, p) ==
  LET up[q \in DOMAIN forest] == IF forest[q] = q THEN q ELSE up[forest[q]]
  IN  up[p]

UnitedAtLeaf(forest, p, q) == [forest EXCEPT ![p] = Find(forest, q)]  \* mutant

United(forest, p, q) == [forest EXCEPT ![Find(forest, p)] = Find(forest, q)]

(* for i in 0..n { for j in (i + 1)..n { .. } } *)
Visit(f, forest, p, q) ==
  IF p < q /\ {p, q} \subseteq DOMAIN f /\ Near(f, p, q)
  THEN United(forest, p, q) ELSE forest

(* for j *)
Row(f, forest, p) ==
  LET upto[q \in 0..Predictors] ==
        IF q = 0 THEN forest ELSE Visit(f, upto[q - 1], p, q)
  IN  upto[Predictors]

(* for i *)
Forest(f) ==
  LET upto[p \in 0..Predictors] ==
        IF p = 0 THEN [q \in DOMAIN f |-> q] ELSE Row(f, upto[p - 1], p)
  IN  upto[Predictors]

(* CoordinationDetector::detect: the nodes of the large clusters *)
DetectCoordination(f) ==
  LET forest == Forest(f)
  IN  \E root \in {[p \in DOMAIN f |-> Find(forest, p)]} :
        coordinated' = {p \in DOMAIN f :
          Cardinality({q \in DOMAIN f : root[q] = root[p]}) >= MinCluster}

(* AttackDetectionManager::detect_all, as far as it calls the two *)
DetectAll(f) ==
  /\ analyses < LastAnalysis
  /\ analyses' = analyses + 1
  /\ point' = f
  /\ DetectClones(f)
  /\ DetectCoordination(f)

AttackNext ==
  \E S \in SUBSET Senders : \E f \in [S -> Point] : DetectAll(f)

AttackSpec == AttackInit /\ [][AttackNext]_attackVars

-----------------------------------------------------------------------------
(* q can be reached from p by steps between near predictions. *)
Connected(f, p, q) ==
  \A S \in SUBSET DOMAIN f :
    p \in S /\ (\A a \in S, b \in DOMAIN f : Near(f, a, b) => b \in S) => q \in S

(* The union-find, whose forest depends on the order of the proposals,     *)
(* punishes exactly the nodes of a connected group that is large enough.   *)
(* The clone detector agrees: each of them has a streak there, a node that *)
(* was copied like its copies, so a group that persists is punished twice. *)
CoordinationExact ==
  /\ coordinated = {p \in DOMAIN point :
       Cardinality({q \in DOMAIN point : Connected(point, p, q)}) >= MinCluster}
  /\ \A p \in coordinated : cloneStreak[p] > 0

=============================================================================
