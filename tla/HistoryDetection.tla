-------------------------- MODULE HistoryDetection --------------------------
(***************************************************************************)
(* The detectors of src/attack_detection.rs that follow one node over      *)
(* time: jumps of its predictions, the mean variation of its predictions,  *)
(* and errors that are large only where the consensus is near one half.    *)
(* Each keeps its own table by node, so one node is enough here.           *)
(*                                                                         *)
(* Predictions and errors are whole numbers.                               *)
(***************************************************************************)
EXTENDS Integers, Sequences, FiniteSets, Functions, SequencesExt

CONSTANTS
  Observation,         \* what detect_all may see of the node in a call
  JumpThreshold,       \* PREDICTION_JUMP_THRESHOLD
  JumpStreak,          \* PREDICTION_JUMP_STREAK
  TemporalWindow,      \* TEMPORAL_WINDOW
  VariationThreshold,  \* TEMPORAL_INCONSISTENCY_THRESHOLD
  AdaptiveWindow,      \* ADAPTIVE_DETECTION_WINDOW
  MinSamples,          \* the ten samples that are needed in both zones
  ErrHigh,             \* ADAPTIVE_ERR_HIGH
  ErrLow,              \* ADAPTIVE_ERR_LOW
  LastObservation      \* bound on the calls of detect_all

(* In the code, a jump is larger than the mean variation that is allowed,  *)
(* and a high error three times a low one.                                 *)
ASSUME HistoryAssumption ==
  /\ Observation \subseteq [prediction : Nat, error : Nat, inZone : BOOLEAN]
  /\ {JumpThreshold, ErrHigh, ErrLow} \subseteq Nat
  /\ {AdaptiveWindow, JumpStreak, MinSamples} \subseteq Nat \ {0}
  /\ TemporalWindow \in Nat /\ TemporalWindow >= 2
  /\ VariationThreshold \in 1..JumpThreshold
  /\ 3 * ErrLow <= ErrHigh
  /\ LastObservation \in Nat

VARIABLES
  jumpStreak,   \* jump_streak
  predictions,  \* prediction_history of the temporal detector
  errors,       \* history of the adaptive detector: <<error, in the zone>>
  penalties,    \* the detectors that punish the node after the last call
  shown,        \* history variable: what the calls saw that saw the node
  present,      \* history variable: whether the last call saw it
  rounds        \* calls of detect_all (a bound)

historyVars == <<jumpStreak, predictions, errors, penalties, shown, present, rounds>>

HistoryInit ==
  /\ jumpStreak = 0
  /\ predictions = <<>> /\ errors = <<>>
  /\ penalties = {}
  /\ shown = <<>> /\ present = FALSE
  /\ rounds = 0

-----------------------------------------------------------------------------
Distance(p, q) == IF p < q THEN q - p ELSE p - q

OldestOnly(s, w) == IF Len(s) > w THEN SubSeq(s, 1, w) ELSE s \* mutant

(* push_back, and pop_front while there are more than w *)
LastEntries(s, w) == IF Len(s) > w THEN SubSeq(s, Len(s) - w + 1, Len(s)) ELSE s

(* The last entry of the history stands for last_prediction: both          *)
(* detectors are handed the same predictions.                              *)
JumpedFromOldest(streak, history, p) ==                               \* mutant
  IF history = <<>> THEN streak
  ELSE IF Distance(p, Head(history)) > JumpThreshold THEN streak + 1 ELSE 0

(* PredictionJumpDetector::detect, for a node with a prediction p *)
Jumped(streak, history, p) ==
  IF history = <<>> THEN streak
  ELSE IF Distance(p, Last(history)) > JumpThreshold THEN streak + 1 ELSE 0

(* TemporalConsistencyDetector::detect: whether the history h is that of   *)
(* an inconsistent node                                                    *)
Inconsistent(h) ==
  LET steps     == Len(h) - 1
      variation == SumFunction([i \in 1..steps |-> Distance(h[i + 1], h[i])])
  IN  /\ Len(h) >= TemporalWindow \div 2
      /\ steps > 0
      /\ variation > VariationThreshold * steps

(* Where the errors in the zone are in the history, or those outside it    *)
Samples(h, inZone) == {i \in DOMAIN h : h[i][2] = inZone}

SumOfErrors(h, samples) == SumFunctionOnSet([i \in DOMAIN h |-> h[i][1]], samples)

AdaptiveOverWindow(h) ==                                         \* mutant
  LET near == Samples(h, TRUE)
      far  == Samples(h, FALSE)
  IN  /\ Len(h) >= AdaptiveWindow \div 2
      /\ Cardinality(near) >= MinSamples /\ Cardinality(far) >= MinSamples
      /\ SumOfErrors(h, near) > ErrHigh * Cardinality(near)
      /\ SumOfErrors(h, far) < ErrLow * Len(h)

(* AdaptiveDetector::detect: the mean error in the zone is high, the mean  *)
(* error outside is low and less than half of it                           *)
Adaptive(h) ==
  LET near == Samples(h, TRUE)
      far  == Samples(h, FALSE)
  IN  /\ Len(h) >= AdaptiveWindow \div 2
      /\ Cardinality(near) >= MinSamples /\ Cardinality(far) >= MinSamples
      /\ SumOfErrors(h, near) > ErrHigh * Cardinality(near)
      /\ SumOfErrors(h, far) < ErrLow * Cardinality(far)
      /\ SumOfErrors(h, near) * Cardinality(far)
           > 2 * SumOfErrors(h, far) * Cardinality(near)

-----------------------------------------------------------------------------
(* AttackDetectionManager::detect_all on this node.  The adaptive detector *)
(* judges every history it has, that of a node which is absent too.        *)
Penalties ==
  {d \in {"adaptive", "temporal", "jump"} :
     \/ d = "adaptive" /\ Adaptive(errors')
     \/ d = "temporal" /\ present' /\ Inconsistent(predictions')
     \/ d = "jump" /\ present' /\ predictions # <<>> /\ jumpStreak' >= JumpStreak}

Analyse(o) ==
  /\ rounds < LastObservation
  /\ rounds' = rounds + 1
  /\ errors' = LastEntries(Append(errors, <<o.error, o.inZone>>), AdaptiveWindow)
  /\ predictions' = LastEntries(Append(predictions, o.prediction), TemporalWindow)
  /\ jumpStreak' = Jumped(jumpStreak, predictions, o.prediction)
  /\ present' = TRUE
  /\ penalties' = Penalties
  /\ shown' = Append(shown, o)

(* In a call in which the node proposes nothing, it has no error either.   *)
AnalyseOthers ==
  /\ rounds < LastObservation
  /\ rounds' = rounds + 1
  /\ UNCHANGED <<errors, predictions, jumpStreak, shown>>
  /\ present' = FALSE
  /\ penalties' = Penalties

HistoryNext == (\E o \in Observation : Analyse(o)) \/ AnalyseOthers

HistorySpec == HistoryInit /\ [][HistoryNext]_historyVars

-----------------------------------------------------------------------------
HistoryTypeOK ==
  /\ shown \in Seq(Observation)
  /\ jumpStreak \in 0..Len(shown)
  /\ predictions \in Seq(Nat) /\ Len(predictions) <= TemporalWindow
  /\ errors \in Seq(Nat \X BOOLEAN) /\ Len(errors) <= AdaptiveWindow
  /\ penalties \subseteq {"adaptive", "temporal", "jump"}
  /\ present \in BOOLEAN /\ rounds \in Len(shown)..LastObservation

(* The jump detector punishes a node that proposes if and only if each of  *)
(* its last JumpStreak predictions was a jump from the one before it.      *)
(* Proposing nothing for some steps neither ends a series of jumps nor     *)
(* prolongs it.                                                            *)
JumpsExact ==
  LET n == Len(shown)
  IN  "jump" \in penalties <=>
        /\ present
        /\ n > JumpStreak
        /\ \A i \in (n - JumpStreak + 1)..n :
             Distance(shown[i].prediction, shown[i - 1].prediction) > JumpThreshold

(* No way around by the window: who goes on jumping until the jumps alone  *)
(* reach the threshold of the mean variation is also inconsistent, whatever*)
(* the calm part of the window says.                                       *)
PersistentJumpersAreInconsistent ==
  /\ present
  /\ Len(shown) >= TemporalWindow \div 2
  /\ jumpStreak * JumpThreshold >= VariationThreshold * (TemporalWindow - 1)
  => "temporal" \in penalties

(* A node whose errors differ by a factor of three at most, near one half  *)
(* and elsewhere, is never taken for an adaptive attacker, however its     *)
(* samples are spread over the zones.                                      *)
EvenErrorsAreNotAdaptive ==
  "adaptive" \in penalties =>
    \E i, j \in DOMAIN errors : errors[i][1] > 3 * errors[j][1]

=============================================================================
