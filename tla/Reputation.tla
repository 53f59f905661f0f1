----------------------------- MODULE Reputation -----------------------------
(***************************************************************************)
(* The protection of a reputation (src/reputation.rs): what one engine     *)
(* keeps about one target.  The two moving averages and the dozen          *)
(* penalties of update_reputation are abstracted to whether the raw        *)
(* reputation they yield reaches 0.3, which is both the threshold and the  *)
(* value of the floor; any error may yield either.  What is modelled is    *)
(* all that decides whether the floor replaces it: the warm-up, the        *)
(* violation counter, the streak, and the floor with its end; and the two  *)
(* penalties that ignore the floor, apply_replay_penalty and mark_outlier, *)
(* which have no caller and may here be called at any time.                *)
(***************************************************************************)
EXTENDS Integers, FiniteSets, Sequences, SequencesExt

CONSTANTS
  Bootstrap,      \* BOOTSTRAP_STEPS
  Extension,      \* length of the extended bootstrap: the code adds 200 steps,
                  \* the comment above it says 100
  MinSteps,       \* REPUTATION_FLOOR_MIN_STEPS, which counts updates
  FloorGrace,     \* REPUTATION_FLOOR_GRACE
  Violations,     \* VIOLATION_WINDOW
  LastUpdateStep  \* bound on the steps

ASSUME ReputationAssumption ==
  /\ Bootstrap \in Nat /\ Extension \in Nat
  /\ MinSteps \in Nat \ {0} /\ FloorGrace \in Nat /\ Violations \in Nat \ {0}
  /\ LastUpdateStep \in Nat

VARIABLES
  repStep,     \* the step of the node
  updates,     \* calls of update_reputation in this step
  reputation,  \* reputation_cache: "none", "low" or, from the floor on, "high"
  streak,      \* above_threshold_streak
  floorUntil,  \* floor_active_until; absent is 0
  violations,  \* violation_counter
  outliers,    \* outlier_count, as far as it matters
  past,        \* history variable: the raw reputations and their steps
  cut          \* history variable: a penalty followed the last update

repVars == <<repStep, updates, reputation, streak, floorUntil, violations, outliers,
             past, cut>>

RepTypeOK ==
  /\ repStep \in 0..LastUpdateStep /\ updates \in 0..2
  /\ reputation \in {"none", "low", "high"}
  /\ streak \in 0..Len(past)
  /\ floorUntil \in 0..(LastUpdateStep + FloorGrace)
  /\ violations \in 0..Len(past)
  /\ outliers \in 0..3 /\ cut \in BOOLEAN
  /\ \A i \in DOMAIN past : past[i].step \in Bootstrap..LastUpdateStep

RepInit ==
  /\ repStep = 0 /\ updates = 0 /\ reputation = "none"
  /\ streak = 0 /\ floorUntil = 0 /\ violations = 0 /\ outliers = 0
  /\ past = <<>> /\ cut = FALSE

-----------------------------------------------------------------------------
RepTick ==
  /\ repStep < LastUpdateStep
  /\ repStep' = repStep + 1
  /\ updates' = 0
  /\ UNCHANGED <<reputation, streak, floorUntil, violations, outliers, past, cut>>

(* AngpNode::update_reputations calls the engine once in a step for an     *)
(* active peer, not at all for a silent one, and twice for the node        *)
(* itself: its id is put in front of the senders it has proposals of.      *)
Called ==
  /\ updates < 2
  /\ updates' = updates + 1
  /\ UNCHANGED repStep

(* update_reputation returns early during the warm-up. *)
WarmUp ==
  /\ Called
  /\ repStep < Bootstrap
  /\ reputation' = "high"
  /\ UNCHANGED <<streak, floorUntil, violations, outliers, past, cut>>

Floored(raw, until) ==
  IF repStep < until \/ repStep < Bootstrap + Extension THEN "high" ELSE raw

StreakOfFloored(raw) ==                                          \* mutant
  IF Floored(raw, floorUntil) = "high" THEN streak + 1 ELSE 0

StreakAfter(raw) == IF raw = "high" THEN streak + 1 ELSE 0

(* The floor is put in place, or pushed on, by each update of a streak. *)
FloorAfter(longer) ==
  IF longer >= MinSteps THEN repStep + FloorGrace ELSE floorUntil

(* The rest of update_reputation: an error that yields "raw", and is or is *)
(* not a violation.                                                        *)
Update(raw, violating) ==
  LET longer == StreakAfter(raw)
  IN  /\ Called
      /\ repStep >= Bootstrap
      /\ violations' = IF violating THEN violations + 1 ELSE 0
      /\ violations' >= Violations => raw = "low"
      /\ streak' = longer
      /\ floorUntil' = FloorAfter(longer)
      /\ reputation' = Floored(raw, floorUntil')
      /\ past' = Append(past, [raw |-> raw, step |-> repStep])
      /\ cut' = FALSE
      /\ UNCHANGED outliers

(* A factor on the cached reputation, if there is one: what was high may   *)
(* be low then, whatever floor there is.                                   *)
CutDown ==
  /\ cut' = TRUE
  /\ reputation' \in {reputation} \cup (IF reputation = "high" THEN {"low"} ELSE {})

(* ReputationEngine::apply_replay_penalty: its effect on the averages is   *)
(* that of any error.                                                      *)
ApplyReplayPenalty ==
  /\ repStep >= Bootstrap
  /\ CutDown
  /\ UNCHANGED <<repStep, updates, streak, floorUntil, violations, outliers, past>>

(* ReputationEngine::mark_outlier cuts from the third call on. *)
MarkOutlier ==
  /\ repStep >= Bootstrap
  /\ outliers' = IF outliers < 3 THEN outliers + 1 ELSE 3
  /\ IF outliers' = 3 THEN CutDown ELSE UNCHANGED <<reputation, cut>>
  /\ UNCHANGED <<repStep, updates, streak, floorUntil, violations, past>>

RepNext ==
  \/ RepTick
  \/ WarmUp
  \/ \E raw \in {"low", "high"}, violating \in BOOLEAN : Update(raw, violating)
  \/ ApplyReplayPenalty
  \/ MarkOutlier

RepSpec == RepInit /\ [][RepNext]_repVars

-----------------------------------------------------------------------------
(* Update i ended MinSteps updates in a row that reached the threshold. *)
StreakEnded(i) ==
  /\ i >= MinSteps
  /\ \A j \in (i - MinSteps + 1)..i : past[j].raw = "high"

(* The protection of updates is exact.  A reputation below the threshold   *)
(* is lifted only if MinSteps updates in a row earned it less than         *)
(* FloorGrace steps ago, or the network is young: the floor never prolongs *)
(* itself for a target that stays bad.  And it is lifted whenever that is  *)
(* so, honest nodes survive a bad spell, unless a penalty came since the   *)
(* last update: the next update lifts what a penalty cut down.             *)
FloorExact ==
  past # <<>> =>
    LET now    == Last(past)
        lifted == \/ now.raw = "high"
                  \/ now.step < Bootstrap + Extension
                  \/ \E i \in DOMAIN past :
                       StreakEnded(i) /\ now.step < past[i].step + FloorGrace
    IN  /\ reputation = "high" => lifted
        /\ lifted /\ ~cut => reputation = "high"

(* config.rs and reputation.rs: the floor is for a node that was above the *)
(* threshold for MinSteps steps.                                           *)
FloorTakesMinSteps ==
  past # <<>> /\ reputation = "high" =>
    LET now == Last(past)
    IN  \/ now.raw = "high"
        \/ now.step < Bootstrap + Extension
        \/ \E i \in DOMAIN past : \E j \in 1..i :
             /\ \A k \in j..i : past[k].raw = "high"
             /\ Cardinality({past[k].step : k \in j..i}) >= MinSteps
             /\ now.step < past[i].step + FloorGrace

=============================================================================
