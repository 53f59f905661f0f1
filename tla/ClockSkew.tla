----------------------------- MODULE ClockSkew -----------------------------
(***************************************************************************)
(* ClockSkewChecker (src/clock_skew.rs): statistics of how far the         *)
(* timestamps of received transactions are from the local clock, over all  *)
(* and by peer.  A check updates the two under two locks, one after the    *)
(* other, so that the checks of several threads could overlap.  (The node  *)
(* shares one checker behind an Arc, but its main loop is the only caller, *)
(* so today they do not.)                                                  *)
(*                                                                         *)
(* Times are whole numbers in a unit of which the thresholds are multiples;*)
(* timestamps whose difference in ms, or the sum of these, leaves an i64   *)
(* are left out.                                                           *)
(***************************************************************************)
EXTENDS Integers, FiniteSets, Functions, FiniteSetsExt

CONSTANTS
  Caller,      \* the threads that receive transactions
  SkewPeer,    \* the peers that transactions come from
  Skew,        \* the differences that occur between clock and timestamp
  MaxSkew,     \* max_skew_ms
  SevereSkew,  \* severe_skew_ms
  MaxChecks    \* bound on the number of checks

ASSUME SkewAssumption ==
  /\ IsFiniteSet(SkewPeer)
  /\ Skew \subseteq Int
  /\ {MaxSkew, SevereSkew, MaxChecks} \subseteq Nat

VARIABLES
  global,   \* SkewStats of all transactions
  perPeer,  \* the map from peers to their SkewStats
  halfway   \* the checks between their two locks: [caller, peer, skew]

skewVars == <<global, perPeer, halfway>>

(* SkewStats::default *)
NoStats == [checked |-> 0, warnings |-> 0, severe |-> 0, worst |-> 0, sum |-> 0]

SkewInit ==
  /\ global = NoStats
  /\ perPeer = [p \in {} |-> NoStats]
  /\ halfway = {}

-----------------------------------------------------------------------------
Abs(n) == IF n < 0 THEN -n ELSE n

(* SkewVerdict; a severe skew counts as a warning as well *)
Verdict(skew) ==
  IF Abs(skew) > SevereSkew THEN "severe"
  ELSE IF Abs(skew) > MaxSkew THEN "warning" ELSE "ok"

CountedSigned(stats, skew) ==                                    \* mutant
  [ checked  |-> stats.checked + 1,
    warnings |-> stats.warnings + (IF Verdict(skew) = "ok" THEN 0 ELSE 1),
    severe   |-> stats.severe + (IF Verdict(skew) = "severe" THEN 1 ELSE 0),
    worst    |-> IF Abs(skew) > stats.worst THEN skew ELSE stats.worst,
    sum      |-> stats.sum + skew ]

(* The statistics after one more transaction; of two equally large skews,  *)
(* the first stays the worst.                                              *)
Counted(stats, skew) ==
  [ checked  |-> stats.checked + 1,
    warnings |-> stats.warnings + (IF Verdict(skew) = "ok" THEN 0 ELSE 1),
    severe   |-> stats.severe + (IF Verdict(skew) = "severe" THEN 1 ELSE 0),
    worst    |-> IF Abs(skew) > Abs(stats.worst) THEN skew ELSE stats.worst,
    sum      |-> stats.sum + skew ]

PeerStats(p) == IF p \in DOMAIN perPeer THEN perPeer[p] ELSE NoStats

(* check, under the lock of the global statistics *)
CheckGlobal(c, p, skew) ==
  /\ global.checked < MaxChecks
  /\ \A h \in halfway : h.caller # c
  /\ global' = Counted(global, skew)
  /\ halfway' = halfway \cup {[caller |-> c, peer |-> p, skew |-> skew]}
  /\ UNCHANGED perPeer

(* and then under the lock of the statistics by peer *)
CheckPeer(h) ==
  /\ perPeer' = [q \in DOMAIN perPeer \cup {h.peer} |->
                   IF q = h.peer THEN Counted(PeerStats(q), h.skew) ELSE perPeer[q]]
  /\ halfway' = halfway \ {h}
  /\ UNCHANGED global

SkewNext ==
  \/ \E c \in Caller, p \in SkewPeer, skew \in Skew : CheckGlobal(c, p, skew)
  \/ \E h \in halfway : CheckPeer(h)

SkewSpec == SkewInit /\ [][SkewNext]_skewVars

-----------------------------------------------------------------------------
(* The two statistics tell the same story in every order of the checks and *)
(* of their locks: once no check is under way, each count over all is the  *)
(* sum over the peers.  The largest skew is that of a peer, up to its sign:*)
(* which of two opposite ones came first may differ between the two.       *)
StatisticsAgree ==
  halfway = {} =>
    LET sum(f(_)) == SumFunction([p \in DOMAIN perPeer |-> f(perPeer[p])])
    IN  /\ global.checked = sum(LAMBDA s : s.checked)
        /\ global.warnings = sum(LAMBDA s : s.warnings)
        /\ global.severe = sum(LAMBDA s : s.severe)
        /\ global.sum = sum(LAMBDA s : s.sum)
        /\ global.checked > 0 =>
             Abs(global.worst) = Max({Abs(perPeer[p].worst) : p \in DOMAIN perPeer})

=============================================================================
