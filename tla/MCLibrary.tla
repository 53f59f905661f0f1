------------------------------ MODULE MCLibrary ------------------------------
(***************************************************************************)
(* Small instances of the components that keep to themselves.  They share  *)
(* no state, so each behaviour exercises one of them, the focus; the state *)
(* space is the sum of theirs.                                             *)
(***************************************************************************)
EXTENDS MCLedger, MCCrossShard, MCConflictVotes, RateLimiter, AdaptiveDag,
        FeePool, Reputation, AttackDetection, HistoryDetection, ShardConsensus, ClockSkew

VARIABLE focus

libraryVars == <<ledger, csVars, cvVars, rlVars, adVars, consVars, fpVars, repVars,
                 attackVars, historyVars, shardVars, skewVars, focus>>

(* The proposers are numbered in the order of their predictions; a         *)
(* proposal's tip goes with its state root, and the first proposal names   *)
(* the first root.                                                         *)
MCPredictions ==
  {f \in [Proposer -> {0, 1, 3, 5}] :
     \A p, q \in Proposer : p <= q => f[p] <= f[q]}

MCRoots == {r \in [Proposer -> Root] : r[1] = 1}

MCInput ==
  {[p \in Proposer |-> [prediction |-> [d \in Dim |-> f[p]], weight |-> w[p],
                        tips |-> {r[p]}, root |-> r[p]]] :
     f \in MCPredictions, w \in [Proposer -> {1, 2}], r \in MCRoots}

(* Three members share a shard, each of the others has its own.  Members   *)
(* are numbered by predictions within the first shard and outside it.      *)
MCShardOf == [m \in Member |-> IF m <= 3 THEN 1 ELSE m]

MCMemberPredictions ==
  {f \in [Member -> {0, 1, 5, 10}] :
     /\ \A m, n \in Member : m <= n /\ (n <= 3 \/ m > 3) => f[m] <= f[n]
     /\ \A m \in Member : f[m] # IF m <= 3 THEN 1 ELSE 0}

MCSubmission ==
  {[m \in Member |-> [prediction |-> [d \in Dim |-> f[m]],
                      weight |-> IF m \in heavy THEN 3 ELSE 2,
                      tips |-> {}, root |-> 1]] :
     f \in MCMemberPredictions, heavy \in {{}, {1, 4}, {3, 6}}}

(* What a node may show: a prediction, its error, and whether the          *)
(* consensus was near one half                                             *)
Seen(p, e, z) == [prediction |-> p, error |-> e, inZone |-> z]

MCObservation ==
  {Seen(0, 1, FALSE), Seen(6, 3, FALSE), Seen(6, 7, TRUE), Seen(0, 7, TRUE)}

MCSkew == {-3, 0, 2, 3}

NoConsensus == proposal = None /\ cluster = None /\ capped = None /\ result = None

NoShards == submitted = None /\ digests = None /\ anchor = None

MCInit ==
  /\ LInit /\ CSInit /\ CVInit /\ RLInit /\ ADInit /\ FPInit /\ RepInit
  /\ AttackInit /\ HistoryInit /\ SkewInit
  /\ focus \in {"ledger", "receipts", "votes", "rate", "dag", "consensus", "fees",
               "reputation", "attacks", "history", "shards", "skew"}
  /\ IF focus = "consensus" THEN ConsInit ELSE NoConsensus
  /\ IF focus = "shards" THEN ShardInit ELSE NoShards

(* Only the component in focus moves. *)
Still(component, vars) == IF focus = component THEN TRUE ELSE UNCHANGED vars

Frame ==
  /\ UNCHANGED focus
  /\ Still("ledger", ledger)
  /\ Still("receipts", csVars)
  /\ Still("votes", cvVars)
  /\ Still("rate", rlVars)
  /\ Still("dag", adVars)
  /\ Still("consensus", consVars)
  /\ Still("fees", fpVars)
  /\ Still("reputation", repVars)
  /\ Still("attacks", attackVars)
  /\ Still("history", historyVars)
  /\ Still("shards", shardVars)
  /\ Still("skew", skewVars)

MCNext ==
  \/ focus = "ledger" /\ LNext /\ Frame
  \/ focus = "receipts" /\ CSNext /\ Frame
  \/ focus = "votes" /\ CVNext /\ Frame
  \/ focus = "rate" /\ RLNext /\ Frame
  \/ focus = "dag" /\ GeneratePrediction /\ Frame
  \/ focus = "consensus" /\ ConsNext /\ Frame
  \/ focus = "fees" /\ FPNext /\ Frame
  \/ focus = "reputation" /\ RepNext /\ Frame
  \/ focus = "attacks" /\ AttackNext /\ Frame
  \/ focus = "history" /\ HistoryNext /\ Frame
  \/ focus = "shards" /\ ShardNext /\ Frame
  \/ focus = "skew" /\ SkewNext /\ Frame

MCSpec == MCInit /\ [][MCNext]_libraryVars

-----------------------------------------------------------------------------
(* The types of ledger, receipts, votes, rate limiter, DAG predictions,    *)
(* fees, reputation and history, all of which are kept by each step; the   *)
(* other four components are computed in one go, or are counters whose     *)
(* other invariant says more.                                              *)
LibraryTypeOK ==
  /\ LTypeOK
  /\ CSTypeOK
  /\ CVTypeOK
  /\ RLTypeOK
  /\ ADTypeOK
  /\ FPTypeOK
  /\ RepTypeOK
  /\ HistoryTypeOK

=============================================================================
