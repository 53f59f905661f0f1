--------------------------- MODULE MCNodeStorage ---------------------------
(***************************************************************************)
(* A small instance of NodeStorage: alice has two transactions with the    *)
(* same nonce and a later one; a peer may send the snapshot of a ledger    *)
(* that holds the later one and its reward.                                *)
(*                                                                         *)
(* In a "clean" behaviour every process saves all its files before it ends *)
(* and no snapshot comes; in a "crash" behaviour anything may happen.  A   *)
(* "threads" behaviour is one of module Process, which tells when a process*)
(* saves its files before it ends.                                         *)
(***************************************************************************)
EXTENDS NodeStorage, Process

CONSTANTS alice, bob, t1, t2, t3

VARIABLE mode

MCSender   == [t \in Tx |-> alice]
MCReceiver == [t \in Tx |-> bob]
MCAmount   == [t \in Tx |-> 1]
MCFee      == [t \in Tx |-> IF t = t1 THEN 1 ELSE 0]
MCNonce    == [t \in Tx |-> IF t = t2 THEN 1 ELSE 0]
MCParents  == [t \in Tx |-> IF t = t2 THEN {t1} ELSE {}]

(* What a peer holds after it allocated alice's balance and finalized t2   *)
MCSnapshots ==
  LET finalized == AddBatch(EmptyLedger, <<t2>>, [t \in {t2} |-> bob])
      applied2  == ApplyTx(GenesisAllocate(NoBalances, alice), t2)
  IN  {BuildSnapshot(finalized,
                     PayRewards(applied2, <<t2>>, [t \in {t2} |-> bob]))}

mcVars == <<storageVars, processVars, mode>>

(* Where the threads are not explored, the process counts as ended.        *)
NoThreads ==
  /\ main = "ended" /\ cli = "ended" /\ reader = "ended"
  /\ step = 0 /\ lines = <<>> /\ typed = 0
  /\ exitSignal = TRUE
  /\ memory = 0 /\ files = 0 /\ dirtyStep = 0

MCInit ==
  /\ StorageInit
  /\ \/ mode \in {"clean", "crash"} /\ NoThreads
     \/ mode = "threads" /\ ProcessInit

MCNext ==
  \/ /\ mode \in {"clean", "crash"}
     /\ \/ DLNext /\ UNCHANGED disk
        \/ \E k \in Stops : (mode = "clean" => k = 3) /\ Restart(k)
        \/ \E s \in Snapshots : mode = "crash" /\ ApplySnapshot(s)
     /\ UNCHANGED <<processVars, mode>>
  \/ mode = "threads" /\ ProcessNext /\ UNCHANGED <<storageVars, mode>>

MCSpec ==
  /\ MCInit /\ [][MCNext]_mcVars
  /\ WF_processVars(Main) /\ WF_processVars(Cli)

-----------------------------------------------------------------------------
Clean == INSTANCE TxLifecycle WITH
  status <- [t \in Tx |-> IF mode = "clean" THEN LifecycleOf(t) ELSE "new"]

(* A node that stops cleanly goes on where it was: each restart is a       *)
(* stuttering step of the lifecycle, and although the retry counters, the  *)
(* clock and the rebuilt indexes differ from those the old process had,    *)
(* what is admitted later is still admitted once and in order.             *)
LifecycleAcrossRestarts == Clean!LCSpec

=============================================================================
