----------------------------- MODULE NodeStorage -----------------------------
(***************************************************************************)
(* The transaction core of a node with its three files: what a process     *)
(* that stops leaves behind, what the next one starts from, and the        *)
(* snapshot of a peer.                                                     *)
(*                                                                         *)
(* Nothing is written while the node runs (no caller of flush_if_dirty     *)
(* exists): the files are saved when DagLogic is dropped, in the order of  *)
(* its fields, and by apply_snapshot.                                      *)
(***************************************************************************)
EXTENDS DagLogic

CONSTANTS
  Stops,      \* how many of the three files may be saved when a process ends
  MaxBatch,   \* bound: no restart of a ledger that numbered more batches
  Snapshots   \* snapshots that peers may send

ASSUME StorageAssumption ==
  /\ Stops \subseteq 0..3
  /\ MaxBatch \in Nat
  /\ \A s \in Snapshots : IsLedger(s.ledger) /\ IsBalances(s.balances)

VARIABLE disk   \* the contents of ledger.json, mempool.json and state.json

storageVars == <<dlVars, disk>>

(* "admitted" is the history variable at the time mempool.json was saved. *)
EmptyDisk ==
  [ ledger |-> EmptyLedger, mempool |-> EmptyMempool,
    balances |-> NoBalances, admitted |-> {} ]

StorageInit == DLInit /\ disk = EmptyDisk

-----------------------------------------------------------------------------
StartWithoutIndexes(d) ==                                        \* mutant
  /\ ledger' = [d.ledger EXCEPT !.nonces = {},
                                !.last = [a \in Account |-> NoNonce]]
  /\ mempool' = [LoadMempool(d.mempool) EXCEPT
                   !.last = [a \in Account |-> NoNonce],
                   !.history = [a \in Account |-> <<>>]]
  /\ balances' = d.balances
  /\ retries' = [t \in Tx |-> 0]
  /\ admitted' = d.admitted

(* DagLogic::new on the files d *)
Start(d) ==
  /\ ledger' = d.ledger
  /\ mempool' = SyncNonces(LoadMempool(d.mempool), d.ledger)
  /\ balances' = d.balances
  /\ retries' = [t \in Tx |-> 0]
  /\ admitted' = d.admitted

(* What the files hold when the drop of DagLogic saved the first k of      *)
(* them: the ledger, then the mempool, then the state.                     *)
SaveFirst(k) ==
  [ ledger   |-> IF k >= 1 THEN Reload(ledger) ELSE disk.ledger,
    mempool  |-> IF k >= 2 THEN mempool ELSE disk.mempool,
    admitted |-> IF k >= 2 THEN admitted ELSE disk.admitted,
    balances |-> IF k >= 3 THEN balances ELSE disk.balances ]

(* The process ends, killed while it runs (k = 0), killed while it saves,  *)
(* or after it saved everything (k = 3), and is started again.             *)
Restart(k) ==
  /\ ledger.nextBatch <= MaxBatch
  /\ disk' = SaveFirst(k)
  /\ Start(disk')
  /\ UNCHANGED <<genesis, applied>>

ApplySnapshotKeepingCache(s) ==                                  \* mutant
  /\ ledger' = [s.ledger EXCEPT !.nonces = ledger.nonces, !.last = ledger.last,
                                !.hasChildren = ledger.hasChildren]
  /\ balances' = s.balances
  /\ disk' = [disk EXCEPT !.ledger = Reload(ledger'), !.balances = balances']
  /\ UNCHANGED <<mpVars, retries, genesis, applied>>

(* SnapshotResponse::build; neither caches nor indexes are sent.           *)
BuildSnapshot(l, b) ==
  [ ledger   |-> [l EXCEPT !.hasChildren = {}, !.nonces = {},
                           !.last = [a \in Account |-> NoNonce]],
    balances |-> b ]

(* DagLogic::apply_snapshot: entries, edges and balances are those of the  *)
(* peer; the nonce indexes and the mempool stay those of the node.         *)
ApplySnapshot(s) ==
  /\ ledger' = RebuildChildren([s.ledger EXCEPT !.nonces = ledger.nonces,
                                                !.last = ledger.last])
  /\ balances' = s.balances
  /\ disk' = [disk EXCEPT !.ledger = Reload(ledger'), !.balances = balances']
  /\ UNCHANGED <<mpVars, retries, genesis, applied>>

StorageNext ==
  \/ DLNext /\ UNCHANGED disk
  \/ \E k \in Stops : Restart(k)
  \/ \E s \in Snapshots : ApplySnapshot(s)

StorageSpec == StorageInit /\ [][StorageNext]_storageVars

-----------------------------------------------------------------------------
StorageTypeOK ==
  /\ DLTypeOK
  /\ IsLedger(disk.ledger)
  /\ IsMempool(disk.mempool)
  /\ IsBalances(disk.balances)
  /\ disk.admitted \subseteq Tx

(* No nonce is spent twice by two transactions, wherever the process was   *)
(* killed while it saved its files: what is final or pending after the     *)
(* restart, taken from files of different times, holds one transaction for *)
(* each sender and nonce, and nothing that conflicts is admitted later.    *)
OneSpendingPerNonce ==
  \A t, u \in FinalizedTxs(ledger) \cup mempool.pending :
    Key(t) = Key(u) => t = u

-----------------------------------------------------------------------------
(* dag_logic.rs: apply_snapshot overwrites the ledger completely; so the   *)
(* ledger would refuse the nonces it holds.                                *)
LedgerRefusesItsNonces ==
  \A t \in FinalizedTxs(ledger) : Refuses(ledger, Sender[t], Nonce[t])

=============================================================================
