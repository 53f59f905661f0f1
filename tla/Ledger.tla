------------------------------- MODULE Ledger -------------------------------
(***************************************************************************)
(* The ledger of a node (src/ledger.rs): finalized transactions, the       *)
(* reward entries minted for their proposers, the DAG between them and the *)
(* two nonce indexes.  As in Mempool, the struct is a record and a method  *)
(* is an operator on it.                                                   *)
(***************************************************************************)
EXTENDS Transactions

VARIABLE ledger   \* the Ledger struct

(* The shape of the struct *)
IsLedger(l) ==
  /\ l = [ entries     |-> l.entries,      \* the user entries
           rewards     |-> l.rewards,      \* the entries of "__system__"
           edges       |-> l.edges,        \* dag_edges: <<parent, child>>
           hasChildren |-> l.hasChildren,  \* has_children_cache
           nonces      |-> l.nonces,       \* finalized_nonces
           last        |-> l.last,         \* last_finalized_nonce_per_sender
           nextBatch   |-> l.nextBatch ]   \* next_batch_id
  /\ l.entries \subseteq [tx : Tx, batch : Nat]
  /\ l.rewards \subseteq Reward
  /\ l.edges \subseteq Hashes \X Hashes
  /\ l.hasChildren \subseteq Hashes
  /\ l.nonces \subseteq Account \X Nat
  /\ l.last \in [Account -> Nat \cup {NoNonce}]
  /\ l.nextBatch \in Nat

(* Ledger::new without a file *)
EmptyLedger ==
  [ entries |-> {}, rewards |-> {}, edges |-> {}, hasChildren |-> {},
    nonces |-> {}, last |-> [a \in Account |-> NoNonce], nextBatch |-> 0 ]

(* The keys of the map "finalized" *)
FinalizedTxs(l) == {e.tx : e \in l.entries}

Finalized(l) == FinalizedTxs(l) \cup l.rewards

ParentEdges(S) == UNION {Parents[t] \X {t} : t \in S}

(* The reward entries of a batch: one for every transaction in DOMAIN      *)
(* proposer, an entry of the reward map.                                   *)
Minted(l, order, proposer) ==
  {[source |-> t, node |-> proposer[t], batch |-> l.nextBatch] :
     t \in Range(order) \cap DOMAIN proposer}

(* The edges a batch adds: to its transactions from their parents, and to  *)
(* its reward entries from the transactions they reward                    *)
BatchEdges(S, minted) == ParentEdges(S) \cup {<<r.source, r>> : r \in minted}

(* The last nonce of each sender after a batch: the one of its transaction *)
(* that was inserted last, be it the largest or not.                       *)
LastNonces(l, order) ==
  LET mine(a) == {i \in DOMAIN order : Sender[order[i]] = a}
      final(a) == CHOOSE i \in mine(a) : \A j \in mine(a) : j <= i
  IN  [a \in Account |-> IF mine(a) = {} THEN l.last[a]
                         ELSE Nonce[order[final(a)]]]

(* Ledger::add_batch: "order" is the sequence the batch is inserted in. *)
AddBatch(l, order, proposer) ==
  LET added  == Range(order)
      minted == Minted(l, order, proposer)
      edges  == BatchEdges(added, minted)
  IN  [ entries     |-> {e \in l.entries : e.tx \notin added}
                          \cup [tx : added, batch : {l.nextBatch}],
        rewards     |-> l.rewards \cup minted,
        edges       |-> l.edges \cup edges,
        hasChildren |-> l.hasChildren \cup {e[1] : e \in edges},
        nonces      |-> l.nonces \cup {<<Sender[t], Nonce[t]>> : t \in added},
        last        |-> LastNonces(l, order),
        nextBatch   |-> l.nextBatch + 1 ]

(* Ledger::add: one transaction, no reward, in the batch being numbered. *)
AddOne(l, t) ==
  [AddBatch(l, <<t>>, [u \in {} |-> Sender[t]]) EXCEPT !.nextBatch = l.nextBatch]

(* Ledger::get_tips *)
LedgerTips(l) == Finalized(l) \ l.hasChildren

(* Ledger::rebuild_children_cache *)
RebuildChildren(l) == [l EXCEPT !.hasChildren = {e[1] : e \in l.edges}]

SpentNonces(l, a) == {Nonce[t] : t \in {u \in FinalizedTxs(l) : Sender[u] = a}}

RebuildIndexesAnyNonce(l) ==                                     \* mutant
  [l EXCEPT
    !.nonces = {},
    !.last = [a \in Account |-> IF SpentNonces(l, a) \subseteq {0} THEN NoNonce
                                ELSE CHOOSE n \in SpentNonces(l, a) : TRUE]]

(* Ledger::rebuild_indexes: the largest nonce of each sender, except that  *)
(* nonce 0 is not above the default 0 and leaves no entry.                 *)
RebuildIndexes(l) ==
  LET top(a) == CHOOSE n \in SpentNonces(l, a) :
                  \A m \in SpentNonces(l, a) : m <= n
  IN  [l EXCEPT
        !.nonces = {<<Sender[t], Nonce[t]>> : t \in FinalizedTxs(l)},
        !.last = [a \in Account |-> IF SpentNonces(l, a) \subseteq {0}
                                    THEN NoNonce ELSE top(a)]]

(* Ledger::new on a file that save_to_disk wrote: entries, edges and the   *)
(* batch number are read back, caches and indexes are rebuilt.             *)
Reload(l) == RebuildChildren(RebuildIndexes(l))

-----------------------------------------------------------------------------
(* The ledger on its own, in the hands of a caller that adds every         *)
(* transaction once.                                                       *)

LInit == ledger = EmptyLedger

LAdd(t) ==
  /\ t \notin FinalizedTxs(ledger)
  /\ ledger' = AddOne(ledger, t)

LAddBatch ==
  \E S \in SUBSET (Tx \ FinalizedTxs(ledger)) :
    \E order \in SetToSeqs(S), R \in SUBSET S, a \in Account :
      /\ S # {}
      /\ ledger' = AddBatch(ledger, order, [t \in R |-> a])

LReload == ledger' = Reload(ledger)

LNext == (\E t \in Tx : LAdd(t)) \/ LAddBatch \/ LReload

LSpec == LInit /\ [][LNext]_ledger

-----------------------------------------------------------------------------
LTypeOK == IsLedger(ledger)

(* get_tips(), which reads a cache that add, add_batch and the rebuild     *)
(* maintain in different ways, returns exactly the entries that no         *)
(* finalized entry has as a parent.                                        *)
TipsExact ==
  LedgerTips(ledger) =
    {h \in Finalized(ledger) :
       /\ \A t \in FinalizedTxs(ledger) : h \notin Parents[t]
       /\ \A r \in ledger.rewards : h # r.source}

(* The nonces of sender a that has_finalized_nonce or the comparison with  *)
(* last_finalized_nonce make check_double_spend refuse                     *)
Refuses(l, a, n) == <<a, n>> \in l.nonces \/ n <= l.last[a]

(* A restart rebuilds the indexes from the entries by another rule than    *)
(* add_batch maintains them, yet never makes a nonce spendable again.      *)
ReloadKeepsRefusing ==
  \A t \in Tx : Refuses(ledger, Sender[t], Nonce[t])
                  => Refuses(Reload(ledger), Sender[t], Nonce[t])

=============================================================================
