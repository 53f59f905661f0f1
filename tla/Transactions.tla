---------------------------- MODULE Transactions ----------------------------
(***************************************************************************)
(* The vocabulary shared by the modules of a node: transactions, accounts  *)
(* and the arithmetic of amounts.                                          *)
(*                                                                         *)
(* A transaction is identified by its hash, so it is an element of Tx, and *)
(* the fields of the struct (src/transaction.rs) are functions on Tx.      *)
(***************************************************************************)
EXTENDS Integers, FiniteSets, Sequences, SequencesExt, Functions

CONSTANTS
  Tx,        \* the transactions (their hashes) that a behaviour may contain
  Account,   \* addresses; node identifiers are addresses too
  Sender,    \* [Tx -> Account]
  Receiver,  \* [Tx -> Account]
  Amount,    \* [Tx -> 0..MaxU64]
  Fee,       \* [Tx -> 0..MaxU64]
  Nonce,     \* [Tx -> Nat]
  Parents,   \* [Tx -> SUBSET Hashes], the entries a transaction approves
  Signed,    \* the transactions whose signature verifies
  MaxU64     \* the largest value of a u64 balance

(* A reward entry of the ledger.  Its hash covers the transaction that is  *)
(* rewarded, the node and the time of minting, for which the number of the *)
(* batch stands.                                                           *)
Reward == [source : Tx, node : Account, batch : Nat]

Hashes == Tx \cup Reward

(* A hash is 32 bytes long: there are finitely many of them. *)
ASSUME TxAssumption ==
  /\ IsFiniteSet(Tx)
  /\ Sender \in [Tx -> Account]
  /\ Receiver \in [Tx -> Account]
  /\ Amount \in [Tx -> 0..MaxU64]
  /\ Fee \in [Tx -> 0..MaxU64]
  /\ Nonce \in [Tx -> Nat]
  /\ DOMAIN Parents = Tx
  /\ \A t \in Tx : Parents[t] \subseteq Hashes
  /\ Signed \subseteq Tx
  /\ MaxU64 \in Nat

(* Option<u64>::None of a "last nonce" table. Option orders None below     *)
(* every Some(n), as -1 is below every nonce.                              *)
NoNonce == -1

MaxOf(m, n) == IF m > n THEN m ELSE n

MinOf(m, n) == IF m > n THEN n ELSE m

(* u64::saturating_add *)
SatAdd(m, n) == MinOf(m + n, MaxU64)

(* Transaction::total_cost *)
TotalCost(t) == SatAdd(Amount[t], Fee[t])

(* HashMap::insert: the entry is added, or replaces the one of that key. *)
Put(f, k, v) == [x \in DOMAIN f \cup {k} |-> IF x = k THEN v ELSE f[x]]

=============================================================================
