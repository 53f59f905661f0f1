------------------------------ MODULE MCLedger ------------------------------
(***************************************************************************)
(* A small instance of Ledger: alice spends three nonces with a gap that   *)
(* may be finalized in any order, bob spends nonce 0; parents are          *)
(* transactions, a reward entry, and a transaction that comes later.       *)
(***************************************************************************)
EXTENDS Ledger

CONSTANTS alice, bob, t1, t2, t3, t4

MCSender   == [t \in Tx |-> IF t = t4 THEN bob ELSE alice]
MCReceiver == [t \in Tx |-> bob]
MCAmount   == [t \in Tx |-> IF t = t4 THEN 1 ELSE 0]
MCNonce    == [t \in Tx |-> CASE t = t1 -> 1
                              [] t = t2 -> 3
                              [] t = t3 -> 2
                              [] t = t4 -> 0]
MCParents  == [t \in Tx |-> CASE t = t2 -> {t1, t3}
                              [] t = t3 -> {[source |-> t1, node |-> bob, batch |-> 0]}
                              [] OTHER  -> {}]

=============================================================================
