----------------------------- MODULE MCNodeLoop -----------------------------
(***************************************************************************)
(* A small instance of NodeLoop: the node has two transactions of its own, *)
(* in sequence, and hears of a third one, of bob.  The nonce of its second *)
(* one is the greatest there is.                                           *)
(***************************************************************************)
EXTENDS NodeLoop

CONSTANTS self, peer, bob, t1, t2, t3

MCSender   == [t \in Tx |-> IF t = t3 THEN bob ELSE self]
MCReceiver == [t \in Tx |-> IF t = t3 THEN self ELSE bob]
MCAmount   == [t \in Tx |-> 1]
MCFee      == [t \in Tx |-> 0]
MCNonce    == [t \in Tx |-> IF t = t2 THEN 2 ELSE 1]
MCParents  == [t \in Tx |-> {}]

=============================================================================
