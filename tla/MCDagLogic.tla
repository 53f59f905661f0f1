----------------------------- MODULE MCDagLogic -----------------------------
(***************************************************************************)
(* A small instance of DagLogic: alice has two successive transactions she *)
(* cannot both afford and a conflicting third one, bob spends what he may  *)
(* receive from her, and the parents are entries of every kind.  The same  *)
(* transactions travel between the nodes of module Network: one behaviour  *)
(* explores one of the two, the variables of the other stay as they were.  *)
(***************************************************************************)
EXTENDS Network

CONSTANTS alice, bob, t1, t2, t3, t4

Transfer(from, to, amount, fee, nonce) ==
  [from |-> from, to |-> to, amount |-> amount, fee |-> fee, nonce |-> nonce]

Transfers ==
  [t \in Tx |->
     CASE t = t1 -> Transfer(alice, bob, 1, 1, 1)
       [] t = t2 -> Transfer(alice, bob, 2, 0, 2)
       [] t = t3 -> Transfer(alice, alice, 1, 0, 1)
       [] t = t4 -> Transfer(bob, alice, 1, 1, 0)]

MCSender   == [t \in Tx |-> Transfers[t].from]
MCReceiver == [t \in Tx |-> Transfers[t].to]
MCAmount   == [t \in Tx |-> Transfers[t].amount]
MCFee      == [t \in Tx |-> Transfers[t].fee]
MCNonce    == [t \in Tx |-> Transfers[t].nonce]

RewardOf(t, n) == [source |-> t, node |-> n, batch |-> 0]

(* t2 approves the first reward entry for t1, t4 approves t1 itself. *)
MCParents ==
  [t \in Tx |->
     CASE t = t2 -> {RewardOf(t1, alice)}
       [] t = t4 -> {t1}
       [] OTHER  -> {}]

-----------------------------------------------------------------------------
VARIABLE focus   \* what the behaviour explores

mcVars == <<dlVars, networkVars, focus>>

MCInit == DLInit /\ NetworkInit /\ focus \in {"core", "network"}

MCNext ==
  \/ focus = "core" /\ DLNext /\ UNCHANGED <<networkVars, focus>>
  \/ focus = "network" /\ NetworkNext /\ UNCHANGED <<dlVars, focus>>

MCSpec == MCInit /\ [][MCNext]_mcVars

=============================================================================
