----------------------------- MODULE TxLifecycle -----------------------------
(***************************************************************************)
(* What the transaction core of a node promises about each transaction,    *)
(* without mempool, ledger, balances or consensus: it is admitted once, in *)
(* the order of its sender's nonces, and settled once, for good.           *)
(***************************************************************************)
EXTENDS Integers

CONSTANTS
  Tx,      \* the transactions
  Sender,  \* [Tx -> accounts]
  Nonce    \* [Tx -> Nat]

VARIABLE status   \* [Tx -> Status]

Status == {"new", "pending", "final", "dropped"}

LCTypeOK == status \in [Tx -> Status]

LCInit == status = [t \in Tx |-> "new"]

Having(s) == {t \in Tx : status[t] = s}

(* Admission, of one transaction or of a verified batch *)
AdmitSet(S) ==
  /\ S \subseteq Having("new")
  /\ \A t, u \in S : Sender[t] = Sender[u] /\ Nonce[t] = Nonce[u] => t = u
  /\ \A t \in S, u \in Tx \ Having("new") :
        Sender[t] = Sender[u] => Nonce[u] < Nonce[t]
  /\ status' = [t \in Tx |-> IF t \in S THEN "pending" ELSE status[t]]

(* A finalization round: "final" enters the ledger, "dropped" leaves the   *)
(* mempool without.                                                        *)
Settle(final, dropped) ==
  /\ final \cap dropped = {}
  /\ final \cup dropped \subseteq Having("pending")
  /\ status' = [t \in Tx |-> IF t \in final THEN "final"
                             ELSE IF t \in dropped THEN "dropped"
                             ELSE status[t]]

LCNext ==
  \/ \E S \in SUBSET Tx : AdmitSet(S)
  \/ \E final, dropped \in SUBSET Tx : Settle(final, dropped)

LCSpec == LCInit /\ [][LCNext]_status

-----------------------------------------------------------------------------
(* No double spend: of the transactions of a sender with the same nonce,   *)
(* at most one is ever admitted.                                           *)
OnePerNonce ==
  \A t, u \in Tx \ Having("new") :
     Sender[t] = Sender[u] /\ Nonce[t] = Nonce[u] => t = u

(* What was settled stays settled. *)
SettledForGood ==
  [][\A t \in Tx : status[t] \in {"final", "dropped"}
                     => status'[t] = status[t]]_status

=============================================================================
