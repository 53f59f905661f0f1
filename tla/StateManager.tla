---------------------------- MODULE StateManager ----------------------------
(***************************************************************************)
(* Account balances of a node (src/state.rs).  The struct's map is a       *)
(* function "b" whose domain is the set of accounts that have an entry; as *)
(* state_root hashes the entries, an entry of 0 is not the same as none.   *)
(***************************************************************************)
EXTENDS Transactions

CONSTANT GenesisBalance   \* GENESIS_BALANCE_MILLI

ASSUME StateAssumption == GenesisBalance \in 0..MaxU64

(* The shape of the map *)
IsBalances(b) == DOMAIN b \subseteq Account /\ b \in [DOMAIN b -> 0..MaxU64]

NoBalances == [a \in {} |-> 0]

GetBalance(b, a) == IF a \in DOMAIN b THEN b[a] ELSE 0

HasBalance(b, a, cost) == GetBalance(b, a) >= cost

(* StateManager::mint and apply_reward are the same assignment. *)
Credit(b, a, amount) == Put(b, a, SatAdd(GetBalance(b, a), amount))

(* StateManager::genesis_allocate replaces whatever the account held. *)
GenesisAllocate(b, a) == Put(b, a, GenesisBalance)

CanAlwaysApply(b, t) == TRUE                                     \* mutant

(* The condition under which StateManager::apply_tx returns true *)
CanApply(b, t) == HasBalance(b, Sender[t], TotalCost(t))

ApplyTxWithoutFee(b, t) ==                                       \* mutant
  IF CanApply(b, t)
  THEN Credit(Put(b, Sender[t], GetBalance(b, Sender[t]) - Amount[t]),
              Receiver[t], Amount[t])
  ELSE b

(* StateManager::apply_tx: debit amount + fee, credit amount; a sender     *)
(* without the balance leaves the map as it is.                            *)
ApplyTx(b, t) ==
  IF CanApply(b, t)
  THEN Credit(Put(b, Sender[t], GetBalance(b, Sender[t]) - TotalCost(t)),
              Receiver[t], Amount[t])
  ELSE b

(* The money in circulation *)
Supply(b) == SumFunction(b)

=============================================================================
