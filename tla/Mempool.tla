------------------------------- MODULE Mempool -------------------------------
(***************************************************************************)
(* The mempool of a node (src/mempool.rs).                                 *)
(*                                                                         *)
(* The struct is the record "mempool"; each method that changes it is an   *)
(* operator from a record to a record, so that the modules that own a      *)
(* mempool (DagLogic, NodeStorage) can compose several calls into the one  *)
(* step that the caller makes of them under its lock.                      *)
(***************************************************************************)
EXTENDS Transactions

CONSTANTS
  MaxSize,       \* capacity given to Mempool::new
  HistoryWindow  \* NONCE_HISTORY_MAX_PER_SENDER

ASSUME MempoolAssumption ==
  /\ MaxSize \in Nat
  /\ HistoryWindow \in Nat \ {0}

VARIABLES
  mempool,   \* the Mempool struct
  admitted   \* history variable: every transaction that add() ever accepted

mpVars == <<mempool, admitted>>

(* The shape of the struct *)
IsMempool(m) ==
  /\ m = [ pending |-> m.pending,    \* hashes of the pending transactions
           arrival |-> m.arrival,    \* their arrival times
           history |-> m.history,    \* nonce_history, oldest first
           last    |-> m.last,       \* last_nonce_per_sender
           index   |-> m.index,      \* sender_nonce_index
           clock   |-> m.clock ]     \* next_timestamp
  /\ m.pending \subseteq Tx
  /\ DOMAIN m.arrival \subseteq Tx
  /\ m.arrival \in [DOMAIN m.arrival -> Nat]
  /\ m.history \in [Account -> Seq(Nat)]
  /\ \A a \in Account : Len(m.history[a]) <= HistoryWindow
  /\ m.last \in [Account -> Nat \cup {NoNonce}]
  /\ DOMAIN m.index \subseteq Account \X Nat
  /\ m.index \in [DOMAIN m.index -> Tx]
  /\ m.clock \in Nat

(* Mempool::new without a file *)
EmptyMempool ==
  [ pending |-> {},
    arrival |-> [t \in {} |-> 0],
    history |-> [a \in Account |-> <<>>],
    last    |-> [a \in Account |-> NoNonce],
    index   |-> [k \in {} |-> 0],
    clock   |-> 0 ]

Key(t) == <<Sender[t], Nonce[t]>>

IsKnownNonce(m, a, n) == \E i \in DOMAIN m.history[a] : m.history[a][i] = n

RememberAll(h, n) == Append(h, n)                                \* mutant

(* Mempool::record_nonce: the window forgets its oldest nonces. *)
Remember(h, n) ==
  LET longer == Append(h, n)
  IN  IF Len(longer) > HistoryWindow THEN Tail(longer) ELSE longer

(* The early returns of Mempool::add *)
Accepts(m, t) ==
  /\ Cardinality(m.pending) < MaxSize
  /\ t \notin m.pending
  /\ Key(t) \notin DOMAIN m.index
  /\ ~IsKnownNonce(m, Sender[t], Nonce[t])
  /\ Nonce[t] > m.last[Sender[t]]

InsertKeepingLast(m, t) ==                                       \* mutant
  [ pending |-> m.pending \cup {t},
    arrival |-> Put(m.arrival, t, m.clock),
    history |-> [m.history EXCEPT ![Sender[t]] = Remember(@, Nonce[t])],
    last    |-> m.last,
    index   |-> Put(m.index, Key(t), t),
    clock   |-> m.clock + 1 ]

(* What Mempool::add does to the struct once it accepts *)
Insert(m, t) ==
  [ pending |-> m.pending \cup {t},
    arrival |-> Put(m.arrival, t, m.clock),
    history |-> [m.history EXCEPT ![Sender[t]] = Remember(@, Nonce[t])],
    last    |-> [m.last EXCEPT ![Sender[t]] = Nonce[t]],
    index   |-> Put(m.index, Key(t), t),
    clock   |-> m.clock + 1 ]

(* Mempool::set_last_nonce *)
SetLastNonce(m, a, n) ==
  IF n > MaxOf(m.last[a], 0)
  THEN [ pending |-> m.pending,
         arrival |-> m.arrival,
         history |-> [m.history EXCEPT ![a] = Remember(@, n)],
         last    |-> [m.last EXCEPT ![a] = n],
         index   |-> m.index,
         clock   |-> m.clock ]
  ELSE m

RemoveBatchLeavingIndex(m, S) ==                                 \* mutant
  [m EXCEPT !.pending = @ \ S, !.arrival = Restrict(@, DOMAIN @ \ S)]

(* Mempool::remove_batch, and Mempool::remove for a singleton. Nonces stay *)
(* burnt: neither the history nor the last nonce is rolled back.           *)
RemoveBatch(m, S) ==
  LET gone == S \cap m.pending
  IN  [ pending |-> m.pending \ gone,
        arrival |-> Restrict(m.arrival, DOMAIN m.arrival \ gone),
        history |-> m.history,
        last    |-> m.last,
        index   |-> Restrict(m.index, DOMAIN m.index \ {Key(t) : t \in gone}),
        clock   |-> m.clock ]

LoadMempoolRestartingClock(m) == [m EXCEPT !.clock = 0]          \* mutant

(* Mempool::load_from_disk: next_timestamp is not in the file, it is put   *)
(* behind the latest arrival.                                              *)
LoadMempool(m) ==
  [m EXCEPT !.clock = IF DOMAIN m.arrival = {} THEN 0
                      ELSE 1 + CHOOSE n \in Range(m.arrival) :
                                 \A k \in Range(m.arrival) : k <= n]

-----------------------------------------------------------------------------
(* The mempool on its own: whoever holds it may call any method. *)

MPInit == mempool = EmptyMempool /\ admitted = {}

MPAdd(t) ==
  /\ Accepts(mempool, t)
  /\ mempool' = Insert(mempool, t)
  /\ admitted' = admitted \cup {t}

MPSetLastNonce(a, n) ==
  /\ mempool' = SetLastNonce(mempool, a, n)
  /\ UNCHANGED admitted

MPRemoveBatch(S) ==
  /\ mempool' = RemoveBatch(mempool, S)
  /\ UNCHANGED admitted

MPNext ==
  \/ \E t \in Tx : MPAdd(t)
  \/ \E t \in Tx : MPSetLastNonce(Sender[t], Nonce[t])
  \/ \E S \in SUBSET Tx : MPRemoveBatch(S)

MPSpec == MPInit /\ [][MPNext]_mpVars

-----------------------------------------------------------------------------
MPTypeOK == IsMempool(mempool) /\ admitted \subseteq Tx

(* The (sender, nonce) index, which add() trusts instead of scanning the   *)
(* pending transactions, holds exactly the keys of the pending ones: a     *)
(* stale entry would reject a sender for ever, a missing one would admit a *)
(* double spend.                                                           *)
IndexExact ==
  /\ DOMAIN mempool.index = {Key(t) : t \in mempool.pending}
  /\ \A t \in mempool.pending : mempool.index[Key(t)] = t

(* Arrival times name exactly the pending transactions and order them: no  *)
(* two share a time and the clock is ahead of all of them, so get_oldest_tx*)
(* and get_all_by_arrival are deterministic.                               *)
ArrivalsOrder ==
  /\ DOMAIN mempool.arrival = mempool.pending
  /\ \A t \in mempool.pending : mempool.arrival[t] < mempool.clock
  /\ \A t, u \in mempool.pending :
        mempool.arrival[t] = mempool.arrival[u] => t = u

(* A nonce of a sender is spent at most once in the life of the mempool,   *)
(* although the bounded history forgets it, and although the transaction   *)
(* that used it may long have been removed.                                *)
NonceSpentOnce ==
  \A t, u \in admitted :
     Sender[t] = Sender[u] /\ Nonce[t] = Nonce[u] => t = u

=============================================================================
