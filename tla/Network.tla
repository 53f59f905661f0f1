------------------------------ MODULE Network ------------------------------
(***************************************************************************)
(* Several nodes that gossip transactions (src/main.rs): each has its own  *)
(* mempool and ledger and finalizes what it holds itself, a message may be *)
(* lost, delayed, repeated or overtaken, and any node may stop, or be      *)
(* killed before or while it saves, and start again from its files.        *)
(*                                                                         *)
(* Balances and consensus only restrict what a node admits and finalizes;  *)
(* here it may do so with everything it could ever have the balance for.   *)
(***************************************************************************)
EXTENDS DagLogic

CONSTANTS
  Host,        \* the nodes; each submits the transactions of its own account
  Unreliable,  \* the nodes whose process may be killed
  LastBatch    \* bound: no node is killed when its ledger numbered more batches

ASSUME NetworkAssumption ==
  /\ Host \subseteq Account
  /\ Unreliable \subseteq Host
  /\ LastBatch \in Nat

VARIABLES
  host,   \* [Host -> the mempool and the ledger of the node, and its files]
  wire,   \* the transactions that were ever sent to peers
  killed  \* history variable: the nodes that ever ended without saving all

networkVars == <<host, wire, killed>>

(* DagLogic::new in an empty data directory, on every node *)
NetworkInit ==
  /\ host = [h \in Host |->
       [ mempool |-> EmptyMempool,
         ledger  |-> EmptyLedger,
         files   |-> [mempool |-> EmptyMempool, ledger |-> EmptyLedger] ]]
  /\ wire = {}
  /\ killed = {}

-----------------------------------------------------------------------------
(* The nonce that App gives to the next transaction of node h *)
NonceFor(h) ==
  1 + MaxOf(0, MaxOf(host[h].mempool.last[h], host[h].ledger.last[h]))

HostAdmits(h, t) ==
  /\ Passes(host[h].mempool, host[h].ledger, t)
  /\ host' = [host EXCEPT ![h].mempool = Insert(@, t)]

(* App::submit_transaction_with_fee; the main loop sends the transaction   *)
(* to the peers.                                                           *)
SubmitAt(h, t) ==
  /\ Sender[t] = h
  /\ Nonce[t] = NonceFor(h)
  /\ HostAdmits(h, t)
  /\ wire' = wire \cup {t}
  /\ UNCHANGED killed

(* A transaction arrives, the first time or again, also at the node it     *)
(* came from; who admits it sends it on.                                   *)
Deliver(h, t) ==
  /\ t \in wire
  /\ HostAdmits(h, t)
  /\ UNCHANGED <<wire, killed>>

(* A finalization round of node h: "order" is finalized, D is given up.    *)
SettleAt(h, order, D) ==
  /\ host' = [host EXCEPT ![h] =
       [ mempool |-> RemoveBatch(@.mempool, Range(order) \cup D),
         ledger  |-> IF order = <<>> THEN @.ledger
                     ELSE AddBatch(@.ledger, order, [t \in Range(order) |-> h]),
         files   |-> @.files ]]
  /\ UNCHANGED <<wire, killed>>

-----------------------------------------------------------------------------
(* What the files of node h hold when the first k of them were saved: the  *)
(* ledger, then the mempool.                                               *)
FilesAfter(h, k) ==
  [ ledger  |-> IF k >= 1 THEN Reload(host[h].ledger) ELSE host[h].files.ledger,
    mempool |-> IF k >= 2 THEN host[h].mempool ELSE host[h].files.mempool ]

StartForgettingNonces(files) ==                                  \* mutant
  [ mempool |-> SyncNonces([LoadMempool(files.mempool) EXCEPT
                              !.history = [a \in Account |-> <<>>],
                              !.last = [a \in Account |-> NoNonce]],
                           files.ledger),
    ledger  |-> files.ledger,
    files   |-> files ]

(* DagLogic::new on the files *)
StartFrom(files) ==
  [ mempool |-> SyncNonces(LoadMempool(files.mempool), files.ledger),
    ledger  |-> files.ledger,
    files   |-> files ]

(* The process of node h ends, saves its files and is started again.       *)
RestartOf(h) ==
  /\ host' = [host EXCEPT ![h] = StartFrom(FilesAfter(h, 2))]
  /\ UNCHANGED <<wire, killed>>

(* The process is killed, before it saves or after the first file, and is  *)
(* started again: the node forgets what it did since it last saved, also   *)
(* what it sent.                                                           *)
KilledAt(h, k) ==
  /\ h \in Unreliable
  /\ host[h].ledger.nextBatch <= LastBatch
  /\ host' = [host EXCEPT ![h] = StartFrom(FilesAfter(h, k))]
  /\ killed' = killed \cup {h}
  /\ UNCHANGED wire

NetworkNext ==
  \E h \in Host :
    \/ \E t \in Tx : SubmitAt(h, t)
    \/ \E t \in Tx : Deliver(h, t)
    \/ \E S \in SUBSET host[h].mempool.pending :
         \E order \in SetToSeqs(S), D \in SUBSET (host[h].mempool.pending \ S) :
           SettleAt(h, order, D)
    \/ RestartOf(h)
    \/ \E k \in 0..1 : KilledAt(h, k)

NetworkSpec == NetworkInit /\ [][NetworkNext]_networkVars

-----------------------------------------------------------------------------
(* What a node keeps of a sender: what is pending or final there           *)
Held(h) == host[h].mempool.pending \cup FinalizedTxs(host[h].ledger)

(* Nodes may miss transactions of each other for ever, but they never hold *)
(* different transactions for the same sender and nonce: their ledgers can *)
(* differ in what they lack, not in what they say.  A sender whose process *)
(* was killed may have sent two transactions of one nonce: nodes can then  *)
(* differ about it, but no single node ever holds both, even if it was     *)
(* killed itself and came back with files of different times.              *)
NonceAgreement ==
  \A h, g \in Host : \A t \in Held(h), u \in Held(g) :
    Key(t) = Key(u) /\ (h = g \/ Sender[t] \notin killed) => t = u

=============================================================================
