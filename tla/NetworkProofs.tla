--------------------------- MODULE NetworkProofs ---------------------------
(***************************************************************************)
(* Proofs about several nodes: for any number of nodes and transactions,   *)
(* whatever is lost, delayed or repeated, whoever restarts and wherever a  *)
(* process is killed while it saves, no two nodes hold different           *)
(* transactions for one nonce of a sender that always ended cleanly, and   *)
(* no single node does for any sender.                                     *)
(***************************************************************************)
EXTENDS Network, DagLogicProofs

NodeOf(m, l, f) == [mempool |-> m, ledger |-> l, files |-> f]

(* What is final or pending at node n, or in the mempool that it finds     *)
(* again when it is killed                                                 *)
Kept(n) ==
  n.mempool.pending \cup FinalizedTxs(n.ledger) \cup n.files.mempool.pending

(* Why node n admits no rival of t: its mempool has seen the nonce, or its *)
(* ledger has burnt it.                                                    *)
Recalled(n, t) ==
  \/ Nonce[t] <= n.mempool.last[Sender[t]]
  \/ Key(t) \in n.ledger.nonces

(* One node: after a crash mempool and ledger are of different times, so   *)
(* neither of them knows all that the node keeps, but together they do.    *)
NodeInv(n) ==
  /\ n = NodeOf(n.mempool, n.ledger, n.files)
  /\ MempoolInv(n.mempool, n.mempool.pending)
  /\ IsLedger(n.ledger)
  /\ MempoolInv(n.files.mempool, n.files.mempool.pending)
  /\ IsLedger(n.files.ledger)
  /\ FinalizedTxs(n.files.ledger) \subseteq FinalizedTxs(n.ledger)
  /\ \A t \in FinalizedTxs(n.files.ledger) : Key(t) \in n.files.ledger.nonces
  /\ \A t \in Kept(n) : Recalled(n, t)
  /\ \A t, u \in Kept(n) : Key(t) = Key(u) => t = u

(* What was sent came from its sender, which remembers it unless it was    *)
(* killed.                                                                 *)
WireInv ==
  /\ wire \subseteq Tx
  /\ \A t \in wire :
       /\ Sender[t] \in Host
       /\ Sender[t] \notin killed
            => Nonce[t] <= host[Sender[t]].mempool.last[Sender[t]]
  /\ \A t, u \in wire : Key(t) = Key(u) /\ Sender[t] \notin killed => t = u

NetworkInv ==
  /\ host = [h \in Host |-> host[h]]
  /\ \A h \in Host : NodeInv(host[h]) /\ Kept(host[h]) \subseteq wire
  /\ WireInv

-----------------------------------------------------------------------------
(* One node *)

LEMMA NodeFields ==
  ASSUME NEW m, NEW l, NEW f
  PROVE  /\ NodeOf(m, l, f).mempool = m
         /\ NodeOf(m, l, f).ledger = l
         /\ NodeOf(m, l, f).files = f
         /\ Kept(NodeOf(m, l, f))
              = m.pending \cup FinalizedTxs(l) \cup f.mempool.pending
  BY DEF NodeOf, Kept

LEMMA NodeUpdate ==
  ASSUME NEW m, NEW l, NEW f, NEW x
  PROVE  [NodeOf(m, l, f) EXCEPT !.mempool = x] = NodeOf(x, l, f)
  BY DEF NodeOf

(* What a node admits has no rival among what it keeps. *)
LEMMA AdmissionKeepsNode ==
  ASSUME NEW n, NodeInv(n), NEW t \in Tx, Passes(n.mempool, n.ledger, t)
  PROVE  LET m == Insert(n.mempool, t)
             new == NodeOf(m, n.ledger, n.files)
         IN  /\ NodeInv(new)
             /\ Kept(new) = Kept(n) \cup {t}
             /\ \A a \in Account : m.last[a] >= n.mempool.last[a]
             /\ Nonce[t] > n.mempool.last[Sender[t]]
             /\ Nonce[t] <= m.last[Sender[t]]
<1> DEFINE old == n.mempool
           m == Insert(old, t)
           new == NodeOf(m, n.ledger, n.files)
<1>1. Accepts(old, t) /\ Key(t) \notin n.ledger.nonces
  BY DEF Passes, CheckDoubleSpend, Key
<1>2. MempoolInv(m, m.pending)
  <2>1. MempoolInv(m, old.pending \cup {t})
    BY <1>1, InsertKeepsInv DEF NodeInv
  <2> QED BY <2>1, MempoolInvOfPending
<1>3. /\ m.pending = old.pending \cup {t}
      /\ m.last = [old.last EXCEPT ![Sender[t]] = Nonce[t]]
  BY DEF Insert
<1>4. Nonce[t] > old.last[Sender[t]]
  BY <1>1 DEF Accepts
<1>5. /\ old.last \in [Account -> Nat \cup {NoNonce}]
      /\ Sender[t] \in Account /\ Nonce[t] \in Nat
  BY KeyType DEF NodeInv, MempoolInv, IsMempool
<1>6. Kept(n) \subseteq Tx
  BY DEF NodeInv, Kept, MempoolInv, IsLedger, FinalizedTxs
<1> HIDE DEF m
<1>7. \A a \in Account : m.last[a] >= old.last[a]
  BY <1>3, <1>4, <1>5 DEF NoNonce
<1>8. Nonce[t] <= m.last[Sender[t]]
  BY <1>3, <1>5
<1>9. Kept(new) = Kept(n) \cup {t}
  BY <1>3, NodeFields DEF Kept
<1>10. ASSUME NEW u \in Kept(n) PROVE Recalled(new, u)
  <2>1. CASE Nonce[u] <= old.last[Sender[u]]
    <3>1. /\ Sender[u] \in Account /\ Nonce[u] \in Nat
          /\ m.last[Sender[u]] \in Nat \cup {NoNonce}
      BY <1>2, <1>6, KeyType DEF MempoolInv, IsMempool
    <3>2. Nonce[u] <= m.last[Sender[u]]
      BY <1>5, <1>7, <2>1, <3>1 DEF NoNonce
    <3> QED BY <3>2, NodeFields DEF Recalled
  <2>2. CASE Key(u) \in n.ledger.nonces
    BY <2>2, NodeFields DEF Recalled
  <2> QED BY <2>1, <2>2 DEF NodeInv, Recalled
<1>11. ASSUME NEW u \in Kept(n), Key(u) = Key(t) PROVE FALSE
  <2>1. Recalled(n, u)
    BY DEF NodeInv
  <2>2. Key(u) \notin n.ledger.nonces
    BY <1>1, <1>11
  <2>3. Sender[u] = Sender[t] /\ Nonce[u] = Nonce[t]
    BY <1>11, KeyEquality
  <2>4. Nonce[t] <= old.last[Sender[t]]
    BY <2>1, <2>2, <2>3 DEF Recalled
  <2> QED BY <1>4, <1>5, <2>4 DEF NoNonce
<1>12. NodeInv(new)
  <2>1. \A u \in Kept(new) : Recalled(new, u)
    BY <1>8, <1>9, <1>10, NodeFields DEF Recalled
  <2>2. \A u, v \in Kept(new) : Key(u) = Key(v) => u = v
    <3>1. \A u, v \in Kept(n) : Key(u) = Key(v) => u = v
      BY DEF NodeInv
    <3> QED BY <1>9, <1>11, <3>1
  <2> HIDE DEF new
  <2>3. /\ new.mempool = m /\ new.ledger = n.ledger /\ new.files = n.files
    BY NodeFields DEF new
  <2>4. new = NodeOf(new.mempool, new.ledger, new.files)
    BY <2>3 DEF new
  <2> QED BY <1>2, <2>1, <2>2, <2>3, <2>4 DEF NodeInv
<1> QED BY <1>4, <1>7, <1>8, <1>9, <1>12 DEF m

(* A round moves transactions from the mempool to the ledger, or drops     *)
(* them; the last nonces stay.                                             *)
LEMMA RoundKeepsNode ==
  ASSUME NEW n, NodeInv(n), NEW new,
         new = NodeOf(new.mempool, new.ledger, n.files),
         MempoolInv(new.mempool, new.mempool.pending),
         new.mempool.pending \subseteq n.mempool.pending,
         new.mempool.last = n.mempool.last,
         IsLedger(new.ledger),
         FinalizedTxs(n.ledger) \subseteq FinalizedTxs(new.ledger),
         FinalizedTxs(new.ledger) \subseteq FinalizedTxs(n.ledger) \cup n.mempool.pending,
         n.ledger.nonces \subseteq new.ledger.nonces
  PROVE  NodeInv(new) /\ Kept(new) \subseteq Kept(n)
<1>1. new.files = n.files
  BY NodeFields
<1>2. Kept(new) \subseteq Kept(n)
  BY <1>1 DEF Kept
<1>3. \A t \in Kept(new) : Recalled(new, t)
  BY <1>2 DEF NodeInv, Recalled
<1>4. \A t, u \in Kept(new) : Key(t) = Key(u) => t = u
  BY <1>2 DEF NodeInv
<1>5. NodeInv(new)
  BY <1>1, <1>3, <1>4 DEF NodeInv
<1> QED BY <1>2, <1>5

(* A node that comes back keeps no more than it kept, and knows all of it: *)
(* the ledger by its nonces, the mempool by the last one.                  *)
LEMMA StartKeepsNode ==
  ASSUME NEW n, NodeInv(n), NEW f,
         \/ f.ledger = Reload(n.ledger)
         \/ f.ledger = n.files.ledger,
         f.mempool \in {n.mempool, n.files.mempool}
  PROVE  /\ NodeInv(StartFrom(f))
         /\ Kept(StartFrom(f)) \subseteq Kept(n)
         /\ \A a \in Account :
              StartFrom(f).mempool.last[a] >= f.mempool.last[a]
<1> DEFINE l == f.ledger
           loaded == LoadMempool(f.mempool)
           m == SyncNonces(loaded, l)
           new == StartFrom(f)
<1>1. new = NodeOf(m, l, f)
  BY DEF StartFrom, NodeOf
<1>2. /\ IsLedger(l)
      /\ FinalizedTxs(l) \subseteq FinalizedTxs(n.ledger)
      /\ \A t \in FinalizedTxs(l) : Key(t) \in l.nonces
  <2>1. CASE l = Reload(n.ledger)
    <3>1. /\ IsLedger(Reload(n.ledger))
          /\ FinalizedTxs(Reload(n.ledger)) = FinalizedTxs(n.ledger)
          /\ Reload(n.ledger).nonces = {Key(t) : t \in FinalizedTxs(n.ledger)}
      BY ReloadFacts DEF NodeInv, Key
    <3> QED BY <2>1, <3>1
  <2>2. CASE l = n.files.ledger
    BY <2>2 DEF NodeInv
  <2> QED BY <2>1, <2>2
<1>3. /\ MempoolInv(f.mempool, f.mempool.pending)
      /\ f.mempool.pending \subseteq Kept(n)
  BY DEF NodeInv, Kept
<1>4. /\ MempoolInv(loaded, f.mempool.pending)
      /\ loaded.pending = f.mempool.pending
      /\ loaded.last = f.mempool.last
  BY <1>3, LoadKeepsInv
<1>5. l.last \in [Account -> Nat \cup {NoNonce}]
  BY <1>2 DEF IsLedger
<1> HIDE DEF loaded, l
<1>6. /\ MempoolInv(m, f.mempool.pending)
      /\ m.pending = f.mempool.pending
      /\ \A a \in Account : m.last[a] >= f.mempool.last[a]
  BY <1>4, <1>5, SyncKeepsInv
<1> HIDE DEF m, new
<1>7. new.mempool = m /\ new.ledger = l /\ new.files = f
  BY <1>1, NodeFields
<1>8. Kept(new) = f.mempool.pending \cup FinalizedTxs(l)
  BY <1>6, <1>7 DEF Kept
<1>9. Kept(new) \subseteq Kept(n)
  BY <1>2, <1>3, <1>8 DEF Kept
<1>10. \A t \in Kept(new) : Recalled(new, t)
  BY <1>2, <1>6, <1>7, <1>8 DEF Recalled, MempoolInv
<1>11. \A t, u \in Kept(new) : Key(t) = Key(u) => t = u
  BY <1>9 DEF NodeInv
<1>12. NodeInv(new)
  <2>1. MempoolInv(m, m.pending)
    BY <1>6
  <2> QED BY <1>1, <1>2, <1>3, <1>7, <1>10, <1>11, <2>1 DEF NodeInv, l
<1> QED BY <1>6, <1>7, <1>9, <1>12 DEF new

-----------------------------------------------------------------------------
(* One step of the network *)

(* Node h keeps nothing new, or what was sent, or what it sends now with a *)
(* nonce above its last; no last nonce falls unless the node is killed.    *)
LEMMA HostStep ==
  ASSUME NetworkInv, NEW h \in Host, NEW n,
         host' = [host EXCEPT ![h] = n],
         NodeInv(n), Kept(n) \subseteq wire',
         \/ killed' = killed \cup {h}
         \/ /\ killed' = killed
            /\ \A a \in Account : n.mempool.last[a] >= host[h].mempool.last[a],
         \/ wire' = wire
         \/ \E t \in Tx : /\ wire' = wire \cup {t}
                          /\ Sender[t] = h
                          /\ Nonce[t] > host[h].mempool.last[h]
                          /\ Nonce[t] <= n.mempool.last[h]
  PROVE  NetworkInv'
<1>1. /\ host = [g \in Host |-> host[g]]
      /\ \A g \in Host : NodeInv(host[g]) /\ Kept(host[g]) \subseteq wire
      /\ WireInv
  BY DEF NetworkInv
<1>2. /\ host' = [g \in Host |-> host'[g]]
      /\ host'[h] = n
      /\ \A g \in Host : g # h => host'[g] = host[g]
  BY <1>1
<1>3. \A g \in Host : NodeInv(host'[g]) /\ Kept(host'[g]) \subseteq wire'
  BY <1>1, <1>2
<1>4. ASSUME NEW g \in Host
      PROVE  /\ g \in Account
             /\ host[g].mempool.last[g] \in Nat \cup {NoNonce}
             /\ host'[g].mempool.last[g] \in Nat \cup {NoNonce}
  <2>1. g \in Account
    BY NetworkAssumption
  <2>2. ASSUME NEW n1, NodeInv(n1)
        PROVE  n1.mempool.last \in [Account -> Nat \cup {NoNonce}]
    BY <2>2 DEF NodeInv, MempoolInv, IsMempool
  <2> QED BY <1>1, <1>3, <2>1, <2>2
<1>5. ASSUME NEW g \in Host, g \notin killed'
      PROVE  /\ g \notin killed
             /\ host'[g].mempool.last[g] >= host[g].mempool.last[g]
  <2>1. CASE g = h
    BY <1>2, <1>4, <1>5, <2>1
  <2>2. CASE g # h
    BY <1>2, <1>4, <1>5, <2>2 DEF NoNonce
  <2> QED BY <2>1, <2>2
<1>6. ASSUME NEW t \in wire
      PROVE  /\ Sender[t] \in Host
             /\ Nonce[t] \in Nat
             /\ Sender[t] \notin killed'
                  => /\ Sender[t] \notin killed
                     /\ Nonce[t] <= host[Sender[t]].mempool.last[Sender[t]]
                     /\ Nonce[t] <= host'[Sender[t]].mempool.last[Sender[t]]
  <2>1. /\ Sender[t] \in Host
        /\ Nonce[t] \in Nat
        /\ Sender[t] \notin killed
             => Nonce[t] <= host[Sender[t]].mempool.last[Sender[t]]
    BY <1>1, KeyType DEF WireInv
  <2> QED BY <1>4, <1>5, <2>1 DEF NoNonce
<1>7. CASE wire' = wire
  <2>1. WireInv'
    <3>1. \A t \in wire' : /\ Sender[t] \in Host
                           /\ Sender[t] \notin killed'
               => Nonce[t] <= host'[Sender[t]].mempool.last[Sender[t]]
      BY <1>6, <1>7
    <3>2. \A t, u \in wire' : Key(t) = Key(u) /\ Sender[t] \notin killed' => t = u
      BY <1>1, <1>6, <1>7 DEF WireInv
    <3> QED BY <1>1, <1>7, <3>1, <3>2 DEF WireInv, Key
  <2> QED BY <1>2, <1>3, <2>1 DEF NetworkInv, NodeInv, NodeOf, Recalled, Kept
<1>8. ASSUME NEW t \in Tx,
             wire' = wire \cup {t},
             Sender[t] = h,
             Nonce[t] > host[h].mempool.last[h],
             Nonce[t] <= n.mempool.last[h]
      PROVE  NetworkInv'
  <2>1. Nonce[t] <= host'[Sender[t]].mempool.last[Sender[t]]
    BY <1>2, <1>8
  <2>2. ASSUME NEW u \in wire, Key(u) = Key(t), h \notin killed'
        PROVE  FALSE
    <3>1. Sender[u] = h /\ Nonce[u] = Nonce[t]
      BY <1>8, <2>2, KeyEquality
    <3>2. Nonce[u] <= host[h].mempool.last[h]
      BY <1>6, <2>2, <3>1
    <3> QED BY <1>4, <1>6, <1>8, <3>1, <3>2 DEF NoNonce
  <2>3. \A u, v \in wire' : Key(u) = Key(v) /\ Sender[u] \notin killed' => u = v
    <3>1. \A u, v \in wire : Key(u) = Key(v) /\ Sender[u] \notin killed' => u = v
      BY <1>1, <1>6 DEF WireInv
    <3>2. \A u \in wire : Key(u) = Key(t) => Sender[u] = h
      BY <1>8, KeyEquality
    <3> QED BY <1>8, <2>2, <3>1, <3>2
  <2>4. WireInv'
    <3>1. \A u \in wire' : /\ Sender[u] \in Host
                           /\ Sender[u] \notin killed'
               => Nonce[u] <= host'[Sender[u]].mempool.last[Sender[u]]
      BY <1>6, <1>8, <2>1
    <3> QED BY <1>1, <1>8, <2>3, <3>1 DEF WireInv, Key
  <2> QED BY <1>2, <1>3, <2>4 DEF NetworkInv, NodeInv, NodeOf, Recalled, Kept
<1> QED BY <1>7, <1>8

(* What a node admits is above everything it remembers of the sender. *)
LEMMA AdmissionFacts ==
  ASSUME NetworkInv, NEW h \in Host, NEW t \in Tx, HostAdmits(h, t)
  PROVE  \E n : /\ host' = [host EXCEPT ![h] = n]
                /\ NodeInv(n)
                /\ Kept(n) = Kept(host[h]) \cup {t}
                /\ \A a \in Account :
                     n.mempool.last[a] >= host[h].mempool.last[a]
                /\ Nonce[t] > host[h].mempool.last[Sender[t]]
                /\ Nonce[t] <= n.mempool.last[Sender[t]]
<1> DEFINE old == host[h]
           m == Insert(old.mempool, t)
           n == NodeOf(m, old.ledger, old.files)
<1>1. NodeInv(old) /\ Passes(old.mempool, old.ledger, t)
  BY DEF NetworkInv, HostAdmits
<1>2. /\ NodeInv(n)
      /\ Kept(n) = Kept(old) \cup {t}
      /\ \A a \in Account : m.last[a] >= old.mempool.last[a]
      /\ Nonce[t] > old.mempool.last[Sender[t]]
      /\ Nonce[t] <= m.last[Sender[t]]
  BY <1>1, AdmissionKeepsNode
<1>3. host' = [host EXCEPT ![h] = n]
  <2>1. host' = [host EXCEPT ![h] = [@ EXCEPT !.mempool = m]]
    BY DEF HostAdmits
  <2>2. old = NodeOf(old.mempool, old.ledger, old.files)
    BY <1>1 DEF NodeInv
  <2>3. [old EXCEPT !.mempool = m] = n
    <3> HIDE DEF m, old
    <3> QED BY <2>2, NodeUpdate
  <2> QED BY <2>1, <2>3
<1>4. n.mempool = m
  BY NodeFields
<1> HIDE DEF n, m, old
<1>5. \E x : /\ host' = [host EXCEPT ![h] = x]
             /\ NodeInv(x)
             /\ Kept(x) = Kept(old) \cup {t}
             /\ \A a \in Account : x.mempool.last[a] >= old.mempool.last[a]
             /\ Nonce[t] > old.mempool.last[Sender[t]]
             /\ Nonce[t] <= x.mempool.last[Sender[t]]
  BY <1>2, <1>3, <1>4
<1> QED BY <1>5 DEF old

(* A submission is above every nonce of the sender, on whatever node. *)
LEMMA SubmitKeepsInv ==
  ASSUME NetworkInv, NEW h \in Host, NEW t \in Tx, SubmitAt(h, t)
  PROVE  NetworkInv'
<1>1. Sender[t] = h /\ HostAdmits(h, t) /\ wire' = wire \cup {t} /\ killed' = killed
  BY DEF SubmitAt
<1>2. Kept(host[h]) \subseteq wire
  BY DEF NetworkInv
<1>3. PICK n : /\ host' = [host EXCEPT ![h] = n]
               /\ NodeInv(n)
               /\ Kept(n) = Kept(host[h]) \cup {t}
               /\ \A a \in Account :
                    n.mempool.last[a] >= host[h].mempool.last[a]
               /\ Nonce[t] > host[h].mempool.last[Sender[t]]
               /\ Nonce[t] <= n.mempool.last[Sender[t]]
  BY <1>1, AdmissionFacts
<1>4. /\ Kept(n) \subseteq wire'
      /\ Nonce[t] > host[h].mempool.last[h] /\ Nonce[t] <= n.mempool.last[h]
  BY <1>1, <1>2, <1>3
<1> QED BY <1>1, <1>3, <1>4, HostStep

(* A delivery adds what was sent, be it late or repeated. *)
LEMMA DeliverKeepsInv ==
  ASSUME NetworkInv, NEW h \in Host, NEW t \in Tx, Deliver(h, t)
  PROVE  NetworkInv'
<1>1. t \in wire /\ HostAdmits(h, t) /\ wire' = wire /\ killed' = killed
  BY DEF Deliver
<1>2. Kept(host[h]) \subseteq wire
  BY DEF NetworkInv
<1>3. PICK n : /\ host' = [host EXCEPT ![h] = n]
               /\ NodeInv(n)
               /\ Kept(n) = Kept(host[h]) \cup {t}
               /\ \A a \in Account :
                    n.mempool.last[a] >= host[h].mempool.last[a]
  BY <1>1, AdmissionFacts
<1>4. Kept(n) \subseteq wire'
  BY <1>1, <1>2, <1>3
<1> QED BY <1>1, <1>3, <1>4, HostStep

LEMMA SettleKeepsInv ==
  ASSUME NetworkInv, NEW h \in Host,
         NEW S \in SUBSET host[h].mempool.pending, NEW D,
         NEW order \in SetToSeqs(S), SettleAt(h, order, D)
  PROVE  NetworkInv'
<1>1. PICK old, m, led :
        /\ old = host[h]
        /\ m = RemoveBatch(old.mempool, Range(order) \cup D)
        /\ led = IF order = <<>> THEN old.ledger
                 ELSE AddBatch(old.ledger, order, [t \in Range(order) |-> h])
  OBVIOUS
<1>2. PICK n : n = NodeOf(m, led, old.files)
  OBVIOUS
<1>3. /\ NodeInv(old) /\ Kept(old) \subseteq wire
      /\ wire' = wire /\ killed' = killed
      /\ S \in SUBSET old.mempool.pending
  BY <1>1 DEF NetworkInv, SettleAt
<1>4. IsLedger(old.ledger) /\ S \in SUBSET Tx
  BY <1>3 DEF NodeInv, MempoolInv, IsMempool
<1>5. order \in Seq(Tx) /\ Range(order) \subseteq S
  BY <1>4, SequenceOf
<1>6. /\ IsLedger(led)
      /\ FinalizedTxs(old.ledger) \subseteq FinalizedTxs(led)
      /\ FinalizedTxs(led) \subseteq FinalizedTxs(old.ledger) \cup old.mempool.pending
      /\ old.ledger.nonces \subseteq led.nonces
  <2>1. CASE order = <<>>
    BY <1>1, <1>4, <2>1
  <2>2. CASE order # <<>>
    <3> DEFINE proposer == [t \in Range(order) |-> h]
    <3>1. proposer \in [Range(order) -> Account]
      BY NetworkAssumption
    <3>2. led = AddBatch(old.ledger, order, proposer)
      BY <1>1, <2>2
    <3> HIDE DEF proposer
    <3>3. /\ IsLedger(AddBatch(old.ledger, order, proposer))
          /\ FinalizedTxs(AddBatch(old.ledger, order, proposer))
               = FinalizedTxs(old.ledger) \cup Range(order)
          /\ old.ledger.nonces \subseteq AddBatch(old.ledger, order, proposer).nonces
      BY <1>4, <1>5, <3>1, AddBatchFacts, AddBatchNonces
    <3> QED BY <1>3, <1>5, <3>2, <3>3
  <2> QED BY <2>1, <2>2
<1>7. host' = [host EXCEPT ![h] = n]
  BY <1>1, <1>2 DEF SettleAt, NodeOf
<1>8. /\ MempoolInv(m, m.pending)
      /\ m.pending \subseteq old.mempool.pending
      /\ m.last = old.mempool.last
  <2>1. MempoolInv(RemoveBatch(old.mempool, Range(order) \cup D), old.mempool.pending)
    BY <1>3, RemoveBatchKeepsInv DEF NodeInv
  <2> QED BY <1>1, <2>1, MempoolInvOfPending DEF RemoveBatch
<1>9. /\ n.mempool = m
      /\ NodeInv(n) /\ Kept(n) \subseteq Kept(old)
  <2>1. n.mempool = m /\ n.ledger = led
    BY <1>2, NodeFields
  <2> QED BY <1>2, <1>3, <1>6, <1>8, <2>1, RoundKeepsNode
<1>10. \A a \in Account : n.mempool.last[a] >= host[h].mempool.last[a]
  <2>1. old.mempool.last \in [Account -> Nat \cup {NoNonce}]
    BY <1>3 DEF NodeInv, MempoolInv, IsMempool
  <2> QED BY <1>1, <1>8, <1>9, <2>1 DEF NoNonce
<1>11. Kept(n) \subseteq wire'
  BY <1>3, <1>9
<1> QED BY <1>3, <1>7, <1>9, <1>10, <1>11, HostStep

(* A clean restart raises last nonces at most.                             *)
LEMMA RestartKeepsInv ==
  ASSUME NetworkInv, NEW h \in Host, RestartOf(h)
  PROVE  NetworkInv'
<1> DEFINE f == FilesAfter(h, 2)
           n == StartFrom(f)
<1>1. /\ NodeInv(host[h]) /\ Kept(host[h]) \subseteq wire
      /\ wire' = wire /\ killed' = killed
      /\ host' = [host EXCEPT ![h] = n]
  BY DEF NetworkInv, RestartOf
<1>2. f.ledger = Reload(host[h].ledger) /\ f.mempool = host[h].mempool
  BY DEF FilesAfter
<1> HIDE DEF f
<1>3. /\ NodeInv(n)
      /\ Kept(n) \subseteq Kept(host[h])
      /\ \A a \in Account : n.mempool.last[a] >= host[h].mempool.last[a]
  BY <1>1, <1>2, StartKeepsNode
<1> HIDE DEF n
<1> QED BY <1>1, <1>3, HostStep

(* A killed node forgets what it sent; it counts as killed from then on.   *)
LEMMA KillKeepsInv ==
  ASSUME NetworkInv, NEW h \in Host, NEW k \in 0..1, KilledAt(h, k)
  PROVE  NetworkInv'
<1> DEFINE f == FilesAfter(h, k)
           n == StartFrom(f)
<1>1. /\ NodeInv(host[h]) /\ Kept(host[h]) \subseteq wire
      /\ wire' = wire /\ killed' = killed \cup {h}
      /\ host' = [host EXCEPT ![h] = n]
  BY DEF NetworkInv, KilledAt
<1>2. /\ f.ledger = Reload(host[h].ledger) \/ f.ledger = host[h].files.ledger
      /\ f.mempool = host[h].files.mempool
  BY DEF FilesAfter
<1> HIDE DEF f
<1>3. NodeInv(n) /\ Kept(n) \subseteq Kept(host[h])
  BY <1>1, <1>2, StartKeepsNode
<1> HIDE DEF n
<1> QED BY <1>1, <1>3, HostStep

-----------------------------------------------------------------------------
LEMMA NetworkInitKeepsInv == NetworkInit => NetworkInv
<1> SUFFICES ASSUME NetworkInit PROVE NetworkInv
  OBVIOUS
<1> DEFINE f == [mempool |-> EmptyMempool, ledger |-> EmptyLedger]
           n == NodeOf(EmptyMempool, EmptyLedger, f)
<1>1. IsLedger(EmptyLedger) /\ FinalizedTxs(EmptyLedger) = {}
  BY DEF EmptyLedger, IsLedger, FinalizedTxs, NoNonce
<1>2. EmptyMempool.pending = {} /\ MempoolInv(EmptyMempool, {})
  BY EmptyMempoolInv DEF EmptyMempool
<1>3. f.mempool = EmptyMempool /\ f.ledger = EmptyLedger
  OBVIOUS
<1>4. host = [h \in Host |-> n]
  BY DEF NetworkInit, NodeOf
<1> HIDE DEF f
<1>5. n.mempool = EmptyMempool /\ n.ledger = EmptyLedger /\ n.files = f
  BY NodeFields
<1> HIDE DEF n
<1>6. Kept(n) = {}
  BY <1>1, <1>2, <1>3, <1>5 DEF Kept
<1>7. NodeInv(n)
  BY <1>1, <1>2, <1>3, <1>5, <1>6 DEF NodeInv, n
<1>8. WireInv
  BY DEF NetworkInit, WireInv
<1> QED BY <1>4, <1>6, <1>7, <1>8 DEF NetworkInv

LEMMA NetworkNextKeepsInv == NetworkInv /\ [NetworkNext]_networkVars => NetworkInv'
<1> SUFFICES ASSUME NetworkInv, [NetworkNext]_networkVars PROVE NetworkInv'
  OBVIOUS
<1>1. CASE NetworkNext
  <2> PICK h \in Host :
        \/ \E t \in Tx : SubmitAt(h, t)
        \/ \E t \in Tx : Deliver(h, t)
        \/ \E S \in SUBSET host[h].mempool.pending :
             \E order \in SetToSeqs(S), D \in SUBSET (host[h].mempool.pending \ S) :
               SettleAt(h, order, D)
        \/ RestartOf(h)
        \/ \E k \in 0..1 : KilledAt(h, k)
    BY <1>1 DEF NetworkNext
  <2>1. CASE \E t \in Tx : SubmitAt(h, t)
    BY <2>1, SubmitKeepsInv
  <2>2. CASE \E t \in Tx : Deliver(h, t)
    BY <2>2, DeliverKeepsInv
  <2>3. CASE \E S \in SUBSET host[h].mempool.pending :
               \E order \in SetToSeqs(S), D \in SUBSET (host[h].mempool.pending \ S) :
                 SettleAt(h, order, D)
    BY <2>3, SettleKeepsInv
  <2>4. CASE RestartOf(h)
    BY <2>4, RestartKeepsInv
  <2>5. CASE \E k \in 0..1 : KilledAt(h, k)
    BY <2>5, KillKeepsInv
  <2> QED BY <2>1, <2>2, <2>3, <2>4, <2>5
<1>2. CASE UNCHANGED networkVars
  <2>1. host' = host /\ wire' = wire /\ killed' = killed
    BY <1>2 DEF networkVars
  <2>2. WireInv'
    BY <2>1 DEF NetworkInv, WireInv, Key
  <2> QED BY <2>1, <2>2 DEF NetworkInv
<1> QED BY <1>1, <1>2

(* The inductive invariant of the network: each node recalls what it keeps *)
(* in memory and in its files, and each sender that was never killed the   *)
(* nonces that it ever sent.                                               *)
THEOREM NetworkInvariance == NetworkSpec => []NetworkInv
  BY NetworkInitKeepsInv, NetworkNextKeepsInv, PTL DEF NetworkSpec

(* Gossip, finalization, restarts and crashes of any number of nodes never *)
(* make two of them hold different transactions for one nonce of a sender  *)
(* that was not killed, nor one of them for any sender.                    *)
THEOREM NonceAgreementHolds == NetworkSpec => []NonceAgreement
<1>1. NetworkInv => NonceAgreement
  <2> SUFFICES ASSUME NetworkInv, NEW h \in Host, NEW g \in Host,
                      NEW t \in Held(h), NEW u \in Held(g), Key(t) = Key(u),
                      h = g \/ Sender[t] \notin killed
               PROVE  t = u
    BY DEF NonceAgreement
  <2>1. t \in Kept(host[h]) /\ u \in Kept(host[g])
    BY DEF Held, Kept
  <2> QED BY <2>1 DEF NetworkInv, NodeInv, WireInv
<1> QED BY <1>1, NetworkInvariance, PTL

=============================================================================
