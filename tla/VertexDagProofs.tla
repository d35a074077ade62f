-------------------------- MODULE VertexDagProofs --------------------------
(***************************************************************************)
(* Proofs about ingress and production, for any number of validators,      *)
(* quorum system, window, delivery order and, unless a theorem assumes     *)
(* otherwise, any number of restarts and of producers of wrong roots.      *)
(***************************************************************************)
EXTENDS VertexDag, FiniteSetTheorems, WellFoundedInduction, TLAPS

\* A bounded, non-empty set of rounds has a greatest element.
LEMMA GreatestRound ==
  ASSUME NEW b \in Nat, NEW T \in SUBSET (0..b), T # {}
  PROVE  \E x \in T : \A y \in T : y <= x
<1> DEFINE D == {b - y : y \in T}
<1>1. D \subseteq Nat /\ D # {}
  <2>1. \A y \in T : b - y \in Nat
    OBVIOUS
  <2>2. PICK y \in T : TRUE
    OBVIOUS
  <2>3. b - y \in D
    OBVIOUS
  <2>4. QED
    BY <2>1, <2>3
<1>2. PICK d \in D : \A e \in D : ~(<<e, d>> \in OpToRel(<, Nat))
  <2> HIDE DEF D
  <2> QED
    BY Zenon, <1>1, NatLessThanWellFounded, WFMin
<1>3. \A e \in D : ~(e < d)
  BY Zenon, <1>1, <1>2 DEF OpToRel
<1>4. PICK x \in T : d = b - x
  BY Zenon, <1>2
<1>5. \A y \in T : y <= x
  BY SMTT(30), <1>3, <1>4
<1>6. QED
  BY <1>5

\* updateRound never moves the clock back, and reaches every round it is shown.
LEMMA LatestIsGreatest ==
  ASSUME NEW r \in 0..(MaxRound + 1), NEW V, \A v \in V : v.round \in Rounds
  PROVE  /\ Latest(r, V) \in 0..(MaxRound + 1)
         /\ Latest(r, V) >= r
         /\ \A v \in V : v.round <= Latest(r, V)
<1> DEFINE rs == {r} \cup {v.round : v \in V}
<1>1. rs \in SUBSET (0..(MaxRound + 1)) /\ rs # {} /\ MaxRound + 1 \in Nat
  BY BoundsAssumption DEF Rounds
<1>2. \E x \in rs : \A y \in rs : y <= x
  <2> HIDE DEF rs
  <2> QED
    BY Zenon, <1>1, GreatestRound
<1>3. Latest(r, V) \in rs /\ \A y \in rs : y <= Latest(r, V)
  BY Zenon, <1>2 DEF Latest
<1>4. QED
  BY Zenon, <1>1, <1>3

-----------------------------------------------------------------------------
(* What the handlers have in common *)

\* A handler of node n stores the validated vertices A and quarantines Q of them.
Admits(n, A, Q) ==
  /\ A \subseteq Produced \ store[n]
  /\ \A v \in A : \E S \in SUBSET (store[n] \cup A) : Verdict(n, v, S) = "ok"
  /\ Q \subseteq {v \in A : v.producer \in Liars}

\* P is what node n buffers after it stored A.
Waits(n, A, P) ==
  /\ P \subseteq Produced
  /\ \A v \in P : \/ A = {} /\ v \in pending[n]
                  \/ /\ v \notin store[n] \cup A
                     /\ Verdict(n, v, store[n] \cup A) = "buffer"

\* The handlers that store vertices of others.
Ingress(n) ==
  \E A, Q, P \in SUBSET Produced, c \in 0..(MaxRound + 1) :
    /\ Admits(n, A, Q) /\ Waits(n, A, P) /\ c >= round[n]
    /\ store' = [store EXCEPT ![n] = @ \cup A]
    /\ quarantined' = [quarantined EXCEPT ![n] = @ \cup Q]
    /\ pending' = [pending EXCEPT ![n] = P]
    /\ round' = [round EXCEPT ![n] = c]
    /\ net' \subseteq Produced \X Nodes
    /\ UNCHANGED NotIngress

\* The handlers that also try to produce.
Production(n) ==
  \E A, Q, P \in SUBSET Produced, c \in 0..(MaxRound + 1), waiting \in SUBSET Txs :
    /\ n \in joined
    /\ Admits(n, A, Q) /\ Waits(n, A, P) /\ c >= round[n]
    /\ quarantined' = [quarantined EXCEPT ![n] = @ \cup Q]
    /\ pending' = [pending EXCEPT ![n] = P]
    /\ ProduceVertex(n, store[n] \cup A, quarantined[n] \cup Q, c, waiting, net)
    /\ submitted' \subseteq Nodes \X Txs
    /\ UNCHANGED <<known, phase, joined, restarts>>

\* processPendingVertices stores what it promotes and keeps what is blocked.
LEMMA RetryAdmits ==
  ASSUME TypeOK, NEW n \in Nodes, NEW X \in SUBSET pending[n],
         NEW Q \in Disprovable(X), Promotes(n, store[n], X)
  PROVE  /\ X \subseteq Produced /\ Q \subseteq Produced
         /\ StillPending(n, pending[n], store[n] \cup X) \subseteq Produced
         /\ Admits(n, X, Q)
         /\ Waits(n, X, StillPending(n, pending[n], store[n] \cup X))
         /\ Latest(round[n], X) \in 0..(MaxRound + 1)
         /\ Latest(round[n], X) >= round[n]
<1>1. pending[n] \subseteq Produced /\ round[n] \in 0..(MaxRound + 1)
  BY DEF TypeOK
<1>2. X = {v \in pending[n] \ store[n] : Verdict(n, v, store[n] \cup X) = "ok"}
  BY DEF Promotes
<1>3. Q \subseteq {v \in X : v.producer \in Liars}
  BY DEF Disprovable
<1>4. \A v \in X : v.round \in Rounds
  BY <1>1 DEF TypeOK, Vertex
<1>5. Admits(n, X, Q)
  BY Zenon, <1>1, <1>2, <1>3 DEF Admits
<1>6. \A v, S : Verdict(n, v, S) \in {"ok", "buffer", "reject"}
  BY DEF Verdict
<1>7. Waits(n, X, StillPending(n, pending[n], store[n] \cup X))
  BY SMTT(30), <1>1, <1>2, <1>6 DEF Waits, StillPending
<1>8. QED
  BY <1>1, <1>3, <1>4, <1>5, <1>7, LatestIsGreatest DEF StillPending

\* AddVertex is an ingress.
LEMMA AddVertexIsIngress ==
  ASSUME TypeOK, NEW n \in Nodes, NEW v \in Produced,
         NEW sent \in SUBSET (Produced \X Nodes), NEW relays \in BOOLEAN,
         AddVertex(n, v, sent, relays), UNCHANGED NotIngress
  PROVE  Ingress(n)
<1> DEFINE S == store[n] \cup {v}
<1>1. /\ pending[n] \subseteq Produced /\ store[n] \subseteq Produced
      /\ round[n] \in 0..(MaxRound + 1) /\ round \in [Nodes -> 0..(MaxRound + 1)]
      /\ store \in [Nodes -> SUBSET Produced] /\ quarantined \in [Nodes -> SUBSET Produced]
      /\ \A w \in Produced : w.round \in Rounds
  BY DEF TypeOK, Vertex
<1>2. CASE v \in store[n] \/ Verdict(n, v, store[n]) # "ok"
  <2> DEFINE P == pending[n] \cup IF v \notin store[n] /\ Verdict(n, v, store[n]) = "buffer"
                                  THEN {v} ELSE {}
  <2>1. /\ pending' = [pending EXCEPT ![n] = P] /\ net' = sent
        /\ UNCHANGED <<store, quarantined, round>>
    BY <1>2 DEF AddVertex
  <2>2. Admits(n, {}, {}) /\ Waits(n, {}, P)
    BY <1>1 DEF Admits, Waits
  <2>3. /\ store' = [store EXCEPT ![n] = @ \cup {}]
        /\ quarantined' = [quarantined EXCEPT ![n] = @ \cup {}]
        /\ round' = [round EXCEPT ![n] = round[n]]
    BY <1>1, <2>1
  <2>4. round[n] >= round[n] /\ P \in SUBSET Produced
    BY <1>1
  <2> HIDE DEF P
  <2>5. QED
    BY Zenon, <1>1, <2>1, <2>2, <2>3, <2>4 DEF Ingress
<1>3. CASE v \notin store[n] /\ Verdict(n, v, store[n]) = "ok"
  <2>1. PICK X \in SUBSET pending[n] : \E Q \in Disprovable(X \cup {v}) :
              /\ Promotes(n, S, X)
              /\ store' = [store EXCEPT ![n] = S \cup X]
              /\ quarantined' = [quarantined EXCEPT ![n] = @ \cup Q]
              /\ pending' = [pending EXCEPT ![n] = StillPending(n, @, S \cup X)]
              /\ round' = [round EXCEPT ![n] = Latest(@, X \cup {v})]
              /\ net' = sent \cup IF relays /\ v \notin Q THEN Sent({v}, n) ELSE {}
    BY Zenon, <1>3 DEF AddVertex
  <2>2. PICK Q \in Disprovable(X \cup {v}) :
              /\ Promotes(n, S, X)
              /\ store' = [store EXCEPT ![n] = S \cup X]
              /\ quarantined' = [quarantined EXCEPT ![n] = @ \cup Q]
              /\ pending' = [pending EXCEPT ![n] = StillPending(n, @, S \cup X)]
              /\ round' = [round EXCEPT ![n] = Latest(@, X \cup {v})]
              /\ net' = sent \cup IF relays /\ v \notin Q THEN Sent({v}, n) ELSE {}
    BY Zenon, <2>1
  <2> DEFINE A == X \cup {v}
             P == StillPending(n, pending[n], S \cup X)
  <2>3. X = {w \in pending[n] \ S : Verdict(n, w, S \cup X) = "ok"} /\ S \cup X = store[n] \cup A
    BY Zenon, <2>2 DEF Promotes
  <2>4. Q \subseteq {w \in A : w.producer \in Liars}
    BY DEF Disprovable
  <2>5. Admits(n, A, Q)
    <3>1. A \subseteq Produced \ store[n]
      BY <1>1, <1>3, <2>3
    <3>2. \A w \in X : Verdict(n, w, store[n] \cup A) = "ok"
      BY Zenon, <2>3
    <3>3. QED
      BY <1>3, <2>4, <3>1, <3>2 DEF Admits
  <2>6. \A w, T : Verdict(n, w, T) \in {"ok", "buffer", "reject"}
    BY DEF Verdict
  <2>7. Waits(n, A, P)
    BY ZenonT(30), <1>1, <2>3, <2>6 DEF Waits, StillPending
  <2>8. /\ Latest(round[n], A) \in 0..(MaxRound + 1)
        /\ Latest(round[n], A) >= round[n]
    BY <1>1, LatestIsGreatest
  <2>9. net' \subseteq Produced \X Nodes
    BY <2>2 DEF Sent, Peers, TypeOK
  <2>10. /\ store' = [store EXCEPT ![n] = @ \cup A]
         /\ pending' = [pending EXCEPT ![n] = P]
         /\ A \in SUBSET Produced /\ Q \in SUBSET Produced /\ P \in SUBSET Produced
    BY Zenon, <1>1, <2>2, <2>3, <2>4 DEF StillPending
  <2>11. quarantined' = [quarantined EXCEPT ![n] = @ \cup Q]
    BY <2>2
  <2>12. round' = [round EXCEPT ![n] = Latest(round[n], A)]
    BY <2>2
  <2> HIDE DEF A, P
  <2>13. QED
    BY Zenon, <2>5, <2>7, <2>8, <2>9, <2>10, <2>11, <2>12 DEF Ingress
<1>4. QED
  BY <1>2, <1>3

\* Every step of the network is one of six kinds of step of one node.
LEMMA StepKinds ==
  ASSUME TypeOK, Next
  PROVE  \E n \in Nodes : \/ Ingress(n)
                          \/ Production(n)
                          \/ \E m \in Nodes : LearnValidator(n, m) \/ Join(n, m)
                          \/ MarkFullQuorumAchieved(n)
                          \/ Restart(n)
<1>1. PICK n \in Nodes :
        \/ \E v \in Produced : Deliver(n, v) \/ Lose(v, n) \/ FetchMissing(n, v)
        \/ Tick(n)
        \/ RetryPending(n)
        \/ \E t \in Txs : SubmitTx(n, t)
        \/ \E m \in Nodes : LearnValidator(n, m) \/ Join(n, m)
        \/ MarkFullQuorumAchieved(n)
        \/ Restart(n)
  BY DEF Next
<1>2. /\ pending[n] \subseteq Produced /\ store[n] \subseteq Produced
      /\ round[n] \in 0..(MaxRound + 1) /\ round \in [Nodes -> 0..(MaxRound + 1)]
      /\ store \in [Nodes -> SUBSET Produced] /\ quarantined \in [Nodes -> SUBSET Produced]
      /\ pending \in [Nodes -> SUBSET Produced] /\ net \subseteq Produced \X Nodes
      /\ txs[n] \subseteq Txs /\ submitted \subseteq Nodes \X Txs
  BY DEF TypeOK
<1>3. ASSUME NEW v \in Produced, Deliver(n, v)
      PROVE  Ingress(n)
  <2>1. (IF Lossy THEN net \ {<<v, n>>} ELSE net) \in SUBSET (Produced \X Nodes)
    BY <1>2
  <2>2. QED
    BY Zenon, <1>3, <2>1, AddVertexIsIngress DEF Deliver
<1>4. ASSUME NEW v \in Produced, FetchMissing(n, v)
      PROVE  Ingress(n)
  BY Zenon, <1>2, <1>4, AddVertexIsIngress DEF FetchMissing
<1>5. /\ Admits(n, {}, {}) /\ Waits(n, {}, pending[n])
      /\ {} \in SUBSET Produced /\ pending[n] \in SUBSET Produced
      /\ round[n] >= round[n]
  BY <1>2 DEF Admits, Waits
<1>6. ASSUME NEW v \in Produced, Lose(v, n)
      PROVE  Ingress(n)
  <2>1. /\ store' = [store EXCEPT ![n] = @ \cup {}]
        /\ quarantined' = [quarantined EXCEPT ![n] = @ \cup {}]
        /\ pending' = [pending EXCEPT ![n] = pending[n]]
        /\ round' = [round EXCEPT ![n] = round[n]]
        /\ net' \subseteq Produced \X Nodes
        /\ UNCHANGED NotIngress
    BY <1>2, <1>6 DEF Lose
  <2>2. QED
    BY Zenon, <1>2, <1>5, <2>1 DEF Ingress
<1>7. ASSUME RetryPending(n)
      PROVE  Ingress(n)
  <2>1. PICK X \in SUBSET pending[n] : \E Q \in Disprovable(X) :
             /\ Promotes(n, store[n], X)
             /\ store' = [store EXCEPT ![n] = @ \cup X]
             /\ quarantined' = [quarantined EXCEPT ![n] = @ \cup Q]
             /\ pending' = [pending EXCEPT ![n] = StillPending(n, @, store[n] \cup X)]
             /\ round' = [round EXCEPT ![n] = Latest(@, X)]
    BY Zenon, <1>7 DEF RetryPending
  <2>2. PICK Q \in Disprovable(X) :
             /\ Promotes(n, store[n], X)
             /\ store' = [store EXCEPT ![n] = @ \cup X]
             /\ quarantined' = [quarantined EXCEPT ![n] = @ \cup Q]
             /\ pending' = [pending EXCEPT ![n] = StillPending(n, @, store[n] \cup X)]
             /\ round' = [round EXCEPT ![n] = Latest(@, X)]
    BY Zenon, <2>1
  <2>3. UNCHANGED <<net, NotIngress>>
    BY <1>7 DEF RetryPending
  <2>4. /\ X \subseteq Produced /\ Q \subseteq Produced
        /\ StillPending(n, pending[n], store[n] \cup X) \subseteq Produced
        /\ Admits(n, X, Q)
        /\ Waits(n, X, StillPending(n, pending[n], store[n] \cup X))
        /\ Latest(round[n], X) \in 0..(MaxRound + 1)
        /\ Latest(round[n], X) >= round[n]
    BY Zenon, <2>2, RetryAdmits
  <2>5. QED
    BY Zenon, <1>2, <2>2, <2>3, <2>4 DEF Ingress
<1>8. ASSUME Tick(n)
      PROVE  Production(n)
  <2>1. PICK X \in SUBSET pending[n] : \E Q \in Disprovable(X) :
             /\ Promotes(n, store[n], X)
             /\ quarantined' = [quarantined EXCEPT ![n] = @ \cup Q]
             /\ pending' = [pending EXCEPT ![n] = StillPending(n, @, store[n] \cup X)]
             /\ ProduceVertex(n, store[n] \cup X, quarantined[n] \cup Q,
                              Latest(round[n], X), txs[n], net)
    BY Zenon, <1>8 DEF Tick
  <2>2. PICK Q \in Disprovable(X) :
             /\ Promotes(n, store[n], X)
             /\ quarantined' = [quarantined EXCEPT ![n] = @ \cup Q]
             /\ pending' = [pending EXCEPT ![n] = StillPending(n, @, store[n] \cup X)]
             /\ ProduceVertex(n, store[n] \cup X, quarantined[n] \cup Q,
                              Latest(round[n], X), txs[n], net)
    BY Zenon, <2>1
  <2>3. /\ n \in joined /\ UNCHANGED <<known, phase, joined, restarts>>
        /\ submitted' \subseteq Nodes \X Txs
    BY <1>2, <1>8 DEF Tick
  <2>4. /\ X \subseteq Produced /\ Q \subseteq Produced
        /\ StillPending(n, pending[n], store[n] \cup X) \subseteq Produced
        /\ Admits(n, X, Q)
        /\ Waits(n, X, StillPending(n, pending[n], store[n] \cup X))
        /\ Latest(round[n], X) \in 0..(MaxRound + 1)
        /\ Latest(round[n], X) >= round[n]
    BY Zenon, <2>2, RetryAdmits
  <2>5. QED
    BY Zenon, <1>2, <2>2, <2>3, <2>4 DEF Production
<1>9. ASSUME NEW t \in Txs, SubmitTx(n, t)
      PROVE  Production(n)
  <2>1. /\ store[n] \cup {} = store[n] /\ quarantined[n] \cup {} = quarantined[n]
        /\ txs[n] \cup {t} \in SUBSET Txs
        /\ quarantined' = [quarantined EXCEPT ![n] = @ \cup {}]
        /\ pending' = [pending EXCEPT ![n] = pending[n]]
    BY <1>2, <1>9 DEF SubmitTx
  <2>2. /\ n \in joined /\ UNCHANGED <<known, phase, joined, restarts>>
        /\ submitted' \subseteq Nodes \X Txs
        /\ ProduceVertex(n, store[n] \cup {}, quarantined[n] \cup {}, round[n],
                         txs[n] \cup {t}, net)
    BY <1>2, <1>9, <2>1 DEF SubmitTx
  <2>3. QED
    BY ZenonT(30), <1>2, <1>5, <2>1, <2>2 DEF Production
<1>10. QED
  BY <1>1, <1>3, <1>4, <1>6, <1>7, <1>8, <1>9

-----------------------------------------------------------------------------
(* Types, and what a vertex cites *)

\* A producer runs and stores every vertex it cited (collectParents).
CitesOwnStore ==
  \A v \in Produced : v.producer \in joined /\ parents[v] \subseteq store[v.producer]

\* The serials of a producer's vertices do not exceed their number.
OwnVertices(p) == {w \in Produced : w.producer = p}
SerialsCounted == \A v \in Produced : v.serial <= Cardinality(OwnVertices(v.producer))

BaseInv ==
  /\ TypeOK
  /\ IsFiniteSet(Produced)
  /\ SerialsCounted
  /\ CitesOwnStore
  /\ NeverCitesQuarantined

\* The round nextProductionRound names is a round.
LEMMA NextProductionRoundType ==
  ASSUME TypeOK, NEW n \in Nodes, NEW c \in 0..(MaxRound + 1)
  PROVE  NextProductionRound(n, c) \in Nat
BY BoundsAssumption DEF TypeOK, Rounds, NextProductionRound

\* The vertex produceVertex signs, when it signs one.
NewVertex(n, c) ==
  [round |-> NextProductionRound(n, c), producer |-> n,
   serial |-> Cardinality(OwnVertices(n)) + 1]

Signs(n, S, c) == n \in known[n] /\ CanProduce(n, S, NextProductionRound(n, c), c)

\* A producer has a finite number of vertices.
LEMMA OwnVerticesCount ==
  ASSUME IsFiniteSet(Produced), NEW p
  PROVE  IsFiniteSet(OwnVertices(p)) /\ Cardinality(OwnVertices(p)) \in Nat
<1>1. IsFiniteSet(OwnVertices(p))
  BY FS_Subset DEF OwnVertices
<1>2. QED
  BY <1>1, FS_CardinalityType

\* A signed vertex has its type, and was not signed before.
LEMMA NewVertexType ==
  ASSUME TypeOK, IsFiniteSet(Produced), NEW n \in Nodes, NEW c \in 0..(MaxRound + 1), NEW S,
         Signs(n, S, c)
  PROVE  NewVertex(n, c) \in Vertex
<1>1. NextProductionRound(n, c) \in Rounds
  BY NextProductionRoundType, BoundsAssumption DEF Signs, CanProduce, Rounds
<1>2. QED
  BY <1>1, OwnVerticesCount DEF NewVertex, Vertex

LEMMA NewVertexIsNew ==
  ASSUME IsFiniteSet(Produced), SerialsCounted, NEW n \in Nodes, NEW c
  PROVE  NewVertex(n, c) \notin Produced
<1>1. Cardinality(OwnVertices(n)) \in Nat
  BY OwnVerticesCount
<1>2. /\ NewVertex(n, c).producer = n
      /\ NewVertex(n, c).serial = Cardinality(OwnVertices(n)) + 1
  BY DEF NewVertex
<1>3. QED
  BY <1>1, <1>2 DEF SerialsCounted

\* Signing it keeps the count.
LEMMA NewVertexCounted ==
  ASSUME TypeOK, IsFiniteSet(Produced), SerialsCounted, NEW n \in Nodes, NEW c,
         Produced' = Produced \cup {NewVertex(n, c)}
  PROVE  SerialsCounted'
<1> DEFINE v == NewVertex(n, c)
<1>1. v \notin Produced /\ v.producer = n /\ v.serial = Cardinality(OwnVertices(n)) + 1
  BY NewVertexIsNew DEF NewVertex
<1>2. OwnVertices(n)' = OwnVertices(n) \cup {v} /\ v \notin OwnVertices(n)
  BY <1>1 DEF OwnVertices
<1> HIDE DEF v
<1>3. Cardinality(OwnVertices(n)') = Cardinality(OwnVertices(n)) + 1
  BY Zenon, <1>2, OwnVerticesCount, FS_AddElement
<1>4. \A p : p # n => OwnVertices(p)' = OwnVertices(p)
  BY <1>1 DEF OwnVertices, v
<1>5. ASSUME NEW w \in Produced
      PROVE  w.serial <= Cardinality(OwnVertices(w.producer)')
  <2>1. w.serial <= Cardinality(OwnVertices(w.producer)) /\ w.serial \in Nat
    BY DEF SerialsCounted, TypeOK, Vertex
  <2>2. CASE w.producer = n
    BY <1>3, <2>1, <2>2, OwnVerticesCount
  <2>3. CASE w.producer # n
    BY <1>4, <2>1, <2>3
  <2>4. QED
    BY <2>2, <2>3
<1>6. v.serial <= Cardinality(OwnVertices(n)')
  BY <1>1, <1>3, OwnVerticesCount
<1>7. PICK x : x = v
  OBVIOUS
<1>8. x.serial <= Cardinality(OwnVertices(x.producer)') /\ Produced' = Produced \cup {x}
  BY <1>1, <1>6, <1>7 DEF v
<1>9. QED
  BY <1>5, <1>8 DEF SerialsCounted

\* An ingress preserves the base invariant: what it quarantines was not stored
\* before, so nobody cited it.
LEMMA IngressKeepsBase ==
  ASSUME BaseInv, NEW n \in Nodes, Ingress(n)
  PROVE  BaseInv'
<1>1. PICK A, Q, P \in SUBSET Produced, c \in 0..(MaxRound + 1) :
         /\ Admits(n, A, Q) /\ Waits(n, A, P) /\ c >= round[n]
         /\ store' = [store EXCEPT ![n] = @ \cup A]
         /\ quarantined' = [quarantined EXCEPT ![n] = @ \cup Q]
         /\ pending' = [pending EXCEPT ![n] = P]
         /\ round' = [round EXCEPT ![n] = c]
         /\ net' \subseteq Produced \X Nodes
         /\ UNCHANGED NotIngress
  BY ZenonT(30) DEF Ingress
<1>2. TypeOK'
  BY <1>1 DEF BaseInv, TypeOK, NotIngress, Produced
<1>3. IsFiniteSet(Produced)' /\ CitesOwnStore' /\ SerialsCounted'
  BY <1>1 DEF BaseInv, TypeOK, NotIngress, Produced, CitesOwnStore, Vertex,
     SerialsCounted, OwnVertices
<1>4. NeverCitesQuarantined'
  <2>1. Q \cap store[n] = {}
    BY <1>1 DEF Admits
  <2>2. \A v \in Produced : parents[v] \cap quarantined'[v.producer] = {}
    BY <1>1, <2>1 DEF BaseInv, CitesOwnStore, NeverCitesQuarantined, TypeOK, Vertex
  <2>3. QED
    BY <1>1, <2>2 DEF NeverCitesQuarantined, NotIngress, Produced
<1>5. QED
  BY <1>2, <1>3, <1>4 DEF BaseInv

\* A production step does too: collectParents drops what is quarantined.
LEMMA ProductionKeepsBase ==
  ASSUME BaseInv, NEW n \in Nodes, Production(n)
  PROVE  BaseInv'
<1>1. PICK A, Q, P \in SUBSET Produced, c \in 0..(MaxRound + 1), waiting \in SUBSET Txs :
         /\ n \in joined
         /\ Admits(n, A, Q) /\ Waits(n, A, P) /\ c >= round[n]
         /\ quarantined' = [quarantined EXCEPT ![n] = @ \cup Q]
         /\ pending' = [pending EXCEPT ![n] = P]
         /\ ProduceVertex(n, store[n] \cup A, quarantined[n] \cup Q, c, waiting, net)
         /\ submitted' \subseteq Nodes \X Txs
         /\ UNCHANGED <<known, phase, joined, restarts>>
  BY Zenon DEF Production
<1> DEFINE S == store[n] \cup A
           QQ == quarantined[n] \cup Q
           r == NextProductionRound(n, c)
           v == NewVertex(n, c)
           ps == CollectParents(n, S, QQ, r)
<1>t. /\ TypeOK /\ IsFiniteSet(Produced) /\ SerialsCounted
      /\ CitesOwnStore /\ NeverCitesQuarantined
  BY DEF BaseInv
<1>2. Q \cap store[n] = {} /\ S \subseteq Produced
  BY <1>1, <1>t DEF Admits, TypeOK
<1>3. CASE Signs(n, S, c)
  <2>1. /\ parents' = [w \in Produced \cup {v} |-> IF w = v THEN ps ELSE parents[w]]
        /\ payload' = [w \in Produced \cup {v} |-> IF w = v THEN waiting ELSE payload[w]]
        /\ store' = [store EXCEPT ![n] = S \cup {v}]
        /\ trusted' = [trusted EXCEPT ![n] = Nodes]
        /\ lastProduced' = [lastProduced EXCEPT ![n] = r]
        /\ round' = [round EXCEPT ![n] = IF r + 1 > c THEN r + 1 ELSE c]
        /\ txs' = [txs EXCEPT ![n] = TakePendingTxs(waiting)]
        /\ net' = net \cup Sent({v}, n)
    BY ZenonT(30), <1>1, <1>3 DEF ProduceVertex, Signs, NewVertex, OwnVertices
  <2>2. v \in Vertex /\ v.producer = n /\ v.round = r /\ r \in Rounds
    BY <1>t, <1>3, NewVertexType DEF NewVertex, Vertex
  <2>3. ps \subseteq S \ QQ /\ \A w \in ps : w.round + 1 = r
    <3>1. \A w \in ps : w \in Produced /\ w.round = r - 1
      BY <1>2 DEF CollectParents
    <3>2. \A w \in ps : w.round \in Nat /\ r \in Nat
      BY SMTT(30), <1>t, <2>2, <3>1 DEF TypeOK, Vertex, Rounds
    <3>3. QED
      BY <3>1, <3>2 DEF CollectParents
  <2>4. Produced' = Produced \cup {v}
    BY SMTT(30), <2>1 DEF Produced
  <2> HIDE DEF v, ps, r
  <2>5. /\ Produced' \subseteq Vertex
        /\ \A w \in Produced' : parents'[w] \subseteq {x \in Produced' : x.round + 1 = w.round}
    BY SMTT(30), <1>2, <1>t, <2>1, <2>2, <2>3, <2>4 DEF TypeOK
  <2>6. DOMAIN payload' = Produced' /\ \A w \in Produced' : payload'[w] \subseteq Txs
    BY SMTT(30), <1>t, <2>1, <2>4 DEF TypeOK
  <2>7. /\ store' \in [Nodes -> SUBSET Produced'] /\ quarantined' \in [Nodes -> SUBSET Produced']
        /\ pending' \in [Nodes -> SUBSET Produced']
    BY SMTT(30), <1>1, <1>2, <1>t, <2>1, <2>4 DEF TypeOK
  <2>8. /\ lastProduced' \in [Nodes -> Rounds] /\ round' \in [Nodes -> 0..(MaxRound + 1)]
    BY SMTT(30), <1>t, <2>1, <2>2, BoundsAssumption DEF TypeOK, Rounds
  <2>9. txs' \in [Nodes -> SUBSET Txs] /\ trusted' \in [Nodes -> SUBSET Nodes]
    BY SMTT(30), <1>t, <2>1 DEF TypeOK, TakePendingTxs
  <2>10. net' \subseteq Produced' \X Nodes
    BY SMTT(30), <1>t, <2>1, <2>4 DEF TypeOK, Sent, Peers
  <2>11. TypeOK'
    BY ZenonT(30), <1>1, <1>t, <2>5, <2>6, <2>7, <2>8, <2>9, <2>10 DEF TypeOK
  <2>12. IsFiniteSet(Produced)'
    BY SMTT(30), <1>t, <2>4, FS_AddElement
  <2>13. CitesOwnStore'
    BY SMTT(30), <1>1, <1>t, <2>1, <2>2, <2>3, <2>4 DEF CitesOwnStore, TypeOK, Vertex
  <2>14. NeverCitesQuarantined'
    <3>1. \A w \in Produced \ {v} : parents'[w] \cap quarantined'[w.producer] = {}
      <4>1. \A w \in Produced : parents[w] \cap quarantined'[w.producer] = {}
        BY SMTT(30), <1>1, <1>2, <1>t DEF CitesOwnStore, NeverCitesQuarantined, TypeOK, Vertex
      <4>2. QED
        BY SMTT(30), <2>1, <4>1
    <3>2. parents'[v] \cap quarantined'[v.producer] = {}
      BY <1>1, <1>t, <2>1, <2>2, <2>3 DEF TypeOK
    <3>3. QED
      BY SMTT(30), <2>4, <3>1, <3>2 DEF NeverCitesQuarantined
  <2>15. SerialsCounted'
    BY <1>t, <2>4, NewVertexCounted DEF v
  <2>16. QED
    BY <2>11, <2>12, <2>13, <2>14, <2>15 DEF BaseInv
<1>4. CASE ~Signs(n, S, c)
  <2>1. /\ store' = [store EXCEPT ![n] = S]
        /\ round' = [round EXCEPT ![n] = c]
        /\ txs' = [txs EXCEPT ![n] = waiting]
        /\ net' \in {net, net \cup Sent(IF n \in known[n] THEN FrontierLeaf(n) ELSE {}, n)}
        /\ UNCHANGED <<parents, payload, trusted, lastProduced>>
    BY SMTT(30), <1>1, <1>4 DEF ProduceVertex, Signs
  <2>2. net' \subseteq Produced \X Nodes
    BY SMTT(30), <1>t, <2>1 DEF TypeOK, Sent, Peers, FrontierLeaf
  <2>3. Produced' = Produced
    BY SMTT(30), <2>1 DEF Produced
  <2>4. TypeOK'
    BY SMTT(30), <1>1, <1>2, <1>t, <2>1, <2>2, <2>3 DEF TypeOK
  <2>5. CitesOwnStore'
    BY SMTT(30), <1>1, <1>t, <2>1, <2>3 DEF CitesOwnStore, TypeOK, Vertex
  <2>6. NeverCitesQuarantined'
    BY <1>1, <1>2, <1>t, <2>1, <2>3 DEF CitesOwnStore, NeverCitesQuarantined, TypeOK, Vertex
  <2>7. QED
    BY SMTT(30), <1>t, <2>3, <2>4, <2>5, <2>6 DEF BaseInv, SerialsCounted, OwnVertices
<1>5. QED
  BY SMTT(30), <1>3, <1>4

LEMMA BaseStep ==
  ASSUME BaseInv, [Next]_vars
  PROVE  BaseInv'
<1>t. /\ TypeOK /\ IsFiniteSet(Produced) /\ SerialsCounted
      /\ CitesOwnStore /\ NeverCitesQuarantined
  BY SMTT(30) DEF BaseInv
<1>1. CASE UNCHANGED vars
  <2>1. TypeOK'
    BY <1>1, <1>t DEF vars, TypeOK, Produced
  <2>2. QED
    BY SMTT(30), <1>1, <1>t, <2>1 DEF vars, BaseInv, Produced, CitesOwnStore, NeverCitesQuarantined,
       SerialsCounted, OwnVertices
<1>2. CASE Next
  <2>1. PICK n \in Nodes : \/ Ingress(n)
                           \/ Production(n)
                           \/ \E m \in Nodes : LearnValidator(n, m) \/ Join(n, m)
                           \/ MarkFullQuorumAchieved(n)
                           \/ Restart(n)
    BY SMTT(30), <1>2, <1>t, StepKinds
  <2>2. CASE (\E m \in Nodes : LearnValidator(n, m)) \/ MarkFullQuorumAchieved(n)
    <3>1. Produced' = Produced
      BY Zenon, <2>2 DEF LearnValidator, MarkFullQuorumAchieved, Produced
    <3>2. known' \in [Nodes -> SUBSET Nodes] /\ phase' \in [Nodes -> {"init", "transition", "converged"}]
      <4>1. known \in [Nodes -> SUBSET Nodes] /\ phase \in [Nodes -> {"init", "transition", "converged"}]
        BY <1>t DEF TypeOK
      <4>2. CASE MarkFullQuorumAchieved(n)
        BY <4>1, <4>2 DEF MarkFullQuorumAchieved
      <4>3. ASSUME NEW m \in Nodes, LearnValidator(n, m)
            PROVE  <3>2!:
        BY SMTT(30), <4>1, <4>3 DEF LearnValidator
      <4>4. QED
        BY <2>2, <4>2, <4>3
    <3>a. TypeOK'
      BY ZenonT(30), <1>t, <2>2, <3>1, <3>2 DEF LearnValidator, MarkFullQuorumAchieved, TypeOK
    <3>3. QED
      BY Zenon, <1>t, <2>2, <3>1, <3>a DEF LearnValidator, MarkFullQuorumAchieved, BaseInv,
         CitesOwnStore, NeverCitesQuarantined, SerialsCounted, OwnVertices
  <2>3. ASSUME NEW m \in Nodes, Join(n, m)
        PROVE  BaseInv'
    <3>1. Produced' = Produced
      BY <2>3 DEF Join, Produced
    <3>2. Latest(0, store[m]) \in 0..(MaxRound + 1)
      <4>1. 0 \in 0..(MaxRound + 1)
        BY BoundsAssumption
      <4>2. \A v \in store[m] : v.round \in Rounds
        BY <1>t DEF TypeOK, Vertex
      <4>3. QED
        BY <4>1, <4>2, LatestIsGreatest
    <3>3. {v.producer : v \in store[m]} \subseteq Nodes
      BY SMTT(30), <1>t DEF TypeOK, Vertex
    <3>4. TypeOK'
      BY SMTT(30), <1>t, <2>3, <3>1, <3>2, <3>3 DEF Join, TypeOK
    <3>5. CitesOwnStore'
      BY SMTT(30), <1>t, <2>3, <3>1 DEF Join, CitesOwnStore, TypeOK, Vertex
    <3>6. NeverCitesQuarantined'
      BY SMTT(30), <1>t, <2>3, <3>1 DEF Join, NeverCitesQuarantined
    <3>7. QED
      BY <1>t, <3>1, <3>4, <3>5, <3>6 DEF BaseInv, SerialsCounted, OwnVertices
  <2>4. CASE Restart(n)
    <3>1. Produced' = Produced
      BY SMTT(30), <2>4 DEF Restart, Produced
    <3>2. TypeOK'
      BY <1>t, <2>4, <3>1, BoundsAssumption DEF Restart, TypeOK, Rounds
    <3>3. QED
      BY ZenonT(30), <1>t, <2>4, <3>1, <3>2 DEF Restart, BaseInv, CitesOwnStore, NeverCitesQuarantined,
         SerialsCounted, OwnVertices
  <2>5. QED
    BY <2>1, <2>2, <2>3, <2>4, IngressKeepsBase, ProductionKeepsBase
<1>3. QED
  BY <1>1, <1>2

LEMMA BaseInit == Init => BaseInv
<1> SUFFICES ASSUME Init
             PROVE  BaseInv
  OBVIOUS
<1>1. CASE Genesis
  <2>1. InitGenesis /\ Produced = {}
    BY <1>1 DEF Init, InitGenesis, Produced
  <2>2. TypeOK
    BY <1>1, <2>1, NodesAssumption, BoundsAssumption
       DEF Init, InitGenesis, TypeOK, Rounds
  <2>3. QED
    BY <2>1, <2>2, FS_EmptySet DEF BaseInv, CitesOwnStore, NeverCitesQuarantined, SerialsCounted
<1>2. CASE ~Genesis
  <2>1. InitConverged /\ Produced = FirstLayer
    BY <1>2 DEF Init, InitConverged, Produced
  <2>2. FirstLayer \subseteq Vertex
    BY BoundsAssumption DEF FirstLayer, Vertex, Rounds
  <2>3. \A v \in Produced : parents[v] = {} /\ payload[v] = {} /\ v.producer \in Nodes
    BY SMTT(30), <2>1, <2>2 DEF InitConverged, Vertex
  <2>4. TypeOK
    BY <1>2, <2>1, <2>2, <2>3, BoundsAssumption DEF Init, InitConverged, TypeOK, Rounds
  <2>5. IsFiniteSet(FirstLayer)
    <3>1. IsFiniteSet(Nodes)
      BY NodesAssumption
    <3> DEFINE first == [n \in Nodes |-> [round |-> 1, producer |-> n, serial |-> 1]]
    <3>2. first \in Surjection(Nodes, FirstLayer)
      BY DEF Surjection, FirstLayer
    <3>3. QED
      BY <3>1, <3>2, FS_Surjection
  <2>6. SerialsCounted
    <3>1. ASSUME NEW v \in FirstLayer
          PROVE  v.serial <= Cardinality(OwnVertices(v.producer))
      <4>1. OwnVertices(v.producer) = {v} /\ v.serial = 1
        BY <2>1 DEF OwnVertices, FirstLayer
      <4>2. QED
        BY SMTT(30), <4>1, FS_Singleton
    <3>2. QED
      BY <2>1, <3>1 DEF SerialsCounted
  <2>7. QED
    BY ZenonT(30), <2>1, <2>3, <2>4, <2>5, <2>6 DEF InitConverged, BaseInv, CitesOwnStore,
       NeverCitesQuarantined
<1>3. QED
  BY <1>1, <1>2, NodesAssumption

\* Stores, buffers, messages and clocks keep their types, whatever is delivered
\* and whoever joins or restarts.
THEOREM TypeCorrect == Spec => []TypeOK
<1>1. BaseInv => TypeOK
  BY DEF BaseInv
<1>2. BaseInv /\ [Next]_vars => BaseInv'
  BY BaseStep
<1>3. QED
  BY <1>1, <1>2, BaseInit, PTL DEF Spec

\* referenceableParents: no vertex ever cites one its producer has proved wrong
\* about its index root, before or after the vertex was signed.
THEOREM NeverCitesQuarantinedHolds == Spec => []NeverCitesQuarantined
<1>1. BaseInv => NeverCitesQuarantined
  BY DEF BaseInv
<1>2. BaseInv /\ [Next]_vars => BaseInv'
  BY BaseStep
<1>3. QED
  BY <1>1, <1>2, BaseInit, PTL DEF Spec

-----------------------------------------------------------------------------
(* One vertex per producer and round *)

\* A producer's vertices lie at or below its last produced round, and below its
\* clock.
BelowTheClock ==
  \A v \in Produced :
     v.round <= lastProduced[v.producer] /\ v.round < round[v.producer]

\* nextProductionRound always names a round the node has not produced.
LEMMA ProductionMovesOn ==
  ASSUME TypeOK, BelowTheClock, NEW n \in Nodes, NEW c \in 0..(MaxRound + 1), c >= round[n],
         NEW v \in Produced, v.producer = n
  PROVE  v.round < NextProductionRound(n, c)
<1>1. /\ v.round \in Nat /\ lastProduced[n] \in Nat /\ round[n] \in Nat /\ c \in Nat
      /\ v.round <= lastProduced[n] /\ v.round < round[n]
  BY SMTT(30), BoundsAssumption DEF TypeOK, Vertex, Rounds, BelowTheClock
<1>2. QED
  BY <1>1 DEF NextProductionRound


\* The outcome of a production step.
ProductionOutcome(n, A, Q, c) ==
  LET r == NextProductionRound(n, c)
  IN  \/ /\ Signs(n, store[n] \cup A, c)
         /\ parents' = [w \in Produced \cup {NewVertex(n, c)} |->
               IF w = NewVertex(n, c)
               THEN CollectParents(n, store[n] \cup A, quarantined[n] \cup Q, r)
               ELSE parents[w]]
         /\ store' = [store EXCEPT ![n] = (@ \cup A) \cup {NewVertex(n, c)}]
         /\ trusted' = [trusted EXCEPT ![n] = Nodes]
         /\ lastProduced' = [lastProduced EXCEPT ![n] = r]
         /\ round' = [round EXCEPT ![n] = IF r + 1 > c THEN r + 1 ELSE c]
      \/ /\ store' = [store EXCEPT ![n] = @ \cup A]
         /\ round' = [round EXCEPT ![n] = c]
         /\ UNCHANGED <<parents, lastProduced, trusted>>

LEMMA ProductionSigns ==
  ASSUME NEW n \in Nodes, Production(n)
  PROVE  \E A, Q, P \in SUBSET Produced, c \in 0..(MaxRound + 1) :
           /\ Admits(n, A, Q) /\ Waits(n, A, P) /\ c >= round[n]
           /\ quarantined' = [quarantined EXCEPT ![n] = @ \cup Q]
           /\ pending' = [pending EXCEPT ![n] = P]
           /\ ProductionOutcome(n, A, Q, c)
           /\ UNCHANGED <<known, phase, joined, restarts>>
<1>1. PICK A, Q, P \in SUBSET Produced, c \in 0..(MaxRound + 1), waiting \in SUBSET Txs :
         /\ Admits(n, A, Q) /\ Waits(n, A, P) /\ c >= round[n]
         /\ quarantined' = [quarantined EXCEPT ![n] = @ \cup Q]
         /\ pending' = [pending EXCEPT ![n] = P]
         /\ ProduceVertex(n, store[n] \cup A, quarantined[n] \cup Q, c, waiting, net)
         /\ UNCHANGED <<known, phase, joined, restarts>>
  BY ZenonT(30) DEF Production
<1>2. ProductionOutcome(n, A, Q, c)
  BY ZenonT(30), <1>1 DEF ProduceVertex, Signs, NewVertex, OwnVertices, ProductionOutcome
<1>3. QED
  BY Zenon, <1>1, <1>2

\* No step of a network without restarts lets a producer sign a round twice.
LEMMA OneVertexStep ==
  ASSUME MaxRestarts = 0, BaseInv, BelowTheClock, OneVertexPerRound, [Next]_vars
  PROVE  BelowTheClock' /\ OneVertexPerRound'
<1>t. /\ TypeOK /\ CitesOwnStore
      /\ round \in [Nodes -> 0..(MaxRound + 1)] /\ lastProduced \in [Nodes -> Rounds]
      /\ \A v \in Produced : v.producer \in Nodes /\ v.round \in Nat
  BY BoundsAssumption DEF BaseInv, TypeOK, Vertex, Rounds
<1>1. CASE UNCHANGED vars
  BY <1>1 DEF vars, BelowTheClock, OneVertexPerRound, Produced
<1>2. CASE Next
  <2>1. PICK n \in Nodes : \/ Ingress(n)
                           \/ Production(n)
                           \/ \E m \in Nodes : LearnValidator(n, m) \/ Join(n, m)
                           \/ MarkFullQuorumAchieved(n)
                           \/ Restart(n)
    BY SMTT(30), <1>2, <1>t, StepKinds
  <2>2. CASE (\E m \in Nodes : LearnValidator(n, m)) \/ MarkFullQuorumAchieved(n)
    BY ZenonT(30), <2>2 DEF LearnValidator, MarkFullQuorumAchieved, BelowTheClock, OneVertexPerRound, Produced
  <2>3. CASE \E m \in Nodes : Join(n, m)
    <3>1. n \notin joined /\ Produced' = Produced /\ lastProduced' = lastProduced
      BY <2>3 DEF Join, Produced
    <3>2. \A v \in Produced : v.producer # n
      BY <1>t, <3>1 DEF CitesOwnStore
    <3>3. \A p \in Nodes \ {n} : round'[p] = round[p]
      BY SMTT(30), <1>t, <2>3 DEF Join
    <3>4. QED
      BY <1>t, <3>1, <3>2, <3>3 DEF BelowTheClock, OneVertexPerRound
  <2>4. CASE Restart(n)
    <3>1. restarts \in 0..MaxRestarts
      BY <1>t DEF TypeOK
    <3>2. restarts < MaxRestarts
      BY <2>4 DEF Restart
    <3>3. QED
      BY <3>1, <3>2
  <2>5. CASE Ingress(n)
    <3>1. PICK c \in 0..(MaxRound + 1) : c >= round[n] /\ round' = [round EXCEPT ![n] = c]
      BY ZenonT(30), <2>5 DEF Ingress
    <3>2. Produced' = Produced /\ lastProduced' = lastProduced
      BY <2>5 DEF Ingress, NotIngress, Produced
    <3>3. \A p \in Nodes : round'[p] >= round[p]
      BY <1>t, <3>1
    <3>4. \A p \in Nodes : round'[p] \in Nat /\ round[p] \in Nat
      BY <1>t, <3>1
    <3>5. QED
      BY <1>t, <3>2, <3>3, <3>4 DEF BelowTheClock, OneVertexPerRound
  <2>6. CASE Production(n)
    <3>1. PICK A, Q, P \in SUBSET Produced, c \in 0..(MaxRound + 1) :
             c >= round[n] /\ ProductionOutcome(n, A, Q, c)
      BY ZenonT(30), <2>6, ProductionSigns
    <3> DEFINE r == NextProductionRound(n, c)
               v == NewVertex(n, c)
    <3>2. CASE UNCHANGED parents /\ UNCHANGED lastProduced /\ round' = [round EXCEPT ![n] = c]
      <4>1. \A p \in Nodes : round'[p] >= round[p] /\ round'[p] \in Nat /\ round[p] \in Nat
        BY <1>t, <3>1, <3>2
      <4>2. QED
        BY <1>t, <3>2, <4>1 DEF BelowTheClock, OneVertexPerRound, Produced
    <3>3. CASE /\ Produced' = Produced \cup {v}
               /\ lastProduced' = [lastProduced EXCEPT ![n] = r]
               /\ round' = [round EXCEPT ![n] = IF r + 1 > c THEN r + 1 ELSE c]
      <4>1. r \in Nat /\ v.producer = n /\ v.round = r
        BY <1>t, NextProductionRoundType DEF NewVertex
      <4>2. \A w \in Produced : w.producer = n => w.round < r
        BY SMTT(30), <1>t, <3>1, ProductionMovesOn
      <4>3. /\ lastProduced'[n] = r /\ round'[n] > r
            /\ \A p \in Nodes \ {n} : lastProduced'[p] = lastProduced[p] /\ round'[p] = round[p]
        BY <1>t, <3>3, <4>1
      <4> HIDE DEF r, v
      <4>4. BelowTheClock'
        <5>1. ASSUME NEW w \in Produced
              PROVE  w.round <= lastProduced'[w.producer] /\ w.round < round'[w.producer]
          <6>1. CASE w.producer = n
            <7>1. w.round < r /\ round'[n] \in Nat
              BY SMTT(30), <1>t, <3>3, <4>1, <4>2, <6>1
            <7>2. QED
              BY <1>t, <4>1, <4>3, <6>1, <7>1
          <6>2. CASE w.producer # n
            BY <1>t, <4>3, <6>2 DEF BelowTheClock
          <6>3. QED
            BY <6>1, <6>2
        <5>2. v.round <= lastProduced'[v.producer] /\ v.round < round'[v.producer]
          BY <1>t, <3>3, <4>1, <4>3
        <5>3. QED
          BY SMTT(30), <3>3, <5>1, <5>2 DEF BelowTheClock
      <4>5. OneVertexPerRound'
        <5>1. \A w \in Produced : w.producer = v.producer => w.round # v.round
          BY <1>t, <4>1, <4>2
        <5>2. QED
          BY <3>3, <5>1 DEF OneVertexPerRound
      <4>6. QED
        BY <4>4, <4>5
    <3>4. QED
      BY <3>1, <3>2, <3>3 DEF ProductionOutcome, Produced
  <2>7. QED
    BY <2>1, <2>2, <2>3, <2>4, <2>5, <2>6
<1>3. QED
  BY <1>1, <1>2

\* A validator that is not restarted signs at most one vertex per round,
\* whatever it receives while it produces (nextProductionRound).
THEOREM OneVertexPerRoundHolds ==
  ASSUME MaxRestarts = 0
  PROVE  Spec => []OneVertexPerRound
<1> DEFINE Inv == BaseInv /\ BelowTheClock /\ OneVertexPerRound
<1>1. Init => Inv
  <2> SUFFICES ASSUME Init
               PROVE  BelowTheClock /\ OneVertexPerRound
    BY BaseInit
  <2>1. CASE Genesis
    BY SMTT(30), <2>1 DEF Init, InitGenesis, Produced, BelowTheClock, OneVertexPerRound
  <2>2. CASE ~Genesis
    BY <2>2 DEF Init, InitConverged, Produced, FirstLayer, BelowTheClock, OneVertexPerRound
  <2>3. QED
    BY <2>1, <2>2
<1>2. Inv /\ [Next]_vars => Inv'
  BY BaseStep, OneVertexStep
<1>3. Inv => OneVertexPerRound
  OBVIOUS
<1>4. QED
  BY <1>1, <1>2, <1>3, PTL DEF Spec

-----------------------------------------------------------------------------
(* The converged network *)

\* Everyone runs and knows everyone, and nobody is in the transition again.
EveryoneKnown ==
  /\ joined = Nodes
  /\ \A n \in Nodes : known[n] = Nodes /\ phase[n] # "transition"

ClosedInv == BaseInv /\ EveryoneKnown /\ StoreCausallyClosed

\* A validated vertex has its parents in the store it was validated on.
LEMMA ValidatedHasParents ==
  ASSUME TypeOK, EveryoneKnown, WindowEnd = 0, NEW n \in Nodes, NEW v \in Produced, NEW S,
         Verdict(n, v, S) = "ok"
  PROVE  parents[v] \subseteq S
<1>1. /\ v.round \in Nat /\ phase[n] # "transition" /\ known[n] = Nodes
      /\ \A p \in parents[v] : p.producer \in Nodes /\ p.round \in Nat /\ p.round + 1 = v.round
  BY BoundsAssumption DEF TypeOK, Vertex, Rounds, EveryoneKnown
<1>2. ~RoundRelaxed(n, v.round)
  BY <1>1 DEF RoundRelaxed
<1>3. CASE v.round = 0
  BY <1>1, <1>3
<1>4. CASE v.round > 0
  <2>1. AbsentParents(n, v, S) = {}
    BY SMTT(30), <1>2, <1>4 DEF Verdict
  <2>2. QED
    BY SMTT(30), <1>1, <2>1 DEF AbsentParents
<1>5. QED
  BY SMTT(30), <1>1, <1>3, <1>4

\* A buffered vertex lacks a parent.
LEMMA BufferedLacksParent ==
  ASSUME EveryoneKnown, NEW n \in Nodes, NEW v \in Produced, NEW S, v.producer \in Nodes,
         Verdict(n, v, S) = "buffer"
  PROVE  ~(parents[v] \subseteq S)
<1>1. known[n] = Nodes
  BY SMTT(30) DEF EveryoneKnown
<1>2. AbsentParents(n, v, S) # {}
  BY <1>1 DEF Verdict
<1>3. QED
  BY <1>2 DEF AbsentParents

\* The converged network stays so: the live set is full, and a restart only
\* forgets the phase.
LEMMA EveryoneKnownStep ==
  ASSUME TypeOK, EveryoneKnown, Next
  PROVE  EveryoneKnown'
<1>1. PICK n \in Nodes : \/ Ingress(n)
                         \/ Production(n)
                         \/ \E m \in Nodes : LearnValidator(n, m) \/ Join(n, m)
                         \/ MarkFullQuorumAchieved(n)
                         \/ Restart(n)
  BY SMTT(30), StepKinds
<1>2. CASE Ingress(n) \/ Production(n)
  BY ZenonT(30), <1>2 DEF Ingress, Production, NotIngress, EveryoneKnown
<1>3. CASE (\E m \in Nodes : LearnValidator(n, m) \/ Join(n, m)) \/ MarkFullQuorumAchieved(n)
  BY Zenon, <1>3 DEF LearnValidator, Join, MarkFullQuorumAchieved, EveryoneKnown
<1>4. CASE Restart(n)
  BY <1>4 DEF Restart, EveryoneKnown, TypeOK
<1>5. QED
  BY <1>1, <1>2, <1>3, <1>4

LEMMA ClosedStep ==
  ASSUME ~Genesis, WindowEnd = 0, ClosedInv, [Next]_vars
  PROVE  ClosedInv'
<1>t. /\ BaseInv /\ TypeOK /\ EveryoneKnown
      /\ store \in [Nodes -> SUBSET Produced]
      /\ \A n \in Nodes : \A v \in store[n] : parents[v] \subseteq store[n]
  BY Zenon DEF ClosedInv, BaseInv, TypeOK, StoreCausallyClosed
<1>b. BaseInv'
  BY SMTT(30), <1>t, BaseStep
<1>1. CASE UNCHANGED vars
  BY <1>1, <1>b DEF vars, ClosedInv, EveryoneKnown, StoreCausallyClosed
<1>2. CASE Next
  <2>1. PICK n \in Nodes : \/ Ingress(n)
                           \/ Production(n)
                           \/ \E m \in Nodes : LearnValidator(n, m) \/ Join(n, m)
                           \/ MarkFullQuorumAchieved(n)
                           \/ Restart(n)
    BY <1>2, <1>t, StepKinds
  <2>2. EveryoneKnown'
    BY <1>2, <1>t, EveryoneKnownStep
  <2>3. ASSUME NEW A, NEW Q, Admits(n, A, Q)
        PROVE  \A v \in store[n] \cup A : parents[v] \subseteq store[n] \cup A
    <3>1. ASSUME NEW v \in A
          PROVE  parents[v] \subseteq store[n] \cup A
      <4>1. PICK S \in SUBSET (store[n] \cup A) : Verdict(n, v, S) = "ok"
        BY SMTT(30), <2>3 DEF Admits
      <4>2. v \in Produced
        BY <2>3 DEF Admits
      <4>3. QED
        BY SMTT(30), <1>t, <4>1, <4>2, ValidatedHasParents
    <3>2. QED
      BY <1>t, <3>1
  <2>4. CASE (\E m \in Nodes : LearnValidator(n, m) \/ Join(n, m)) \/ MarkFullQuorumAchieved(n) \/ Restart(n)
    <3>1. UNCHANGED <<parents, store>>
      BY ZenonT(30), <1>t, <2>4 DEF LearnValidator, Join, MarkFullQuorumAchieved, Restart, EveryoneKnown
    <3>2. QED
      BY SMTT(30), <1>t, <1>b, <2>2, <3>1 DEF ClosedInv, StoreCausallyClosed
  <2>5. CASE Ingress(n)
    <3>1. PICK A, Q \in SUBSET Produced :
            Admits(n, A, Q) /\ store' = [store EXCEPT ![n] = @ \cup A] /\ UNCHANGED parents
      BY Zenon, <2>5 DEF Ingress, NotIngress
    <3>2. \A m \in Nodes : \A v \in store'[m] : parents[v] \subseteq store'[m]
      BY <1>t, <2>3, <3>1
    <3>3. QED
      BY SMTT(30), <1>b, <2>2, <3>1, <3>2 DEF ClosedInv, StoreCausallyClosed
  <2>6. CASE Production(n)
    <3>1. PICK A, Q, P \in SUBSET Produced, c \in 0..(MaxRound + 1) :
             Admits(n, A, Q) /\ ProductionOutcome(n, A, Q, c)
      BY ZenonT(30), <2>6, ProductionSigns
    <3> DEFINE ps == CollectParents(n, store[n] \cup A, quarantined[n] \cup Q,
                                    NextProductionRound(n, c))
               v == NewVertex(n, c)
    <3>2. CASE store' = [store EXCEPT ![n] = @ \cup A] /\ UNCHANGED parents
      <4>1. \A m \in Nodes : \A w \in store'[m] : parents[w] \subseteq store'[m]
        BY SMTT(30), <1>t, <2>3, <3>1, <3>2
      <4>2. QED
        BY <1>b, <2>2, <3>2, <4>1 DEF ClosedInv, StoreCausallyClosed
    <3>3. CASE /\ store' = [store EXCEPT ![n] = (@ \cup A) \cup {v}]
               /\ parents' = [w \in Produced \cup {v} |-> IF w = v THEN ps ELSE parents[w]]
      <4>1. ps \subseteq store[n] \cup A
        BY SMTT(30) DEF CollectParents
      <4>2. \A w \in store[n] \cup A : parents[w] \subseteq store[n] \cup A
        BY SMTT(30), <2>3, <3>1
      <4>3. v.producer = n /\ A \subseteq Produced
        BY SMTT(30), <3>1 DEF NewVertex
      <4> HIDE DEF v, ps
      <4>4. \A w \in store'[n] : parents'[w] \subseteq store'[n]
        BY SMTT(30), <1>t, <3>3, <4>1, <4>2, <4>3
      <4>5. ASSUME NEW m \in Nodes \ {n}, NEW w \in store'[m]
            PROVE  parents'[w] \subseteq store'[m]
        <5>1. w \in store[m] /\ store'[m] = store[m] /\ w \in Produced
          BY SMTT(30), <1>t, <3>3, <4>5
        <5>2. w # v
          BY <1>t, <5>1, NewVertexIsNew DEF BaseInv, v
        <5>3. QED
          BY SMTT(30), <1>t, <3>3, <5>1, <5>2
      <4>6. QED
        BY <1>b, <2>2, <4>4, <4>5 DEF ClosedInv, StoreCausallyClosed
    <3>4. QED
      BY Zenon, <3>1, <3>2, <3>3 DEF ProductionOutcome
  <2>7. QED
    BY SMTT(30), <2>1, <2>4, <2>5, <2>6
<1>3. QED
  BY <1>1, <1>2

LEMMA ClosedInit == ~Genesis /\ Init => ClosedInv
<1> SUFFICES ASSUME ~Genesis, Init
             PROVE  EveryoneKnown /\ StoreCausallyClosed
  BY BaseInit DEF ClosedInv
<1>1. InitConverged
  BY DEF Init
<1>2. QED
  BY <1>1 DEF InitConverged, EveryoneKnown, StoreCausallyClosed

\* validateParentLink keeps every store of a converged network causally closed,
\* through any order of delivery, retries of the buffer and restarts.
THEOREM StoreCausallyClosedHolds ==
  ASSUME ~Genesis, WindowEnd = 0
  PROVE  Spec => []StoreCausallyClosed
<1>1. ClosedInv => StoreCausallyClosed
  BY DEF ClosedInv
<1>2. ClosedInv /\ [Next]_vars => ClosedInv'
  BY ClosedStep
<1>3. QED
  BY <1>1, <1>2, ClosedInit, PTL DEF Spec

\* Nobody was restarted and nobody lies: every node still enforces the quorum
\* and cites everything it counted.
NobodyFails ==
  \A n \in Nodes : phase[n] = "converged" /\ trusted[n] = Nodes /\ quarantined[n] = {}

\* canProduceVertex and collectParents agree: the vertex cites the quorum.
LEMMA QuorumStep ==
  ASSUME ~Genesis, WindowEnd = 0, MaxRestarts = 0, Liars = {},
         ClosedInv, NobodyFails, ParentsFormQuorum, [Next]_vars
  PROVE  NobodyFails' /\ ParentsFormQuorum'
<1>t. /\ BaseInv /\ TypeOK /\ EveryoneKnown
      /\ \A v \in Produced : v.producer \in Nodes /\ v.round \in Nat
      /\ \A v \in Produced : v.round > 1 => {p.producer : p \in parents[v]} \in Quorums
  BY SMTT(30), BoundsAssumption DEF ClosedInv, BaseInv, TypeOK, Vertex, Rounds, ParentsFormQuorum
<1>1. CASE UNCHANGED vars
  BY <1>1 DEF vars, NobodyFails, ParentsFormQuorum, Produced
<1>2. CASE Next
  <2>1. PICK n \in Nodes : \/ Ingress(n)
                           \/ Production(n)
                           \/ \E m \in Nodes : LearnValidator(n, m) \/ Join(n, m)
                           \/ MarkFullQuorumAchieved(n)
                           \/ Restart(n)
    BY SMTT(30), <1>2, <1>t, StepKinds
  <2>2. CASE (\E m \in Nodes : LearnValidator(n, m) \/ Join(n, m)) \/ MarkFullQuorumAchieved(n)
    BY ZenonT(30), <1>t, <2>2 DEF LearnValidator, Join, MarkFullQuorumAchieved, EveryoneKnown, NobodyFails
  <2>3. CASE Restart(n)
    <3>1. restarts \in 0..MaxRestarts
      BY <1>t DEF TypeOK
    <3>2. restarts < MaxRestarts
      BY SMTT(30), <2>3 DEF Restart
    <3>3. QED
      BY SMTT(30), <3>1, <3>2
  <2>4. CASE Ingress(n)
    <3>1. PICK A, Q \in SUBSET Produced :
            /\ Admits(n, A, Q)
            /\ quarantined' = [quarantined EXCEPT ![n] = @ \cup Q]
            /\ UNCHANGED <<parents, phase, trusted>>
      BY Zenon, <2>4 DEF Ingress, NotIngress
    <3>2. Q = {}
      BY <3>1 DEF Admits
    <3>3. QED
      BY SMTT(30), <1>t, <3>1, <3>2 DEF NobodyFails, ParentsFormQuorum, Produced, TypeOK
  <2>5. CASE Production(n)
    <3>1. PICK A, Q, P \in SUBSET Produced, c \in 0..(MaxRound + 1) :
            /\ Admits(n, A, Q)
            /\ quarantined' = [quarantined EXCEPT ![n] = @ \cup Q]
            /\ ProductionOutcome(n, A, Q, c)
            /\ UNCHANGED phase
      BY ZenonT(30), <2>5, ProductionSigns
    <3>2. Q = {} /\ A \subseteq Produced
      BY SMTT(30), <3>1 DEF Admits
    <3>3. NobodyFails'
      BY SMTT(30), <1>t, <3>1, <3>2 DEF ProductionOutcome, NobodyFails, TypeOK
    <3> DEFINE r == NextProductionRound(n, c)
               S == store[n] \cup A
               ps == CollectParents(n, S, quarantined[n] \cup Q, r)
               v == NewVertex(n, c)
    <3>4. CASE UNCHANGED parents
      BY ZenonT(30), <3>3, <3>4 DEF ParentsFormQuorum, Produced
    <3>5. CASE /\ Signs(n, S, c)
               /\ parents' = [w \in Produced \cup {v} |-> IF w = v THEN ps ELSE parents[w]]
      <4>1. /\ known[n] = Nodes /\ phase[n] = "converged" /\ trusted[n] = Nodes
            /\ quarantined[n] = {} /\ r \in Nat /\ c \in Nat /\ S \subseteq Produced
            /\ v.round = r
        <5>1. known[n] = Nodes /\ phase[n] = "converged" /\ trusted[n] = Nodes /\ quarantined[n] = {}
          BY SMTT(30), <1>t DEF EveryoneKnown, NobodyFails
        <5>2. store[n] \in SUBSET Produced /\ c \in Nat
          BY SMTT(30), <1>t DEF TypeOK
        <5>3. r \in Nat
          BY SMTT(30), <1>t, NextProductionRoundType
        <5>4. v.round = r
          BY DEF NewVertex
        <5>5. S \subseteq Produced
          BY SMTT(30), <3>2, <5>2
        <5> HIDE DEF r, S, v
        <5>6. QED
          BY <5>1, <5>2, <5>3, <5>4, <5>5
      <4>2. ASSUME r > 1
            PROVE  {p.producer : p \in ps} \in Quorums
        <5>1. HasQuorumFromRound(n, S, r - 1, c)
          <6>1. CanProduce(n, S, r, c)
            BY Zenon, <3>5 DEF Signs
          <6> HIDE DEF r, S
          <6>2. QED
            BY <4>1, <4>2, <6>1 DEF CanProduce
        <5>2. ~RoundRelaxed(n, r - 1) /\ ~(c < WindowEnd)
          BY SMTT(30), <4>1, <4>2 DEF RoundRelaxed
        <5>3. KnownProducers(n, S, r - 1) \in Quorums
          BY SMTT(30), <5>1, <5>2 DEF HasQuorumFromRound
        <5>4. ps = {x \in S : x.round = r - 1}
          BY SMTT(30), <1>t, <3>2, <4>1 DEF CollectParents
        <5> HIDE DEF r, S, ps
        <5>5. KnownProducers(n, S, r - 1) = {p.producer : p \in ps}
          BY ZenonT(30), <1>t, <4>1, <5>4 DEF KnownProducers
        <5>6. QED
          BY ZenonT(30), <5>3, <5>5
      <4> HIDE DEF v, ps, r
      <4>3. \A w \in Produced \cup {v} : w.round > 1 => {p.producer : p \in parents'[w]} \in Quorums
        BY Zenon, <1>t, <3>5, <4>1, <4>2
      <4>4. QED
        BY ZenonT(30), <3>3, <3>5, <4>3 DEF ParentsFormQuorum, Produced
    <3>6. QED
      BY Zenon, <3>1, <3>4, <3>5 DEF ProductionOutcome
  <2>6. QED
    BY SMTT(30), <2>1, <2>2, <2>3, <2>4, <2>5
<1>3. QED
  BY SMTT(30), <1>1, <1>2

\* What the anchor rule rests on, in a converged network without restarts and
\* without wrong roots: every vertex past the first layer cites a quorum.
THEOREM ParentsFormQuorumHolds ==
  ASSUME ~Genesis, WindowEnd = 0, MaxRestarts = 0, Liars = {}
  PROVE  Spec => []ParentsFormQuorum
<1> DEFINE Inv == ClosedInv /\ NobodyFails /\ ParentsFormQuorum
<1>1. Init => Inv
  <2> SUFFICES ASSUME Init
               PROVE  NobodyFails /\ ParentsFormQuorum
    BY ClosedInit
  <2>1. InitConverged
    BY DEF Init
  <2>2. NobodyFails
    BY <2>1 DEF Init, InitConverged, NobodyFails
  <2>3. Produced = FirstLayer
    BY <2>1 DEF InitConverged, Produced
  <2>4. \A v \in FirstLayer : v.round = 1
    BY DEF FirstLayer
  <2>5. QED
    BY <2>2, <2>3, <2>4 DEF ParentsFormQuorum
<1>2. Inv /\ [Next]_vars => Inv'
  BY ClosedStep, QuorumStep
<1>3. Inv => ParentsFormQuorum
  OBVIOUS
<1>4. QED
  BY <1>1, <1>2, <1>3, PTL DEF Spec

\* What waits in the buffer of one node after it stored A, and possibly a vertex
\* of its own.
LEMMA WaitsBlocked ==
  ASSUME ~Genesis, ClosedInv, PendingIsBlocked, NEW n \in Nodes, NEW A, NEW P, Waits(n, A, P),
         NEW x \in P
  PROVE  x \in Produced /\ x \notin store[n] \cup A /\ ~(parents[x] \subseteq store[n] \cup A)
<1>1. x \in Produced /\ x.producer \in Nodes /\ EveryoneKnown
  BY SMTT(30) DEF Waits, ClosedInv, BaseInv, TypeOK, Vertex
<1>2. CASE A = {} /\ x \in pending[n]
  BY SMTT(30), <1>1, <1>2 DEF PendingIsBlocked
<1>3. CASE x \notin store[n] \cup A /\ Verdict(n, x, store[n] \cup A) = "buffer"
  BY <1>1, <1>3, BufferedLacksParent
<1>4. QED
  BY SMTT(30), <1>2, <1>3 DEF Waits

LEMMA BlockedStep ==
  ASSUME ~Genesis, WindowEnd = 0, ClosedInv, PendingIsBlocked, [Next]_vars
  PROVE  PendingIsBlocked'
<1>t. /\ BaseInv /\ TypeOK /\ EveryoneKnown
      /\ store \in [Nodes -> SUBSET Produced] /\ pending \in [Nodes -> SUBSET Produced]
      /\ \A m \in Nodes : \A x \in pending[m] :
            x \notin store[m] /\ ~(parents[x] \subseteq store[m])
  BY ZenonT(30) DEF ClosedInv, BaseInv, TypeOK, PendingIsBlocked
<1>1. CASE UNCHANGED vars
  BY <1>1 DEF vars, PendingIsBlocked
<1>2. CASE Next
  <2>1. PICK n \in Nodes : \/ Ingress(n)
                           \/ Production(n)
                           \/ \E m \in Nodes : LearnValidator(n, m) \/ Join(n, m)
                           \/ MarkFullQuorumAchieved(n)
                           \/ Restart(n)
    BY SMTT(30), <1>2, <1>t, StepKinds
  <2>2. CASE (\E m \in Nodes : LearnValidator(n, m) \/ Join(n, m)) \/ MarkFullQuorumAchieved(n)
    BY ZenonT(30), <1>t, <2>2 DEF LearnValidator, Join, MarkFullQuorumAchieved, EveryoneKnown, PendingIsBlocked
  <2>3. CASE Restart(n)
    <3>1. /\ pending' = [pending EXCEPT ![n] = {}] /\ UNCHANGED <<parents, store>>
      BY SMTT(30), <2>3 DEF Restart
    <3>2. QED
      BY <1>t, <3>1 DEF PendingIsBlocked
  <2>4. CASE Ingress(n)
    <3>1. PICK A, P \in SUBSET Produced :
            /\ Waits(n, A, P)
            /\ store' = [store EXCEPT ![n] = @ \cup A]
            /\ pending' = [pending EXCEPT ![n] = P]
            /\ UNCHANGED parents
      BY ZenonT(30), <2>4 DEF Ingress, NotIngress
    <3>2. \A x \in P : x \notin store[n] \cup A /\ ~(parents[x] \subseteq store[n] \cup A)
      BY <3>1, WaitsBlocked
    <3>3. QED
      BY SMTT(30), <1>t, <3>1, <3>2 DEF PendingIsBlocked
  <2>5. CASE Production(n)
    <3>1. PICK A, Q, P \in SUBSET Produced, c \in 0..(MaxRound + 1) :
            /\ Waits(n, A, P)
            /\ pending' = [pending EXCEPT ![n] = P]
            /\ ProductionOutcome(n, A, Q, c)
      BY SMTT(30), <2>5, ProductionSigns
    <3> DEFINE v == NewVertex(n, c)
    <3>2. \A x \in P : /\ x \in Produced /\ x \notin store[n] \cup A
                       /\ ~(parents[x] \subseteq store[n] \cup A)
      BY SMTT(30), <3>1, WaitsBlocked
    <3>3. v \notin Produced /\ \A x \in Produced : parents[x] \subseteq Produced
      BY ZenonT(30), <1>t, NewVertexIsNew DEF BaseInv, TypeOK
    <3>4. /\ \A x \in Produced : parents'[x] = parents[x]
          /\ \A m \in Nodes \ {n} : store'[m] = store[m] /\ pending'[m] = pending[m]
          /\ store'[n] \subseteq (store[n] \cup A) \cup {v} /\ pending'[n] = P
      BY SMTT(30), <1>t, <3>1, <3>3 DEF ProductionOutcome
    <3> HIDE DEF v
    <3>5. \A x \in P : x \notin store'[n] /\ ~(parents'[x] \subseteq store'[n])
      BY SMTT(30), <3>2, <3>3, <3>4
    <3>6. \A m \in Nodes \ {n} : \A x \in pending'[m] :
             x \notin store'[m] /\ ~(parents'[x] \subseteq store'[m])
      BY <1>t, <3>4
    <3>7. QED
      BY SMTT(30), <3>4, <3>5, <3>6 DEF PendingIsBlocked
  <2>6. QED
    BY SMTT(30), <2>1, <2>2, <2>3, <2>4, <2>5
<1>3. QED
  BY SMTT(30), <1>1, <1>2

\* processPendingVertices: in a converged network nothing stays buffered that
\* could be stored, restarts included.
THEOREM PendingIsBlockedHolds ==
  ASSUME ~Genesis, WindowEnd = 0
  PROVE  Spec => []PendingIsBlocked
<1> DEFINE Inv == ClosedInv /\ PendingIsBlocked
<1>1. Init => Inv
  BY ClosedInit DEF Init, PendingIsBlocked
<1>2. Inv /\ [Next]_vars => Inv'
  BY ClosedStep, BlockedStep
<1>3. Inv => PendingIsBlocked
  OBVIOUS
<1>4. QED
  BY <1>1, <1>2, <1>3, PTL DEF Spec

-----------------------------------------------------------------------------
(* Transactions of the queue *)

\* takePendingTxs, as the queue sees it: node n, with the transactions T submitted
\* to it, puts what it has queued in a vertex v, or keeps it queued.
Takes(n, T, v) ==
  /\ payload' = [w \in Produced \cup {v} |-> IF w = v THEN txs[n] \cup T ELSE payload[w]]
  /\ Produced' = Produced \cup {v}
  /\ txs' = [txs EXCEPT ![n] = {}]

Queues(n, T) == UNCHANGED <<parents, payload>> /\ txs' = [txs EXCEPT ![n] = @ \cup T]

Submits(n, T) ==
  /\ \A t \in T : <<n, t>> \notin submitted
  /\ submitted' = submitted \cup ({n} \X T)
  /\ restarts' = restarts

\* A production step empties the queue into a new vertex, or leaves it.
LEMMA ProduceQueue ==
  ASSUME BaseInv, NEW n \in Nodes, NEW T \in SUBSET Txs, NEW S, NEW Q, NEW c, NEW sent,
         ProduceVertex(n, S, Q, c, txs[n] \cup T, sent)
  PROVE  \/ \E v : v \notin Produced /\ v.producer = n /\ Takes(n, T, v)
         \/ Queues(n, T)
<1>1. CASE Signs(n, S, c)
  <2> DEFINE v == NewVertex(n, c)
  <2>1. /\ parents' = [w \in Produced \cup {v} |->
               IF w = v THEN CollectParents(n, S, Q, NextProductionRound(n, c)) ELSE parents[w]]
        /\ payload' = [w \in Produced \cup {v} |-> IF w = v THEN txs[n] \cup T ELSE payload[w]]
        /\ txs' = [txs EXCEPT ![n] = {}]
    BY ZenonT(30), <1>1 DEF ProduceVertex, Signs, NewVertex, OwnVertices, TakePendingTxs
  <2>2. v \notin Produced
    BY SMTT(30), NewVertexIsNew DEF BaseInv
  <2>3. v.producer = n
    BY SMTT(30) DEF NewVertex
  <2> HIDE DEF v
  <2>4. Produced' = Produced \cup {v}
    BY <2>1 DEF Produced
  <2>5. QED
    BY Zenon, <2>1, <2>2, <2>3, <2>4 DEF Takes
<1>2. CASE ~Signs(n, S, c)
  <2>1. UNCHANGED <<parents, payload>> /\ txs' = [txs EXCEPT ![n] = txs[n] \cup T]
    BY ZenonT(30), <1>2 DEF ProduceVertex, Signs
  <2>2. QED
    BY <2>1 DEF Queues
<1>3. QED
  BY <1>1, <1>2

\* What a step does to queues, payloads and submissions.
LEMMA QueueSteps ==
  ASSUME BaseInv, Next
  PROVE  \/ UNCHANGED <<parents, payload, txs, submitted, restarts>>
         \/ \E n \in Nodes, T \in SUBSET Txs :
              /\ Submits(n, T)
              /\ \/ \E v : v \notin Produced /\ v.producer = n /\ Takes(n, T, v)
                 \/ Queues(n, T)
         \/ \E n \in Nodes : Restart(n)
<1>1. PICK n \in Nodes :
        \/ \E v \in Produced : Deliver(n, v) \/ Lose(v, n) \/ FetchMissing(n, v)
        \/ Tick(n)
        \/ RetryPending(n)
        \/ \E t \in Txs : SubmitTx(n, t)
        \/ \E m \in Nodes : LearnValidator(n, m) \/ Join(n, m)
        \/ MarkFullQuorumAchieved(n)
        \/ Restart(n)
  BY DEF Next
<1>2. CASE \/ \E v \in Produced : Deliver(n, v) \/ Lose(v, n) \/ FetchMissing(n, v)
           \/ RetryPending(n)
  BY Zenon, <1>2 DEF Deliver, Lose, FetchMissing, RetryPending, NotIngress
<1>3. CASE (\E m \in Nodes : LearnValidator(n, m) \/ Join(n, m)) \/ MarkFullQuorumAchieved(n)
  BY ZenonT(30), <1>3 DEF LearnValidator, Join, MarkFullQuorumAchieved
<1>4. CASE Tick(n)
  <2>1. PICK S, Q, c : ProduceVertex(n, S, Q, c, txs[n], net)
    BY ZenonT(30), <1>4 DEF Tick
  <2>2. txs[n] \cup {} = txs[n] /\ {} \in SUBSET Txs
    OBVIOUS
  <2>3. (\E v : v \notin Produced /\ v.producer = n /\ Takes(n, {}, v)) \/ Queues(n, {})
    BY Zenon, <2>1, <2>2, ProduceQueue
  <2>4. Submits(n, {})
    BY <1>4 DEF Tick, Submits
  <2>5. QED
    BY Zenon, <2>2, <2>3, <2>4
<1>5. ASSUME NEW t \in Txs, SubmitTx(n, t)
      PROVE  \E T \in SUBSET Txs :
               /\ Submits(n, T)
               /\ \/ \E v : v \notin Produced /\ v.producer = n /\ Takes(n, T, v)
                  \/ Queues(n, T)
  <2>1. ProduceVertex(n, store[n], quarantined[n], round[n], txs[n] \cup {t}, net)
    BY <1>5 DEF SubmitTx
  <2>2. {t} \in SUBSET Txs
    OBVIOUS
  <2>3. (\E v : v \notin Produced /\ v.producer = n /\ Takes(n, {t}, v)) \/ Queues(n, {t})
    BY Zenon, <2>1, <2>2, ProduceQueue
  <2>4. Submits(n, {t})
    BY <1>5 DEF SubmitTx, Submits
  <2>5. QED
    BY Zenon, <2>2, <2>3, <2>4
<1>6. QED
  BY Zenon, <1>1, <1>2, <1>3, <1>4, <1>5

\* Vertex v of node n carries t.
Carries(v, n, t) == v \in Produced /\ v.producer = n /\ t \in payload[v]

\* Only what was submitted is queued or carried, what is queued is not carried, no
\* two vertices of a node carry the same, and nothing is lost but by a restart.
TxInv ==
  /\ \A n \in Nodes : \A t \in txs[n] : <<n, t>> \in submitted /\ \A v : ~Carries(v, n, t)
  /\ \A n \in Nodes, t \in Txs, v, w \in Produced : Carries(v, n, t) /\ Carries(w, n, t) => v = w
  /\ \A n \in Nodes, t \in Txs, v \in Produced : Carries(v, n, t) => <<n, t>> \in submitted
  /\ restarts = 0 =>
       \A n \in Nodes, t \in Txs :
          <<n, t>> \in submitted => t \in txs[n] \/ \E v \in Produced : Carries(v, n, t)

\* No step carries a transaction a second time, or loses one without a restart.
LEMMA TxStep ==
  ASSUME BaseInv, TxInv, [Next]_vars
  PROVE  TxInv'
<1>t. /\ txs \in [Nodes -> SUBSET Txs] /\ DOMAIN payload = Produced
      /\ submitted \subseteq Nodes \X Txs /\ restarts \in Nat
  BY SMTT(30), BoundsAssumption DEF BaseInv, TypeOK
<1>1. CASE UNCHANGED <<parents, payload, txs, submitted, restarts>>
  BY SMTT(30), <1>1 DEF TxInv, Carries, Produced
<1>2. ASSUME NEW n \in Nodes, Restart(n)
      PROVE  TxInv'
  <2>1. /\ UNCHANGED <<parents, payload, submitted>> /\ restarts' = restarts + 1
        /\ txs' = [txs EXCEPT ![n] = {}]
    BY <1>2 DEF Restart
  <2>2. \A m \in Nodes : txs'[m] \subseteq txs[m]
    BY <1>t, <2>1
  <2>3. restarts' # 0
    BY <1>t, <2>1
  <2>4. Produced' = Produced /\ \A x, m, t : Carries(x, m, t)' <=> Carries(x, m, t)
    BY SMTT(30), <2>1 DEF Carries, Produced
  <2>5. QED
    BY <2>1, <2>2, <2>3, <2>4 DEF TxInv
<1>3. ASSUME NEW n \in Nodes, NEW T \in SUBSET Txs, Submits(n, T), Queues(n, T)
      PROVE  TxInv'
  <2>1. Produced' = Produced /\ \A x, m, t : Carries(x, m, t)' <=> Carries(x, m, t)
    BY <1>3 DEF Queues, Carries, Produced
  <2>2. txs'[n] = txs[n] \cup T /\ \A m \in Nodes \ {n} : txs'[m] = txs[m]
    BY <1>t, <1>3 DEF Queues
  <2>3. /\ \A t \in T : <<n, t>> \notin submitted
        /\ \A m, t : <<m, t>> \in submitted' <=> <<m, t>> \in submitted \/ (m = n /\ t \in T)
        /\ restarts' = restarts
    BY SMTT(30), <1>3 DEF Submits
  <2>4. \A t \in T, v \in Produced : ~Carries(v, n, t)
    BY ZenonT(30), <2>3 DEF TxInv
  <2>5. \A t \in T : \A v : ~Carries(v, n, t)
    BY <2>4 DEF Carries
  <2>6. QED
    BY SMTT(30), <2>1, <2>2, <2>3, <2>5 DEF TxInv
<1>4. ASSUME NEW n \in Nodes, NEW T \in SUBSET Txs, Submits(n, T),
             NEW v, v \notin Produced, v.producer = n, Takes(n, T, v)
      PROVE  TxInv'
  <2> DEFINE W == txs[n] \cup T
  <2>1. /\ Produced' = Produced \cup {v}
        /\ \A x, m, t : Carries(x, m, t)' <=> Carries(x, m, t) \/ (x = v /\ m = n /\ t \in W)
    BY SMTT(30), <1>t, <1>4 DEF Takes, Carries
  <2>2. txs'[n] = {} /\ \A m \in Nodes \ {n} : txs'[m] = txs[m]
    BY <1>t, <1>4 DEF Takes
  <2>3. /\ \A t \in T : <<n, t>> \notin submitted
        /\ \A m, t : <<m, t>> \in submitted' <=> <<m, t>> \in submitted \/ (m = n /\ t \in T)
        /\ restarts' = restarts
    BY SMTT(30), <1>4 DEF Submits
  <2>4. \A t \in W, x \in Produced : ~Carries(x, n, t)
    BY ZenonT(30), <2>3 DEF TxInv
  <2>5. \A t \in W : \A x : ~Carries(x, n, t)
    BY <2>4 DEF Carries
  <2>6. \A t \in W : <<n, t>> \in submitted'
    BY <2>3 DEF TxInv
  <2>7. \A m \in Nodes : \A t \in txs'[m] : <<m, t>> \in submitted' /\ \A x : ~Carries(x, m, t)'
    BY Zenon, <2>1, <2>2, <2>3 DEF TxInv
  <2>8. \A m \in Nodes, t \in Txs, x, y \in Produced' :
           Carries(x, m, t)' /\ Carries(y, m, t)' => x = y
    <3>1. \A x, m, t : Carries(x, m, t) => x \in Produced
      BY SMTT(30) DEF Carries
    <3>2. QED
      BY <2>1, <2>5, <3>1 DEF TxInv
  <2>9. \A m \in Nodes, t \in Txs, x \in Produced' : Carries(x, m, t)' => <<m, t>> \in submitted'
    <3>1. \A x, m, t : Carries(x, m, t) => x \in Produced
      BY DEF Carries
    <3>2. QED
      BY SMTT(30), <2>1, <2>3, <2>6, <3>1 DEF TxInv
  <2>10. restarts' = 0 =>
           \A m \in Nodes, t \in Txs :
              <<m, t>> \in submitted' => t \in txs'[m] \/ \E x \in Produced' : Carries(x, m, t)'
    <3> SUFFICES ASSUME restarts = 0, NEW m \in Nodes, NEW t \in Txs, <<m, t>> \in submitted'
                 PROVE  t \in txs'[m] \/ \E x \in Produced' : Carries(x, m, t)'
      BY <2>3
    <3>1. CASE m = n /\ t \in W
      BY SMTT(30), <2>1, <3>1
    <3>2. CASE ~(m = n /\ t \in W)
      <4>1. <<m, t>> \in submitted
        BY SMTT(30), <2>3, <3>2
      <4>2. t \in txs[m] \/ \E x \in Produced : Carries(x, m, t)
        BY <4>1 DEF TxInv
      <4>3. QED
        BY <2>1, <2>2, <3>2, <4>2
    <3>3. QED
      BY <3>1, <3>2
  <2>11. QED
    BY Zenon, <2>7, <2>8, <2>9, <2>10 DEF TxInv
<1>5. CASE UNCHANGED vars
  BY <1>1, <1>5 DEF vars
<1>6. CASE Next
  BY Zenon, <1>1, <1>2, <1>3, <1>4, <1>6, QueueSteps
<1>7. QED
  BY SMTT(30), <1>5, <1>6

\* The set of carriers has no element, or one.
LEMMA TxInvCarriers ==
  ASSUME TxInv
  PROVE  TxCarriedOnce
<1> SUFFICES ASSUME NEW n \in Nodes, NEW t \in Txs, <<n, t>> \in submitted
             PROVE  LET carriers == {v \in Produced : v.producer = n /\ t \in payload[v]}
                    IN  IF t \in txs[n] THEN carriers = {}
                        ELSE Cardinality(carriers) \in (IF restarts = 0 THEN {1} ELSE {0, 1})
  BY DEF TxCarriedOnce
<1> DEFINE carriers == {v \in Produced : v.producer = n /\ t \in payload[v]}
<1>1. \A v : v \in carriers <=> Carries(v, n, t)
  BY SMTT(30) DEF Carries
<1> HIDE DEF carriers
<1>2. t \in txs[n] => carriers = {}
  BY <1>1 DEF TxInv
<1>3. carriers = {} \/ \E v : carriers = {v}
  <2>1. \A v, w \in carriers : v = w
    BY <1>1 DEF TxInv, Carries
  <2>2. CASE carriers # {}
    <3>1. PICK v : v \in carriers
      BY <2>2
    <3>2. carriers = {v}
      BY SMTT(30), <2>1, <3>1
    <3>3. QED
      BY <3>2
  <2>3. QED
    BY <2>2
<1>4. restarts = 0 /\ t \notin txs[n] => carriers # {}
  BY <1>1 DEF TxInv
<1>5. Cardinality(carriers) = IF carriers = {} THEN 0 ELSE 1
  BY Zenon, <1>3, FS_EmptySet, FS_Singleton
<1>6. IF t \in txs[n] THEN carriers = {}
      ELSE Cardinality(carriers) \in (IF restarts = 0 THEN {1} ELSE {0, 1})
  BY <1>2, <1>4, <1>5
<1>7. QED
  BY <1>6 DEF carriers

\* takePendingTxs: whatever arrives and however the node's clock moves, a submitted
\* transaction is queued or in exactly one vertex of its node; restarts may lose it
\* and never have it carried twice.
THEOREM TxCarriedOnceHolds == Spec => []TxCarriedOnce
<1> DEFINE Inv == BaseInv /\ TxInv
<1>1. Init => TxInv
  <2> SUFFICES ASSUME Init PROVE TxInv
    OBVIOUS
  <2>1. txs = [n \in Nodes |-> {}] /\ submitted = {}
    BY DEF Init
  <2>2. \A v \in Produced : payload[v] = {}
    BY NodesAssumption DEF Init, InitGenesis, InitConverged, Produced
  <2>3. QED
    BY <2>1, <2>2 DEF TxInv, Carries
<1>2. Inv /\ [Next]_vars => Inv'
  BY BaseStep, TxStep
<1>3. Inv => TxCarriedOnce
  BY TxInvCarriers
<1>4. QED
  BY <1>1, <1>2, <1>3, BaseInit, PTL DEF Spec

=============================================================================
