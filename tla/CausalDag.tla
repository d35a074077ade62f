----------------------------- MODULE CausalDag -----------------------------
(***************************************************************************)
(* A DAG of vertices with the decision on each of its rounds, and the      *)
(* order in which a batch is applied (internal/consensus/anchor.go). The   *)
(* decisions are those of anchorStatus, which module AnchorDecision models.*)
(***************************************************************************)
EXTENDS Integers, FiniteSets

CONSTANTS
  Dags,     \* the DAGs considered: [vertices, parents, anchor, tx]
  Skip,     \* the decision "no anchor"
  Txs,      \* transactions
  NoTx,     \* a vertex without transaction
  MaxRound  \* bound: rounds of a DAG

\* Vertices have a round, a producer and a hash, here a number: what matters of
\* it is the order. Parents lie one round below (buildVertex, validateParents).
ASSUME DagsAssumption ==
  /\ MaxRound \in Nat
  /\ \A d \in Dags :
       /\ \A v \in d.vertices : v.round \in 0..MaxRound /\ v.hash \in Nat
       /\ \A v, w \in d.vertices : v.round = w.round /\ v.hash = w.hash => v = w
       /\ d.parents \in [d.vertices -> SUBSET d.vertices]
       /\ \A v \in d.vertices : \A p \in d.parents[v] : p.round + 1 = v.round
       /\ d.anchor \in [0..MaxRound -> d.vertices \cup {Skip}]
       /\ Skip \notin d.vertices
       /\ d.tx \in [d.vertices -> Txs \cup {NoTx}]

\* The order of a batch: causalBatch sorts by round, then by hash.
Precedes(v, w) == v.round < w.round \/ (v.round = w.round /\ v.hash < w.hash)

\* Mutation: the batch is walked from the anchor down.
Last(B) == CHOOSE v \in B : \A w \in B \ {v} : Precedes(w, v)

First(B) == CHOOSE v \in B : \A w \in B \ {v} : Precedes(v, w)

\* P is the causal history of a: a, closed under parents, and nothing that no
\* member cites. Parents lie in lower rounds, so there is exactly one such set.
IsPast(d, a, P) ==
  /\ a \in P /\ P \subseteq d.vertices
  /\ \A v \in P : d.parents[v] \subseteq P
  /\ \A v \in P \ {a} : \E w \in P : v \in d.parents[w]

=============================================================================
