----------------------------- MODULE VertexDag -----------------------------
(***************************************************************************)
(* Vertex ingress, the pending buffer, production and gossip of the        *)
(* validators of one network (internal/consensus/dag.go, validate.go,      *)
(* rootcheck.go; cmd/node/handlers.go, vertexfetch.go), with lost,         *)
(* duplicated and reordered messages, late joiners and restarts, in the    *)
(* multi-validator mode (minValidators > 0).                               *)
(***************************************************************************)
EXTENDS Integers, FiniteSets

CONSTANTS
  Nodes,         \* validators
  Quorums,       \* the sets of producers that carry a 2/3 capped-stake majority
  Bootstrap,     \* the node started with WithBootstrap
  Liars,         \* nodes whose vertices anchor a wrong index root
  Txs,           \* transactions clients submit
  Genesis,       \* TRUE: a fresh chain; FALSE: a converged network at round 1
  Lossy,         \* TRUE: a message is delivered once or lost; FALSE: a message
                 \* may be delivered at any time, again and again, or never
  MinValidators, \* registrations that start the transition
  WindowEnd,     \* transition round + grace + buffer
  MaxRound,      \* bound: rounds produced
  MaxRestarts    \* bound: process restarts

ASSUME NodesAssumption ==
  /\ Bootstrap \in Nodes /\ Liars \subseteq Nodes /\ IsFiniteSet(Nodes)
  /\ Quorums \subseteq SUBSET Nodes
  /\ Genesis \in BOOLEAN /\ Lossy \in BOOLEAN
  /\ MinValidators \in Nat \ {0}

ASSUME BoundsAssumption ==
  WindowEnd \in Nat /\ MaxRound \in Nat \ {0} /\ MaxRestarts \in Nat

VARIABLES
  parents,      \* parent links of every vertex ever signed (its domain)
  payload,      \* transactions of every vertex ever signed
  store,        \* stored vertices, by node
  quarantined,  \* vertices the node proved wrong about their index root
  pending,      \* pendingVertices: buffered until a parent or a producer is known
  known,        \* the live validator set
  phase,        \* "init", "transition" (not yet converged), "converged"
  round,        \* d.round
  lastProduced, \* d.lastProducedRound
  trusted,      \* trustedProducers while sync mode is active, else all nodes
  txs,          \* pendingTxs
  submitted,    \* history: what was handed to SubmitTx of which node
  net,          \* vertices in flight, with their receiver
  joined,       \* nodes that run
  restarts

vars == <<parents, payload, store, quarantined, pending, known, phase, round,
          lastProduced, trusted, txs, submitted, net, joined, restarts>>

Rounds == 0..MaxRound
Produced == DOMAIN parents

\* A signed vertex; "serial" stands for what makes its hash differ from every
\* other vertex of its producer (timestamp, parents, transactions).
Vertex == [round : Rounds, producer : Nodes, serial : Nat \ {0}]

-----------------------------------------------------------------------------
(* Validation *)

\* validateProducer and validateParentsQuorum are off until minValidators.
InInit(n) == Cardinality(known[n]) < MinValidators

\* isRoundInTransitionOrBuffer
RoundRelaxed(n, r) ==
  \/ phase[n] = "transition"
  \/ phase[n] = "converged" /\ r < WindowEnd

\* Mutation: a missing parent is not a reason to wait.
VerdictIgnoringParents(n, v, S) ==
  IF ~InInit(n) /\ v.producer \notin known[n] THEN "buffer" ELSE "ok"

\* Parents of v that validateParentLink insists on and S lacks.
AbsentParents(n, v, S) == {p \in parents[v] \ S : p.producer \in known[n]}

\* validateParentsQuorum's failure.
NoKnownParent(n, v) ==
  ~InInit(n) /\ ~\E p \in parents[v] : p.producer \in known[n]

\* validateVertex on store S, for a vertex signed by an honest producer: its
\* signature, epoch window and fee summary always pass.
Verdict(n, v, S) ==
  LET checksParents == v.round > 0 /\ ~RoundRelaxed(n, v.round)
  IN  IF ~InInit(n) /\ v.producer \notin known[n] THEN "buffer"
      ELSE IF checksParents /\ parents[v] = {} THEN "reject"
      ELSE IF checksParents /\ AbsentParents(n, v, S) # {} THEN "buffer"
      ELSE IF v.round > 0 /\ NoKnownParent(n, v) THEN "reject"
      ELSE "ok"

\* The verdicts validateIndexAnchor may reach on new vertices: a wrong root is
\* caught only by a node that still holds the history to check it.
Disprovable(V) == SUBSET {v \in V : v.producer \in Liars}

\* processPendingVertices, run to its fixpoint on store S: X is what it stores.
Promotes(n, S, X) ==
  X = {v \in pending[n] \ S : Verdict(n, v, S \cup X) = "ok"}

\* What stays buffered afterwards.
StillPending(n, P, S) == {v \in P \ S : Verdict(n, v, S) # "reject"}

Latest(r, V) ==
  LET rs == {r} \cup {v.round : v \in V}
  IN  CHOOSE x \in rs : \A y \in rs : y <= x

-----------------------------------------------------------------------------
(* Production *)

KnownProducers(n, S, r) == {v.producer : v \in {x \in S : x.round = r}} \cap known[n]

\* Mutation: production resumes at the last produced round, not after it.
ResumeAtLast(n, r) == IF lastProduced[n] > 1 THEN lastProduced[n] ELSE r

NextProductionRound(n, r) ==
  IF lastProduced[n] > 0 /\ lastProduced[n] + 1 < r THEN lastProduced[n] + 1 ELSE r

\* Mutation: one producer of the previous round is enough in every phase.
HasAnyFromRound(n, S, r, clock) == KnownProducers(n, S, r) # {}

HasQuorumFromRound(n, S, r, clock) ==
  IF (phase[n] # "init" /\ clock < WindowEnd) \/ RoundRelaxed(n, r)
  THEN KnownProducers(n, S, r) # {}
  ELSE KnownProducers(n, S, r) \in Quorums

CanProduce(n, S, r, clock) ==
  /\ r <= MaxRound
  /\ \/ r = 0
     \/ /\ r > 0 /\ n = Bootstrap /\ phase[n] = "init"
        /\ KnownProducers(n, S, r - 1) # {}
     \/ /\ r > 0 /\ ~(n = Bootstrap /\ phase[n] = "init")
        /\ HasQuorumFromRound(n, S, r - 1, clock)

\* Mutation: quarantined vertices are cited like any other.
CollectAllParents(n, S, Q, r) == {v \in S : v.round = r - 1}

\* collectParents, with trustedParents and referenceableParents
CollectParents(n, S, Q, r) ==
  {v \in S : /\ v.round = r - 1
             /\ v.producer \in trusted[n]
             /\ v \notin Q}

Peers(n) == joined \ {n}
Sent(V, n) == V \X Peers(n)

\* Mutation: a stalled node does not announce its last vertex again.
NoFrontierLeaf(n) == {}

\* The vertices a stalled producer announces again.
FrontierLeaf(n) ==
  IF lastProduced[n] = 0 THEN {}
  ELSE {v \in store[n] : v.producer = n /\ v.round = lastProduced[n]}

\* Mutation: transactions stay queued after a vertex took them.
KeepPendingTxs(waiting) == waiting

\* The queue after takePendingTxs.
TakePendingTxs(waiting) == {}

\* produceVertex by node n, whose store is now S (of which Q is quarantined),
\* whose clock is "clock" and whose queue is "waiting"; "sent" is already in
\* flight.
ProduceVertex(n, S, Q, clock, waiting, sent) ==
  LET r == NextProductionRound(n, clock)
      serial == Cardinality({w \in Produced : w.producer = n}) + 1
      v == [round |-> r, producer |-> n, serial |-> serial]
  IN  IF n \in known[n] /\ CanProduce(n, S, r, clock)
      THEN /\ parents' = [w \in Produced \cup {v} |->
                            IF w = v THEN CollectParents(n, S, Q, r) ELSE parents[w]]
           /\ payload' = [w \in Produced \cup {v} |->
                            IF w = v THEN waiting ELSE payload[w]]
           /\ store' = [store EXCEPT ![n] = S \cup {v}]
           /\ trusted' = [trusted EXCEPT ![n] = Nodes]
           /\ lastProduced' = [lastProduced EXCEPT ![n] = r]
           /\ round' = [round EXCEPT ![n] = IF r + 1 > clock THEN r + 1 ELSE clock]
           /\ txs' = [txs EXCEPT ![n] = TakePendingTxs(waiting)]
           /\ net' = sent \cup Sent({v}, n)
      ELSE /\ store' = [store EXCEPT ![n] = S]
           /\ round' = [round EXCEPT ![n] = clock]
           /\ txs' = [txs EXCEPT ![n] = waiting]
           /\ net' \in {sent, sent \cup Sent(IF n \in known[n] THEN FrontierLeaf(n) ELSE {}, n)}
           /\ UNCHANGED <<parents, payload, trusted, lastProduced>>

-----------------------------------------------------------------------------
(* Handlers *)

\* AddVertex on node n, "sent" being in flight; handleVertexMessage relays what
\* AddVertex reports as fit for it.
AddVertex(n, v, sent, relays) ==
  LET S == store[n] \cup {v}
      verdict == Verdict(n, v, store[n])
  IN  \/ /\ v \in store[n] \/ verdict # "ok"
         /\ pending' = [pending EXCEPT ![n] =
                          @ \cup IF v \notin store[n] /\ verdict = "buffer" THEN {v} ELSE {}]
         /\ net' = sent
         /\ UNCHANGED <<store, quarantined, round>>
      \/ /\ v \notin store[n] /\ verdict = "ok"
         /\ \E X \in SUBSET pending[n] : \E Q \in Disprovable(X \cup {v}) :
              /\ Promotes(n, S, X)
              /\ store' = [store EXCEPT ![n] = S \cup X]
              /\ quarantined' = [quarantined EXCEPT ![n] = @ \cup Q]
              /\ pending' = [pending EXCEPT ![n] = StillPending(n, @, S \cup X)]
              /\ round' = [round EXCEPT ![n] = Latest(@, X \cup {v})]
              /\ net' = sent \cup IF relays /\ v \notin Q THEN Sent({v}, n) ELSE {}

NotIngress == <<parents, payload, known, phase, lastProduced, trusted, txs, submitted,
                joined, restarts>>

\* A gossiped vertex arrives.
Deliver(n, v) ==
  /\ <<v, n>> \in net
  /\ AddVertex(n, v, IF Lossy THEN net \ {<<v, n>>} ELSE net, TRUE)
  /\ UNCHANGED NotIngress

\* A stream to a peer breaks.
Lose(v, n) ==
  /\ Lossy
  /\ <<v, n>> \in net
  /\ net' = net \ {<<v, n>>}
  /\ UNCHANGED <<store, quarantined, pending, round, NotIngress>>

\* Parents the buffer or the store is blocked on (pendingMissingParents,
\* missingCausalRoots).
MissingParents(n) ==
  UNION {parents[v] : v \in store[n] \cup pending[n]} \ (store[n] \cup pending[n])

\* The commit loop's fetcher gets a missing vertex from a peer that stores it.
FetchMissing(n, v) ==
  /\ n \in joined
  /\ v \in MissingParents(n)
  /\ \E m \in Peers(n) : v \in store[m]
  /\ AddVertex(n, v, net, FALSE)
  /\ UNCHANGED NotIngress

\* livenessLoop: retry the buffer, then try to produce.
Tick(n) ==
  /\ n \in joined
  /\ \E X \in SUBSET pending[n] : \E Q \in Disprovable(X) :
       /\ Promotes(n, store[n], X)
       /\ quarantined' = [quarantined EXCEPT ![n] = @ \cup Q]
       /\ pending' = [pending EXCEPT ![n] = StillPending(n, @, store[n] \cup X)]
       /\ ProduceVertex(n, store[n] \cup X, quarantined[n] \cup Q, Latest(round[n], X),
                        txs[n], net)
  /\ UNCHANGED <<known, phase, submitted, joined, restarts>>

\* The retry a new validator sets off (handleRegisterValidator).
RetryPending(n) ==
  /\ \E X \in SUBSET pending[n] : \E Q \in Disprovable(X) :
       /\ X # {}
       /\ Promotes(n, store[n], X)
       /\ store' = [store EXCEPT ![n] = @ \cup X]
       /\ quarantined' = [quarantined EXCEPT ![n] = @ \cup Q]
       /\ pending' = [pending EXCEPT ![n] = StillPending(n, @, store[n] \cup X)]
       /\ round' = [round EXCEPT ![n] = Latest(@, X)]
  /\ UNCHANGED <<net, NotIngress>>

\* SubmitTx: queue a transaction, then try to produce.
SubmitTx(n, t) ==
  /\ n \in joined
  /\ <<n, t>> \notin submitted
  /\ submitted' = submitted \cup {<<n, t>>}
  /\ ProduceVertex(n, store[n], quarantined[n], round[n], txs[n] \cup {t}, net)
  /\ UNCHANGED <<quarantined, pending, known, phase, joined, restarts>>

\* handleRegisterValidator and AddValidator: a committed registration, or the
\* node's own, enters the live set; the transition starts at minValidators.
LearnValidator(n, p) ==
  /\ n \in joined /\ p \in joined \ known[n]
  /\ known' = [known EXCEPT ![n] = @ \cup {p}]
  /\ phase' = [phase EXCEPT ![n] =
       IF @ = "init" /\ Cardinality(known[n] \cup {p}) >= MinValidators
       THEN "transition" ELSE @]
  /\ UNCHANGED <<parents, payload, store, quarantined, pending, round, lastProduced,
                 trusted, txs, submitted, net, joined, restarts>>

\* markFullQuorumAchieved, from the first strict direct certification.
MarkFullQuorumAchieved(n) ==
  /\ phase[n] = "transition" /\ round[n] >= WindowEnd
  /\ phase' = [phase EXCEPT ![n] = "converged"]
  /\ UNCHANGED <<parents, payload, store, quarantined, pending, known, round,
                 lastProduced, trusted, txs, submitted, net, joined, restarts>>

\* A new node imports the vertices of a peer's snapshot (WithImportData), trusts
\* their producers until its first vertex, and adds itself (AddValidator).
Join(n, m) ==
  /\ n \notin joined /\ m \in joined /\ store[m] # {}
  /\ joined' = joined \cup {n}
  /\ store' = [store EXCEPT ![n] = store[m]]
  /\ round' = [round EXCEPT ![n] = Latest(0, store[m])]
  /\ trusted' = [trusted EXCEPT ![n] = {v.producer : v \in store[m]}]
  /\ known' = [known EXCEPT ![n] = known[m] \cup {n}]
  /\ phase' = [phase EXCEPT ![n] =
       IF Cardinality(known[m] \cup {n}) >= MinValidators THEN "transition" ELSE "init"]
  /\ UNCHANGED <<parents, payload, quarantined, pending, lastProduced, txs, submitted,
                 net, restarts>>

\* The process restarts over its own data directory (New, runResume): vertices,
\* quarantine marks and the validator set are durable, the rest is not.
Restart(n) ==
  /\ n \in joined /\ restarts < MaxRestarts
  /\ restarts' = restarts + 1
  /\ pending' = [pending EXCEPT ![n] = {}]
  /\ phase' = [phase EXCEPT ![n] = "init"]
  /\ round' = [round EXCEPT ![n] = 0]
  /\ lastProduced' = [lastProduced EXCEPT ![n] = 0]
  /\ trusted' = [trusted EXCEPT ![n] = Nodes]
  /\ txs' = [txs EXCEPT ![n] = {}]
  /\ UNCHANGED <<parents, payload, store, quarantined, known, submitted, net, joined>>

-----------------------------------------------------------------------------
(* The network *)

\* A converged network holds the vertices of round 1 on every node.
FirstLayer == {[round |-> 1, producer |-> n, serial |-> 1] : n \in Nodes}

InitConverged ==
  /\ parents = [v \in FirstLayer |-> {}]
  /\ payload = [v \in FirstLayer |-> {}]
  /\ store = [n \in Nodes |-> FirstLayer]
  /\ known = [n \in Nodes |-> Nodes]
  /\ phase = [n \in Nodes |-> "converged"]
  /\ round = [n \in Nodes |-> 2]
  /\ lastProduced = [n \in Nodes |-> 1]
  /\ joined = Nodes

InitGenesis ==
  /\ parents = [v \in {} |-> {}]
  /\ payload = [v \in {} |-> {}]
  /\ store = [n \in Nodes |-> {}]
  /\ known = [n \in Nodes |-> IF n = Bootstrap THEN {n} ELSE {}]
  /\ phase = [n \in Nodes |-> "init"]
  /\ round = [n \in Nodes |-> 0]
  /\ lastProduced = [n \in Nodes |-> 0]
  /\ joined = {Bootstrap}

Init ==
  /\ IF Genesis THEN InitGenesis ELSE InitConverged
  /\ quarantined = [n \in Nodes |-> {}]
  /\ pending = [n \in Nodes |-> {}]
  /\ trusted = [n \in Nodes |-> Nodes]
  /\ txs = [n \in Nodes |-> {}]
  /\ submitted = {}
  /\ net = {}
  /\ restarts = 0

Next ==
  \E n \in Nodes :
    \/ \E v \in Produced : Deliver(n, v) \/ Lose(v, n) \/ FetchMissing(n, v)
    \/ Tick(n)
    \/ RetryPending(n)
    \/ \E t \in Txs : SubmitTx(n, t)
    \/ \E m \in Nodes : LearnValidator(n, m) \/ Join(n, m)
    \/ MarkFullQuorumAchieved(n)
    \/ Restart(n)

Spec == Init /\ [][Next]_vars

-----------------------------------------------------------------------------
(* Properties *)

\* Stores, buffers and messages hold signed vertices only, every parent of which
\* is a signed vertex one round below (buildVertex, store.add).
TypeOK ==
  /\ Produced \subseteq Vertex
  /\ \A v \in Produced : parents[v] \subseteq {w \in Produced : w.round + 1 = v.round}
  /\ DOMAIN payload = Produced /\ \A v \in Produced : payload[v] \subseteq Txs
  /\ store \in [Nodes -> SUBSET Produced]
  /\ quarantined \in [Nodes -> SUBSET Produced]
  /\ pending \in [Nodes -> SUBSET Produced]
  /\ known \in [Nodes -> SUBSET Nodes]
  /\ phase \in [Nodes -> {"init", "transition", "converged"}]
  /\ round \in [Nodes -> 0..(MaxRound + 1)]
  /\ lastProduced \in [Nodes -> Rounds]
  /\ trusted \in [Nodes -> SUBSET Nodes]
  /\ txs \in [Nodes -> SUBSET Txs]
  /\ submitted \subseteq Nodes \X Txs
  /\ net \subseteq Produced \X Nodes
  /\ joined \subseteq Nodes
  /\ restarts \in 0..MaxRestarts

\* "Each validator produces at most one vertex per round" (docs/WHITEPAPER.md,
\* section 5.1): what nextProductionRound and lastProducedRound are for.
OneVertexPerRound ==
  \A v, w \in Produced : v.producer = w.producer /\ v.round = w.round => v = w

\* What the anchor rule's quorum intersection rests on: a vertex produced in the
\* converged network cites a quorum of the previous round.
ParentsFormQuorum ==
  ~Genesis => \A v \in Produced :
     v.round > 1 => {p.producer : p \in parents[v]} \in Quorums

\* validateParentLink buffers a child of an absent parent, "keeping the store
\* causally closed", when the validator set is known and converged.
StoreCausallyClosed ==
  ~Genesis => \A n \in Nodes : \A v \in store[n] : parents[v] \subseteq store[n]

\* processPendingVertices leaves nothing behind that could be stored: whatever
\* is buffered in the converged network waits for a parent that is not stored.
PendingIsBlocked ==
  ~Genesis => \A n \in Nodes : \A v \in pending[n] :
     v \notin store[n] /\ ~parents[v] \subseteq store[n]

\* referenceableParents: a producer never cites a vertex it proved wrong.
NeverCitesQuarantined ==
  \A v \in Produced : parents[v] \cap quarantined[v.producer] = {}

\* takePendingTxs: a submitted transaction is in the queue or in exactly one
\* vertex of the node it was submitted to; a restart may lose it (the queue is in
\* memory), but never has it carried twice.
TxCarriedOnce ==
  \A n \in Nodes, t \in Txs : <<n, t>> \in submitted =>
     LET carriers == {v \in Produced : v.producer = n /\ t \in payload[v]}
     IN  IF t \in txs[n] THEN carriers = {}
         ELSE Cardinality(carriers) \in (IF restarts = 0 THEN {1} ELSE {0, 1})

-----------------------------------------------------------------------------
(* Liveness, over links that lose messages but not for ever *)

Fairness ==
  \A n \in Nodes :
    /\ WF_vars(Tick(n))
    /\ WF_vars(\E v \in Produced : FetchMissing(n, v))
    /\ \A m \in Nodes \ {n} : SF_vars(\E v \in Produced : v.producer = m /\ Deliver(n, v))

\* The steps of a network that has converged, while no process restarts and no
\* client submits anything.
ConvergedNext ==
  \E n \in Nodes :
    \/ \E v \in Produced : Deliver(n, v) \/ Lose(v, n) \/ FetchMissing(n, v)
    \/ Tick(n)

FairSpec == Init /\ [][ConvergedNext]_vars /\ Fairness

\* However the network loses vertices, every node keeps producing: the frontier
\* rebroadcast and the fetch of missing parents repair every freeze.
EveryNodeProduces == \A n \in Nodes : <>(lastProduced[n] = MaxRound)

=============================================================================
