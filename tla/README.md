# BluePods: a TLA+ verification development

BluePods is a leaderless DAG blockchain. Every validator produces one vertex per
round that cites the vertices of the round before. Each round has one designated
producer, its anchor; a round whose anchor is certified by the citations of the
next round commits the anchor's causal history as one ordered batch, and the
transactions of the batch are executed in that order on every node.

These modules translate the Go code under `src/`, mostly
`src/internal/consensus`. `PROJECT.json` names, for each definition, the lines it
models, for each property the run that checks it and a mutation of the code that
breaks it, and for each hazard the line where it bites.

## The system

| part | state | operations | modelled by |
|---|---|---|---|
| anchor decision | the vertex store, read only | `anchorStatus` and what it calls | `AnchorDecision` |
| production and reception | store, pending buffer, round counters, transaction queue, quarantine | `AddVertex`, `produceVertex`, the liveness tick, fetch of parents, `SubmitTx`, join, restart | `VertexDag` |
| commit path | cursor, committed flags, commit-once records, accumulators | `commitNextRound`, `applyBatch`, `advanceCommitCursor`, `transitionEpoch` | `CommitLog`, against `CommitOrder` |
| snapshot sync | the source's cut, the joiner's store, floor, adopted mark | export, import, resume | `SnapshotSync` |
| ledger | coins, deposits, bonds, delegations, pools, supply | `executeTx`, system calls, settlement, issuance, removals | `Ledger` |
| hierarchy and names | tracker edges and counts, bodies, registry, index trees | declared operations, pod calls, lease sweep, rebuild | `DeclaredOps` |
| committee | members, three holder snapshots, eligible sets, strict latch, what is on disk of them | registration, bonds, boundary, restart, join | `Committee` |
| attestation and daemon | bodies and signatures of holders, verdicts, the daemon's view | sign, collect, verify within grace, fetch | `Attestation` |
| mesh, relay, ingress gate | peer map and loops, filter and blocklist, per-address counters | dial, accept, disconnect, gossip, admit | `Mesh`, `Relay`, `Gate` |
| client door | status index, outcome channel, faucet counter | submit, faucet, commit, prune, restart | `Submissions` |
| transaction tables | one transaction, rebuilt at every hop | build, sponsor, wrap, carry, verify, execute | `TxHops` |
| messages and records | bytes of a stream or of the data directory | encode, frame, dispatch, decode | `Layouts`, `Codecs`, `Wire` |
| index proofs, join verification, pods, command line | | | see *Not modelled* |

The parts meet at four places. The decision reads the store that reception fills
and drives the commit cursor. The commit path applies batches to the ledger, the
tracker and the registry, and its writes are what a crash separates. The index
root of the committed state is anchored in every vertex, and reception
quarantines vertices whose root it can disprove. A snapshot is a cut of all of
them under one lock.

What makes it hard: vertices arrive in any order, repeatedly or never; a decision
is taken on what has arrived; the commit of one round is dozens of separate
writes; transactions are claimed before they take effect; a boundary settles an
epoch that closed one boundary earlier; a joiner starts from somebody else's cut,
and with a validator set nobody else has; holders change while signatures are
being collected; connections cross, die and are dialled again.

## Modules

**`AnchorDecision`** (`anchor_decision.go`, `anchor.go`). The state is the store
of one node (`stored`, `parents`); `AddVertex` adds any vertex that reception
would admit. The decision functions are operators of the store. Two nodes are two
stores of one DAG whose union is again a store, so agreement is that no decision
changes while a store grows: `CommitFinal`, `CertifiedAnchorFinal`, `BlameFinal`,
`BlameImpossibilityFinal`. Quorums are any upward-closed,
intersecting family; hashes are any injective ranking.

**`VertexDag`** (`dag.go`, `validate.go`, `rootcheck.go`, `cmd/node/handlers.go`).
All nodes and the messages between them. `Deliver`, `Lose`, `FetchMissing` and
`RetryPending` are the ways a vertex reaches a store through `AddVertex`; `Tick`
is one turn of the liveness loop with its rebroadcast and production;
`LearnValidator` and `MarkFullQuorumAchieved` stand for the commits that end the
bootstrap phase. A liar's vertices carry a wrong index root, which a node may or
may not be able to disprove when they arrive.

**`CausalDag`, `CommitOrder`, `CommitLog`, `CommitProperties`**. `CausalDag` defines the causal
history of a vertex in a given DAG. `CommitOrder` is the abstract promise: rounds
conclude one after the other, and each folds in, in the one order of round and
hash, what its anchor reaches and no earlier round took. `CommitLog` is the commit
loop: the walk with its missing frontier and fetch, `ApplyVertex`, `ExecuteTx`,
`FlagVertex`, `AdvanceCommitCursor`, `SaveCommitCursor`, and `Crash` between any
two of them. `mem` and `disk` are the two copies of the cursor batch.
`CommitProperties` states what the loop promises; its refinement maps the flags and
the cursor on disk to the abstract state.

**`SnapshotSync`** extends `CommitLog` for the joiner and instantiates it again
for the source over the same DAG. `Join` imports the exported window with its
flags and raises the floor; `MarkStateAdopted` makes a restart resume.

**`Ledger`**. One record holds all accounts; `CommitVertex` runs one transaction
through fee deduction, checks, handler or pod, and settlement, `TransitionEpoch`
runs the thermostat, the distribution and the removals. Amounts are exact
integers; divisions round down as in the code.

**`DeclaredOps`**. `BeginOps`, `ValidateOp`, `RejectOps`, `StartApply`, `ApplyOp`,
`EndOps` are the two passes of a list; an `ApplyOp` followed by `Crash` may leave
any prefix of its writes (`Partials`). `SettlePod`, `ExecuteSucceeds`,
`ExecuteFails` are the pod-call channel, `TransitionEpoch` the sweep. A restart
rebuilds the index from what is on disk.

**`Committee`** (`epoch.go`, `regime.go`, `eligible.go`, `epoch_persist.go`, the
validator transactions of `commit.go`, `cmd/node/init.go`, `registration.go`,
`resume.go`). Two nodes apply the same committed vertices: `ref` lived through all
of them; `node` is the founder, which may be restarted, or a validator that joins,
adds itself to its live set before its registration commits, and may be restarted.
A node's committee is one record; `disk` is what the cursor batch has saved of it.
`CommitteeAgrees` compares what the two serve for the coming rounds. The constant
`Avoid` names the four cases in which they do differ (see the table below).

**`Attestation`** (`internal/aggregation`, `internal/attest`, `pkg/daemon`,
`cmd/node/aggregation.go`, `cmd/node/clienthandlers.go`). One replicated object,
its holders by epoch, a client's daemon, and nodes that apply a given log at
different speeds.

**`Mesh`** (`internal/network/node.go`, `peer.go`, the dialers of `cmd/node`). The
connections between two nodes: which of them each end's map names, which goroutine
loops are waiting or dialling, and what each end has noticed of the other's death.

**`Relay`** (`peer.go`, `dedup.go`, `blocklist.go`, `cmd/node/handlers.go`). One
payload in a full mesh with time: copies in flight, checks between their two
look-ups, the filter's window, partitions.

**`Gate`** (`clientconn.go`). The counters of one address against the connections
and streams that are really open.

**`Submissions`** (`clienthandlers.go`, `txstatus.go`, `processCommitted`). One
node's status index and faucet counter over the order in which copies of a
transaction commit.

**`TxHops`** (`pkg/client`, `pkg/daemon`, `internal/genesis/transaction.go`,
`internal/validation`, `txauth.go`, `build.go`, `hash.go`, `internal/state`). A
transaction table as a function on its fields, and every rebuild of it.

**`Layouts`, `Codecs`, `Wire`**. A format is a sequence of steps; the encoder's and
the decoder's are taken from the two Go functions separately, with the length
checks where the code has them. `Wire` sends one message through a frame that may
be cut, to the handler that its first bytes select.

`MC*` modules give the constants their small values and put models that share no
state side by side in one run: `MCAnchor` the two regimes, `MCDag` a converged and
a fresh network, `MCExecution` the loads of `Ledger` and `DeclaredOps`, `MCNode`
the six services around consensus. `MCDags` enumerates the DAGs of the commit and
snapshot runs.

## Runs

| run | instance | shows |
|---|---|---|
| `anchor` | 3 holders under the strict regime, or 2 under the relaxed one, 4 rounds, every delivery order | certificates and blame exclude each other; certificates and stored blame are final; far anchors carry the candidate; a relaxed decision is never replaced |
| `dag` | 3 converged nodes, 4 rounds, any delivery; or founder and joiner from genesis with a producer of wrong roots, a transaction, a restart | one vertex per round, quorum parents, closed stores; no citation of a disproved vertex, also after the restart; no transaction carried twice, or lost but by the restart |
| `dag_live` | 2 nodes, lossy links | every node reaches the last round |
| `commit_crash` | every DAG of 3 rounds and 2 producers, an epoch per round, 2 crashes, losses | the loop implements `CommitOrder`; no effect happens twice; accumulators are exact until a crash; a stored tip gets every round committed |
| `sync` | window of one round, 4 rounds, an epoch per round, a crash at any point | the joiner ends in the source's state if the window covers what the source has not committed; no walk leaves the window |
| `committee` | 3 validators, 3 boundaries, churn limit 1, 3 validator transactions, a restart or a join | outside `Avoid`, both nodes serve the same holders, candidates and regime; a decided round keeps its regime |
| `execution` | 10 transactions on 4 objects with a crash at any write, 9 on 2 names and 4 objects over 4 epochs, workloads of 5 to 7 transactions on coins and stakes | no cycle, an exact index, control and names change hands only by their owner; until the crash exact counts and bodies; the supply identity |
| `node` | each service by itself: every message and record with 0 to 2 elements, cut anywhere; every transaction of the client library; 2 transactions on an object over 3 epochs; 3 peers; 3 connections and 3 streams; 2 submissions and 2 faucet requests | messages are read whole or not at all, and short records soundly; nothing on its way refuses or alters a transaction; nodes agree on proofs and accept fresh ones, and holders keep up; the filter drops only what was handled, and handles once in its window; the gate counts what is open; no pending status outlives its commit |
| `mesh` | 2 nodes, 5 connections, a loss, a stop and restart | both maps end with an open connection and keep it |
| `anchor_commit_final` | 3 honest holders, strict regime | violated: a round committed through a later anchor's history is skipped by a node that holds one vertex more |
| `attested_version` | the object of `node` | violated: a transaction that declares the tracked version runs on an attested body of an older one |
| `committee_restart` | `committee` with restarts right after a boundary | violated: the validators the boundary removed are back on the restarted node, and enter its next committee |

### Where code and comments disagree

Three disagreements have a run and a finding in `PROJECT.json`. The others were met
while the invariants were being stated, and are why these carry the hypotheses
they do. Each appears as a counterexample when the change named here is made to a
run; the comment quoted is the claim it refutes.

| change | counterexample | claim |
|---|---|---|
| `AnchorCommitFinal.cfg` with `RotatingDesignation`; a skipped round stays skipped | the adjacent anchor skips a round that a late supporter certifies | "identical ordered log regardless of the order vertices arrived in", `commit.go:49` |
| four holders, one in `Faulty`, two copies; `CertifiedAnchorFinal` | both vertices of an equivocating producer are certified, the lower hash arrives second | "cannot make two nodes certify different vertices", `WHITEPAPER.md:164` |
| the same, `BlameFinal` | a second vertex withdraws its producer's blame | "more evidence only adds blamers", `anchor_decision.go:414` |
| `VertexDag` from genesis with 2 nodes and a restart; `OneVertexPerRound` | a restarted node signs a second vertex for a round it produced | "Always produces sequentially from the last produced round", `dag.go:1200` |
| the same; `ParentsFormQuorum` | a restarted founder is in the bootstrap phase again | "full quorum is required", `dag.go:1337` |
| `Dag.cfg` with `Liars = {3}` | parents are filtered after the quorum is counted | "already enforced the real quorum", `validate.go:345` |
| the fresh network of `dag` with three rounds, no restart, transaction or wrong roots; `lastProduced` grows by more than one | round 0 counts as never produced | "Always produces sequentially", `dag.go:1200` |
| `FeesAccounted`, `LivenessExact` without `crashes = 0` | flags outlive the accumulators of their batch | "keeps a restart's reward mint exact", `commit.go:327` |
| the same run; every member of `claimed` is in `applied` when idle | the record outlives the effects it stands for | "The first occurrence proceeds", `commit.go:690` |
| the same run; no epoch occurs twice in `paid` | a repeated boundary pays again | "re-transitions", `commit.go:290` |
| `commit_crash` on a DAG with a late citation; settled epochs stay empty | a vertex cited two boundaries later is credited to a settled epoch | "its liveness/fee bucket is complete", `epoch.go:140` |
| `commit_crash` on a DAG with two vertices of one producer and round | the deduplication is per batch | "equivocation cannot double it", `epoch.go:181` |
| `JoinerAgrees` without `covered` | the window is measured from the highest round, not from the cursor | "already-applied history", `store.go:383` |
| `SnapshotsFrom = 0` | cursors 0 and 1 export the same last decided round | "keeps the exported cursor semantic aligned", `sync/manager.go:119` |
| a DAG with two carriers of the transaction; `TxAppliedOnce` | commit-once records are not exported | "never applied twice", `commit.go:691` |
| `WindowClosed` without `fresh` | a second join keeps the flags of the first | "EXACTLY when its entry carries the committed flag", `store.go:356` |
| `execution` with a workload that has a creation that refers to somebody else's object | the deposit is debited and dropped | "no exit of the commit path may drop a debited deposit", `ops.go:30` |
| ... with a pod that creates fewer objects, or with another replication, than declared | the deposit locked is not the one debited | "never leaks from the supply identity", `commit.go:1041`; "the debited storage equals the stamped deposit", `commit.go:1120` |
| ... with two delegations to one validator; delegated total and positions | the second position overwrites the first | "never raised without a funded position", `commit.go:1731` |
| ... with the deletion of a coin; `coinsTotal` and the coins | `coins_total` still counts it | "sum of every coin's balance", `coins.go:32` |
| the same; self-stake is 0 or at least `MinStake` | rewards of a coinless validator become a bond below the floor | "can never sit beneath the floor", `commit.go:1709` |
| `ParentsTracked`, `StagedIsApplied`, `BodyMatches` without `crashes = 0` | edge, counts and body are separate writes | "neither channel can orphan a child", `commit.go:863`; "exactly the sequence of states", `ops.go:92`; "no reader on this node ever sees", `ops.go:117` |
| `ParentsTracked` without the condition on `via` | a name outlives its object and is used as a parent | "always ends at a key", `WHITEPAPER.md:48` |
| `RefsLive = FALSE` and a reference to an object that does not exist | a tracker entry no tree was fed | "keeps a correct index current", `indexing.go:19` |
| `Avoid` without `"rejoin"` | a validator that left is a committed member for good, so its own early registration enters the committee it freezes after it joins again | "excludes the phantom on every node alike", `epoch.go:522` |
| `Avoid` without `"unsaved"` | a joiner restarted before the epoch state is first written resumes in epoch 0, without holders or latch | "epoch state, live validator set and index included", `resume.go:66` |
| `Avoid` without `"founder"` | a founder that unbonded its whole stake, or left, is given the genesis stake again | "fires ONLY on a fresh chain", `dag.go:869` |
| `Txs` of `Committee` with a bond before the registration | the bond takes effect on the node that has added itself, and nowhere else | "committed-deterministic", `epoch.go:510` |
| `Submissions`; no applied transaction is shown failed | a later copy that fails for its own expiry overwrites the status | "committed but did not apply", `messages.go:728` |
| `Gate`; with no connection and no stream open the scope is gone | a stream that outlives its last connection leaves the scope behind, since only the end of a connection deletes one | "drops the scope when fully idle", `clientconn.go:93` |
| `Submissions`; with no split in flight `pickReserveVersion` is the committed version | two splits commit in the other order, one is refused, and the counter stays ahead | "self-heals to committed state", `clienthandlers.go:534` |

### Bounds

- Rounds, copies, crashes, restarts and epochs are capped by `Max*` constants. A
  decision looks at a round, its successor and one later anchor, so four rounds
  hold the direct rule, the adjacent anchor and one beyond; the silence span is
  scaled down to 1 with them.
- Three holders with equal stake need two of three, the smallest system in which
  a quorum is neither one node nor all.
- `commit_crash` takes every DAG of its size rather than one. With an epoch per
  round, three rounds reach the deferred settlement and its leftover; the fourth
  round of `sync` reaches the next one.
- Amounts in `Ledger` are small but do not divide evenly, so every rounding case
  occurs. The saturation of `safeAdd` and `safeMul` is out of their reach and is
  not modelled. A behaviour commits the transactions of one workload, which keeps
  the orders of each small enough to enumerate.
- `WalkDepthLimit` is 2 in `execution`, so that chains beyond the limit occur.
  `CountModulus` is 8 for 2^32. `MaxNameTxs` bounds the name transactions of a
  behaviour, chosen freely among the nine.
- The fresh network of `dag` sets `MinValidators` to 1, so that the founder buffers vertices of
  a validator it has not seen registered; with 2 it takes them unchecked, and the
  run passes as well.
- Six rounds of `committee` are three boundaries: a registration that waits for the
  churn limit, the settlement that is deferred by an epoch and the committee frozen
  after it all happen. Every decided round commits at most one vertex with at most
  one validator transaction; two vertices in a round pass as well.
- `node` turns the holder set of the object over at each boundary and back, and
  lets one node lag by a round. The filter's window is three ticks and a delay one,
  so that entries expire while copies are in flight.
- Two nodes are enough for `mesh`: the map has one entry per remote key and treats
  the keys apart. Five connections are what crossing dials of both ends, their
  retries and one loss can have open or unnoticed at a time.
- Deadlock is checked for `VertexDag`, `Mesh` and the services of `node`, where
  something is always possible or the end is an action of its own (`Done`, `Quiet`);
  the others stop when their bounded input is used up.

### Fairness

`dag_live` assumes weak fairness of the tick (`livenessLoop` is a ticker) and of
the fetch of missing parents (re-armed every tick), and strong fairness of
delivery from one node to another: the frontier is rebroadcast on every tick, so a
link that does not lose everything delivers eventually. It has no restarts: a
restarted node counts rounds from 0 again, and two nodes that need each other do
not recover from that (`Restart` added to `ConvergedNext` shows it). `commit_crash`
assumes weak fairness of the commit loop and of the fetcher, which a stalled cursor
triggers again on every tick; gossip is not assumed to deliver anything. `mesh` assumes weak
fairness of the goroutines (accept, disconnect, the delay of a reconnect loop, the
retries of a dial), that a stopped node is started again, and strong fairness of a
successful reconnection: the loop never gives up, so of its attempts one gets
through. Losses and stops are bounded, so that the network is quiet in the end.

## Proofs

The theorems hold for every value of the constants that the named assumptions
allow: any number of nodes and rounds, any quorum family, any DAG, any
transaction set. `TLAPS` checks them to the last leaf.

The prover cannot instantiate an induction theorem, so every argument by induction
takes a least counterexample instead: a least number (`LeastNat`) or a finite set
with the fewest elements (`LeastSet`). `CommitLogProofs` and `ServiceProofs` also
unfold `SumFunctionOnSet`: it exists, takes its elements in any order, and changes by
what one summand changes. Each proof module states the lemmas of this kind that it
uses, so that it can be checked by itself.

**`NodeProofs`, the anchor decision.** `CertificateExcludesBlameHolds` rests on two
facts: supporters of a vertex never blame its round, because a producer's citations
are united, and two quorums intersect. `CertificatesAccumulateHolds` needs that
supporters only grow. The other theorems assume no equivocation (`Faulty = {}`), and
all but `CertifiedAnchorFinalHolds` validated parents (`Converged`). Their invariant
`ClosedStore` adds to the types that parents are stored before children and that a
producer has one vertex per round. `FarAnchorsCarryCandidateHolds` is what
`scanPastUndecided` relies on: every vertex has a quorum of parents
(`QuorumParents`), so among those of a vertex two rounds above an undecided round one
cites the candidate, as otherwise they would blame the round (`GrandchildCites`); and
the layers of a causal history reach down to there (`LayersDescend`). The history is
a recursive function, unfolded layer by layer with `LeastNat`.

**`VertexDagProofs`.** Every action that changes a store is reduced to one of two
shapes, `Ingress` and `Production` (`StepKinds`), so that the invariants are
proved against two shapes instead of ten actions. `BaseInv` carries types, the
serial numbers that make a new vertex new, and that a vertex cites its producer's
store and nothing quarantined. `OneVertexPerRoundHolds` (no restarts) adds that
everything a node produced lies below its clock. `StoreCausallyClosedHolds` and
`PendingIsBlockedHolds` are for a converged network outside the bootstrap window,
`ParentsFormQuorumHolds` also without restarts and liars: the table above shows
that these last hypotheses are needed. `TxCarriedOnceHolds` has no hypothesis: a
submitted transaction is queued or in exactly one vertex of its node, and only
restarts lose it. A step is to the queue a submission, a vertex that takes all of it,
or a restart (`QueueSteps`).

**`CommitLogProofs`.** The inductive invariant ties the two copies of the cursor
to the step of the loop (`CursorsAgree`), says that the rest of the batch is what
the anchor still reaches (`BatchLeft`), and that flags are causally closed. From
it, `CommittedClosedHolds`, and `CommitsInOrderHolds`: each step of the loop, a
crash included, is a step of `CommitOrder` or a stutter. `TxAppliedOnceHolds` rests on
the records being ahead of the effects: everything applied is recorded, and what is
about to execute is recorded and was not applied (`OnceInv`). `FeesAccountedHolds` and
`LivenessExactHolds` speak of the time until a crash. The first follows the sum of
the fee pools through execution, the deferred settlement and its leftover. The
second supposes that no producer has two vertices in a round (`OneVertexEach`), and
relates every unsettled bucket to the flagged vertices and the one at hand.

**`SyncProofs`.** `WindowClosedHolds`: the source's flags are closed under parents, so
those of the exported window are closed down to its floor, and what the joiner flags
later is what a walk collected between these and its anchor (`WindowInv`, `Walled`).
`JoinerAgreesHolds` compares two nodes that run at their own speed. Where a node
stands is a record of what bounds its walks and what its loop does next (`Stand`), and
a step of the loop is a function of that record and the DAG (`Goes`), whatever has
arrived. The snapshot puts the joiner where the source stands (`JoinMeets`); from then
on one of the two lies ahead of the other on one way (`OnOneWay`), because who goes on
either takes the step the other took or extends the way (`WayKept`). The cursor grows
along the way (`Rank`), so two idle nodes with one cursor stand at one place. The
theorem supposes that every transaction has one carrier (`OneCarrier`) and that
snapshots are taken past round 0; the table above has the counterexample to either.

**`DeclaredOpsLemmas`, `DeclaredOpsProofs`.** `TypeCorrect` and `LeasesLiveHolds`
from `TypeOK /\ WorkOK /\ LeasesLive`; the work record is needed because a lease is
validated in one pass and written in another, with the recheck of the apply pass
(`StillFits`) in between. The other theorems suppose that mutable references name
tracked objects (`RefsLive`). Their invariant `HInv` says what the state is
(`StateOK`: edges without loops, an index of exactly what is tracked, and until a
crash exact counts and matching bodies) and what the list in progress knows
(`ListOK`: the states its operations were validated against are a run of these
operations that passes through the current state, and during validation ends in what
the overlay shows). The readings carry a fact from the first pass to the second: the
walk for a loop is made when an operation is validated, the edge is written when it
is applied. `IdsAssumption`, that a created object is new and created by one
transaction, is `computeObjectID`, which hashes the transaction. `ParentsTracked`
speaks of the time until a transaction takes its parent from a name, which the table
above shows to be needed. `DeclaredOpsLemmas` has the facts on walks, overlays and
single operations, and the two theorems that need no more; `DeclaredOpsProofs` has
the steps and the theorems that rest on `HInv`.

**`CommitteeProofs`.** `RegimeIsFinal` is `RegimeFinal` for every committee, epoch
length and delay. Each operation either keeps the latch and the round it starts at,
or arms an unset latch past the round being applied (`Arms`); the lemmas establish
this for the refreeze, the member record, each validator transaction and the
boundary. Without the comparison with the round in `latchStrictRegime` a delay of 0
would make the round being applied strict halfway. `CommitteeAgreesHolds` relates
two whole committees. Its invariant `AgreeInv` pairs them field by field, lets the
live set of a joiner hold itself in advance (`Covers`), and says that the disk
determines all that a restart reads (`DiskOK`). It supposes that the four cases of
`Avoid` are avoided (`AvoidAll`), each of which the table above refutes, and that
the absent value is none of the values stored (`NilApart`).

**`ServiceProofs`, attestation.** `VerdictsAgreeHolds`: a verdict is a function of
the log up to its round (`Determined`), so two nodes cannot differ in one.
`HolderKeepsUpHolds` carries along that a node which has always been a holder has a
body of the tracked version and no fetch that could overwrite it (`HolderCurrent`).
`FreshProofAcceptedHolds` rests on `AtxOK`: a proof in the log has signatures of a
quorum of the holders it was collected from, in an epoch not past that of its round.
Such a quorum passes the verifier, so what is left is the arithmetic of epochs and
the grace window, which must be at most an epoch and a round long (50 rounds against
1000 in the defaults). `EpochsAssumed` says that epochs have a length and that each
has a ranking of nodes.

**The services.** The relay's filter (`NodeProofs`): `FilteredWasHandledHolds` and
`HandledApartHolds`, for every window and delay of a check; the invariant says that
the entry of a node is the stamp of the last call of its handler, or gone once that
stamp is a window old, and that a check works with a stamp no older than its delay.
The status index (`NodeProofs`): `PendingUndecidedHolds`; a decided transaction has
its final status, or its outcome is still in the channel. The ingress gate
(`ServiceProofs`): `CountsExactHolds`, where a scope is dropped only when its last
connection goes and the other counters are zero.

Left to the model checker:

- liveness under fairness (`EveryNodeProduces`, `FetchUnblocks`, `MeshHeals`), which
  the prover does not reach;
- `SupplyIdentity`: the settlement of `Ledger` folds operators over sequences, which
  needs induction over data, and the identity depends on the workload (see the table);
- the formats and the transaction tables (`DeliveredWhole`, `ShortReadSound`,
  `ExecutedAsSigned`, `HonestNeverRefused`), whose modules are recursive;
- `RelaxedDecisionFinal`, which is about the whole scan over later anchors and holds
  for vertices that arrive in time.

`FreshTxCarriedOnce` and `FreshNeverCitesQuarantined` are `TxCarriedOnceHolds` and
`NeverCitesQuarantinedHolds` in one of the models that a run puts side by side.

## Not modelled

- Signatures, hash functions and BLS are identities of what was signed or hashed;
  the rendezvous order is a given ranking.
- The sparse Merkle trees, their proofs, the index manager's history of roots and
  what is checked with them (the checkpoint gate of a join, the light client of
  `pkg/client`): statements about a recursive structure over 256-bit keys. The
  feed points of the trees are in `DeclaredOps`, their records in `Codecs`.
- The WebAssembly runtime and gas metering; a pod's result is a choice among the
  outputs the transaction sets describe.
- The vertex store's round index, and the loss of unsynced writes in a power
  failure: a crash of the models is the end of a process, and earlier writes
  survive it.
- The buffer of vertices gossiped during a join, and chunked transfer; the limit on
  the size of a frame.
- Equivocation in the runs of the decision (the theorems that allow it say so), and
  jailing, which no committed transaction triggers.
- The command line, dashboards, events and logging; generated accessors; the test
  harness.
