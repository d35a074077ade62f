----------------------------- MODULE CommitLog -----------------------------
(***************************************************************************)
(* One validator's commit path (internal/consensus/commit.go, anchor.go,   *)
(* store_committed.go, epoch.go, epoch_accumulators.go, eligible.go): the  *)
(* causal batch of a decided anchor, its application vertex by vertex, the *)
(* settlement of epochs, the commit cursor, the fetch of missing history,  *)
(* and a crash between any two writes.                                     *)
(***************************************************************************)
EXTENDS CausalDag, Sequences

CONSTANTS
  Producers,
  Staked,       \* producers with effective stake, the others earn no rewards
  EpochLength,  \* rounds per epoch, 0 for none
  InOrder,      \* TRUE: vertices arrive in the order of their rounds
  MaxCrashes    \* bound: crashes

ASSUME CommitAssumption ==
  /\ EpochLength \in Nat /\ MaxCrashes \in Nat /\ InOrder \in BOOLEAN
  /\ Staked \subseteq Producers
  /\ \A d \in Dags : \A v \in d.vertices : v.producer \in Producers

VARIABLES
  dag,        \* the vertices of the network, with the decision on every round
  stored,     \* vertices of the local store
  floor,      \* commit floor, -1 for none: rounds at or below it are history
  committed,  \* committed flags, written one by one
  mem,        \* cursor, epoch and settlement accumulators in memory
  disk,       \* the same, as last written with the cursor
  claimed,    \* commit-once records of the tracker
  applied,    \* history: transactions whose effects are in the state
  paid,       \* history: pools settled into coins, [epoch, amount]
  batch,      \* vertices of the running batch not flagged yet
  credited,   \* <<producer, round>> credited in the running batch
  job,        \* what the commit loop does next
  crashes

vars == <<dag, stored, floor, committed, mem, disk, claimed, applied, paid,
          batch, credited, job, crashes>>

Epochs == 0..(MaxRound + 1)
Rounds == 0..MaxRound
Finished == mem.cursor > MaxRound

\* commitEpochForRound
EpochOf(r) ==
  IF EpochLength = 0 THEN 0
  ELSE IF r > 0 /\ r % EpochLength = 0 THEN r \div EpochLength - 1
  ELSE r \div EpochLength

\* isEpochBoundary
EpochBoundary(r) == EpochLength > 0 /\ r > 0 /\ r % EpochLength = 0

-----------------------------------------------------------------------------
(* The causal batch *)

\* Where collectCausal stops.
Bounds(v) == v \in committed \/ v.round <= floor

\* B is what collectCausal collects from anchor a, all of it stored.
IsBatch(a, B) ==
  /\ Bounds(a) \/ a \in B
  /\ \A v \in B : \A p \in dag.parents[v] : p \in B \/ (p \in stored \cup committed /\ Bounds(p))
  /\ \A v \in B \ {a} : \E w \in B : v \in dag.parents[w]

\* What a walk down the parent links from "seeds" reaches (missingAncestors,
\* missingFrontierAbove).
Walk(seeds) ==
  LET layer[k \in 0..(MaxRound + 1)] ==
        IF k = MaxRound + 1 THEN {}
        ELSE {v \in dag.vertices : v.round = k /\ v \in seeds} \cup
             UNION {dag.parents[w] : w \in {x \in layer[k + 1] \cap stored : ~Bounds(x)}}
  IN  UNION {layer[k] : k \in Rounds}

MissingFrom(seeds) == Walk(seeds) \ (stored \cup committed)

MissingAncestors == MissingFrom({dag.anchor[mem.cursor]} \cap stored)

\* Mutation: a round that cannot be decided fetches nothing.
NoFrontier == {}

MissingFrontier == MissingFrom({v \in stored : v.round >= mem.cursor})

-----------------------------------------------------------------------------
(* Arrival *)

\* A vertex arrives by gossip (AddVertex, modelled in VertexDag).
Receive(v) ==
  /\ v \in dag.vertices \ stored
  /\ InOrder => \A w \in dag.vertices : Precedes(w, v) => w \in stored \/ w.round <= floor
  /\ stored' = stored \cup {v}
  /\ UNCHANGED <<dag, floor, committed, mem, disk, claimed, applied, paid, batch,
                 credited, job, crashes>>

\* The stalled commit loop fetches missing history: below the anchor it cannot
\* commit (onCausalStall), or below the rounds it cannot decide (onWaitStall).
Fetch(v) ==
  /\ job = "idle" /\ ~Finished
  /\ v \in MissingAncestors \cup MissingFrontier
  /\ stored' = stored \cup {v}
  /\ UNCHANGED <<dag, floor, committed, mem, disk, claimed, applied, paid, batch,
                 credited, job, crashes>>

-----------------------------------------------------------------------------
(* The commit loop *)

\* Mutation: a round whose anchor has not arrived is skipped.
SkipsMissing(a) == a = Skip \/ a \notin stored

Skips(a) == a = Skip

\* commitNextRound: the round is decided; a committed anchor's batch must be
\* local. A skipped round has nothing to apply.
CommitNextRound ==
  /\ job = "idle" /\ ~Finished
  /\ LET a == dag.anchor[mem.cursor]
     IN  \/ Skips(a) /\ batch' = {}
         \/ /\ ~Skips(a) /\ a \in stored
            /\ \E B \in SUBSET {v \in stored : ~Bounds(v)} : IsBatch(a, B) /\ batch' = B
  /\ credited' = {}
  /\ job' = "apply"
  /\ UNCHANGED <<dag, stored, floor, committed, mem, disk, claimed, applied, paid,
                 crashes>>

\* Mutation: the epoch that is open is credited.
CreditOpenEpoch(v) == [mem.live EXCEPT ![mem.epoch][v.producer] = @ + 1]

\* creditLiveness: once per producer and round of a batch.
CreditLiveness(v) ==
  IF <<v.producer, v.round>> \in credited THEN mem.live
  ELSE [mem.live EXCEPT ![EpochOf(v.round)][v.producer] = @ + 1]

\* Mutation: the commit-once guard does not look at the record.
AlwaysClaims(t) == t # NoTx

\* The commit-once guard of executeTx lets t pass.
Claims(t) == t # NoTx /\ t \notin claimed

\* applyBatch on the next vertex, up to the commit-once record.
ApplyVertex ==
  /\ job = "apply" /\ batch # {}
  /\ LET v == First(batch)
         t == dag.tx[v]
     IN  /\ mem' = [mem EXCEPT !.live = CreditLiveness(v)]
         /\ credited' = credited \cup {<<v.producer, v.round>>}
         /\ claimed' = IF t = NoTx THEN claimed ELSE claimed \cup {t}
         /\ job' = IF Claims(t) THEN "execute" ELSE "flag"
  /\ UNCHANGED <<dag, stored, floor, committed, disk, applied, paid, batch, crashes>>

\* The rest of executeTx: effects reach the state, a fee of 1 the epoch pool of
\* the vertex's round.
ExecuteTx ==
  /\ job = "execute"
  /\ LET v == First(batch)
     IN  /\ applied' = Append(applied, dag.tx[v])
         /\ mem' = [mem EXCEPT !.fees[EpochOf(v.round)] = @ + 1]
  /\ job' = "flag"
  /\ UNCHANGED <<dag, stored, floor, committed, disk, claimed, paid, batch, credited,
                 crashes>>

\* markVertexCommitted and recordProducedMember
FlagVertex ==
  /\ job = "flag"
  /\ LET v == First(batch)
     IN  /\ committed' = committed \cup {v}
         /\ batch' = batch \ {v}
         /\ mem' = [mem EXCEPT !.produced = @ \cup {v.producer}]
  /\ job' = "apply"
  /\ UNCHANGED <<dag, stored, floor, disk, claimed, applied, paid, credited, crashes>>

\* Mutation: a pool nobody can receive is dropped.
DropsLeftover(m) ==
  IF m.epoch = 0 THEN m
  ELSE [m EXCEPT !.fees[m.epoch - 1] = 0, !.live[m.epoch - 1] = [p \in Producers |-> 0]]

\* totalRewardWeight is positive.
Distributable(m, e) == \E p \in Staked : m.live[e][p] > 0

\* settleDeferredEpoch on the accumulators: the epoch that closed one boundary
\* ago is paid out, or its pool moves to the open epoch.
SettleDeferredEpoch(m) ==
  IF m.epoch = 0 THEN m
  ELSE LET e == m.epoch - 1
       IN  [m EXCEPT !.fees[e] = 0,
                     !.fees[m.epoch] = IF Distributable(m, e) THEN @
                                       ELSE @ + m.fees[e],
                     !.live[e] = [p \in Producers |-> 0]]

\* The coins distributeEpochRewards credits.
Payout(m) ==
  IF m.epoch = 0 \/ ~Distributable(m, m.epoch - 1) \/ m.fees[m.epoch - 1] = 0 THEN <<>>
  ELSE <<[epoch |-> m.epoch - 1, amount |-> m.fees[m.epoch - 1]]>>

\* advanceCommitCursor up to its write: at a boundary the epoch turns over, and
\* rewards are credited to coins at once.
AdvanceCommitCursor ==
  /\ job = "apply" /\ batch = {}
  /\ IF EpochBoundary(mem.cursor)
     THEN /\ paid' = paid \o Payout(mem)
          /\ mem' = [SettleDeferredEpoch(mem) EXCEPT !.cursor = @ + 1, !.epoch = @ + 1]
     ELSE /\ mem' = [mem EXCEPT !.cursor = @ + 1]
          /\ UNCHANGED paid
  /\ job' = "save"
  /\ UNCHANGED <<dag, stored, floor, committed, disk, claimed, applied, batch,
                 credited, crashes>>

\* saveCommitCursorBatch: cursor, epoch state and accumulators in one batch.
SaveCommitCursor ==
  /\ job = "save"
  /\ disk' = mem
  /\ job' = "idle"
  /\ UNCHANGED <<dag, stored, floor, committed, mem, claimed, applied, paid, batch,
                 credited, crashes>>

\* What New restores: loadCommitCursor, restoreEpochState, restoreAccumulators.
Restored(d) == d

\* Mutation: the commit floor lives in memory only.
CrashForgetsFloor ==
  /\ crashes < MaxCrashes
  /\ crashes' = crashes + 1
  /\ mem' = Restored(disk)
  /\ batch' = {} /\ credited' = {} /\ job' = "idle" /\ floor' = -1
  /\ UNCHANGED <<dag, stored, committed, disk, claimed, applied, paid>>

\* The process dies and comes back over its data directory.
Crash ==
  /\ crashes < MaxCrashes
  /\ crashes' = crashes + 1
  /\ mem' = Restored(disk)
  /\ batch' = {} /\ credited' = {} /\ job' = "idle"
  /\ UNCHANGED <<dag, stored, floor, committed, disk, claimed, applied, paid>>

-----------------------------------------------------------------------------

Fresh ==
  [cursor |-> 0, epoch |-> 0, fees |-> [e \in Epochs |-> 0],
   live |-> [e \in Epochs |-> [p \in Producers |-> 0]], produced |-> {}]

Init ==
  /\ dag \in Dags
  /\ stored = {} /\ floor = -1 /\ committed = {}
  /\ mem = Fresh /\ disk = Fresh
  /\ claimed = {} /\ applied = <<>> /\ paid = <<>>
  /\ batch = {} /\ credited = {} /\ job = "idle" /\ crashes = 0

Commits ==
  \/ CommitNextRound \/ ApplyVertex \/ ExecuteTx \/ FlagVertex
  \/ AdvanceCommitCursor \/ SaveCommitCursor

Next ==
  \/ \E v \in dag.vertices : Receive(v) \/ Fetch(v)
  \/ Commits
  \/ Crash

Spec == Init /\ [][Next]_vars

=============================================================================
