------------------------------ MODULE Committee ------------------------------
(***************************************************************************)
(* The committee: members, stakes, the three holder snapshots with the     *)
(* eligible sets frozen beside them, and the strict latch (epoch.go,       *)
(* regime.go, eligible.go, epoch_persist.go, the validator transactions of *)
(* commit.go). Two nodes apply the same committed vertices: `ref` lived    *)
(* through all of them, `node` is the founder, which may be restarted, or  *)
(* a validator that joins from a snapshot, announces itself and may be     *)
(* restarted. What both serve for a round must be the same.                *)
(*                                                                         *)
(* Delegations, the ledger and production are elsewhere (Ledger,           *)
(* VertexDag); a restart is a clean stop between two rounds (CommitLog has *)
(* the crashes inside of one).                                             *)
(***************************************************************************)
EXTENDS Integers, FiniteSets

CONSTANTS
  Members,        \* validator keys, numbered in byte order
  Founder,        \* the validator of the genesis state
  Coined,         \* those whose registration designates a reward coin
  GenesisStake, MinStake, MinValidators,
  EpochLength,    \* rounds per epoch
  MaxChurn,       \* maxChurnPerEpoch, 0 for no limit
  Delay,          \* effectiveGrace + effectiveBuffer
  Avoid,          \* the cases of AvoidCases a run leaves out
  Nil,            \* a nil map or snapshot
  MaxRounds,      \* bound: rounds decided
  MaxVertices,    \* bound: vertices in a batch
  MaxTxs,         \* bound: validator transactions
  MaxStake,       \* bound: highest stake
  MaxRestarts     \* bound: restarts of the node

AvoidCases == {"boundary", "unsaved", "rejoin", "founder"}

ASSUME CommitteeAssumption ==
  /\ Members \subseteq Nat /\ Founder \in Coined /\ Coined \subseteq Members
  /\ EpochLength \in Nat \ {0} /\ Delay \in Nat /\ MinValidators \in Nat
  /\ MaxChurn \in Nat /\ Avoid \subseteq AvoidCases

VARIABLES
  cursor,   \* lastCommitted of both nodes: the next round to decide
  applied,  \* vertices of the cursor's batch applied so far
  ref,      \* the state of a node that lived through the committed history
  node,     \* the state of the other node
  disk,     \* what the other node has on disk
  self,     \* the key of the other node
  up,       \* it runs
  announced,\* it has submitted its registration since it joined
  txs, restarts

vars == <<cursor, applied, ref, node, disk, self, up, announced, txs, restarts>>

-----------------------------------------------------------------------------
\* A validator set is a function from its keys to their self-stakes.

Without(vs, S) == [m \in DOMAIN vs \ S |-> vs[m]]
Stake(vs, m) == IF m \in DOMAIN vs THEN vs[m] ELSE 0

\* ValidatorSet.Add: a known key keeps its stake.
Add(vs, m) == [k \in DOMAIN vs \cup {m} |-> Stake(vs, k)]

\* sortedAdditions, sortedMemberKeys with a limit: the lowest keys.
Lowest(S, limit) ==
  IF limit = 0 THEN S ELSE {m \in S : Cardinality({k \in S : k < m}) < limit}

\* publishEpochMirror
Published(s) ==
  [s EXCEPT !.mirror = [epoch |-> s.epoch, holders |-> s.holders,
                        prev |-> s.prev, next |-> s.next]]

NoMirror == [epoch |-> 0, holders |-> Nil, prev |-> Nil, next |-> Nil]

\* New over an empty directory
Fresh(vs) ==
  [live |-> vs, members |-> {}, additions |-> {}, removals |-> {}, epoch |-> 0,
   holders |-> Nil, prev |-> Nil, next |-> Nil, produced |-> {}, eligible |-> Nil,
   prevEligible |-> Nil, nextEligible |-> Nil, latched |-> FALSE, strictStart |-> 0,
   dirty |-> FALSE, mirror |-> NoMirror]

-----------------------------------------------------------------------------
\* The regime (regime.go)

\* freezeGenesisHolders: a member the live set lost keeps its frozen record.
FreezeGenesisHolders(s) ==
  LET frozen == IF s.holders = Nil THEN <<>> ELSE s.holders
      kept   == {m \in s.members : m \in DOMAIN s.live \cup DOMAIN frozen}
  IN  [m \in kept |-> IF m \in DOMAIN s.live THEN s.live[m] ELSE frozen[m]]

\* committedStakedMemberCount
CommittedStakedMemberCount(s) == Cardinality({m \in s.members : Stake(s.live, m) > 0})

\* Mutation: the latch is armed again whenever its condition holds.
LatchEveryTime(s, r) == [s EXCEPT !.latched = TRUE, !.strictStart = r + Delay, !.dirty = TRUE]

\* latchStrictRegime
LatchStrictRegime(s, r) ==
  IF s.latched THEN s
  ELSE [s EXCEPT !.latched = TRUE, !.dirty = TRUE,
                 !.strictStart = IF r + Delay < r + 1 THEN r + 1 ELSE r + Delay]

\* refreezeGenesisRegime, the part of the genesis epoch
RefreezeHolders(s) ==
  IF s.epoch # 0 THEN s
  ELSE Published([s EXCEPT !.holders = FreezeGenesisHolders(s), !.eligible = s.produced,
                           !.dirty = TRUE])

\* The bootstrap-complete signal of refreezeGenesisRegime
BootstrapComplete(s) == MinValidators > 0 /\ CommittedStakedMemberCount(s) >= MinValidators

\* Mutation: a latched regime is refrozen and latched again.
RefreezeAlways(s, r) ==
  LET frozen == RefreezeHolders(s)
  IN  IF BootstrapComplete(frozen) THEN LatchEveryTime(frozen, r) ELSE frozen

\* refreezeGenesisRegime
RefreezeGenesisRegime(s, r) ==
  IF s.latched THEN s
  ELSE LET frozen == RefreezeHolders(s)
       IN  IF BootstrapComplete(frozen) THEN LatchStrictRegime(frozen, r) ELSE frozen

\* recordCommittedMember
RecordCommittedMember(s, m, r) ==
  IF m \in s.members THEN s
  ELSE RefreezeGenesisRegime([s EXCEPT !.members = @ \cup {m}, !.dirty = TRUE], r)

\* SeedGenesisValidator: on every start of the founder.
SeedGenesisValidator(s, r) ==
  LET vs == Add(s.live, Founder)
      seeded == IF vs[Founder] = 0 THEN [vs EXCEPT ![Founder] = GenesisStake] ELSE vs
  IN  RecordCommittedMember([s EXCEPT !.live = seeded], Founder, r)

-----------------------------------------------------------------------------
\* The validator transactions and the produced set (commit.go, eligible.go)

\* handleRegisterValidator
HandleRegister(s, m, r) ==
  LET known == RecordCommittedMember([s EXCEPT !.live = Add(@, m)], m, r)
  IN  IF m \in s.members THEN known ELSE [known EXCEPT !.additions = @ \cup {m}]

\* handleDeregisterValidator
HandleDeregister(s, m) == [s EXCEPT !.removals = @ \cup {m}]

\* handleBond of one token, and the refresh that follows it
HandleBond(s, m, r) ==
  IF m \notin DOMAIN s.live \/ Stake(s.live, m) + 1 < MinStake THEN s
  ELSE RefreezeGenesisRegime([s EXCEPT !.live[m] = @ + 1], r)

\* handleUnbond of one token
HandleUnbond(s, m) ==
  IF Stake(s.live, m) = 0 \/ Stake(s.live, m) - 1 \in 1..(MinStake - 1) THEN s
  ELSE [s EXCEPT !.live[m] = @ - 1]

\* One validator transaction, or none of interest
Execute(s, tx, r) ==
  CASE tx.kind = "register"   -> HandleRegister(s, tx.from, r)
    [] tx.kind = "deregister" -> HandleDeregister(s, tx.from)
    [] tx.kind = "bond"       -> HandleBond(s, tx.from, r)
    [] tx.kind = "unbond"     -> HandleUnbond(s, tx.from)
    [] OTHER                  -> s

\* recordProducedMember, after the transactions of the vertex
RecordProducedMember(s, p) ==
  IF p \in s.produced THEN s ELSE [s EXCEPT !.produced = @ \cup {p}, !.dirty = TRUE]

-----------------------------------------------------------------------------
\* The boundary (epoch.go)

\* isEpochBoundary
IsEpochBoundary(r) == r # 0 /\ r % EpochLength = 0

\* settleDeferredEpoch, as far as it moves stakes: the rewarded validators, which
\* Ledger computes, compound a token.
Settle(s, rewarded) ==
  IF s.epoch = 0 THEN s
  ELSE [s EXCEPT !.live = [m \in DOMAIN @ |->
          IF m \in rewarded /\ @[m] \in 1..(MaxStake - 1) THEN @[m] + 1 ELSE @[m]]]

\* returnDeregisteredStake succeeds
MayLeave(s, m) == Stake(s.live, m) = 0 \/ m \in Coined

\* applyPendingRemovals
ApplyPendingRemovals(s) ==
  LET removed == Lowest({m \in s.removals : MayLeave(s, m)}, MaxChurn)
  IN  [s EXCEPT !.live = Without(@, removed), !.removals = @ \ removed]

\* Mutation: the snapshot takes every live validator.
SnapshotLive(s) ==
  LET late == s.additions \ Lowest(s.additions, MaxChurn)
  IN  Without(s.live, late)

\* snapshotEpochHolders, churnLimitedAdditions
SnapshotEpochHolders(s) ==
  LET late    == s.additions \ Lowest(s.additions, MaxChurn)
      foreign == IF s.members = {} THEN {} ELSE DOMAIN s.live \ s.members
  IN  Without(s.live, late \cup foreign)

\* transitionEpoch, from the retained snapshots to the published ones
Rotate(s) ==
  LET holders == SnapshotEpochHolders(s)
  IN  Published([s EXCEPT
        !.prev = IF s.holders = Nil THEN s.live ELSE s.holders,
        !.holders = holders, !.next = holders,
        !.prevEligible = IF s.eligible = Nil THEN s.produced ELSE s.eligible,
        !.eligible = s.produced, !.nextEligible = s.produced,
        !.additions = {}, !.epoch = @ + 1])

\* transitionEpoch
TransitionEpoch(s, rewarded) == Rotate(ApplyPendingRemovals(Settle(s, rewarded)))

-----------------------------------------------------------------------------
\* Persistence (epoch_persist.go, advanceCommitCursor)

\* An empty set or snapshot is restored as nil.
Restored(x) == IF x = Nil THEN Nil ELSE IF x = {} THEN Nil ELSE x
RestoredHolders(x) == IF x = Nil THEN Nil ELSE IF DOMAIN x = {} THEN Nil ELSE x

EmptyDisk == [cursor |-> 0, live |-> <<>>, additions |-> {}, removals |-> {}, saved |-> Nil]

\* epochStateKVs
EpochState(s) ==
  [epoch |-> s.epoch, holders |-> s.holders, prev |-> s.prev, next |-> s.next,
   produced |-> s.produced, eligible |-> s.eligible, prevEligible |-> s.prevEligible,
   nextEligible |-> s.nextEligible, members |-> s.members,
   latched |-> s.latched, strictStart |-> s.strictStart]

\* saveCommitCursorBatch as advanceCommitCursor calls it: the live set is encoded
\* before the transition, the epoch state when it may have changed.
Saved(d, before, after, r) ==
  [cursor |-> r + 1, live |-> before.live, additions |-> after.additions,
   removals |-> after.removals,
   saved |-> IF IsEpochBoundary(r) \/ before.dirty THEN EpochState(after) ELSE d.saved]

\* restoreCommittedMembers
RestoreCommittedMembers(e) ==
  IF e.members # {} THEN e.members
  ELSE IF e.epoch # 0 \/ RestoredHolders(e.holders) = Nil THEN {} ELSE DOMAIN e.holders

\* restoreEpochState, restoreStrictLatch, restoreAccumulators, restoreCommittedMembers
Restore(d, vs) ==
  LET s == [Fresh(vs) EXCEPT !.additions = d.additions, !.removals = d.removals]
      e == d.saved
  IN  IF e = Nil THEN s
      ELSE Published([s EXCEPT
             !.epoch = e.epoch, !.holders = RestoredHolders(e.holders),
             !.prev = RestoredHolders(e.prev), !.next = RestoredHolders(e.next),
             !.produced = e.produced, !.eligible = Restored(e.eligible),
             !.prevEligible = Restored(e.prevEligible),
             !.nextEligible = Restored(e.nextEligible), !.members = RestoreCommittedMembers(e),
             !.latched = e.latched, !.strictStart = IF e.latched THEN e.strictStart ELSE 0])

\* applyRegimeState over the live set of the same cut
Synced(s) ==
  Published([s EXCEPT !.holders = RestoredHolders(@), !.prev = RestoredHolders(@),
                      !.next = RestoredHolders(@), !.eligible = Restored(@),
                      !.prevEligible = Restored(@), !.nextEligible = Restored(@),
                      !.dirty = FALSE])

-----------------------------------------------------------------------------
\* What a node serves for a round

\* commitEpochForRound
CommitEpochForRound(r) ==
  IF r > 0 /\ r % EpochLength = 0 THEN r \div EpochLength - 1 ELSE r \div EpochLength

\* HoldersForEpoch, from the mirror
HoldersForEpoch(s, e) ==
  LET q == s.mirror
  IN  CASE e = q.epoch     -> q.holders
        [] e = q.epoch - 1 -> q.prev
        [] e = q.epoch + 1 -> IF q.next # Nil THEN q.next
                              ELSE IF q.epoch = 0 THEN q.holders ELSE Nil
        [] OTHER           -> Nil

\* eligibleForEpoch
EligibleForEpoch(s, e) ==
  CASE e = s.epoch     -> s.eligible
    [] e = s.epoch - 1 -> s.prevEligible
    [] e = s.epoch + 1 -> IF s.nextEligible # Nil THEN s.nextEligible
                          ELSE IF s.epoch = 0 THEN s.eligible ELSE Nil
    [] OTHER           -> Nil

\* eligibleKeys, the candidates of anchorProducerFor
Designatable(s, r) ==
  LET e        == CommitEpochForRound(r)
      holders  == HoldersForEpoch(s, e)
      keys     == IF holders = Nil THEN {} ELSE DOMAIN holders
      eligible == EligibleForEpoch(s, e)
      filtered == IF eligible = Nil THEN {} ELSE keys \cap eligible
  IN  IF filtered = {} THEN keys ELSE filtered

\* roundIsRelaxed
RoundIsRelaxed(s, r) == MinValidators # 0 /\ (~s.latched \/ r < s.strictStart)

-----------------------------------------------------------------------------
Genesis == SeedGenesisValidator(Fresh([m \in {Founder} |-> 0]), 0)

Init ==
  /\ cursor = 0 /\ applied = 0 /\ txs = 0 /\ restarts = 0
  /\ ref = Genesis
  /\ self \in Members
  /\ up = (self = Founder)
  /\ node = IF self = Founder THEN Genesis ELSE Fresh(<<>>)
  /\ disk = EmptyDisk
  /\ announced = FALSE

\* A transaction as the run enumerates it. Nobody bonds before the network knows
\* the key.
Txs == {tx \in [kind : {"register", "deregister", "bond", "unbond"}, from : Members] :
          /\ tx.kind = "bond" => tx.from \in DOMAIN ref.live /\ ref.live[tx.from] < MaxStake
          /\ tx.kind \in {"unbond", "deregister"} =>
               tx.from \in DOMAIN ref.live \ (IF "founder" \in Avoid THEN {Founder} ELSE {})}

None == [kind |-> "none", from |-> Founder]

\* applyBatch, one vertex: its transactions, then its producer.
ApplyTo(s, p, tx) == RecordProducedMember(Execute(s, tx, cursor), p)

\* The next vertex of the batch, on both nodes
ApplyVertex(p, tx) ==
  /\ cursor < MaxRounds /\ applied < MaxVertices
  /\ p \in DOMAIN ref.live
  /\ tx # None => txs < MaxTxs
  /\ txs' = IF tx = None THEN txs ELSE txs + 1
  /\ applied' = applied + 1
  /\ ref' = ApplyTo(ref, p, tx)
  /\ node' = IF up THEN ApplyTo(node, p, tx) ELSE node
  /\ UNCHANGED <<cursor, disk, self, up, announced, restarts>>

\* advanceCommitCursor, in memory
Advance(s, rewarded) ==
  [IF IsEpochBoundary(cursor) THEN TransitionEpoch(s, rewarded) ELSE s EXCEPT !.dirty = FALSE]

\* advanceCommitCursor: the round is done, a skipped one included.
AdvanceCommitCursor(rewarded) ==
  /\ cursor < MaxRounds
  /\ cursor' = cursor + 1 /\ applied' = 0
  /\ ref' = Advance(ref, rewarded)
  /\ node' = IF up THEN Advance(node, rewarded) ELSE node
  /\ disk' = IF up THEN Saved(disk, node, Advance(node, rewarded), cursor) ELSE disk
  /\ UNCHANGED <<self, up, announced, txs, restarts>>

\* performSync over an empty directory. A source that has decided nothing exports
\* the cursor of one that has decided round 0.
Join ==
  /\ ~up /\ applied = 0 /\ cursor > 0
  /\ up' = TRUE
  /\ node' = Synced(ref)
  /\ disk' = EmptyDisk
  /\ announced' = FALSE
  /\ UNCHANGED <<cursor, applied, ref, self, txs, restarts>>

\* selfAddToValidatorSet, once the registration is submitted
SelfAdd ==
  /\ up /\ self # Founder /\ ~announced
  /\ "rejoin" \in Avoid => self \notin node.members
  /\ announced' = TRUE
  /\ node' = [node EXCEPT !.live = Add(@, self)]
  /\ UNCHANGED <<cursor, applied, ref, disk, self, up, txs, restarts>>

\* HasAdoptedState: otherwise the node joins again.
Resumes == disk.cursor > 0 /\ DOMAIN disk.live # {}

\* buildValidatorSet
BuildValidatorSet ==
  IF DOMAIN disk.live # {} THEN disk.live
  ELSE IF self = Founder THEN [m \in {Founder} |-> 0] ELSE <<>>

\* New over the node's own directory, then seedGenesisState on the founder
Boot ==
  LET s == Restore(disk, BuildValidatorSet)
  IN  IF self = Founder THEN SeedGenesisValidator(s, disk.cursor) ELSE s

\* A clean stop between two rounds and the next start
Restart ==
  /\ up /\ applied = 0 /\ restarts < MaxRestarts
  /\ "boundary" \in Avoid => ~IsEpochBoundary(cursor - 1)
  /\ "unsaved" \in Avoid => (self = Founder \/ disk.saved # Nil)
  /\ restarts' = restarts + 1
  /\ up' = (self = Founder \/ Resumes)
  /\ node' = IF self = Founder \/ Resumes THEN Boot ELSE Fresh(<<>>)
  /\ announced' = (announced /\ Resumes)
  /\ UNCHANGED <<cursor, applied, ref, disk, self, txs>>

Next ==
  \/ \E p \in Members, tx \in Txs \cup {None} : ApplyVertex(p, tx)
  \/ \E rewarded \in SUBSET Members : AdvanceCommitCursor(rewarded)
  \/ Join
  \/ SelfAdd
  \/ Restart

Spec == Init /\ [][Next]_vars

-----------------------------------------------------------------------------

\* Two nodes at one cursor serve the same holders, designate from the same
\* candidates and hold the same rounds for relaxed, from the cursor's round on,
\* and judge late attestations by the same previous holders, whether they lived
\* through the history, joined in the middle, announced themselves early or were
\* restarted (HoldersForEpoch, anchorProducerFor, roundIsRelaxed).
CommitteeAgrees ==
  up => /\ HoldersForEpoch(node, ref.epoch - 1) = HoldersForEpoch(ref, ref.epoch - 1)
        /\ \A r \in cursor..(cursor + EpochLength) :
             /\ LET e == CommitEpochForRound(r)
                IN  HoldersForEpoch(node, e) = HoldersForEpoch(ref, e)
             /\ Designatable(node, r) = Designatable(ref, r)
             /\ RoundIsRelaxed(node, r) = RoundIsRelaxed(ref, r)

\* A round that has been decided keeps the regime it was decided under, however
\* late the committee is fully bonded (latchStrictRegime).
RegimeFinal ==
  [][\A r \in 0..(IF applied' > 0 THEN cursor' ELSE cursor' - 1) :
       RoundIsRelaxed(ref, r)' = RoundIsRelaxed(ref, r)]_vars

=============================================================================
