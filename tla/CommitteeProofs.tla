--------------------------- MODULE CommitteeProofs ---------------------------
(***************************************************************************)
(* The regime and the committee, for every set of members, epoch length,   *)
(* delay and history.  RegimeFinal: a step of the committee either keeps   *)
(* the latch and the round it starts at, or arms an unset latch past the   *)
(* round being applied.  CommitteeAgrees: the committee of a node that     *)
(* joined or was restarted stays paired with that of a node that lived     *)
(* through every round, and its disk suffices to pair it again.            *)
(***************************************************************************)
EXTENDS Committee, TLAPS

Regimed(s) ==
  /\ {"latched", "strictStart"} \subseteq DOMAIN s
  /\ s.latched \in BOOLEAN
  /\ s.strictStart \in Nat

Keeps(s, t) == Regimed(t) /\ t.latched = s.latched /\ t.strictStart = s.strictStart

Arms(s, t, r) ==
  \/ Keeps(s, t)
  \/ Regimed(t) /\ ~s.latched /\ t.latched /\ r < t.strictStart

-----------------------------------------------------------------------------

\* Refreezing the genesis holders and publishing them leaves the latch alone
\* (refreezeGenesisRegime, publishEpochMirror).
LEMMA RefreezeKeeps ==
  ASSUME NEW s, Regimed(s)
  PROVE  Keeps(s, RefreezeHolders(s))
BY DEF Regimed, Keeps, RefreezeHolders, Published

\* Refreezing arms an unset latch at a later round, or keeps it
\* (refreezeGenesisRegime, latchStrictRegime).
LEMMA RefreezeArms ==
  ASSUME NEW s, Regimed(s), NEW r \in Nat
  PROVE  Arms(s, RefreezeGenesisRegime(s, r), r)
<1> DEFINE f == RefreezeHolders(s)
<1>1. Keeps(s, f)
  BY RefreezeKeeps
<1>2. Delay \in Nat
  BY CommitteeAssumption
<1>3. ASSUME ~s.latched PROVE Arms(s, LatchStrictRegime(f, r), r)
  <2> DEFINE n == IF r + Delay < r + 1 THEN r + 1 ELSE r + Delay
             t == [f EXCEPT !.latched = TRUE, !.dirty = TRUE, !.strictStart = n]
  <2>1. n \in Nat /\ r < n
    BY <1>2
  <2>2. ~f.latched /\ Regimed(f)
    BY <1>1, <1>3 DEF Keeps
  <2>3. LatchStrictRegime(f, r) = t
    BY <2>2 DEF LatchStrictRegime
  <2> HIDE DEF f, n
  <2>4. Regimed(t) /\ t.latched /\ t.strictStart = n
    BY <2>1, <2>2 DEF Regimed
  <2> QED BY <1>3, <2>1, <2>3, <2>4 DEF Arms
<1>4. Keeps(s, s)
  BY DEF Keeps
<1> HIDE DEF f
<1> QED BY <1>1, <1>3, <1>4 DEF RefreezeGenesisRegime, Arms, f

\* A committed member arms the latch at most (recordCommittedMember).
LEMMA RecordArms ==
  ASSUME NEW s, Regimed(s), NEW m, NEW r \in Nat
  PROVE  Arms(s, RecordCommittedMember(s, m, r), r)
<1> DEFINE t == [s EXCEPT !.members = @ \cup {m}, !.dirty = TRUE]
<1>1. Keeps(s, t)
  BY DEF Regimed, Keeps
<1>2. Arms(t, RefreezeGenesisRegime(t, r), r)
  BY <1>1, RefreezeArms DEF Keeps
<1>3. Arms(s, RefreezeGenesisRegime(t, r), r)
  <2> HIDE DEF t
  <2> QED BY <1>1, <1>2 DEF Arms, Keeps
<1>4. Keeps(s, s)
  BY DEF Keeps
<1> QED BY <1>3, <1>4 DEF RecordCommittedMember, Arms

\* So does every validator transaction (handleRegisterValidator, handleBond,
\* handleUnbond, handleDeregisterValidator).
LEMMA ExecuteArms ==
  ASSUME NEW s, Regimed(s), NEW tx, NEW r \in Nat
  PROVE  Arms(s, Execute(s, tx, r), r)
<1>1. Arms(s, s, r)
  BY DEF Arms, Keeps
<1>2. Arms(s, HandleRegister(s, tx.from, r), r)
  <2> DEFINE t == [s EXCEPT !.live = Add(@, tx.from)]
             k == RecordCommittedMember(t, tx.from, r)
  <2>1. Keeps(s, t)
    BY DEF Regimed, Keeps
  <2>2. Arms(t, k, r)
    BY <2>1, RecordArms DEF Keeps
  <2>3. Arms(s, k, r)
    <3> HIDE DEF t, k
    <3> QED BY <2>1, <2>2 DEF Arms, Keeps
  <2>4. Arms(s, [k EXCEPT !.additions = @ \cup {tx.from}], r)
    <3> HIDE DEF k
    <3> QED BY <2>3 DEF Arms, Keeps, Regimed
  <2> QED BY <2>3, <2>4 DEF HandleRegister
<1>3. Arms(s, HandleDeregister(s, tx.from), r)
  BY DEF HandleDeregister, Arms, Keeps, Regimed
<1>4. Arms(s, HandleUnbond(s, tx.from), r)
  BY <1>1 DEF HandleUnbond, Arms, Keeps, Regimed
<1>5. Arms(s, HandleBond(s, tx.from, r), r)
  <2> DEFINE t == [s EXCEPT !.live[tx.from] = @ + 1]
  <2>1. Keeps(s, t)
    BY DEF Regimed, Keeps
  <2>2. Arms(t, RefreezeGenesisRegime(t, r), r)
    BY <2>1, RefreezeArms DEF Keeps
  <2>3. Arms(s, RefreezeGenesisRegime(t, r), r)
    <3> HIDE DEF t
    <3> QED BY <2>1, <2>2 DEF Arms, Keeps
  <2> QED BY <1>1, <2>3 DEF HandleBond
<1> QED BY <1>1, <1>2, <1>3, <1>4, <1>5 DEF Execute

\* Applying a vertex arms the latch past the round being applied, at most
\* (applyBatch).
LEMMA ApplyArms ==
  ASSUME NEW s, Regimed(s), NEW tx, NEW p, cursor \in Nat
  PROVE  Arms(s, ApplyTo(s, p, tx), cursor)
<1> DEFINE t == Execute(s, tx, cursor)
<1>1. Arms(s, t, cursor)
  BY ExecuteArms
<1> HIDE DEF t
<1>2. Arms(s, RecordProducedMember(t, p), cursor)
  BY <1>1 DEF RecordProducedMember, Arms, Keeps, Regimed
<1> QED BY <1>2 DEF ApplyTo, t

\* The end of a round, a boundary included, leaves the latch alone
\* (advanceCommitCursor, transitionEpoch).
LEMMA AdvanceKeeps ==
  ASSUME NEW s, Regimed(s), NEW rewarded
  PROVE  Keeps(s, Advance(s, rewarded))
<1> DEFINE a == Settle(s, rewarded)
           b == ApplyPendingRemovals(a)
           c == Rotate(b)
<1>1. Keeps(s, a)
  BY DEF Settle, Keeps, Regimed
<1>2. Keeps(a, b)
  <2> HIDE DEF a
  <2> QED BY <1>1 DEF ApplyPendingRemovals, Keeps, Regimed
<1>3. Keeps(b, c)
  <2> HIDE DEF b
  <2> QED BY <1>2 DEF Rotate, Published, Keeps, Regimed
<1>4. Keeps(s, c) /\ c = TransitionEpoch(s, rewarded)
  <2>1. c = TransitionEpoch(s, rewarded)
    BY DEF TransitionEpoch
  <2> HIDE DEF a, b, c
  <2> QED BY <2>1, <1>1, <1>2, <1>3 DEF Keeps
<1> HIDE DEF c
<1> QED BY <1>4 DEF Advance, Keeps, Regimed

-----------------------------------------------------------------------------

RegimeInv == cursor \in Nat /\ Regimed(ref)

\* What a step does to the latch of the node that never stops.
LEMMA StepArms ==
  ASSUME RegimeInv, [Next]_vars
  PROVE  /\ RegimeInv'
         /\ \/ Keeps(ref, ref')
            \/ cursor' = cursor /\ Arms(ref, ref', cursor)
<1>1. ASSUME NEW p \in Members, NEW tx \in Txs \cup {None}, ApplyVertex(p, tx)
      PROVE  RegimeInv' /\ cursor' = cursor /\ Arms(ref, ref', cursor)
  <2>1. Arms(ref, ref', cursor)
    BY <1>1, ApplyArms DEF ApplyVertex, RegimeInv
  <2> QED BY <1>1, <2>1 DEF ApplyVertex, RegimeInv, Arms, Keeps
<1>2. ASSUME NEW rewarded \in SUBSET Members, AdvanceCommitCursor(rewarded)
      PROVE  RegimeInv' /\ Keeps(ref, ref')
  <2>1. Keeps(ref, ref')
    BY <1>2, AdvanceKeeps DEF AdvanceCommitCursor, RegimeInv
  <2> QED BY <1>2, <2>1 DEF AdvanceCommitCursor, RegimeInv, Keeps
<1>3. ASSUME UNCHANGED <<ref, cursor>> PROVE RegimeInv' /\ Keeps(ref, ref')
  BY <1>3 DEF RegimeInv, Keeps
<1>4. CASE Join \/ SelfAdd \/ Restart \/ UNCHANGED vars
  BY <1>3, <1>4 DEF Join, SelfAdd, Restart, vars
<1> QED BY <1>1, <1>2, <1>4 DEF Next

\* A genesis node starts with a well-formed latch (New, SeedGenesisValidator).
LEMMA GenesisRegimed == Regimed(Genesis)
<1> DEFINE f == Fresh([m \in {Founder} |-> 0])
           vs == Add(f.live, Founder)
           t == [f EXCEPT !.live = IF vs[Founder] = 0 THEN [vs EXCEPT ![Founder] = GenesisStake]
                                   ELSE vs]
<1>1. Regimed(t)
  BY DEF Regimed, Fresh
<1>2. Arms(t, RecordCommittedMember(t, Founder, 0), 0)
  <2> HIDE DEF t
  <2> QED BY <1>1, RecordArms
<1>3. Genesis = RecordCommittedMember(t, Founder, 0)
  BY DEF Genesis, SeedGenesisValidator
<1> HIDE DEF t
<1> QED BY <1>2, <1>3 DEF Arms, Keeps

\* A round that has been decided keeps the regime it was decided under, whatever
\* the members, stakes and delay (roundIsRelaxed, latchStrictRegime).
THEOREM RegimeIsFinal == Spec => RegimeFinal
<1>1. Init => RegimeInv
  BY GenesisRegimed DEF Init, RegimeInv
<1>2. RegimeInv /\ [Next]_vars => RegimeInv'
  BY StepArms
<1>3. RegimeInv /\ [Next]_vars =>
        [\A r \in 0..(IF applied' > 0 THEN cursor' ELSE cursor' - 1) :
           RoundIsRelaxed(ref, r)' = RoundIsRelaxed(ref, r)]_vars
  <2> SUFFICES ASSUME RegimeInv, [Next]_vars,
                      NEW r \in 0..(IF applied' > 0 THEN cursor' ELSE cursor' - 1)
               PROVE  RoundIsRelaxed(ref, r)' = RoundIsRelaxed(ref, r)
    OBVIOUS
  <2>1. cursor' \in Nat /\ r \in Nat /\ r <= cursor'
    BY StepArms DEF RegimeInv
  <2>2. CASE Keeps(ref, ref')
    BY <2>2 DEF Keeps, RoundIsRelaxed
  <2>3. CASE cursor' = cursor /\ Arms(ref, ref', cursor)
    BY <2>1, <2>2, <2>3 DEF Arms, Regimed, RegimeInv, RoundIsRelaxed
  <2> QED BY <2>2, <2>3, StepArms
<1> QED BY <1>1, <1>2, <1>3, PTL DEF Spec, RegimeFinal

-----------------------------------------------------------------------------
(***************************************************************************)
(* Two nodes agree.  The rest of the module is about CommitteeAgrees, where *)
(* no restart follows a boundary or comes before the epoch state is first   *)
(* saved, nobody joins again under a key it left, and the founder stays:    *)
(* the four cases the table of disagreements lists.                         *)
(***************************************************************************)

\* nil is no set of validators, no snapshot and no saved state; stakes are not negative.
NilApart ==
  /\ \A S \in SUBSET Members : Nil # S /\ \A f : Nil # [m \in S |-> f[m]]
  /\ \A s : Nil # EpochState(s)
  /\ GenesisStake \in Nat

Fields ==
  {"live", "members", "additions", "removals", "epoch", "holders", "prev", "next", "produced",
   "eligible", "prevEligible", "nextEligible", "latched", "strictStart", "dirty", "mirror"}

IsMap(vs) == vs = [m \in DOMAIN vs |-> vs[m]] /\ DOMAIN vs \subseteq Members

\* A snapshot that was taken has the founder in it.
IsHolders(h) == IsMap(h) /\ Founder \in DOMAIN h

\* What is published is the committee itself (publishEpochMirror).
MirrorOf(s) == [epoch |-> s.epoch, holders |-> s.holders, prev |-> s.prev, next |-> s.next]

\* The live set: validators, the founder among them with the stake it was given.
LiveOK(vs) ==
  IsHolders(vs) /\ vs[Founder] \in Nat /\ vs[Founder] >= GenesisStake

\* The committee of a running node.
CommitteeOK(s) ==
  /\ s = [f \in Fields |-> s[f]]
  /\ LiveOK(s.live)
  /\ s.members \subseteq Members /\ Founder \in s.members
  /\ Founder \notin s.additions /\ Founder \notin s.removals
  /\ IsHolders(s.holders)
  /\ s.prev = Nil \/ IsHolders(s.prev)
  /\ s.next = Nil \/ IsHolders(s.next)
  /\ s.epoch \in Nat
  /\ s.epoch = 0 => s.nextEligible = Nil
  /\ ~s.latched => s.strictStart = 0
  /\ s.mirror = MirrorOf(s)

\* The live set w is v with validators beside it that are no members and have no stake.
Covers(v, w, members) ==
  /\ DOMAIN v \subseteq DOMAIN w
  /\ \A m \in DOMAIN v : w[m] = v[m]
  /\ \A m \in DOMAIN w \ DOMAIN v : w[m] = 0 /\ m \notin members

\* The same set, or the empty one and none.
Alike(x, y) == Restored(x) = Restored(y)

\* All of a committee but its live set and the candidates of the epoch before.
SameEpoch(s, t) ==
  /\ t.epoch = s.epoch /\ t.holders = s.holders /\ t.prev = s.prev /\ t.next = s.next
  /\ t.produced = s.produced /\ t.members = s.members
  /\ t.latched = s.latched /\ t.strictStart = s.strictStart
  /\ Alike(s.eligible, t.eligible) /\ Alike(s.nextEligible, t.nextEligible)

Same(s, t) ==
  /\ SameEpoch(s, t)
  /\ t.additions = s.additions /\ t.removals = s.removals
  /\ Covers(s.live, t.live, s.members)

\* The rounds an epoch consists of.
CursorInEpoch ==
  /\ cursor \in Nat
  /\ cursor = 0 => ref.epoch = 0
  /\ cursor # 0 => ref.epoch * EpochLength < cursor /\ cursor <= (ref.epoch + 1) * EpochLength

\* What the node has saved: nothing yet, or the last round it decided; the epoch state
\* as of the last change to it.
DiskOK ==
  \/ /\ disk = EmptyDisk
     /\ self = Founder => cursor = 0 /\ node.dirty
  \/ /\ disk = [f \in {"cursor", "live", "additions", "removals", "saved"} |-> disk[f]]
     /\ disk.cursor = cursor /\ cursor # 0
     /\ disk.saved # Nil =>
          /\ disk.saved = EpochState(disk.saved)
          /\ node.dirty \/ SameEpoch(disk.saved, node)
     /\ disk.saved = Nil => self # Founder
     /\ applied = 0 => ~node.dirty
     /\ applied = 0 /\ ~IsEpochBoundary(cursor - 1) =>
          /\ IsMap(disk.live) /\ Covers(ref.live, disk.live, ref.members)
          /\ disk.additions = ref.additions /\ disk.removals = ref.removals

AgreeInv ==
  /\ self \in Members
  /\ CommitteeOK(ref) /\ CursorInEpoch
  /\ applied \in Nat
  /\ cursor = 0 /\ applied = 0 => ref = Genesis
  /\ cursor # 0 /\ applied = 0 => ~ref.dirty
  /\ up => CommitteeOK(node) /\ Same(ref, node) /\ DiskOK
  /\ ~up => self # Founder

\* A snapshot is not nil, and a restart gives it back.
LEMMA HoldersSet ==
  ASSUME NilApart, NEW h, IsHolders(h)
  PROVE  h # Nil /\ RestoredHolders(h) = h
<1>1. DOMAIN h \in SUBSET Members /\ h = [m \in DOMAIN h |-> h[m]] /\ DOMAIN h # {}
  BY DEF IsHolders, IsMap
<1>2. h # Nil
  BY Zenon, <1>1 DEF NilApart
<1>3. QED
  BY <1>1, <1>2 DEF RestoredHolders

\* Two nodes whose committees agree.
Pair(s, t) == CommitteeOK(s) /\ CommitteeOK(t) /\ Same(s, t)

\* A step within an epoch marks every change to what epochStateKVs writes
\* (epochStateDirty).
Marks(s, u) ==
  /\ u.epoch = s.epoch
  /\ u.dirty = TRUE \/ (u.dirty = s.dirty /\ EpochState(u) = EpochState(s))

LEMMA CoversSelf ==
  ASSUME NEW v, NEW members
  PROVE  Covers(v, v, members)
BY DEF Covers

\* The validators beside the live set have no stake on either node.
LEMMA StakesSame ==
  ASSUME NEW v, NEW w, NEW members, Covers(v, w, members)
  PROVE  \A m : Stake(v, m) = Stake(w, m)
BY DEF Covers, Stake

\* The operations on one field after the other.

LEMMA MemberPair ==
  ASSUME NEW s, NEW t, Pair(s, t), NEW m \in Members, m \in DOMAIN s.live
  PROVE  Pair([s EXCEPT !.members = @ \cup {m}, !.dirty = TRUE],
              [t EXCEPT !.members = @ \cup {m}, !.dirty = TRUE])
<1> DEFINE u == [s EXCEPT !.members = @ \cup {m}, !.dirty = TRUE]
           w == [t EXCEPT !.members = @ \cup {m}, !.dirty = TRUE]
<1>1. CommitteeOK(u) /\ CommitteeOK(w)
  BY ZenonT(30) DEF Pair, CommitteeOK, Fields, MirrorOf
<1>2. Same(u, w)
  BY DEF Pair, CommitteeOK, Same, SameEpoch, Covers, Fields
<1>3. QED
  BY <1>1, <1>2 DEF Pair

LEMMA LivePair ==
  ASSUME NEW s, NEW t, Pair(s, t), NEW v, NEW w, LiveOK(v), LiveOK(w), Covers(v, w, s.members)
  PROVE  Pair([s EXCEPT !.live = v], [t EXCEPT !.live = w])
<1> DEFINE u == [s EXCEPT !.live = v]
           x == [t EXCEPT !.live = w]
<1>1. CommitteeOK(u) /\ CommitteeOK(x)
  BY ZenonT(30) DEF Pair, CommitteeOK, Fields, MirrorOf
<1>2. Same(u, x)
  BY DEF Pair, CommitteeOK, Same, SameEpoch, Fields
<1>3. QED
  BY <1>1, <1>2 DEF Pair

LEMMA AdditionsPair ==
  ASSUME NEW s, NEW t, Pair(s, t), NEW m, m # Founder
  PROVE  Pair([s EXCEPT !.additions = @ \cup {m}], [t EXCEPT !.additions = @ \cup {m}])
<1> DEFINE u == [s EXCEPT !.additions = @ \cup {m}]
           x == [t EXCEPT !.additions = @ \cup {m}]
<1>1. CommitteeOK(u) /\ CommitteeOK(x)
  BY ZenonT(30) DEF Pair, CommitteeOK, Fields, MirrorOf
<1>2. Same(u, x)
  BY DEF Pair, CommitteeOK, Same, SameEpoch, Fields
<1>3. QED
  BY <1>1, <1>2 DEF Pair

LEMMA RemovalsPair ==
  ASSUME NEW s, NEW t, Pair(s, t), NEW R, Founder \notin R
  PROVE  Pair([s EXCEPT !.removals = R], [t EXCEPT !.removals = R])
<1> DEFINE u == [s EXCEPT !.removals = R]
           x == [t EXCEPT !.removals = R]
<1>1. CommitteeOK(u) /\ CommitteeOK(x)
  BY ZenonT(30) DEF Pair, CommitteeOK, Fields, MirrorOf
<1>2. Same(u, x)
  BY DEF Pair, CommitteeOK, Same, SameEpoch, Fields
<1>3. QED
  BY <1>1, <1>2 DEF Pair

LEMMA ProducedPair ==
  ASSUME NEW s, NEW t, Pair(s, t), NEW p
  PROVE  Pair(RecordProducedMember(s, p), RecordProducedMember(t, p))
<1> DEFINE u == [s EXCEPT !.produced = @ \cup {p}, !.dirty = TRUE]
           x == [t EXCEPT !.produced = @ \cup {p}, !.dirty = TRUE]
<1>1. CommitteeOK(u) /\ CommitteeOK(x)
  BY ZenonT(30) DEF Pair, CommitteeOK, Fields, MirrorOf
<1>2. Same(u, x)
  BY DEF Pair, CommitteeOK, Same, SameEpoch, Fields
<1>3. t.produced = s.produced
  BY DEF Pair, Same, SameEpoch
<1>4. QED
  BY <1>1, <1>2, <1>3 DEF Pair, RecordProducedMember

\* freezeGenesisHolders passes over what is no member.
LEMMA FrozenSame ==
  ASSUME NilApart, NEW s, NEW t, Pair(s, t)
  PROVE  /\ FreezeGenesisHolders(s) = FreezeGenesisHolders(t)
         /\ IsHolders(FreezeGenesisHolders(s))
<1>1. s.holders # Nil /\ t.holders = s.holders /\ t.members = s.members
  BY HoldersSet DEF Pair, CommitteeOK, Same, SameEpoch
<1>2. Covers(s.live, t.live, s.members) /\ s.members \subseteq Members
      /\ Founder \in s.members /\ Founder \in DOMAIN s.live
  BY DEF Pair, CommitteeOK, Same, LiveOK, IsHolders
<1> DEFINE h == s.holders
           f(v) == [m \in {k \in s.members : k \in DOMAIN v \cup DOMAIN h} |->
                      IF m \in DOMAIN v THEN v[m] ELSE h[m]]
<1>3. FreezeGenesisHolders(s) = f(s.live) /\ FreezeGenesisHolders(t) = f(t.live)
  BY <1>1 DEF FreezeGenesisHolders
<1>4. f(s.live) = f(t.live)
  BY <1>2 DEF Covers
<1>5. IsHolders(f(s.live))
  BY <1>2 DEF IsHolders, IsMap
<1> HIDE DEF f
<1>6. QED
  BY <1>3, <1>4, <1>5

\* refreezeGenesisRegime, the part of the genesis epoch
LEMMA RefreezePair ==
  ASSUME NilApart, NEW s, NEW t, Pair(s, t)
  PROVE  Pair(RefreezeHolders(s), RefreezeHolders(t))
<1>1. t.epoch = s.epoch /\ t.produced = s.produced
  BY DEF Pair, Same, SameEpoch
<1>2. CASE s.epoch # 0
  BY <1>1, <1>2 DEF RefreezeHolders
<1>3. CASE s.epoch = 0
  <2> DEFINE h == FreezeGenesisHolders(s)
             u == RefreezeHolders(s)
             x == RefreezeHolders(t)
  <2>1. h = FreezeGenesisHolders(t) /\ IsHolders(h)
    BY FrozenSame
  <2>2. /\ u = Published([s EXCEPT !.holders = h, !.eligible = s.produced, !.dirty = TRUE])
        /\ x = Published([t EXCEPT !.holders = h, !.eligible = s.produced, !.dirty = TRUE])
    BY <1>1, <1>3, <2>1 DEF RefreezeHolders
  <2> HIDE DEF h, u, x
  <2>3. CommitteeOK(u)
    BY ZenonT(30), <2>1, <2>2 DEF Pair, CommitteeOK, Fields, MirrorOf, Published
  <2>4. CommitteeOK(x)
    BY ZenonT(30), <2>1, <2>2 DEF Pair, CommitteeOK, Fields, MirrorOf, Published
  <2>5. Same(u, x)
    BY <2>2 DEF Pair, CommitteeOK, Same, SameEpoch, Fields, Published, Alike
  <2>6. QED
    BY <2>3, <2>4, <2>5 DEF Pair, u, x
<1>4. QED
  BY <1>2, <1>3

LEMMA MarksChain ==
  ASSUME NEW s, NEW u, NEW w, Marks(s, u), Marks(u, w)
  PROVE  Marks(s, w)
BY DEF Marks

\* refreezeGenesisRegime: both nodes complete the bootstrap at the same transaction.
LEMMA RegimePair ==
  ASSUME NilApart, NEW s, NEW t, Pair(s, t), NEW r \in Nat
  PROVE  /\ Pair(RefreezeGenesisRegime(s, r), RefreezeGenesisRegime(t, r))
         /\ Marks(t, RefreezeGenesisRegime(t, r))
<1> DEFINE u == RefreezeHolders(s)
           x == RefreezeHolders(t)
           n == IF r + Delay < r + 1 THEN r + 1 ELSE r + Delay
           a == [u EXCEPT !.latched = TRUE, !.dirty = TRUE, !.strictStart = n]
           b == [x EXCEPT !.latched = TRUE, !.dirty = TRUE, !.strictStart = n]
<1>1. Pair(u, x)
  BY RefreezePair
<1>2. Marks(t, x)
  BY Zenon DEF RefreezeHolders, Published, Marks, Pair, CommitteeOK, Fields
<1>3. BootstrapComplete(u) <=> BootstrapComplete(x)
  <2> HIDE DEF u, x
  <2>1. x.members = u.members /\ \A m : Stake(u.live, m) = Stake(x.live, m)
    BY <1>1, StakesSame DEF Pair, Same, SameEpoch
  <2>2. CommittedStakedMemberCount(u) = CommittedStakedMemberCount(x)
    BY <2>1 DEF CommittedStakedMemberCount
  <2>3. QED
    BY <2>2 DEF BootstrapComplete
<1>4. s.latched = t.latched /\ u.latched = x.latched
  BY <1>1 DEF Pair, Same, SameEpoch
<1>5. Pair(a, b) /\ b.dirty = TRUE /\ b.epoch = x.epoch
  <2> HIDE DEF u, x, n
  <2>1. CommitteeOK(a)
    BY ZenonT(30), <1>1 DEF Pair, CommitteeOK, Fields, MirrorOf
  <2>2. CommitteeOK(b)
    BY ZenonT(30), <1>1 DEF Pair, CommitteeOK, Fields, MirrorOf
  <2>3. Same(a, b)
    BY <1>1 DEF Pair, CommitteeOK, Same, SameEpoch, Fields
  <2>4. b.dirty = TRUE /\ b.epoch = x.epoch
    BY <1>1 DEF Pair, CommitteeOK, Fields
  <2>5. QED
    BY <2>1, <2>2, <2>3, <2>4 DEF Pair
<1>6. /\ LatchStrictRegime(u, r) = IF u.latched THEN u ELSE a
      /\ LatchStrictRegime(x, r) = IF x.latched THEN x ELSE b
  BY DEF LatchStrictRegime
<1>7. Marks(t, t) /\ Marks(t, b)
  <2> HIDE DEF b, x
  <2>1. QED
    BY <1>2, <1>5 DEF Marks
<1> HIDE DEF u, x, a, b
<1>8. CASE s.latched
  BY <1>4, <1>7, <1>8 DEF RefreezeGenesisRegime
<1>9. CASE ~s.latched
  <2>1. /\ RefreezeGenesisRegime(s, r) = IF BootstrapComplete(u) THEN LatchStrictRegime(u, r) ELSE u
        /\ RefreezeGenesisRegime(t, r) = IF BootstrapComplete(x) THEN LatchStrictRegime(x, r) ELSE x
    BY <1>4, <1>9 DEF RefreezeGenesisRegime, u, x
  <2>2. QED
    BY <1>1, <1>2, <1>3, <1>4, <1>5, <1>6, <1>7, <2>1
<1>10. QED
  BY <1>8, <1>9

\* recordCommittedMember
LEMMA RecordPair ==
  ASSUME NilApart, NEW s, NEW t, Pair(s, t), NEW m \in Members, m \in DOMAIN s.live, NEW r \in Nat
  PROVE  /\ Pair(RecordCommittedMember(s, m, r), RecordCommittedMember(t, m, r))
         /\ Marks(t, RecordCommittedMember(t, m, r))
<1> DEFINE u == [s EXCEPT !.members = @ \cup {m}, !.dirty = TRUE]
           x == [t EXCEPT !.members = @ \cup {m}, !.dirty = TRUE]
<1>1. Pair(u, x)
  BY Zenon, MemberPair
<1>2. Marks(t, x) /\ Marks(t, t)
  BY DEF Marks, Pair, CommitteeOK, Fields
<1>3. t.members = s.members
  BY DEF Pair, Same, SameEpoch
<1> HIDE DEF u, x
<1>4. Pair(RefreezeGenesisRegime(u, r), RefreezeGenesisRegime(x, r)) /\ Marks(t, RefreezeGenesisRegime(x, r))
  BY <1>1, <1>2, RegimePair, MarksChain
<1>5. /\ RecordCommittedMember(s, m, r) = IF m \in s.members THEN s ELSE RefreezeGenesisRegime(u, r)
      /\ RecordCommittedMember(t, m, r) = IF m \in t.members THEN t ELSE RefreezeGenesisRegime(x, r)
  BY DEF RecordCommittedMember, u, x
<1>6. QED
  BY SMTT(30), <1>2, <1>3, <1>4, <1>5

\* A new live set is not part of the epoch state.
LEMMA LiveMarks ==
  ASSUME NEW t, CommitteeOK(t), NEW w
  PROVE  Marks(t, [t EXCEPT !.live = w])
BY DEF Marks, EpochState, CommitteeOK, Fields

\* handleRegisterValidator: the node that had added itself has nothing to add.
LEMMA RegisterPair ==
  ASSUME NilApart, NEW s, NEW t, Pair(s, t), NEW m \in Members, NEW r \in Nat
  PROVE  /\ Pair(HandleRegister(s, m, r), HandleRegister(t, m, r))
         /\ Marks(t, HandleRegister(t, m, r))
<1> DEFINE v == Add(s.live, m)
           w == Add(t.live, m)
           u == [s EXCEPT !.live = v]
           x == [t EXCEPT !.live = w]
           a == RecordCommittedMember(u, m, r)
           b == RecordCommittedMember(x, m, r)
<1>1. LiveOK(v) /\ LiveOK(w)
  <2>1. LiveOK(s.live) /\ LiveOK(t.live)
    BY DEF Pair, CommitteeOK
  <2>2. QED
    BY <2>1 DEF LiveOK, IsHolders, IsMap, Add, Stake
<1>2. Covers(v, w, s.members)
  <2>1. Covers(s.live, t.live, s.members)
    BY DEF Pair, Same
  <2>2. QED
    BY <2>1 DEF Covers, Add, Stake
<1>3. m \in DOMAIN v
  BY DEF Add
<1> HIDE DEF v, w
<1>4. Pair(u, x)
  BY <1>1, <1>2, LivePair
<1>5. Marks(t, x)
  BY LiveMarks DEF Pair
<1>6. m \in DOMAIN u.live
  BY <1>3 DEF Pair, CommitteeOK, Fields
<1> HIDE DEF u, x
<1>7. Pair(a, b) /\ Marks(t, b)
  BY <1>4, <1>5, <1>6, RecordPair, MarksChain
<1>8. t.members = s.members /\ Founder \in s.members
  BY DEF Pair, Same, SameEpoch, CommitteeOK
<1> HIDE DEF a, b
<1>9. /\ HandleRegister(s, m, r) = IF m \in s.members THEN a ELSE [a EXCEPT !.additions = @ \cup {m}]
      /\ HandleRegister(t, m, r) = IF m \in t.members THEN b ELSE [b EXCEPT !.additions = @ \cup {m}]
  BY DEF HandleRegister, a, b, u, x, v, w
<1>10. CASE m \in s.members
  BY <1>7, <1>8, <1>9, <1>10
<1>11. CASE m \notin s.members
  <2> DEFINE c == [a EXCEPT !.additions = @ \cup {m}]
             d == [b EXCEPT !.additions = @ \cup {m}]
  <2>1. Pair(c, d)
    BY <1>7, <1>8, <1>11, AdditionsPair
  <2>2. Marks(b, d)
    BY <1>7 DEF Marks, EpochState, Pair, CommitteeOK, Fields
  <2> HIDE DEF c, d
  <2>3. Marks(t, d)
    BY <1>7, <2>2, MarksChain
  <2>4. QED
    BY <1>8, <1>9, <1>11, <2>1, <2>3 DEF c, d
<1>12. QED
  BY <1>10, <1>11

\* handleBond and handleUnbond move a stake both nodes know.
LEMMA StakePair ==
  ASSUME NEW s, NEW t, Pair(s, t), NEW m \in DOMAIN s.live, NEW n,
         m = Founder => n \in Nat /\ n >= GenesisStake
  PROVE  /\ Pair([s EXCEPT !.live[m] = n], [t EXCEPT !.live[m] = n])
         /\ Marks(t, [t EXCEPT !.live[m] = n])
<1> DEFINE v == [s.live EXCEPT ![m] = n]
           w == [t.live EXCEPT ![m] = n]
<1>1. LiveOK(v) /\ LiveOK(w)
  <2>1. LiveOK(s.live) /\ LiveOK(t.live) /\ m \in DOMAIN t.live
    BY DEF Pair, CommitteeOK, Same, Covers
  <2>2. QED
    BY <2>1 DEF LiveOK, IsHolders, IsMap
<1>2. Covers(v, w, s.members)
  <2>1. Covers(s.live, t.live, s.members) /\ IsMap(s.live) /\ IsMap(t.live)
    BY DEF Pair, Same, CommitteeOK, LiveOK, IsHolders
  <2>2. QED
    BY <2>1 DEF Covers, IsMap
<1>3. [s EXCEPT !.live[m] = n] = [s EXCEPT !.live = v] /\ [t EXCEPT !.live[m] = n] = [t EXCEPT !.live = w]
  OBVIOUS
<1> HIDE DEF v, w
<1>4. QED
  BY <1>1, <1>2, <1>3, LivePair, LiveMarks DEF Pair

LEMMA BondPair ==
  ASSUME NilApart, NEW s, NEW t, Pair(s, t), NEW m \in DOMAIN s.live, NEW r \in Nat
  PROVE  /\ Pair(HandleBond(s, m, r), HandleBond(t, m, r))
         /\ Marks(t, HandleBond(t, m, r))
<1>1. m \in DOMAIN t.live /\ t.live[m] = s.live[m] /\ Stake(t.live, m) = s.live[m]
      /\ Stake(s.live, m) = s.live[m]
  BY DEF Pair, Same, Covers, Stake
<1>2. Marks(t, t)
  BY DEF Marks
<1>3. CASE s.live[m] + 1 < MinStake
  BY <1>1, <1>2, <1>3 DEF HandleBond
<1>4. CASE ~(s.live[m] + 1 < MinStake)
  <2> DEFINE u == [s EXCEPT !.live[m] = @ + 1]
             x == [t EXCEPT !.live[m] = @ + 1]
  <2>1. HandleBond(s, m, r) = RefreezeGenesisRegime(u, r) /\ HandleBond(t, m, r) = RefreezeGenesisRegime(x, r)
    BY <1>1, <1>4 DEF HandleBond
  <2>2. PICK n : n = s.live[m] + 1
    OBVIOUS
  <2>3. m = Founder => n \in Nat /\ n >= GenesisStake
    BY <2>2 DEF NilApart, Pair, CommitteeOK, LiveOK
  <2>4. u = [s EXCEPT !.live[m] = n] /\ x = [t EXCEPT !.live[m] = n]
    BY <1>1, <2>2
  <2>5. Pair(u, x) /\ Marks(t, x)
    <3> HIDE DEF u, x
    <3>1. QED
      BY <2>3, <2>4, StakePair
  <2> HIDE DEF u, x
  <2>6. QED
    BY <2>1, <2>5, RegimePair, MarksChain
<1>5. QED
  BY <1>3, <1>4

LEMMA UnbondPair ==
  ASSUME NEW s, NEW t, Pair(s, t), NEW m \in DOMAIN s.live, m # Founder
  PROVE  /\ Pair(HandleUnbond(s, m), HandleUnbond(t, m))
         /\ Marks(t, HandleUnbond(t, m))
<1>1. m \in DOMAIN t.live /\ t.live[m] = s.live[m] /\ Stake(t.live, m) = s.live[m]
      /\ Stake(s.live, m) = s.live[m]
  BY DEF Pair, Same, Covers, Stake
<1>2. Marks(t, t)
  BY DEF Marks
<1> DEFINE refused == s.live[m] = 0 \/ s.live[m] - 1 \in 1..(MinStake - 1)
<1>3. CASE refused
  BY <1>1, <1>2, <1>3 DEF HandleUnbond
<1>4. CASE ~refused
  <2> DEFINE u == [s EXCEPT !.live[m] = @ - 1]
             x == [t EXCEPT !.live[m] = @ - 1]
  <2>1. HandleUnbond(s, m) = u /\ HandleUnbond(t, m) = x
    BY <1>1, <1>4 DEF HandleUnbond
  <2>2. PICK n : n = s.live[m] - 1
    OBVIOUS
  <2>3. u = [s EXCEPT !.live[m] = n] /\ x = [t EXCEPT !.live[m] = n]
    BY <1>1, <2>2
  <2> HIDE DEF u, x
  <2>4. QED
    BY SMTT(30), <2>1, <2>3, StakePair
<1>5. QED
  BY <1>3, <1>4

\* What the two nodes are given to execute: nobody bonds, unbonds or leaves who is not
\* a validator, and the founder neither unbonds nor leaves.
TxOK(s, tx) ==
  /\ tx.kind = "register" => tx.from \in Members
  /\ tx.kind = "bond" => tx.from \in DOMAIN s.live
  /\ tx.kind \in {"unbond", "deregister"} => tx.from \in DOMAIN s.live \ {Founder}

LEMMA ExecutePair ==
  ASSUME NilApart, NEW s, NEW t, Pair(s, t), NEW tx, TxOK(s, tx), NEW r \in Nat
  PROVE  /\ Pair(Execute(s, tx, r), Execute(t, tx, r))
         /\ Marks(t, Execute(t, tx, r))
<1>1. CASE tx.kind = "register"
  BY <1>1, RegisterPair DEF TxOK, Execute
<1>2. CASE tx.kind = "bond"
  BY <1>2, BondPair DEF TxOK, Execute
<1>3. CASE tx.kind = "unbond"
  BY <1>3, UnbondPair DEF TxOK, Execute
<1>4. CASE tx.kind = "deregister"
  <2> DEFINE R == s.removals \cup {tx.from}
             x == [t EXCEPT !.removals = R]
  <2>1. Founder \notin R /\ t.removals = s.removals
    BY <1>4 DEF TxOK, Pair, CommitteeOK, Same
  <2>2. Execute(s, tx, r) = [s EXCEPT !.removals = R] /\ Execute(t, tx, r) = x
    BY <1>4, <2>1 DEF Execute, HandleDeregister
  <2>3. Marks(t, x)
    BY DEF Marks, EpochState, Pair, CommitteeOK, Fields
  <2> HIDE DEF R
  <2>4. QED
    BY <2>1, <2>2, <2>3, RemovalsPair
<1>5. CASE tx.kind \notin {"register", "bond", "unbond", "deregister"}
  BY <1>5 DEF Execute, Marks
<1>6. QED
  BY <1>1, <1>2, <1>3, <1>4, <1>5

\* applyBatch, one vertex, on both nodes
LEMMA ApplyPair ==
  ASSUME NilApart, NEW s, NEW t, Pair(s, t), NEW tx, TxOK(s, tx), NEW p, cursor \in Nat
  PROVE  /\ Pair(ApplyTo(s, p, tx), ApplyTo(t, p, tx))
         /\ Marks(t, ApplyTo(t, p, tx))
<1> DEFINE u == Execute(s, tx, cursor)
           x == Execute(t, tx, cursor)
<1>1. Pair(u, x) /\ Marks(t, x)
  BY ExecutePair
<1> HIDE DEF u, x
<1>2. Pair(RecordProducedMember(u, p), RecordProducedMember(x, p))
  BY <1>1, ProducedPair
<1>3. Marks(x, RecordProducedMember(x, p))
  BY Zenon, <1>1 DEF Marks, RecordProducedMember, Pair, CommitteeOK, Fields
<1>4. QED
  BY <1>1, <1>2, <1>3, MarksChain DEF ApplyTo, u, x

-----------------------------------------------------------------------------
(* The boundary *)

\* settleDeferredEpoch: stakes that compound are stakes both nodes know.
LEMMA SettlePair ==
  ASSUME NilApart, NEW s, NEW t, Pair(s, t), NEW rewarded
  PROVE  Pair(Settle(s, rewarded), Settle(t, rewarded))
<1> DEFINE g(v) == [m \in DOMAIN v |->
                      IF m \in rewarded /\ v[m] \in 1..(MaxStake - 1) THEN v[m] + 1 ELSE v[m]]
<1>1. LiveOK(s.live) /\ LiveOK(t.live) /\ Covers(s.live, t.live, s.members) /\ t.epoch = s.epoch
  BY DEF Pair, CommitteeOK, Same, SameEpoch
<1>2. ASSUME NEW v, LiveOK(v) PROVE LiveOK(g(v))
  <2>1. g(v)[Founder] \in {v[Founder], v[Founder] + 1}
    BY <1>2 DEF LiveOK, IsHolders
  <2>2. g(v)[Founder] \in Nat /\ g(v)[Founder] >= GenesisStake
    <3> HIDE DEF g
    <3>1. QED
      BY <1>2, <2>1 DEF LiveOK, NilApart
  <2>3. IsHolders(g(v))
    BY <1>2 DEF LiveOK, IsHolders, IsMap
  <2>4. QED
    BY <2>2, <2>3 DEF LiveOK
<1>3. Covers(g(s.live), g(t.live), s.members)
  <2>1. 0 \notin 1..(MaxStake - 1)
    OBVIOUS
  <2>2. QED
    BY <1>1, <2>1 DEF Covers
<1>4. /\ Settle(s, rewarded) = IF s.epoch = 0 THEN s ELSE [s EXCEPT !.live = g(s.live)]
      /\ Settle(t, rewarded) = IF t.epoch = 0 THEN t ELSE [t EXCEPT !.live = g(t.live)]
  BY DEF Settle
<1>5. LiveOK(g(s.live)) /\ LiveOK(g(t.live))
  BY <1>1, <1>2
<1> HIDE DEF g
<1>6. QED
  BY <1>1, <1>3, <1>4, <1>5, LivePair

\* applyPendingRemovals: the same validators leave both live sets.
LEMMA RemovePair ==
  ASSUME NEW s, NEW t, Pair(s, t)
  PROVE  Pair(ApplyPendingRemovals(s), ApplyPendingRemovals(t))
<1> DEFINE R == Lowest({m \in s.removals : MayLeave(s, m)}, MaxChurn)
           v == Without(s.live, R)
           w == Without(t.live, R)
           Q == s.removals \ R
           u == [s EXCEPT !.live = v]
           x == [t EXCEPT !.live = w]
<1>1. LiveOK(s.live) /\ LiveOK(t.live) /\ Covers(s.live, t.live, s.members)
      /\ t.removals = s.removals /\ Founder \notin s.removals
  BY DEF Pair, CommitteeOK, Same, SameEpoch
<1>2. R = Lowest({m \in t.removals : MayLeave(t, m)}, MaxChurn)
  BY <1>1, StakesSame DEF MayLeave
<1>3. Founder \notin R
  BY <1>1 DEF Lowest
<1> HIDE DEF R
<1>4. LiveOK(v) /\ LiveOK(w)
  BY <1>1, <1>3 DEF LiveOK, IsHolders, IsMap, Without
<1>5. Covers(v, w, s.members)
  BY <1>1 DEF Covers, Without
<1> HIDE DEF v, w
<1>6. Pair(u, x)
  BY <1>4, <1>5, LivePair
<1>7. /\ [u EXCEPT !.removals = Q] = ApplyPendingRemovals(s)
      /\ [x EXCEPT !.removals = Q] = ApplyPendingRemovals(t)
  <2>1. /\ ApplyPendingRemovals(s) = [s EXCEPT !.live = v, !.removals = Q]
        /\ ApplyPendingRemovals(t) = [t EXCEPT !.live = w, !.removals = Q]
    BY Zenon, <1>1, <1>2 DEF ApplyPendingRemovals, R, v, w
  <2> HIDE DEF Q
  <2>2. QED
    BY <2>1 DEF Pair, CommitteeOK, Fields
<1>8. Founder \notin Q
  BY <1>1
<1> HIDE DEF u, x, Q
<1>9. QED
  BY <1>6, <1>7, <1>8, RemovalsPair

\* snapshotEpochHolders leaves out whoever is no member: the validator that added
\* itself on its own node alone is in neither snapshot.
LEMMA SnapshotSame ==
  ASSUME NEW s, NEW t, Pair(s, t)
  PROVE  SnapshotEpochHolders(s) = SnapshotEpochHolders(t) /\ IsHolders(SnapshotEpochHolders(s))
<1> DEFINE L == s.additions \ Lowest(s.additions, MaxChurn)
           f(v) == [m \in DOMAIN v \ (L \cup (DOMAIN v \ s.members)) |-> v[m]]
<1>1. LiveOK(s.live) /\ LiveOK(t.live) /\ Covers(s.live, t.live, s.members)
      /\ t.members = s.members /\ t.additions = s.additions
      /\ Founder \in s.members /\ Founder \notin s.additions
  BY DEF Pair, CommitteeOK, Same, SameEpoch
<1>2. SnapshotEpochHolders(s) = f(s.live) /\ SnapshotEpochHolders(t) = f(t.live)
  BY <1>1 DEF SnapshotEpochHolders, Without
<1>3. Founder \notin L
  BY <1>1
<1> HIDE DEF L
<1>4. f(s.live) = f(t.live)
  BY <1>1 DEF Covers
<1>5. IsHolders(f(s.live))
  BY <1>1, <1>3 DEF LiveOK, IsHolders, IsMap
<1> HIDE DEF f
<1>6. QED
  BY <1>2, <1>4, <1>5

\* What a committee is after a turn, whoever its holders are.
Turned(s, g, h, e, P) ==
  Published([s EXCEPT !.prev = g, !.holders = h, !.next = h, !.prevEligible = e, !.eligible = P,
                      !.nextEligible = P, !.additions = {}, !.epoch = @ + 1])

LEMMA TurnedOK ==
  ASSUME NEW s, CommitteeOK(s), NEW g, NEW h, NEW e, NEW P, IsHolders(g), IsHolders(h)
  PROVE  CommitteeOK(Turned(s, g, h, e, P)) /\ Turned(s, g, h, e, P).epoch = s.epoch + 1
<1> DEFINE u == [s EXCEPT !.prev = g, !.holders = h, !.next = h, !.prevEligible = e, !.eligible = P,
                          !.nextEligible = P, !.additions = {}, !.epoch = @ + 1]
           x == Turned(s, g, h, e, P)
<1>1. /\ u = [f \in Fields |-> u[f]]
      /\ u.prev = g /\ u.holders = h /\ u.next = h /\ u.additions = {} /\ u.epoch = s.epoch + 1
      /\ u.live = s.live /\ u.members = s.members /\ u.removals = s.removals
      /\ u.latched = s.latched /\ u.strictStart = s.strictStart
  BY ZenonT(30) DEF CommitteeOK, Fields
<1>2. x = [u EXCEPT !.mirror = MirrorOf(u)]
  BY DEF Turned, Published, MirrorOf
<1> HIDE DEF u, x
<1>3. x = [f \in Fields |-> x[f]] /\ x.mirror = MirrorOf(u) /\ \A f \in Fields \ {"mirror"} : x[f] = u[f]
  BY <1>1, <1>2 DEF Fields
<1>4. /\ x.prev = g /\ x.holders = h /\ x.next = h /\ x.additions = {} /\ x.epoch = s.epoch + 1
      /\ x.live = s.live /\ x.members = s.members /\ x.removals = s.removals
      /\ x.latched = s.latched /\ x.strictStart = s.strictStart
  BY <1>1, <1>3 DEF Fields
<1>5. x.mirror = MirrorOf(x)
  BY <1>1, <1>3, <1>4 DEF MirrorOf
<1>6. s.epoch + 1 \in Nat /\ s.epoch + 1 # 0
  BY DEF CommitteeOK
<1>7. QED
  BY <1>3, <1>4, <1>5, <1>6 DEF CommitteeOK, x

\* transitionEpoch, from the retained snapshots to the published ones
LEMMA RotatePair ==
  ASSUME NilApart, NEW s, NEW t, Pair(s, t)
  PROVE  Pair(Rotate(s), Rotate(t)) /\ Rotate(s).epoch = s.epoch + 1
<1> DEFINE h == SnapshotEpochHolders(s)
<1>1. h = SnapshotEpochHolders(t) /\ IsHolders(h)
  BY SnapshotSame
<1>2. s.holders # Nil /\ t.holders = s.holders /\ t.produced = s.produced /\ IsHolders(s.holders)
  BY HoldersSet DEF Pair, CommitteeOK, Same, SameEpoch
<1> DEFINE pe(y) == IF y.eligible = Nil THEN y.produced ELSE y.eligible
           u == Turned(s, s.holders, h, pe(s), s.produced)
           x == Turned(t, s.holders, h, pe(t), s.produced)
<1>3. Rotate(s) = u /\ Rotate(t) = x
  BY <1>1, <1>2 DEF Rotate, Turned
<1> HIDE DEF h, pe
<1>4. CommitteeOK(u) /\ u.epoch = s.epoch + 1 /\ CommitteeOK(x)
  BY <1>1, <1>2, TurnedOK DEF Pair
<1>5. Same(u, x)
  BY DEF Pair, CommitteeOK, Same, SameEpoch, Fields, Turned, Published, Alike
<1> HIDE DEF u, x
<1>6. QED
  BY <1>3, <1>4, <1>5 DEF Pair

\* advanceCommitCursor, in memory, on both nodes
LEMMA AdvancePair ==
  ASSUME NilApart, NEW s, NEW t, Pair(s, t), NEW rewarded
  PROVE  /\ Pair(Advance(s, rewarded), Advance(t, rewarded))
         /\ ~Advance(s, rewarded).dirty /\ ~Advance(t, rewarded).dirty
         /\ Advance(s, rewarded).epoch = IF IsEpochBoundary(cursor) THEN s.epoch + 1 ELSE s.epoch
<1> DEFINE a(y) == IF IsEpochBoundary(cursor) THEN TransitionEpoch(y, rewarded) ELSE y
<1>1. Pair(a(s), a(t)) /\ a(s).epoch = IF IsEpochBoundary(cursor) THEN s.epoch + 1 ELSE s.epoch
  <2>1. CASE ~IsEpochBoundary(cursor)
    BY <2>1
  <2>2. CASE IsEpochBoundary(cursor)
    <3> DEFINE b(y) == Settle(y, rewarded)
               c(y) == ApplyPendingRemovals(b(y))
    <3>1. Pair(b(s), b(t)) /\ b(s).epoch = s.epoch
      <4>1. b(s).epoch = s.epoch
        BY DEF Settle, Pair, CommitteeOK, Fields
      <4>2. QED
        BY <4>1, SettlePair
    <3> HIDE DEF b
    <3>2. Pair(c(s), c(t)) /\ c(s).epoch = s.epoch
      <4>1. c(s).epoch = b(s).epoch
        BY Zenon, <3>1 DEF ApplyPendingRemovals, Pair, CommitteeOK, Fields
      <4>2. QED
        BY SMTT(30), <3>1, <4>1, RemovePair
    <3> HIDE DEF c
    <3>3. Pair(Rotate(c(s)), Rotate(c(t))) /\ Rotate(c(s)).epoch = s.epoch + 1
      BY <3>2, RotatePair
    <3>4. a(s) = Rotate(c(s)) /\ a(t) = Rotate(c(t))
      BY <2>2 DEF TransitionEpoch, b, c
    <3> HIDE DEF a
    <3>5. QED
      BY <2>2, <3>3, <3>4
  <2>3. QED
    BY <2>1, <2>2
<1>2. Advance(s, rewarded) = [a(s) EXCEPT !.dirty = FALSE] /\ Advance(t, rewarded) = [a(t) EXCEPT !.dirty = FALSE]
  BY SMTT(30) DEF Advance
<1> HIDE DEF a
<1> DEFINE u == [a(s) EXCEPT !.dirty = FALSE]
           x == [a(t) EXCEPT !.dirty = FALSE]
<1>3. CommitteeOK(u) /\ CommitteeOK(x)
  BY ZenonT(30), <1>1 DEF Pair, CommitteeOK, Fields, MirrorOf
<1>4. Same(u, x) /\ ~u.dirty /\ ~x.dirty /\ u.epoch = a(s).epoch
  BY Zenon, <1>1 DEF Pair, CommitteeOK, Same, SameEpoch, Fields
<1>5. QED
  BY <1>1, <1>2, <1>3, <1>4 DEF Pair

\* The rounds of an epoch end at the boundary (isEpochBoundary).
LEMMA BoundaryEnds ==
  ASSUME NEW c \in Nat \ {0}, NEW e \in Nat, e * EpochLength < c, c <= (e + 1) * EpochLength
  PROVE  c % EpochLength = 0 <=> c = (e + 1) * EpochLength
<1> DEFINE L == EpochLength
           q == c \div L
           m == c % L
<1>1. L \in Nat \ {0}
  BY CommitteeAssumption
<1>2. q \in Nat /\ m \in 0..(L - 1) /\ c = L * q + m
  BY <1>1
<1> HIDE DEF L, q, m
<1>3. ASSUME m = 0 PROVE c = (e + 1) * L
  <2>1. e * L < q * L /\ q * L <= (e + 1) * L
    BY <1>1, <1>2, <1>3 DEF L
  <2>2. e < q
    BY <1>1, <1>2, <2>1
  <2>3. q <= e + 1
    BY <1>1, <1>2, <2>1
  <2>4. q = e + 1
    BY <1>2, <2>2, <2>3
  <2>5. QED
    BY <1>1, <1>2, <1>3, <2>4
<1>4. ASSUME c = (e + 1) * L PROVE m = 0
  <2>1. CASE q >= e + 1
    <3>1. L * q >= (e + 1) * L
      BY <1>1, <1>2, <2>1
    <3>2. QED
      BY <1>1, <1>2, <1>4, <3>1
  <2>2. CASE q <= e
    <3>1. L * q <= e * L
      BY <1>1, <1>2, <2>2
    <3>2. (e + 1) * L = e * L + L
      BY <1>1
    <3>3. QED
      BY <1>1, <1>2, <1>4, <3>1, <3>2
  <2>3. QED
    BY <1>2, <2>1, <2>2
<1>5. QED
  BY <1>3, <1>4 DEF L, m

\* No round from the cursor on is of an epoch that is over (commitEpochForRound).
LEMMA RoundsAhead ==
  ASSUME NEW r \in Nat, NEW e \in Nat, e = 0 \/ e * EpochLength < r
  PROVE  CommitEpochForRound(r) \in Nat /\ CommitEpochForRound(r) >= e
<1> DEFINE L == EpochLength
           q == r \div L
           m == r % L
<1>1. L \in Nat \ {0}
  BY CommitteeAssumption
<1>2. q \in Nat /\ m \in 0..(L - 1) /\ r = L * q + m
  BY <1>1
<1>3. CommitEpochForRound(r) = IF r > 0 /\ m = 0 THEN q - 1 ELSE q
  BY DEF CommitEpochForRound
<1>4. r > 0 /\ m = 0 => q >= 1
  <2> HIDE DEF L, q, m
  <2>1. q = 0 => L * q = 0
    BY <1>1
  <2>2. QED
    BY <1>1, <1>2, <2>1
<1>5. e * L < r => q >= e /\ (m = 0 => q >= e + 1)
  <2> SUFFICES ASSUME e * L < r PROVE q >= e /\ (m = 0 => q >= e + 1)
    OBVIOUS
  <2> HIDE DEF L, q, m
  <2>1. CASE q <= e - 1
    <3>1. L * q <= L * (e - 1)
      BY <1>1, <1>2, <2>1
    <3>2. L * (e - 1) = e * L - L
      BY <1>1
    <3>3. QED
      BY <1>1, <1>2, <3>1, <3>2
  <2>2. CASE q = e
    <3>1. L * q = e * L
      BY <1>1, <2>2
    <3>2. QED
      BY <1>1, <1>2, <2>2, <3>1
  <2>3. QED
    BY <1>2, <2>1, <2>2
<1> HIDE DEF q, m
<1>6. QED
  BY <1>2, <1>3, <1>4, <1>5 DEF L

-----------------------------------------------------------------------------
(* The start of a node *)

LEMMA PairSelf == ASSUME NEW s, CommitteeOK(s) PROVE Pair(s, s)
BY CoversSelf DEF Pair, Same, SameEpoch, Alike

\* publishEpochMirror
LEMMA PublishedFields ==
  ASSUME NEW u, u = [k \in Fields |-> u[k]]
  PROVE  /\ Published(u) = [k \in Fields |-> Published(u)[k]]
         /\ \A k \in Fields \ {"mirror"} : Published(u)[k] = u[k]
         /\ Published(u).mirror = MirrorOf(Published(u))
BY DEF Published, Fields, MirrorOf

\* SeedGenesisValidator over an empty directory
LEMMA GenesisOK == ASSUME NilApart PROVE CommitteeOK(Genesis) /\ Genesis.dirty = TRUE /\ Genesis.epoch = 0
<1> DEFINE o == [m \in {Founder} |-> 0]
           l == [m \in {Founder} |-> GenesisStake]
           t == [Fresh(o) EXCEPT !.live = l]
           w == [t EXCEPT !.members = @ \cup {Founder}, !.dirty = TRUE]
           f == RefreezeHolders(w)
           n == IF 0 + Delay < 0 + 1 THEN 0 + 1 ELSE 0 + Delay
           g == [f EXCEPT !.latched = TRUE, !.dirty = TRUE, !.strictStart = n]
<1>1. Genesis = RefreezeGenesisRegime(w, 0)
  <2> DEFINE vs == Add(o, Founder)
             ws == IF vs[Founder] = 0 THEN [vs EXCEPT ![Founder] = GenesisStake] ELSE vs
  <2>1. vs = o
    BY DEF Add, Stake
  <2>2. ws = l
    BY <2>1
  <2>3. Fresh(o).live = o
    BY DEF Fresh
  <2>4. Genesis = RecordCommittedMember([Fresh(o) EXCEPT !.live = ws], Founder, 0)
    BY <2>3 DEF Genesis, SeedGenesisValidator
  <2> HIDE DEF ws, vs
  <2>5. Founder \notin t.members
    BY DEF Fresh
  <2>6. QED
    BY <2>2, <2>4, <2>5 DEF RecordCommittedMember
<1>2. /\ w = [k \in Fields |-> w[k]]
      /\ w.live = l /\ w.members = {Founder} /\ w.additions = {} /\ w.removals = {} /\ w.epoch = 0
      /\ w.holders = Nil /\ w.prev = Nil /\ w.next = Nil /\ w.nextEligible = Nil
      /\ w.latched = FALSE /\ w.strictStart = 0
  BY ZenonT(30) DEF Fresh, Fields
<1> HIDE DEF w
<1> DEFINE h == FreezeGenesisHolders(w)
<1>3. IsHolders(h) /\ LiveOK(l)
  <2>1. Founder \in Members
    BY CommitteeAssumption
  <2>2. h = [m \in {k \in {Founder} : k \in {Founder} \cup DOMAIN <<>>} |->
               IF m \in {Founder} THEN l[m] ELSE <<>>[m]]
    BY <1>2 DEF FreezeGenesisHolders
  <2> HIDE DEF h
  <2>3. IsHolders(h)
    BY <2>1, <2>2 DEF IsHolders, IsMap
  <2>4. QED
    BY <2>1, <2>3 DEF LiveOK, IsHolders, IsMap, NilApart
<1>4. f = Published([w EXCEPT !.holders = h, !.eligible = w.produced, !.dirty = TRUE])
  BY <1>2 DEF RefreezeHolders
<1> HIDE DEF f, h, l
<1>5. CommitteeOK(f) /\ f.dirty = TRUE /\ f.latched = FALSE /\ f.epoch = 0
  <2>1. {Founder} \subseteq Members
    BY CommitteeAssumption
  <2> DEFINE u == [w EXCEPT !.holders = h, !.eligible = w.produced, !.dirty = TRUE]
  <2>2. /\ u = [k \in Fields |-> u[k]]
        /\ u.live = l /\ u.members = {Founder} /\ u.additions = {} /\ u.removals = {}
        /\ u.epoch = 0 /\ u.holders = h /\ u.prev = Nil /\ u.next = Nil /\ u.nextEligible = Nil
        /\ u.latched = FALSE /\ u.strictStart = 0 /\ u.dirty = TRUE
    BY Zenon, <1>2 DEF Fields
  <2> HIDE DEF u
  <2>3. /\ f = [k \in Fields |-> f[k]] /\ f.mirror = MirrorOf(f)
        /\ \A k \in Fields \ {"mirror"} : f[k] = u[k]
    BY <1>4, <2>2, PublishedFields DEF u
  <2>4. QED
    BY <1>3, <2>1, <2>2, <2>3 DEF CommitteeOK, Fields
<1>6. CommitteeOK(g) /\ g.dirty = TRUE /\ g.epoch = 0
  <2> HIDE DEF n
  <2>1. QED
    BY ZenonT(30), <1>5 DEF CommitteeOK, Fields, MirrorOf
<1>7. LatchStrictRegime(f, 0) = g
  BY <1>5 DEF LatchStrictRegime
<1> HIDE DEF g
<1>8. QED
  BY <1>1, <1>2, <1>5, <1>6, <1>7 DEF RefreezeGenesisRegime, f

\* applyRegimeState gives the joiner its source's committee.
LEMMA SyncedPair ==
  ASSUME NilApart, NEW s, CommitteeOK(s)
  PROVE  Pair(s, Synced(s))
<1> DEFINE x == Synced(s)
           u == [s EXCEPT !.eligible = Restored(@), !.prevEligible = Restored(@),
                          !.nextEligible = Restored(@), !.dirty = FALSE]
<1>1. RestoredHolders(s.holders) = s.holders /\ RestoredHolders(s.prev) = s.prev
      /\ RestoredHolders(s.next) = s.next
  BY Zenon, HoldersSet DEF CommitteeOK, RestoredHolders
<1>2. x = Published(u)
  <2> DEFINE y == [s EXCEPT !.holders = RestoredHolders(@), !.prev = RestoredHolders(@),
                      !.next = RestoredHolders(@), !.eligible = Restored(@),
                      !.prevEligible = Restored(@), !.nextEligible = Restored(@),
                      !.dirty = FALSE]
  <2>1. y = u
    BY ZenonT(30), <1>1 DEF CommitteeOK, Fields
  <2>2. x = Published(y)
    BY DEF Synced
  <2> HIDE DEF y, u, x
  <2>3. QED
    BY <2>1, <2>2
<1>3. Restored(Nil) = Nil /\ \A e : Restored(Restored(e)) = Restored(e)
  BY DEF Restored
<1>4. /\ u = [k \in Fields |-> u[k]]
      /\ \A k \in Fields \ {"eligible", "prevEligible", "nextEligible", "dirty"} : u[k] = s[k]
      /\ u.eligible = Restored(s.eligible) /\ u.nextEligible = Restored(s.nextEligible)
  BY Zenon DEF CommitteeOK, Fields
<1> HIDE DEF u, x
<1>5. /\ x = [k \in Fields |-> x[k]] /\ x.mirror = MirrorOf(x)
      /\ \A k \in Fields \ {"mirror"} : x[k] = u[k]
  BY <1>2, <1>4, PublishedFields
<1>6. CommitteeOK(x)
  BY ZenonT(30), <1>3, <1>4, <1>5 DEF CommitteeOK, Fields
<1>7. Same(s, x)
  BY <1>3, <1>4, <1>5, CoversSelf DEF Same, SameEpoch, Fields, Alike
<1>8. QED
  BY <1>6, <1>7 DEF Pair, x

\* restoreEpochState over what advanceCommitCursor saved gives back the committee the
\* node had, up to sets that are empty.
LEMMA RestorePair ==
  ASSUME NilApart, NEW s, CommitteeOK(s), NEW d,
         NEW e, e = d.saved, e # Nil, e = EpochState(e), SameEpoch(e, s) \/ SameEpoch(s, e),
         IsMap(d.live), Covers(s.live, d.live, s.members),
         d.additions = s.additions, d.removals = s.removals
  PROVE  /\ Pair(s, Restore(d, d.live))
         /\ ~Restore(d, d.live).dirty
         /\ SameEpoch(e, Restore(d, d.live))
<1> DEFINE x == Restore(d, d.live)
           b == [Fresh(d.live) EXCEPT !.additions = d.additions, !.removals = d.removals]
           u == [b EXCEPT
             !.epoch = e.epoch, !.holders = RestoredHolders(e.holders),
             !.prev = RestoredHolders(e.prev), !.next = RestoredHolders(e.next),
             !.produced = e.produced, !.eligible = Restored(e.eligible),
             !.prevEligible = Restored(e.prevEligible),
             !.nextEligible = Restored(e.nextEligible), !.members = RestoreCommittedMembers(e),
             !.latched = e.latched, !.strictStart = IF e.latched THEN e.strictStart ELSE 0]
<1>1. SameEpoch(s, e) /\ SameEpoch(e, s)
  BY DEF SameEpoch, Alike
<1>2. /\ e.holders = s.holders /\ e.prev = s.prev /\ e.next = s.next /\ e.members = s.members
      /\ e.epoch = s.epoch /\ e.produced = s.produced /\ e.latched = s.latched
      /\ e.strictStart = s.strictStart
  BY <1>1 DEF SameEpoch
<1>3. RestoredHolders(e.holders) = s.holders /\ RestoredHolders(e.prev) = s.prev
      /\ RestoredHolders(e.next) = s.next
  BY Zenon, <1>2, HoldersSet DEF CommitteeOK, RestoredHolders
<1>4. RestoreCommittedMembers(e) = s.members
  BY <1>2 DEF RestoreCommittedMembers, CommitteeOK
<1>5. (IF e.latched THEN e.strictStart ELSE 0) = s.strictStart
  BY <1>2 DEF CommitteeOK
<1>6. Restored(Nil) = Nil /\ \A y : Restored(Restored(y)) = Restored(y)
  BY SMTT(30) DEF Restored
<1>7. Restored(e.eligible) = Restored(s.eligible) /\ Restored(e.nextEligible) = Restored(s.nextEligible)
  BY <1>1 DEF SameEpoch, Alike
<1>8. x = Published(u)
  BY DEF Restore
<1>9. /\ b = [k \in Fields |-> b[k]] /\ b.live = d.live /\ b.additions = s.additions
      /\ b.removals = s.removals /\ b.dirty = FALSE
  BY ZenonT(30) DEF Fresh, Fields
<1>10. PICK pe, el, ne : /\ pe = Restored(e.prevEligible) /\ el = Restored(s.eligible)
                         /\ ne = Restored(s.nextEligible)
  OBVIOUS
<1>11. u = [b EXCEPT !.epoch = s.epoch, !.holders = s.holders, !.prev = s.prev, !.next = s.next,
             !.produced = s.produced, !.eligible = el, !.prevEligible = pe,
             !.nextEligible = ne, !.members = s.members,
             !.latched = s.latched, !.strictStart = s.strictStart]
  <2> HIDE DEF b
  <2>1. QED
    BY Zenon, <1>2, <1>3, <1>4, <1>5, <1>7, <1>10
<1> HIDE DEF x, b, u
<1>12. /\ u = [k \in Fields |-> u[k]] /\ u.live = d.live /\ u.additions = s.additions
       /\ u.removals = s.removals /\ u.dirty = FALSE
       /\ u.epoch = s.epoch /\ u.holders = s.holders /\ u.prev = s.prev /\ u.next = s.next
       /\ u.produced = s.produced /\ u.members = s.members /\ u.latched = s.latched
       /\ u.strictStart = s.strictStart
       /\ u.eligible = Restored(s.eligible) /\ u.nextEligible = Restored(s.nextEligible)
  BY ZenonT(30), <1>9, <1>10, <1>11 DEF Fields
<1>13. LiveOK(d.live)
  BY DEF CommitteeOK, LiveOK, IsHolders, Covers
<1>14. /\ x = [k \in Fields |-> x[k]] /\ x.mirror = MirrorOf(x)
       /\ \A k \in Fields \ {"mirror"} : x[k] = u[k]
  BY <1>8, <1>12, PublishedFields
<1>15. CommitteeOK(x)
  BY <1>6, <1>12, <1>13, <1>14 DEF CommitteeOK, Fields
<1>16. Same(s, x) /\ x.dirty = FALSE
  BY SMTT(30), <1>6, <1>12, <1>14 DEF Same, SameEpoch, Fields, Alike
<1>17. SameEpoch(e, x)
  BY <1>1, <1>16 DEF Same, SameEpoch, Alike
<1>18. QED
  BY <1>15, <1>16, <1>17 DEF Pair, x

-----------------------------------------------------------------------------
(* The steps *)

AvoidAll == AvoidCases \subseteq Avoid

\* The next vertex of the batch.
LEMMA ApplyAgrees ==
  ASSUME NilApart, AvoidAll, AgreeInv,
         NEW p \in Members, NEW tx \in Txs \cup {None}, ApplyVertex(p, tx)
  PROVE  AgreeInv'
<1>1. /\ applied' = applied + 1 /\ ref' = ApplyTo(ref, p, tx)
      /\ node' = IF up THEN ApplyTo(node, p, tx) ELSE node
      /\ UNCHANGED <<cursor, disk, self, up>>
  BY DEF ApplyVertex
<1>2. TxOK(ref, tx)
  BY DEF TxOK, Txs, None, AvoidAll, AvoidCases
<1>3. CommitteeOK(ref) /\ cursor \in Nat /\ applied \in Nat
  BY DEF AgreeInv, CursorInEpoch
<1>4. CommitteeOK(ref') /\ ref'.epoch = ref.epoch
  <2>1. Pair(ref', ref') /\ Marks(ref, ref')
    BY <1>1, <1>2, <1>3, PairSelf, ApplyPair
  <2>2. QED
    BY <2>1 DEF Pair, Marks
<1>5. CursorInEpoch' /\ applied' \in Nat /\ applied' # 0
  BY <1>1, <1>3, <1>4 DEF AgreeInv, CursorInEpoch
<1>6. ASSUME up PROVE CommitteeOK(node') /\ Same(ref', node') /\ DiskOK'
  <2>1. Pair(ref, node) /\ DiskOK
    BY <1>6 DEF AgreeInv, Pair
  <2>2. Pair(ref', node') /\ Marks(node, node')
    BY SMTT(30), <1>1, <1>2, <1>3, <1>6, <2>1, ApplyPair
  <2>3. CASE disk = EmptyDisk /\ (self = Founder => cursor = 0 /\ node.dirty)
    <3>1. node.dirty => node'.dirty
      BY Zenon, <2>2 DEF Marks
    <3>2. QED
      BY Zenon, <1>1, <2>2, <2>3, <3>1 DEF DiskOK, EmptyDisk, Pair
  <2>4. CASE ~(disk = EmptyDisk /\ (self = Founder => cursor = 0 /\ node.dirty))
    <3>1. ASSUME NEW e, SameEpoch(e, node), ~node'.dirty PROVE SameEpoch(e, node')
      BY <2>2, <3>1 DEF Marks, EpochState, SameEpoch
    <3>2. disk.saved # Nil => node'.dirty \/ SameEpoch(disk.saved, node')
      <4>1. node.dirty => node'.dirty
        BY Zenon, <2>2 DEF Marks
      <4>2. QED
        BY <2>1, <2>4, <3>1, <4>1 DEF DiskOK
    <3>3. QED
      BY <1>1, <1>5, <2>1, <2>2, <2>4, <3>2 DEF DiskOK, Pair
  <2>5. QED
    BY <2>2, <2>3, <2>4 DEF Pair
<1>7. QED
  BY <1>1, <1>4, <1>5, <1>6 DEF AgreeInv

\* advanceCommitCursor: what is saved is the committee the node goes on with.
LEMMA AdvanceAgrees ==
  ASSUME NilApart, AgreeInv, NEW rewarded \in SUBSET Members, AdvanceCommitCursor(rewarded)
  PROVE  AgreeInv'
<1>1. /\ cursor' = cursor + 1 /\ applied' = 0 /\ ref' = Advance(ref, rewarded)
      /\ node' = IF up THEN Advance(node, rewarded) ELSE node
      /\ disk' = IF up THEN Saved(disk, node, Advance(node, rewarded), cursor) ELSE disk
      /\ UNCHANGED <<self, up>>
  BY DEF AdvanceCommitCursor
<1>2. CommitteeOK(ref) /\ cursor \in Nat /\ ref.epoch \in Nat
  BY DEF AgreeInv, CursorInEpoch, CommitteeOK
<1>3. CommitteeOK(ref') /\ ~ref'.dirty
      /\ ref'.epoch = IF IsEpochBoundary(cursor) THEN ref.epoch + 1 ELSE ref.epoch
  BY <1>1, <1>2, PairSelf, AdvancePair DEF Pair
<1>4. CursorInEpoch'
  <2> DEFINE L == EpochLength
             e == ref.epoch
  <2>1. L \in Nat \ {0}
    BY CommitteeAssumption
  <2>2. CASE cursor = 0
    <3>1. e = 0 /\ ref'.epoch = 0 /\ cursor' = 1
      BY <1>1, <1>3, <2>2 DEF AgreeInv, CursorInEpoch, IsEpochBoundary
    <3>2. QED
      BY <2>1, <3>1 DEF CursorInEpoch
  <2>3. CASE cursor # 0
    <3>1. e * L < cursor /\ cursor <= (e + 1) * L
      BY <2>3 DEF AgreeInv, CursorInEpoch
    <3>2. IsEpochBoundary(cursor) <=> cursor = (e + 1) * L
      BY <1>2, <2>3, <3>1, BoundaryEnds DEF IsEpochBoundary
    <3>3. (e + 1) * L \in Nat /\ e * L \in Nat /\ (e + 1 + 1) * L = (e + 1) * L + L
      BY <1>2, <2>1
    <3>4. PICK x, y, z : x = e * L /\ y = (e + 1) * L /\ z = (e + 1 + 1) * L
      OBVIOUS
    <3> HIDE DEF L, e
    <3>5. CASE IsEpochBoundary(cursor)
      <4>1. y < cursor + 1 /\ cursor + 1 <= z
        BY <1>2, <2>1, <3>2, <3>3, <3>4, <3>5
      <4>2. ref'.epoch = e + 1
        BY <1>3, <3>5 DEF e
      <4>3. QED
        BY <1>1, <1>2, <3>4, <4>1, <4>2 DEF CursorInEpoch, L
    <3>6. CASE ~IsEpochBoundary(cursor)
      <4>1. x < cursor + 1 /\ cursor + 1 <= y
        BY <1>2, <2>1, <3>1, <3>2, <3>3, <3>4, <3>6
      <4>2. ref'.epoch = e
        BY <1>3, <3>6 DEF e
      <4>3. QED
        BY <1>1, <1>2, <3>4, <4>1, <4>2 DEF CursorInEpoch, L
    <3>7. QED
      BY <3>5, <3>6
  <2>4. QED
    BY <2>2, <2>3
<1>5. ASSUME up PROVE CommitteeOK(node') /\ Same(ref', node') /\ DiskOK'
  <2>1. Pair(ref, node) /\ DiskOK
    BY <1>5 DEF AgreeInv, Pair
  <2>2. Pair(ref', node') /\ ~node'.dirty
    BY SMTT(30), <1>1, <1>5, <2>1, AdvancePair
  <2> DEFINE full == IsEpochBoundary(cursor) \/ node.dirty
  <2>3. /\ disk' = [f \in {"cursor", "live", "additions", "removals", "saved"} |-> disk'[f]]
        /\ disk'.cursor = cursor + 1 /\ disk'.live = node.live
        /\ disk'.additions = node'.additions /\ disk'.removals = node'.removals
        /\ disk'.saved = IF full THEN EpochState(node') ELSE disk.saved
    BY <1>1, <1>5 DEF Saved
  <2>4. ~IsEpochBoundary(cursor) =>
          /\ ref' = [ref EXCEPT !.dirty = FALSE] /\ node' = [node EXCEPT !.dirty = FALSE]
    BY <1>1, <1>5 DEF Advance
  <2>5. /\ disk'.saved # Nil => disk'.saved = EpochState(disk'.saved) /\ SameEpoch(disk'.saved, node')
        /\ disk'.saved = Nil => self # Founder
    <3>1. CASE full
      <4>1. disk'.saved = EpochState(node')
        BY <2>3, <3>1
      <4>2. disk'.saved # Nil
        BY Zenon, <4>1 DEF NilApart
      <4>3. EpochState(disk'.saved) = disk'.saved
        BY <4>1 DEF EpochState
      <4>4. SameEpoch(disk'.saved, node')
        BY <4>1 DEF EpochState, SameEpoch, Alike
      <4>5. QED
        BY <4>2, <4>3, <4>4
    <3>2. CASE ~full
      <4>1. disk'.saved = disk.saved /\ node' = [node EXCEPT !.dirty = FALSE]
        BY <2>3, <2>4, <3>2
      <4>2. disk.saved # Nil => disk.saved = EpochState(disk.saved) /\ SameEpoch(disk.saved, node)
        BY <2>1, <3>2 DEF DiskOK, EmptyDisk
      <4>3. disk.saved = Nil => self # Founder
        BY <2>1, <3>2 DEF DiskOK
      <4>4. ASSUME NEW e, SameEpoch(e, node) PROVE SameEpoch(e, node')
        BY <2>1, <4>1, <4>4 DEF SameEpoch, Pair, CommitteeOK, Fields
      <4>5. QED
        BY ZenonT(30), <4>1, <4>2, <4>3, <4>4
    <3>3. QED
      BY <3>1, <3>2
  <2>6. cursor' - 1 = cursor /\ cursor' # 0
    BY <1>1, <1>2
  <2>7. ~IsEpochBoundary(cursor) =>
          /\ IsMap(disk'.live) /\ Covers(ref'.live, disk'.live, ref'.members)
          /\ disk'.additions = ref'.additions /\ disk'.removals = ref'.removals
    <3> SUFFICES ASSUME ~IsEpochBoundary(cursor)
                 PROVE  /\ IsMap(disk'.live) /\ Covers(ref'.live, disk'.live, ref'.members)
                        /\ disk'.additions = ref'.additions /\ disk'.removals = ref'.removals
      OBVIOUS
    <3>1. ref'.live = ref.live /\ ref'.members = ref.members
      BY <1>2, <2>4 DEF CommitteeOK, Fields
    <3>2. IsMap(node.live) /\ Covers(ref.live, node.live, ref.members)
      BY <2>1 DEF Pair, CommitteeOK, Same, LiveOK, IsHolders
    <3>3. node'.additions = ref'.additions /\ node'.removals = ref'.removals
      BY <2>2 DEF Pair, Same
    <3>4. QED
      BY <2>3, <3>1, <3>2, <3>3
  <2>8. DiskOK'
    BY <1>1, <2>2, <2>3, <2>5, <2>6, <2>7 DEF DiskOK
  <2>9. QED
    BY <2>2, <2>8 DEF Pair
<1>6. QED
  BY <1>1, <1>2, <1>3, <1>4, <1>5 DEF AgreeInv

\* performSync, and selfAddToValidatorSet after it
LEMMA JoinAgrees == ASSUME NilApart, AgreeInv, Join PROVE AgreeInv'
<1>1. /\ ~up /\ up' = TRUE /\ node' = Synced(ref) /\ disk' = EmptyDisk
      /\ UNCHANGED <<cursor, applied, ref, self>>
  BY DEF Join
<1>2. CommitteeOK(ref) /\ self # Founder
  BY <1>1 DEF AgreeInv
<1>3. CommitteeOK(node') /\ Same(ref, node')
  BY <1>1, <1>2, SyncedPair DEF Pair
<1>4. CommitteeOK(ref') /\ Same(ref', node') /\ CursorInEpoch'
  BY SMTT(30), <1>1, <1>2, <1>3 DEF AgreeInv, CursorInEpoch
<1>5. DiskOK'
  BY <1>1, <1>2 DEF DiskOK, EmptyDisk
<1>6. QED
  BY <1>1, <1>3, <1>4, <1>5 DEF AgreeInv

LEMMA SelfAddAgrees == ASSUME NilApart, AvoidAll, AgreeInv, SelfAdd PROVE AgreeInv'
<1> DEFINE w == Add(node.live, self)
<1>1. /\ up /\ self # Founder /\ self \notin node.members
      /\ node' = [node EXCEPT !.live = w]
      /\ UNCHANGED <<cursor, applied, ref, disk, self, up>>
  BY DEF SelfAdd, AvoidAll, AvoidCases
<1>2. Pair(ref, node) /\ DiskOK /\ self \in Members
  BY <1>1 DEF AgreeInv, Pair
<1>3. LiveOK(node.live) /\ LiveOK(ref.live) /\ node.members = ref.members
      /\ Covers(ref.live, node.live, ref.members)
  BY SMTT(30), <1>2 DEF Pair, CommitteeOK, Same, SameEpoch
<1>4. LiveOK(w)
  BY <1>2, <1>3 DEF LiveOK, IsHolders, IsMap, Add, Stake
<1>5. Covers(ref.live, w, ref.members)
  BY <1>1, <1>3 DEF Covers, Add, Stake
<1> HIDE DEF w
<1>6. ref = [ref EXCEPT !.live = ref.live]
  BY <1>2 DEF Pair, CommitteeOK, Fields
<1>7. Pair(ref, node') /\ Marks(node, node')
  BY <1>1, <1>2, <1>3, <1>4, <1>5, <1>6, LivePair, LiveMarks DEF Pair
<1>8. node'.dirty = node.dirty /\ \A e : SameEpoch(e, node) => SameEpoch(e, node')
  BY <1>1, <1>2 DEF Pair, CommitteeOK, Fields, SameEpoch
<1>9. DiskOK'
  BY <1>1, <1>2, <1>8 DEF DiskOK, EmptyDisk
<1>10. CommitteeOK(ref') /\ CommitteeOK(node') /\ Same(ref', node') /\ CursorInEpoch'
  BY <1>1, <1>7 DEF AgreeInv, CursorInEpoch, Pair
<1>11. QED
  BY <1>1, <1>9, <1>10 DEF AgreeInv

\* SeedGenesisValidator on a founder that is a member already changes nothing.
LEMMA SeedAgain ==
  ASSUME NilApart, NEW s, CommitteeOK(s), NEW r
  PROVE  SeedGenesisValidator(s, r) = s
<1> DEFINE vs == Add(s.live, Founder)
           ws == IF vs[Founder] = 0 THEN [vs EXCEPT ![Founder] = GenesisStake] ELSE vs
<1>1. vs = s.live
  BY DEF CommitteeOK, LiveOK, IsHolders, IsMap, Add, Stake
<1>2. ws = s.live
  <2>1. s.live[Founder] \in Nat /\ s.live[Founder] >= GenesisStake /\ GenesisStake \in Nat
    BY DEF CommitteeOK, LiveOK, NilApart
  <2>2. s.live[Founder] = 0 => [s.live EXCEPT ![Founder] = GenesisStake] = s.live
    BY <2>1 DEF CommitteeOK, LiveOK, IsHolders, IsMap
  <2> HIDE DEF vs
  <2>3. QED
    BY <1>1, <2>2
<1>3. SeedGenesisValidator(s, r) = RecordCommittedMember([s EXCEPT !.live = ws], Founder, r)
  BY DEF SeedGenesisValidator
<1> HIDE DEF ws, vs
<1>4. [s EXCEPT !.live = ws] = s
  BY <1>2 DEF CommitteeOK, Fields
<1>5. Founder \in s.members
  BY DEF CommitteeOK
<1>6. QED
  BY <1>3, <1>4, <1>5 DEF RecordCommittedMember

\* A clean stop between two rounds and the next start
LEMMA RestartAgrees == ASSUME NilApart, AvoidAll, AgreeInv, Restart PROVE AgreeInv'
<1>1. /\ up /\ applied = 0 /\ ~IsEpochBoundary(cursor - 1)
      /\ self = Founder \/ disk.saved # Nil
      /\ up' = (self = Founder \/ Resumes)
      /\ node' = IF self = Founder \/ Resumes THEN Boot ELSE Fresh(<<>>)
      /\ UNCHANGED <<cursor, applied, ref, disk, self>>
  BY DEF Restart, AvoidAll, AvoidCases
<1>2. Pair(ref, node) /\ DiskOK /\ CommitteeOK(ref)
  BY <1>1 DEF AgreeInv, Pair
<1>3. CommitteeOK(ref') /\ CursorInEpoch'
  BY <1>1 DEF AgreeInv, CursorInEpoch
<1>4. ASSUME self = Founder \/ Resumes
      PROVE  CommitteeOK(node') /\ Same(ref, node') /\ DiskOK'
  <2>1. node' = Boot
    BY <1>1, <1>4
  <2>2. CASE disk = EmptyDisk /\ (self = Founder => cursor = 0 /\ node.dirty)
    <3>1. disk.cursor = 0 /\ disk.live = <<>> /\ disk.saved = Nil
          /\ disk.additions = {} /\ disk.removals = {}
      BY <2>2 DEF EmptyDisk
    <3>2. self = Founder /\ cursor = 0
      BY <1>4, <2>2, <3>1 DEF Resumes
    <3> DEFINE o == [m \in {Founder} |-> 0]
    <3>3. BuildValidatorSet = o
      BY <3>1, <3>2 DEF BuildValidatorSet
    <3>4. Restore(disk, o) = Fresh(o)
      BY ZenonT(30), <3>1 DEF Restore, Fresh
    <3>5. Boot = Genesis
      <4> HIDE DEF o
      <4>1. Boot = SeedGenesisValidator(Fresh(o), 0)
        BY <3>1, <3>2, <3>3, <3>4 DEF Boot
      <4>2. QED
        BY <4>1 DEF Genesis, o
    <3>6. ref = Genesis
      BY <1>1, <3>2 DEF AgreeInv
    <3>7. Pair(ref, node') /\ node'.dirty
      BY Zenon, <1>2, <2>1, <3>5, <3>6, PairSelf, GenesisOK
    <3>8. DiskOK'
      BY <1>1, <2>2, <3>2, <3>7 DEF DiskOK, EmptyDisk
    <3>9. QED
      BY <3>7, <3>8 DEF Pair
  <2>3. CASE ~(disk = EmptyDisk /\ (self = Founder => cursor = 0 /\ node.dirty))
    <3>1. /\ disk = [f \in {"cursor", "live", "additions", "removals", "saved"} |-> disk[f]]
          /\ disk.cursor = cursor /\ cursor # 0 /\ disk.saved # Nil
          /\ disk.saved = EpochState(disk.saved) /\ SameEpoch(disk.saved, node)
          /\ IsMap(disk.live) /\ Covers(ref.live, disk.live, ref.members)
          /\ disk.additions = ref.additions /\ disk.removals = ref.removals
      BY <1>1, <1>2, <2>3 DEF DiskOK
    <3>2. SameEpoch(disk.saved, ref)
      BY <1>2, <3>1 DEF SameEpoch, Alike, Pair, Same
    <3>3. BuildValidatorSet = disk.live
      BY Zenon, <1>2, <3>1 DEF BuildValidatorSet, Covers, CommitteeOK, LiveOK, IsHolders
    <3> DEFINE x == Restore(disk, disk.live)
    <3>4. Pair(ref, x) /\ ~x.dirty /\ SameEpoch(disk.saved, x)
      BY <1>2, <3>1, <3>2, RestorePair
    <3> HIDE DEF x
    <3>5. Boot = x
      BY <3>3, <3>4, SeedAgain DEF Boot, Pair, x
    <3>6. DiskOK'
      BY <1>1, <2>1, <3>1, <3>4, <3>5 DEF DiskOK
    <3>7. QED
      BY <2>1, <3>4, <3>5, <3>6 DEF Pair
  <2>4. QED
    BY <2>2, <2>3
<1>5. QED
  BY Zenon, <1>1, <1>3, <1>4 DEF AgreeInv

LEMMA StepAgrees == ASSUME NilApart, AvoidAll, AgreeInv, [Next]_vars PROVE AgreeInv'
<1>1. CASE UNCHANGED vars
  BY <1>1 DEF vars, AgreeInv, CursorInEpoch, DiskOK, EmptyDisk
<1>2. CASE Next
  BY <1>2, ApplyAgrees, AdvanceAgrees, JoinAgrees, SelfAddAgrees, RestartAgrees DEF Next
<1>3. QED
  BY <1>1, <1>2

\* What two committees that agree serve from the cursor's round on is the same.
LEMMA AgreeServes == ASSUME NilApart, AgreeInv PROVE CommitteeAgrees
<1> SUFFICES ASSUME up PROVE
      /\ HoldersForEpoch(node, ref.epoch - 1) = HoldersForEpoch(ref, ref.epoch - 1)
      /\ \A r \in cursor..(cursor + EpochLength) :
           /\ HoldersForEpoch(node, CommitEpochForRound(r)) = HoldersForEpoch(ref, CommitEpochForRound(r))
           /\ Designatable(node, r) = Designatable(ref, r)
           /\ RoundIsRelaxed(node, r) = RoundIsRelaxed(ref, r)
  BY DEF CommitteeAgrees
<1>1. CommitteeOK(ref) /\ CommitteeOK(node) /\ Same(ref, node) /\ CursorInEpoch
  BY SMTT(30) DEF AgreeInv
<1>2. node.mirror = ref.mirror
  BY <1>1 DEF CommitteeOK, MirrorOf, Same, SameEpoch
<1>3. \A e : HoldersForEpoch(node, e) = HoldersForEpoch(ref, e)
  BY <1>2 DEF HoldersForEpoch
<1>4. ASSUME NEW r \in cursor..(cursor + EpochLength)
      PROVE  /\ Designatable(node, r) = Designatable(ref, r)
             /\ RoundIsRelaxed(node, r) = RoundIsRelaxed(ref, r)
  <2>1. RoundIsRelaxed(node, r) = RoundIsRelaxed(ref, r)
    BY <1>1 DEF RoundIsRelaxed, Same, SameEpoch
  <2>2. PICK e : e = CommitEpochForRound(r)
    OBVIOUS
  <2>3. e \in Nat /\ e >= ref.epoch /\ ref.epoch \in Nat
    <3>1. ref.epoch \in Nat /\ r \in Nat /\ cursor \in Nat /\ r >= cursor
      BY <1>1, CommitteeAssumption DEF CommitteeOK, CursorInEpoch
    <3>2. EpochLength \in Nat
      BY CommitteeAssumption
    <3>3. PICK x : x = ref.epoch * EpochLength
      OBVIOUS
    <3>4. x \in Int
      BY <3>1, <3>2, <3>3
    <3>5. ref.epoch = 0 \/ x < r
      BY <1>1, <3>1, <3>3, <3>4 DEF CursorInEpoch
    <3>6. QED
      BY <2>2, <3>1, <3>3, <3>5, RoundsAhead
  <2>4. Alike(EligibleForEpoch(ref, e), EligibleForEpoch(node, e))
    <3>1. /\ node.epoch = ref.epoch /\ Alike(ref.eligible, node.eligible)
          /\ Alike(ref.nextEligible, node.nextEligible)
          /\ ref.epoch = 0 => ref.nextEligible = Nil /\ node.nextEligible = Nil
      BY <1>1 DEF Same, SameEpoch, CommitteeOK
    <3>2. CASE e = ref.epoch
      BY <2>3, <3>1, <3>2 DEF EligibleForEpoch
    <3>3. CASE e = ref.epoch + 1
      BY <2>3, <3>1, <3>3 DEF EligibleForEpoch, Alike, Restored
    <3>4. CASE e # ref.epoch /\ e # ref.epoch + 1
      <4>1. e # ref.epoch - 1
        BY <2>3
      <4>2. QED
        BY <3>1, <3>4, <4>1 DEF EligibleForEpoch, Alike
    <3>5. QED
      BY <3>2, <3>3, <3>4
  <2>5. ASSUME NEW x, NEW y, Alike(x, y), NEW keys
        PROVE  (IF x = Nil THEN {} ELSE keys \cap x) = (IF y = Nil THEN {} ELSE keys \cap y)
    <3>1. Nil # {}
      BY DEF NilApart
    <3>2. QED
      BY <2>5, <3>1 DEF Alike, Restored
  <2>6. Designatable(node, r) = Designatable(ref, r)
    <3>1. PICK H : H = HoldersForEpoch(ref, e) /\ H = HoldersForEpoch(node, e)
      BY <1>3
    <3>2. PICK x, y : x = EligibleForEpoch(ref, e) /\ y = EligibleForEpoch(node, e)
      OBVIOUS
    <3>3. Alike(x, y)
      BY <2>4, <3>2
    <3> DEFINE K == IF H = Nil THEN {} ELSE DOMAIN H
               F(E) == IF E = Nil THEN {} ELSE K \cap E
    <3>4. Designatable(ref, r) = IF F(x) = {} THEN K ELSE F(x)
      BY <2>2, <3>1, <3>2 DEF Designatable
    <3>5. Designatable(node, r) = IF F(y) = {} THEN K ELSE F(y)
      BY <2>2, <3>1, <3>2 DEF Designatable
    <3> HIDE DEF K
    <3>6. F(x) = F(y)
      BY Zenon, <2>5, <3>3
    <3> HIDE DEF F
    <3>7. QED
      BY <3>4, <3>5, <3>6
  <2>7. QED
    BY <2>1, <2>6
<1>5. QED
  BY <1>3, <1>4

\* Outside the four cases, two nodes at one cursor serve the same holders, designate
\* from the same candidates and hold the same rounds for relaxed, for every committee,
\* epoch length, churn limit and delay, whatever is registered, bonded, rewarded and
\* removed, and however often the node joins, announces itself early and is restarted
\* (HoldersForEpoch, anchorProducerFor, roundIsRelaxed, restoreEpochState).
THEOREM CommitteeAgreesHolds == ASSUME NilApart, AvoidAll PROVE Spec => []CommitteeAgrees
<1>1. Init => AgreeInv
  <2> SUFFICES ASSUME Init PROVE AgreeInv
    OBVIOUS
  <2>1. /\ cursor = 0 /\ applied = 0 /\ ref = Genesis /\ self \in Members
        /\ up = (self = Founder) /\ node = (IF self = Founder THEN Genesis ELSE Fresh(<<>>))
        /\ disk = EmptyDisk
    BY DEF Init
  <2>2. CommitteeOK(Genesis) /\ Genesis.dirty = TRUE /\ Genesis.epoch = 0 /\ Pair(Genesis, Genesis)
    BY Zenon, GenesisOK, PairSelf
  <2>3. CursorInEpoch
    BY <2>1, <2>2 DEF CursorInEpoch
  <2>4. QED
    BY Zenon, <2>1, <2>2, <2>3 DEF AgreeInv, DiskOK, Pair
<1>2. AgreeInv /\ [Next]_vars => AgreeInv'
  BY StepAgrees
<1>3. AgreeInv => CommitteeAgrees
  BY AgreeServes
<1>4. QED
  BY <1>1, <1>2, <1>3, PTL DEF Spec

=============================================================================
