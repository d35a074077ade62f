-------------------------- MODULE DeclaredOpsLemmas --------------------------
(***************************************************************************)
(* The types and the lease bounds of the object tracker, the domain        *)
(* registry and the index, for every set of objects, names and             *)
(* transactions, whatever lists, pod calls, epochs and crashes do.  Then   *)
(* the facts DeclaredOpsProofs rests on: walks, loops and counts over      *)
(* parent edges, and the overlay a declared list is validated in.          *)
(***************************************************************************)
EXTENDS DeclaredOps, FiniteSetTheorems, TLAPS

\* Every non-empty set of natural numbers has a least element.
LEMMA LeastNat ==
  ASSUME NEW T \in SUBSET Nat, T # {}
  PROVE  \E x \in T : \A y \in T : x <= y
<1>1. PICK x \in T : \A y \in T : ~(<<y, x>> \in OpToRel(<, Nat))
  BY Zenon, NatLessThanWellFounded, WFMin
<1>2. \A y \in T : ~(y < x)
  BY Zenon, <1>1 DEF OpToRel
<1>3. QED
  BY <1>2

\* A tracker: every entry has a parent and a count that fits its width.
IsTracker(t) ==
    /\ t = [edge |-> t.edge, count |-> t.count]
    /\ DOMAIN t.edge \subseteq Objects
    /\ t.edge \in [DOMAIN t.edge -> Objects \cup Keys]
    /\ t.count \in [DOMAIN t.edge -> 0..CountModulus - 1]

\* A name is never handed to the zero key.
HandsOver(op) == op.kind = "transfer" => op.target \in Keys \ {ZeroKey}

Phases == {"validate", "apply", "execute"}

\* The list in progress: what is applied was validated.
WorkOK ==
    work # None =>
        /\ work = [k \in {"tx", "phase", "at", "staged", "readings"} |-> work[k]]
        /\ work.tx \in done
        /\ work.phase \in Phases
        /\ work.at \in Nat
        /\ work.phase = "validate" => \A i \in 1..work.at : HandsOver(work.tx.ops[i])
        /\ work.phase = "apply" =>
              \A i \in 1..Len(work.tx.ops) : HandsOver(work.tx.ops[i])

IInv == TypeOK /\ WorkOK /\ LeasesLive

\* The parts an action touches one at a time.
TrackOK == IsTracker(Tracker)
BodyOK == DOMAIN body \subseteq Objects /\ body \in [DOMAIN body -> Objects \cup Keys]
NamesOK ==
    /\ DOMAIN names \subseteq Names
    /\ names \in [DOMAIN names -> Leaf]
    /\ LeasesLive
CountersOK ==
    epoch \in 0..MaxEpoch /\ done \subseteq Txs /\ crashes \in 0..MaxCrashes

-----------------------------------------------------------------------------
(* The tracker's operations *)

\* adjustChildCount keeps the tracker well formed: the count wraps.
LEMMA AdjustTyped ==
    ASSUME NEW t, IsTracker(t), NEW p, NEW delta \in Int
    PROVE  IsTracker(Adjust(t, p, delta)) /\ DOMAIN Adjust(t, p, delta).edge = DOMAIN t.edge
<1>1. CASE p \notin DOMAIN t.edge
  BY <1>1 DEF Adjust
<1>2. CASE p \in DOMAIN t.edge
  <2> DEFINE n == (t.count[p] + delta) % CountModulus
             c == [t.count EXCEPT ![p] = n]
  <2>1. n \in 0..CountModulus - 1
    BY <1>2, OpsAssumption DEF IsTracker, OpsAssumption
  <2>2. Adjust(t, p, delta) = [edge |-> t.edge, count |-> c]
    BY <1>2 DEF Adjust, IsTracker
  <2> HIDE DEF n
  <2>3. c \in [DOMAIN t.edge -> 0..CountModulus - 1]
    BY <1>2, <2>1 DEF IsTracker
  <2> HIDE DEF c
  <2>4. QED
    BY <2>2, <2>3 DEF IsTracker
<1>3. QED
  BY <1>1, <1>2

\* An entry written under an object or a key leaves a well-formed tracker.
LEMMA WriteEntryTyped ==
    ASSUME NEW t, IsTracker(t), NEW o \in Objects, NEW p \in Objects \cup Keys
    PROVE  IsTracker(WriteEntry(t, o, p))
<1> DEFINE e == Put(t.edge, o, p)
           c == Put(t.count, o, IF o \in DOMAIN t.edge THEN t.count[o] ELSE 0)
<1>1. DOMAIN t.count = DOMAIN t.edge
  BY DEF IsTracker
<1>2. DOMAIN e = DOMAIN t.edge \cup {o} /\ e \in [DOMAIN e -> Objects \cup Keys]
  BY DEF Put, IsTracker
<1>3. 0 \in 0..CountModulus - 1
  BY OpsAssumption, FS_CardinalityType DEF OpsAssumption
<1>4. c \in [DOMAIN t.edge \cup {o} -> 0..CountModulus - 1]
  BY <1>1, <1>3 DEF Put, IsTracker
<1>5. WriteEntry(t, o, p) = [edge |-> e, count |-> c]
  BY DEF WriteEntry
<1> HIDE DEF e, c
<1>6. QED
  BY <1>2, <1>4, <1>5 DEF IsTracker

\* trackObject and setParent keep the tracker well formed.
LEMMA AttachTyped ==
    ASSUME NEW t, IsTracker(t), NEW o \in Objects, NEW p \in Objects \cup Keys
    PROVE  /\ IsTracker(WriteEntry(t, o, p))
           /\ IsTracker(Unbind(t, o, WriteEntry(t, o, p)))
           /\ IsTracker(Attach(t, o, p))
<1>1. IsTracker(WriteEntry(t, o, p))
  BY WriteEntryTyped
<1>2. IsTracker(Unbind(t, o, WriteEntry(t, o, p)))
  BY <1>1, AdjustTyped DEF Unbind
<1>3. IsTracker(Attach(t, o, p))
  BY <1>1, <1>2, AdjustTyped DEF Attach
<1>4. QED
  BY <1>1, <1>2, <1>3

\* deleteObject keeps the tracker well formed.
LEMMA DetachTyped ==
    ASSUME NEW t, IsTracker(t), NEW o
    PROVE  IsTracker(RemoveEntry(t, o)) /\ IsTracker(Detach(t, o))
<1>1. IsTracker(RemoveEntry(t, o))
  BY DEF RemoveEntry, Drop, IsTracker
<1>2. IsTracker(Detach(t, o))
  BY <1>1, AdjustTyped DEF Detach
<1>3. QED
  BY <1>1, <1>2

\* incrementMutableObjects keeps the tracker well formed.
LEMMA BumpTyped ==
    ASSUME IsTracker(Tracker), NEW refs \in SUBSET Objects
    PROVE  IsTracker(BumpVersions(refs))
<1>1. 0 \in 0..CountModulus - 1
  BY OpsAssumption, FS_CardinalityType DEF OpsAssumption
<1>2. QED
  BY <1>1, OpsAssumption DEF BumpVersions, IsTracker, Tracker, OpsAssumption

-----------------------------------------------------------------------------
(* The steps *)

\* The parts are the whole.
LEMMA Parts == IInv <=> TrackOK /\ BodyOK /\ NamesOK /\ CountersOK /\ WorkOK
BY DEF IInv, TypeOK, TrackOK, BodyOK, NamesOK, CountersOK, WorkOK, IsTracker, Tracker, Phases

\* ... after a step as well.
LEMMA NextParts == TrackOK' /\ BodyOK' /\ NamesOK' /\ CountersOK' /\ WorkOK' => IInv'
BY DEF IInv, TypeOK, TrackOK, BodyOK, NamesOK, CountersOK, WorkOK, IsTracker, Tracker, Phases

\* A well-formed tracker, written.
LEMMA SetTyped == ASSUME NEW t, IsTracker(t), SetTracker(t) PROVE TrackOK'
BY DEF IsTracker, SetTracker, TrackOK, Tracker

\* The current operation of a list is an operation.
LEMMA CurrentOpTyped ==
    ASSUME IInv, work # None, work.at < Len(work.tx.ops)
    PROVE  IsOp(CurrentOp) /\ IsTx(work.tx)
<1>1. work.tx \in Txs /\ work.at \in Nat
  BY DEF IInv, TypeOK, WorkOK
<1>2. IsTx(work.tx)
  BY <1>1, OpsAssumption DEF OpsAssumption
<1>3. work.at + 1 \in 1..Len(work.tx.ops)
  BY <1>1, <1>2 DEF IsTx
<1>4. QED
  BY <1>2, <1>3 DEF IsTx, CurrentOp

\* A name written with a leaf that fits, or names dropped, leave a registry of
\* live leases.
LEMMA PutTyped ==
    ASSUME NamesOK, NEW n \in Names, NEW leaf \in Leaf,
           leaf.expiry <= epoch + MaxTermEpochs, epoch <= leaf.expiry + GraceEpochs,
           names' = Put(names, n, leaf), UNCHANGED epoch
    PROVE  NamesOK'
<1>1. DOMAIN names' = DOMAIN names \cup {n}
  BY DEF Put
<1>2. \A m \in DOMAIN names' : names'[m] = IF m = n THEN leaf ELSE names[m]
  BY DEF Put
<1>3. names' \in [DOMAIN names' -> Leaf]
  BY <1>1, <1>2 DEF NamesOK, Put
<1>4. LeasesLive'
  BY <1>1, <1>2 DEF NamesOK, LeasesLive
<1>5. QED
  BY <1>1, <1>3, <1>4 DEF NamesOK

\* A release leaves the others as they are.
LEMMA DropTyped ==
    ASSUME NamesOK, NEW S, names' = Drop(names, S), UNCHANGED epoch
    PROVE  NamesOK'
BY DEF NamesOK, LeasesLive, Drop

\* What StillFits lets through is a lease inside the cap that has not lapsed, or
\* the lease that was there.
LEMMA LeafTyped ==
    ASSUME IInv, work # None, work.at < Len(work.tx.ops), work.phase = "apply",
           StillFits(CurrentOp), CurrentOp.kind \notin {"reparent", "delete", "release"}
    PROVE  LET leaf == NewLeaf(names, work.tx, CurrentOp)
           IN  /\ leaf \in Leaf
               /\ leaf.expiry <= epoch + MaxTermEpochs
               /\ epoch <= leaf.expiry + GraceEpochs
<1> DEFINE op == CurrentOp
           leaf == NewLeaf(names, work.tx, op)
<1>1. IsOp(op) /\ IsTx(work.tx) /\ HandsOver(op)
  <2>1. IsOp(op) /\ IsTx(work.tx)
    BY CurrentOpTyped
  <2>2. work.at + 1 \in 1..Len(work.tx.ops)
    BY <2>1 DEF IInv, WorkOK, IsTx
  <2>3. QED
    BY <2>1, <2>2 DEF IInv, WorkOK, CurrentOp
<1>2. epoch \in Nat /\ MaxTermEpochs \in Nat /\ GraceEpochs \in Nat
  BY OpsAssumption DEF OpsAssumption, IInv, TypeOK
<1>3. op.name \in DOMAIN names =>
        /\ names[op.name] \in Leaf
        /\ names[op.name].expiry <= epoch + MaxTermEpochs
        /\ epoch <= names[op.name].expiry + GraceEpochs
  BY DEF IInv, TypeOK, LeasesLive
<1>4. op.kind \in {"register", "renew", "update", "transfer"}
  BY <1>1 DEF IsOp, Kinds
<1> SUFFICES /\ leaf \in Leaf
             /\ leaf.expiry <= epoch + MaxTermEpochs
             /\ epoch <= leaf.expiry + GraceEpochs
  OBVIOUS
<1> HIDE DEF op
<1>5. CASE op.kind = "register"
  <2>1. leaf = [object |-> op.obj, owner |-> work.tx.sender, expiry |-> Expiry(0, op.term)]
    BY <1>5 DEF NewLeaf
  <2>2. TermFits(0, op.term)
    BY <1>5 DEF StillFits, op
  <2>3. QED
    BY <1>1, <1>2, <2>1, <2>2 DEF TermFits, Expiry, Leaf, IsOp, IsTx
<1>6. CASE op.kind = "renew"
  <2> DEFINE old == names[op.name]
  <2>1. old \in Leaf /\ TermFits(old.expiry, op.term)
    BY <1>3, <1>6 DEF StillFits, op
  <2>2. leaf = [old EXCEPT !.expiry = Expiry(@, op.term)]
    BY <1>6 DEF NewLeaf
  <2> HIDE DEF old, leaf
  <2>3. leaf = [object |-> old.object, owner |-> old.owner,
                expiry |-> Expiry(old.expiry, op.term)]
    BY <2>1, <2>2 DEF Leaf
  <2>4. QED
    BY <1>1, <1>2, <2>1, <2>3 DEF TermFits, Expiry, Leaf, IsOp
<1>7. CASE op.kind \in {"update", "transfer"}
  <2> DEFINE old == names[op.name]
  <2>1. op.name \in DOMAIN names
    BY <1>7 DEF StillFits, op
  <2>2. \/ op.kind = "update" /\ leaf = [old EXCEPT !.object = op.obj]
        \/ op.kind = "transfer" /\ leaf = [old EXCEPT !.owner = op.target]
    BY <1>7 DEF NewLeaf
  <2> HIDE DEF leaf
  <2>3. leaf \in Leaf /\ leaf.expiry = old.expiry
    BY <1>1, <1>3, <2>1, <2>2 DEF Leaf, IsOp, HandsOver
  <2>4. QED
    BY <1>3, <2>1, <2>3
<1>8. QED
  BY <1>4, <1>5, <1>6, <1>7

-----------------------------------------------------------------------------
(* One lemma per group of actions *)

\* A transaction that arrives is marked, and its refs are objects.
LEMMA ArrivesTyped ==
    ASSUME IInv, NEW tx \in Txs, Mark(tx)
    PROVE  /\ IsTx(tx) /\ tx.refs \in SUBSET Objects
           /\ done' \subseteq Txs /\ tx \in done'
           /\ IsTracker(BumpVersions(tx.refs))
<1>1. IsTx(tx) /\ tx.refs \in SUBSET Objects
  BY OpsAssumption DEF OpsAssumption, IsTx
<1>2. QED
  BY <1>1, BumpTyped, Parts DEF Mark, TrackOK, CountersOK

\* executeTx up to the point where the list or the pod takes over.
LEMMA CommitKeeps ==
    ASSUME IInv, NEW tx \in Txs,
           RefuseVersion(tx) \/ RefuseFee(tx) \/ BeginOps(tx) \/ RefusePod(tx) \/ SettlePod(tx)
    PROVE  IInv'
<1> USE Parts, NextParts
<1>0. TrackOK /\ BodyOK /\ NamesOK /\ CountersOK /\ WorkOK
  OBVIOUS
<1>1. Mark(tx)
  BY DEF RefuseVersion, RefuseFee, BeginOps, RefusePod, SettlePod, Arrives
<1>2. /\ IsTx(tx) /\ tx.refs \in SUBSET Objects
      /\ done' \subseteq Txs /\ tx \in done'
      /\ IsTracker(BumpVersions(tx.refs))
  BY <1>1, ArrivesTyped
<1>3. UNCHANGED <<body, names, epoch, crashes>>
  BY DEF RefuseVersion, RefuseFee, BeginOps, RefusePod, SettlePod
<1>4. BodyOK' /\ NamesOK' /\ CountersOK'
  BY <1>0, <1>2, <1>3 DEF BodyOK, NamesOK, LeasesLive, CountersOK
<1>5. CASE RefuseVersion(tx)
  <2>1. TrackOK'
    BY <1>0, <1>5 DEF RefuseVersion, TrackOK, Tracker
  <2>2. WorkOK'
    BY <1>5 DEF RefuseVersion, Mark, WorkOK
  <2>3. QED
    BY <1>4, <2>1, <2>2
<1>6. CASE RefuseFee(tx) \/ RefusePod(tx)
  <2>1. TrackOK'
    BY <1>2, <1>6, SetTyped DEF RefuseFee, RefusePod
  <2>2. WorkOK'
    BY <1>6 DEF RefuseFee, RefusePod, Arrives, Mark, WorkOK
  <2>3. QED
    BY <1>4, <2>1, <2>2
<1>7. CASE BeginOps(tx)
  <2>1. TrackOK'
    BY <1>2, <1>7, SetTyped DEF BeginOps
  <2>2. WorkOK'
    BY SMTT(30), <1>2, <1>7 DEF BeginOps, WorkOK, Phases
  <2>3. QED
    BY <1>4, <2>1, <2>2
<1>8. CASE SettlePod(tx)
  <2>1. TrackOK'
    BY <1>2, <1>8, SetTyped, DetachTyped DEF SettlePod
  <2>2. WorkOK'
    BY <1>2, <1>8 DEF SettlePod, WorkOK, Phases
  <2>3. QED
    BY <1>4, <2>1, <2>2
<1>9. QED
  BY <1>5, <1>6, <1>7, <1>8

\* handleDeclaredOps: validation touches the list in progress only.
LEMMA ValidationKeeps ==
    ASSUME IInv, RejectOps \/ ValidateOp \/ StartApply \/ EndOps \/ ExecuteFails
    PROVE  IInv'
<1> USE Parts, NextParts
<1>1. TrackOK /\ BodyOK /\ NamesOK /\ CountersOK /\ WorkOK
  OBVIOUS
<1>2. UNCHANGED <<edge, count, body, names, epoch, done, crashes>>
  BY DEF RejectOps, ValidateOp, StartApply, EndOps, ExecuteFails
<1>3. TrackOK' /\ BodyOK' /\ NamesOK' /\ CountersOK'
  BY <1>1, <1>2 DEF TrackOK, Tracker, BodyOK, NamesOK, LeasesLive, CountersOK
<1>4. CASE RejectOps \/ EndOps \/ ExecuteFails
  <2>1. WorkOK'
    BY <1>4 DEF RejectOps, EndOps, ExecuteFails, WorkOK
  <2>2. QED
    BY <1>3, <2>1
<1>5. CASE StartApply
  <2>1. work # None /\ work.phase = "validate" /\ work.at = Len(work.tx.ops)
    BY <1>5 DEF StartApply, Busy
  <2>2. \A i \in 1..Len(work.tx.ops) : HandsOver(work.tx.ops[i])
    BY <1>1, <2>1 DEF WorkOK
  <2>3. work' = [work EXCEPT !.phase = "apply", !.at = 0]
    BY <1>5 DEF StartApply
  <2>4. WorkOK'
    BY ZenonT(30), <1>1, <1>2, <2>1, <2>2, <2>3 DEF WorkOK, Phases
  <2>5. QED
    BY <1>3, <2>4
<1>6. CASE ValidateOp
  <2>1. work # None /\ work.phase = "validate" /\ work.at < Len(work.tx.ops)
    BY <1>6 DEF ValidateOp, Busy
  <2>2. PICK s : work' = [work EXCEPT !.at = @ + 1, !.staged = s,
                                      !.readings = Append(@, StagedReading(s))]
    BY ZenonT(30), <1>6 DEF ValidateOp
  <2>3. HandsOver(work.tx.ops[work.at + 1])
    BY <1>6, <2>1, CurrentOpTyped DEF ValidateOp, ValidOp, HandsOver, CurrentOp, IsOp, Kinds
  <2>4. PICK r : r = Append(work.readings, StagedReading(s))
    OBVIOUS
  <2>5. work' = [work EXCEPT !.at = @ + 1, !.staged = s, !.readings = r]
    BY Zenon, <2>2, <2>4
  <2>6. /\ work'.at = work.at + 1 /\ work'.tx = work.tx /\ work'.phase = "validate"
        /\ work' = [k \in {"tx", "phase", "at", "staged", "readings"} |-> work'[k]]
    BY ZenonT(30), <1>1, <2>1, <2>5 DEF WorkOK
  <2>7. \A i \in 1..work.at + 1 : HandsOver(work.tx.ops[i])
    BY <1>1, <2>1, <2>3 DEF WorkOK
  <2>8. WorkOK'
    BY <1>1, <1>2, <2>1, <2>6, <2>7 DEF WorkOK, Phases, HandsOver
  <2>9. QED
    BY <1>3, <2>8
<1>7. QED
  BY <1>4, <1>5, <1>6

\* applyDeclaredOps: each operation writes a well-formed tracker or a live lease.
LEMMA ApplyKeeps ==
    ASSUME IInv, ApplyOp
    PROVE  IInv'
<1> USE Parts, NextParts
<1> DEFINE op == CurrentOp
<1>1. TrackOK /\ BodyOK /\ NamesOK /\ CountersOK /\ WorkOK
  OBVIOUS
<1>2. /\ work # None /\ work.phase = "apply" /\ work.at < Len(work.tx.ops)
      /\ UNCHANGED <<epoch, done, crashes>>
      /\ work' = [work EXCEPT !.at = @ + 1]
  BY DEF ApplyOp, Busy
<1>3. IsOp(op)
  BY <1>2, CurrentOpTyped
<1>4. WorkOK'
  BY <1>1, <1>2 DEF WorkOK, Phases
<1>5. CountersOK'
  BY <1>1, <1>2 DEF CountersOK
<1>6. CASE op.kind = "reparent"
  <2>1. ApplyReparent(op)
    BY <1>6 DEF ApplyOp
  <2>2. TrackOK'
    BY <1>1, <1>3, <2>1, AttachTyped, SetTyped DEF ApplyReparent, TrackOK, IsOp
  <2>3. BodyOK'
    BY <1>1, <1>3, <2>1 DEF ApplyReparent, BodyOK, IsOp
  <2>4. NamesOK'
    BY <1>1, <1>2, <2>1 DEF ApplyReparent, NamesOK, LeasesLive
  <2>5. QED
    BY <1>4, <1>5, <2>2, <2>3, <2>4
<1>7. CASE op.kind = "delete"
  <2>1. ApplyDelete(op)
    BY <1>7 DEF ApplyOp
  <2>2. TrackOK'
    BY <1>1, <2>1, DetachTyped, SetTyped DEF ApplyDelete, TrackOK
  <2>3. BodyOK'
    BY <1>1, <2>1 DEF ApplyDelete, BodyOK, Drop
  <2>4. NamesOK'
    BY <1>1, <1>2, <2>1 DEF ApplyDelete, NamesOK, LeasesLive
  <2>5. QED
    BY <1>4, <1>5, <2>2, <2>3, <2>4
<1>8. CASE op.kind = "release"
  <2>1. ApplyRelease(op)
    BY <1>8 DEF ApplyOp
  <2>2. TrackOK' /\ BodyOK'
    BY <1>1, <2>1 DEF ApplyRelease, TrackOK, Tracker, BodyOK
  <2>3. NamesOK'
    BY <1>1, <1>2, <2>1, DropTyped DEF ApplyRelease
  <2>4. QED
    BY <1>4, <1>5, <2>2, <2>3
<1>9. CASE op.kind \notin {"reparent", "delete", "release"}
  <2>1. ApplyLeaf(op)
    BY <1>9 DEF ApplyOp
  <2>2. TrackOK' /\ BodyOK'
    BY <1>1, <2>1 DEF ApplyLeaf, TrackOK, Tracker, BodyOK
  <2>3. NamesOK'
    <3>1. CASE ~StillFits(op)
      BY <1>1, <1>2, <2>1, <3>1 DEF ApplyLeaf, NamesOK, LeasesLive
    <3>2. CASE StillFits(op)
      <4> DEFINE leaf == NewLeaf(names, work.tx, op)
      <4>1. names' = Put(names, op.name, leaf)
        BY <2>1, <3>2 DEF ApplyLeaf
      <4>2. /\ leaf \in Leaf
            /\ leaf.expiry <= epoch + MaxTermEpochs
            /\ epoch <= leaf.expiry + GraceEpochs
        BY <1>2, <1>9, <3>2, LeafTyped
      <4>3. op.name \in Names
        BY <1>3 DEF IsOp
      <4> HIDE DEF leaf, op
      <4>4. QED
        BY <1>1, <1>2, <4>1, <4>2, <4>3, PutTyped
    <3>3. QED
      BY <3>1, <3>2
  <2>4. QED
    BY <1>4, <1>5, <2>2, <2>3
<1>10. QED
  BY <1>6, <1>7, <1>8, <1>9

\* processOutput: a created object gets an entry under a declared parent.
LEMMA ExecuteKeeps ==
    ASSUME IInv, ExecuteSucceeds
    PROVE  IInv'
<1> USE Parts, NextParts
<1> DEFINE tx == work.tx
<1>1. TrackOK /\ BodyOK /\ NamesOK /\ CountersOK /\ WorkOK
  OBVIOUS
<1>2. work # None /\ work' = None /\ UNCHANGED <<names, epoch, done, crashes>>
  BY DEF ExecuteSucceeds, Busy
<1>3. WorkOK' /\ CountersOK' /\ NamesOK'
  BY <1>1, <1>2 DEF WorkOK, CountersOK, NamesOK, LeasesLive
<1>4. IsTx(tx)
  BY <1>1, <1>2, OpsAssumption DEF OpsAssumption, WorkOK, CountersOK
<1>5. CASE tx.creates = None
  <2>1. body' = Drop(body, {tx.deletes}) /\ UNCHANGED <<edge, count>>
    BY <1>5 DEF ExecuteSucceeds
  <2>2. TrackOK' /\ BodyOK'
    BY <1>1, <2>1 DEF TrackOK, Tracker, BodyOK, Drop
  <2>3. QED
    BY <1>3, <2>2
<1>6. CASE tx.creates # None
  <2>1. /\ SetTracker(Attach(Tracker, tx.creates, tx.under))
        /\ body' = Put(Drop(body, {tx.deletes}), tx.creates, tx.under)
    BY <1>6 DEF ExecuteSucceeds
  <2>2. tx.creates \in Objects /\ tx.under \in Objects \cup Keys
    BY <1>4, <1>6 DEF IsTx
  <2>3. TrackOK'
    BY <1>1, <2>1, <2>2, AttachTyped, SetTyped DEF TrackOK
  <2>4. BodyOK'
    BY <1>1, <2>1, <2>2 DEF BodyOK, Put, Drop
  <2>5. QED
    BY <1>3, <2>3, <2>4
<1>7. QED
  BY <1>5, <1>6

\* transitionEpoch: what the sweep leaves is inside its grace window.
LEMMA TransitionKeeps ==
    ASSUME IInv, TransitionEpoch
    PROVE  IInv'
<1> USE Parts, NextParts
<1>1. TrackOK /\ BodyOK /\ NamesOK /\ CountersOK /\ WorkOK
  OBVIOUS
<1>2. /\ epoch < MaxEpoch /\ epoch' = epoch + 1
      /\ names' = Drop(names, Swept(epoch + 1))
      /\ UNCHANGED <<edge, count, body, done, work, crashes>>
  BY DEF TransitionEpoch
<1>3. TrackOK' /\ BodyOK' /\ WorkOK'
  BY <1>1, <1>2 DEF TrackOK, Tracker, BodyOK, WorkOK
<1>4. CountersOK'
  BY <1>1, <1>2, OpsAssumption DEF CountersOK, OpsAssumption
<1>5. /\ DOMAIN names' = {n \in DOMAIN names : ~(epoch + 1 > names[n].expiry + GraceEpochs)}
      /\ \A n \in DOMAIN names' : names'[n] = names[n]
      /\ names' \in [DOMAIN names' -> Leaf]
  BY <1>1, <1>2 DEF Drop, Swept, NamesOK
<1>6. LeasesLive'
  <2> SUFFICES ASSUME NEW n \in DOMAIN names'
               PROVE  /\ names'[n].expiry <= epoch' + MaxTermEpochs
                      /\ epoch' <= names'[n].expiry + GraceEpochs
    BY DEF LeasesLive
  <2>1. names[n].expiry \in Nat /\ names[n].expiry <= epoch + MaxTermEpochs
    BY <1>1, <1>5 DEF NamesOK, LeasesLive, Leaf
  <2>2. epoch \in Nat /\ MaxTermEpochs \in Nat /\ GraceEpochs \in Nat
    BY <1>1, OpsAssumption DEF CountersOK, OpsAssumption
  <2>3. QED
    BY <1>2, <1>5, <2>1, <2>2
<1>7. NamesOK'
  BY <1>1, <1>5, <1>6 DEF NamesOK
<1>8. QED
  BY <1>3, <1>4, <1>7

\* A crash keeps a well-formed tracker, whichever of its writes were the last.
LEMMA CrashKeeps ==
    ASSUME IInv, Crash
    PROVE  IInv'
<1> USE Parts, NextParts
<1>1. TrackOK /\ BodyOK /\ NamesOK /\ CountersOK /\ WorkOK
  OBVIOUS
<1>2. /\ crashes < MaxCrashes /\ crashes' = crashes + 1 /\ work' = None
      /\ UNCHANGED <<body, names, epoch, done>>
  BY DEF Crash
<1>3. BodyOK' /\ NamesOK' /\ WorkOK'
  BY <1>1, <1>2 DEF BodyOK, NamesOK, LeasesLive, WorkOK
<1>4. CountersOK'
  BY <1>1, <1>2, OpsAssumption DEF CountersOK, OpsAssumption
<1>5. CASE UNCHANGED tracker
  <2>1. TrackOK'
    BY <1>1, <1>5 DEF TrackOK, Tracker, tracker
  <2>2. QED
    BY <1>3, <1>4, <2>1
<1>6. CASE /\ Busy("apply")
           /\ work.at < Len(work.tx.ops)
           /\ \E t \in Partials(CurrentOp) : SetTracker(t)
  <2> DEFINE op == CurrentOp
  <2>1. PICK t \in Partials(op) : SetTracker(t)
    BY <1>6
  <2>2. IsOp(op)
    BY <1>6, CurrentOpTyped DEF Busy
  <2>3. IsTracker(t)
    <3>1. CASE op.kind = "reparent"
      BY <1>1, <2>1, <2>2, <3>1, AttachTyped DEF Partials, TrackOK, IsOp
    <3>2. CASE op.kind = "delete"
      BY <1>1, <2>1, <3>2, DetachTyped DEF Partials, TrackOK
    <3>3. CASE op.kind \notin {"reparent", "delete"}
      BY <1>1, <2>1, <3>3 DEF Partials, TrackOK
    <3>4. QED
      BY <3>1, <3>2, <3>3
  <2>4. QED
    BY <1>3, <1>4, <2>1, <2>3, SetTyped
<1>7. QED
  BY <1>5, <1>6 DEF Crash

-----------------------------------------------------------------------------
(* The theorems *)

\* The first state: every object under a key, no name, no list.
LEMMA InitKeeps == Init => IInv
<1> SUFFICES ASSUME Init PROVE IInv
  OBVIOUS
<1>1. 0 \in 0..CountModulus - 1 /\ 0 \in 0..MaxEpoch /\ 0 \in 0..MaxCrashes
  BY OpsAssumption, FS_CardinalityType DEF OpsAssumption
<1>2. TrackOK
  BY <1>1, OpsAssumption DEF Init, TrackOK, IsTracker, Tracker, OpsAssumption
<1>3. BodyOK
  BY OpsAssumption DEF Init, BodyOK, OpsAssumption
<1>4. NamesOK
  BY DEF Init, NamesOK, LeasesLive, NoLeaf
<1>5. CountersOK /\ WorkOK
  BY <1>1 DEF Init, CountersOK, WorkOK
<1>6. QED
  BY <1>2, <1>3, <1>4, <1>5, Parts

\* Every step of the commit path, the epoch transition and a crash keeps the
\* inductive invariant.
LEMMA NextKeeps == IInv /\ [Next]_vars => IInv'
<1> SUFFICES ASSUME IInv, [Next]_vars PROVE IInv'
  OBVIOUS
<1>1. CASE UNCHANGED vars
  <2>1. TrackOK' /\ BodyOK' /\ NamesOK' /\ CountersOK' /\ WorkOK'
    BY <1>1, Parts
       DEF vars, TrackOK, Tracker, BodyOK, NamesOK, LeasesLive, CountersOK, WorkOK
  <2>2. QED
    BY <2>1, NextParts
<1>2. ASSUME NEW tx \in Txs,
             \/ RefuseVersion(tx) \/ RefuseFee(tx) \/ BeginOps(tx)
             \/ RefusePod(tx) \/ SettlePod(tx)
      PROVE  IInv'
  BY <1>2, CommitKeeps
<1>3. CASE RejectOps \/ ValidateOp \/ StartApply \/ EndOps \/ ExecuteFails
  BY <1>3, ValidationKeeps
<1>4. CASE ApplyOp
  BY <1>4, ApplyKeeps
<1>5. CASE ExecuteSucceeds
  BY <1>5, ExecuteKeeps
<1>6. CASE TransitionEpoch
  BY <1>6, TransitionKeeps
<1>7. CASE Crash
  BY <1>7, CrashKeeps
<1>8. QED
  BY <1>1, <1>2, <1>3, <1>4, <1>5, <1>6, <1>7 DEF Next

\* The inductive invariant holds of every behaviour.
THEOREM InvariantHolds == Spec => []IInv
BY InitKeeps, NextKeeps, PTL DEF Spec

\* The tracker, the bodies, the registry and the list in progress are always
\* well formed, crashes between two tracker writes included.
THEOREM TypeCorrect == Spec => []TypeOK
<1>1. IInv => TypeOK
  BY DEF IInv
<1>2. QED
  BY <1>1, InvariantHolds, PTL

\* No lease ever runs past the cap or is kept past its grace window, whatever
\* the registrations, renewals, transfers, sweeps and crashes (domainExpiry,
\* sweepExpiredDomains).
THEOREM LeasesLiveHolds == Spec => []LeasesLive
<1>1. IInv => LeasesLive
  BY DEF IInv
<1>2. QED
  BY <1>1, InvariantHolds, PTL

-----------------------------------------------------------------------------
(* Walks, loops and counts over parent edges *)

\* Parent edges: every one goes from an object to an object or a key.
IsEdges(e) == DOMAIN e \subseteq Objects /\ e \in [DOMAIN e -> Objects \cup Keys]

\* No set of objects is closed under the edges.
NoLoop(e) == \A S \in SUBSET DOMAIN e : S # {} => \E o \in S : e[o] \notin S

\* A controlled object is tracked.
LEMMA ControlledTracked ==
    ASSUME NEW e, NEW k, NEW o, Controls(e, k, o)
    PROVE  o \in DOMAIN e
<1>1. PICK n \in 0..WalkDepthLimit - 1 : \E w \in Walks(e, o, n) : e[w[n]] = k
  BY DEF Controls
<1>2. PICK w \in Walks(e, o, n) : e[w[n]] = k
  BY <1>1
<1>3. QED
  BY <1>1, <1>2, OpsAssumption DEF Walks, OpsAssumption

\* A walk that stays inside a set closed under the edges it takes.
LEMMA WalkInside ==
    ASSUME NEW e, NEW S, NEW n \in Nat, NEW o, NEW w \in Walks(e, o, n), o \in S,
           \A i \in 0..n : w[i] \in S => e[w[i]] \in S
    PROVE  \A i \in 0..n : w[i] \in S
<1> DEFINE Out == {i \in 0..n : w[i] \notin S}
<1>1. SUFFICES ASSUME Out # {} PROVE FALSE
  OBVIOUS
<1>2. PICK m \in Out : \A k \in Out : m <= k
  <2>1. Out \in SUBSET Nat
    OBVIOUS
  <2> HIDE DEF Out
  <2>2. QED
    BY <1>1, <2>1, LeastNat
<1>3. m # 0
  BY <1>2 DEF Walks
<1>4. m - 1 \in 0..n /\ m \in 1..n /\ ~(m <= m - 1)
  BY <1>2, <1>3
<1>5. w[m - 1] \in S
  BY <1>2, <1>4
<1>6. w[m] = e[w[m - 1]]
  BY <1>4 DEF Walks
<1>7. QED
  BY <1>2, <1>4, <1>5, <1>6

\* wouldCycle refuses every move that would close a loop: a walk from the new parent
\* to a key, with no step at the moved object, leaves no closed set to hold it.
LEMMA MoveKeepsLoopFree ==
    ASSUME NEW e, IsEdges(e), NoLoop(e), NEW o \in Objects, NEW p \in Objects \cup Keys,
           ~WouldCycle(e, o, p)
    PROVE  NoLoop(Put(e, o, p))
<1> DEFINE f == Put(e, o, p)
<1>1. DOMAIN f = DOMAIN e \cup {o} /\ f[o] = p /\ \A x \in DOMAIN e \ {o} : f[x] = e[x]
  BY DEF Put
<1>2. SUFFICES ASSUME NEW S \in SUBSET DOMAIN f, S # {}, \A x \in S : f[x] \in S
               PROVE  FALSE
  BY DEF NoLoop
<1> HIDE DEF f
<1>3. CASE o \notin S
  <2>1. S \in SUBSET DOMAIN e /\ \A x \in S : e[x] \in S
    BY <1>1, <1>2, <1>3
  <2>2. QED
    BY <1>2, <2>1 DEF NoLoop
<1>4. CASE o \in S
  <2>1. p \in S /\ S \subseteq Objects
    BY <1>1, <1>2, <1>4 DEF IsEdges
  <2>2. p \notin Keys
    BY <2>1, OpsAssumption DEF OpsAssumption
  <2>3. PICK n \in 0..WalkDepthLimit - 1 : \E w \in Walks(e, p, n) :
           e[w[n]] \in Keys /\ \A i \in 0..n : w[i] # o
    BY <2>2 DEF WouldCycle
  <2>4. PICK w \in Walks(e, p, n) : e[w[n]] \in Keys /\ \A i \in 0..n : w[i] # o
    BY <2>3
  <2>5. n \in Nat /\ n \in 0..n
    BY <2>3, OpsAssumption DEF OpsAssumption
  <2>6. \A i \in 0..n : w[i] \in DOMAIN e
    BY DEF Walks
  <2>7. \A i \in 0..n : w[i] \in S => e[w[i]] \in S
    BY SMTT(30), <1>1, <1>2, <2>4, <2>6
  <2>8. \A i \in 0..n : w[i] \in S
    BY Zenon, <2>1, <2>5, <2>7, WalkInside
  <2>9. e[w[n]] \in S
    BY <2>5, <2>7, <2>8
  <2>10. QED
    BY <2>1, <2>4, <2>9, OpsAssumption DEF OpsAssumption
<1>5. QED
  BY <1>3, <1>4

\* An object nothing hangs under yet can be attached anywhere but under itself.
LEMMA NewKeepsLoopFree ==
    ASSUME NEW e, NoLoop(e), NEW o, o \notin DOMAIN e, NEW p, p # o,
           \A c \in DOMAIN e : e[c] # o
    PROVE  NoLoop(Put(e, o, p))
<1> DEFINE f == Put(e, o, p)
<1>1. DOMAIN f = DOMAIN e \cup {o} /\ f[o] = p /\ \A x \in DOMAIN e : f[x] = e[x]
  BY DEF Put
<1>2. SUFFICES ASSUME NEW S \in SUBSET DOMAIN f, S # {}, \A x \in S : f[x] \in S
               PROVE  FALSE
  BY DEF NoLoop
<1> HIDE DEF f
<1>3. CASE S \subseteq {o}
  BY <1>1, <1>2, <1>3
<1>4. CASE ~(S \subseteq {o})
  <2> DEFINE T == S \ {o}
  <2>1. T \in SUBSET DOMAIN e /\ T # {} /\ \A x \in T : e[x] \in T
    BY <1>1, <1>2, <1>4
  <2>2. QED
    BY Zenon, <2>1 DEF NoLoop
<1>5. QED
  BY <1>3, <1>4

\* Removing entries closes no loop.
LEMMA DropKeepsLoopFree ==
    ASSUME NEW e, NoLoop(e), NEW X
    PROVE  NoLoop(Drop(e, X))
BY DEF NoLoop, Drop

\* The objects that hang under x.
Kids(e, x) == {c \in DOMAIN e : e[c] = x}

\* The number of edges that name each tracked object.
ChildCounts(e) == [o \in DOMAIN e |-> Cardinality(Kids(e, o))]

\* What y adds to a count of the edges that name x.
One(x, y) == IF x = y THEN 1 ELSE 0

\* A child count fits its width: there are fewer objects than its modulus.
LEMMA KidsBounded ==
    ASSUME NEW e, DOMAIN e \subseteq Objects, NEW x
    PROVE  IsFiniteSet(Kids(e, x)) /\ Cardinality(Kids(e, x)) \in 0..CountModulus - 1
<1>1. Kids(e, x) \subseteq Objects
  BY DEF Kids
<1>2. IsFiniteSet(Kids(e, x)) /\ Cardinality(Kids(e, x)) <= Cardinality(Objects)
  BY <1>1, OpsAssumption, FS_Subset DEF OpsAssumption
<1>3. Cardinality(Kids(e, x)) \in Nat /\ Cardinality(Objects) \in Nat
  BY <1>2, OpsAssumption, FS_CardinalityType DEF OpsAssumption
<1>4. QED
  BY <1>2, <1>3, OpsAssumption DEF OpsAssumption

\* Only a childless object counts zero.
LEMMA KidsNone ==
    ASSUME NEW e, DOMAIN e \subseteq Objects, NEW x, Cardinality(Kids(e, x)) = 0
    PROVE  Kids(e, x) = {}
BY KidsBounded, FS_EmptySet

\* Moving a tracked object takes one child from its old parent and gives one to its
\* new one.
LEMMA KidsMoved ==
    ASSUME NEW e, DOMAIN e \subseteq Objects, NEW o \in DOMAIN e, NEW p, NEW x
    PROVE  Cardinality(Kids(Put(e, o, p), x))
             = Cardinality(Kids(e, x)) - One(x, e[o]) + One(x, p)
<1>1. IsFiniteSet(Kids(e, x)) /\ Cardinality(Kids(e, x)) \in Nat
  BY KidsBounded, FS_CardinalityType
<1>2. CASE x = e[o] /\ x = p
  <2>1. Kids(Put(e, o, p), x) = Kids(e, x)
    BY Zenon, <1>2 DEF Kids, Put
  <2>2. QED
    BY <1>1, <1>2, <2>1 DEF One
<1>3. CASE x = e[o] /\ x # p
  <2>1. Kids(Put(e, o, p), x) = Kids(e, x) \ {o} /\ o \in Kids(e, x)
    BY <1>3 DEF Kids, Put
  <2>2. Cardinality(Kids(e, x) \ {o}) = Cardinality(Kids(e, x)) - 1
    BY SMTT(30), <1>1, <2>1, FS_RemoveElement
  <2>3. QED
    BY <1>1, <1>3, <2>1, <2>2 DEF One
<1>4. CASE x # e[o] /\ x = p
  <2>1. Kids(Put(e, o, p), x) = Kids(e, x) \cup {o} /\ o \notin Kids(e, x)
    BY <1>4 DEF Kids, Put
  <2>2. Cardinality(Kids(e, x) \cup {o}) = Cardinality(Kids(e, x)) + 1
    BY <1>1, <2>1, FS_AddElement
  <2>3. QED
    BY <1>1, <1>4, <2>1, <2>2 DEF One
<1>5. CASE x # e[o] /\ x # p
  <2>1. Kids(Put(e, o, p), x) = Kids(e, x)
    BY <1>5 DEF Kids, Put
  <2>2. QED
    BY <1>1, <1>5, <2>1 DEF One
<1>6. QED
  BY <1>2, <1>3, <1>4, <1>5

\* A new object is one more child of its parent.
LEMMA KidsAdded ==
    ASSUME NEW e, DOMAIN e \subseteq Objects, NEW o, o \notin DOMAIN e, NEW p, NEW x
    PROVE  Cardinality(Kids(Put(e, o, p), x)) = Cardinality(Kids(e, x)) + One(x, p)
<1>1. IsFiniteSet(Kids(e, x)) /\ Cardinality(Kids(e, x)) \in Nat
  BY KidsBounded, FS_CardinalityType
<1>2. CASE x = p
  <2>1. Kids(Put(e, o, p), x) = Kids(e, x) \cup {o} /\ o \notin Kids(e, x)
    BY <1>2 DEF Kids, Put
  <2>2. Cardinality(Kids(e, x) \cup {o}) = Cardinality(Kids(e, x)) + 1
    BY SMTT(30), <1>1, <2>1, FS_AddElement
  <2>3. QED
    BY <1>1, <1>2, <2>1, <2>2 DEF One
<1>3. CASE x # p
  <2>1. Kids(Put(e, o, p), x) = Kids(e, x)
    BY <1>3 DEF Kids, Put
  <2>2. QED
    BY <1>1, <1>3, <2>1 DEF One
<1>4. QED
  BY <1>2, <1>3

\* A deleted object is one child less of its parent.
LEMMA KidsDropped ==
    ASSUME NEW e, DOMAIN e \subseteq Objects, NEW o \in DOMAIN e, NEW x
    PROVE  Cardinality(Kids(Drop(e, {o}), x)) = Cardinality(Kids(e, x)) - One(x, e[o])
<1>1. IsFiniteSet(Kids(e, x)) /\ Cardinality(Kids(e, x)) \in Nat
  BY KidsBounded, FS_CardinalityType
<1>2. CASE x = e[o]
  <2>1. Kids(Drop(e, {o}), x) = Kids(e, x) \ {o} /\ o \in Kids(e, x)
    BY <1>2 DEF Kids, Drop
  <2>2. Cardinality(Kids(e, x) \ {o}) = Cardinality(Kids(e, x)) - 1
    BY Zenon, <1>1, <2>1, FS_RemoveElement
  <2>3. QED
    BY <1>1, <1>2, <2>1, <2>2 DEF One
<1>3. CASE x # e[o]
  <2>1. Kids(Drop(e, {o}), x) = Kids(e, x)
    BY <1>3 DEF Kids, Drop
  <2>2. QED
    BY <1>1, <1>3, <2>1 DEF One
<1>4. QED
  BY <1>2, <1>3

-----------------------------------------------------------------------------
(* The tracker's operations, exactly *)

\* adjustChildCount writes one count and no edge.
LEMMA AdjustEffect ==
    ASSUME NEW t, IsTracker(t), NEW p, NEW delta \in Int
    PROVE  /\ Adjust(t, p, delta).edge = t.edge
           /\ \A x \in DOMAIN t.edge :
                 Adjust(t, p, delta).count[x]
                   = IF x = p THEN (t.count[x] + delta) % CountModulus ELSE t.count[x]
BY DEF Adjust, IsTracker

\* trackObject, setParent and the writes they are made of change one edge.
LEMMA AttachEdge ==
    ASSUME NEW t, IsTracker(t), NEW o \in Objects, NEW p \in Objects \cup Keys
    PROVE  /\ WriteEntry(t, o, p).edge = Put(t.edge, o, p)
           /\ Unbind(t, o, WriteEntry(t, o, p)).edge = Put(t.edge, o, p)
           /\ Attach(t, o, p).edge = Put(t.edge, o, p)
<1>1. WriteEntry(t, o, p).edge = Put(t.edge, o, p) /\ IsTracker(WriteEntry(t, o, p))
  BY WriteEntryTyped DEF WriteEntry
<1>2. Unbind(t, o, WriteEntry(t, o, p)).edge = Put(t.edge, o, p)
  BY <1>1, AdjustEffect DEF Unbind
<1>3. IsTracker(Unbind(t, o, WriteEntry(t, o, p)))
  BY AttachTyped
<1>4. Attach(t, o, p).edge = Put(t.edge, o, p)
  BY <1>1, <1>2, <1>3, AdjustEffect DEF Attach
<1>5. QED
  BY <1>1, <1>2, <1>4

\* deleteObject removes one edge, its first write already.
LEMMA DetachEdge ==
    ASSUME NEW t, IsTracker(t), NEW o
    PROVE  /\ RemoveEntry(t, o).edge = Drop(t.edge, {o})
           /\ Detach(t, o).edge = Drop(t.edge, {o})
<1>1. RemoveEntry(t, o).edge = Drop(t.edge, {o})
  BY DEF RemoveEntry
<1>2. CASE o \in DOMAIN t.edge
  BY <1>1, <1>2, DetachTyped, AdjustEffect DEF Detach
<1>3. CASE o \notin DOMAIN t.edge
  <2>1. Drop(t.edge, {o}) = t.edge
    BY ZenonT(30), <1>3 DEF Drop, IsTracker
  <2>2. QED
    BY <1>1, <1>3, <2>1 DEF Detach
<1>4. QED
  BY <1>2, <1>3

\* A tracker whose every count is the number of children.
Exact(t) == \A x \in DOMAIN t.edge : t.count[x] = Cardinality(Kids(t.edge, x))

\* rebindChildCount and adjustChildCount: a tracked object that moves leaves every
\* count exact, and so does a new one that nothing hung under.
LEMMA AttachExact ==
    ASSUME NEW t, IsTracker(t), Exact(t), NEW o \in Objects, NEW p \in Objects \cup Keys,
           o \notin DOMAIN t.edge => Kids(t.edge, o) = {}
    PROVE  Exact(Attach(t, o, p))
<1> DEFINE e == Put(t.edge, o, p)
           w == WriteEntry(t, o, p)
           u == Unbind(t, o, w)
           a == Attach(t, o, p)
<1>1. /\ IsTracker(w) /\ IsTracker(u) /\ IsTracker(a)
      /\ w.edge = e /\ u.edge = e /\ a.edge = e
  BY AttachTyped, AttachEdge
<1>2. DOMAIN e = DOMAIN t.edge \cup {o} /\ DOMAIN e \subseteq Objects /\ DOMAIN t.edge \subseteq Objects
  BY DEF Put, IsTracker
<1>3. \A x \in DOMAIN e : w.count[x] = Cardinality(Kids(t.edge, x))
  <2>1. CASE o \in DOMAIN t.edge
    BY <2>1 DEF WriteEntry, Put, IsTracker, Exact
  <2>2. CASE o \notin DOMAIN t.edge
    <3>1. Cardinality(Kids(t.edge, o)) = 0
      BY SMTT(30), <2>2, FS_EmptySet
    <3>2. QED
      BY <2>2, <3>1 DEF WriteEntry, Put, IsTracker, Exact
  <2>3. QED
    BY <2>1, <2>2
<1>4. SUFFICES ASSUME NEW x \in DOMAIN e PROVE a.count[x] = Cardinality(Kids(e, x))
  BY <1>1 DEF Exact
<1>5. /\ Cardinality(Kids(t.edge, x)) \in 0..CountModulus - 1
      /\ Cardinality(Kids(e, x)) \in 0..CountModulus - 1
      /\ CountModulus \in Nat
  BY SMTT(30), <1>2, KidsBounded, OpsAssumption DEF OpsAssumption
<1>6. CASE SameEdge(t, o, p)
  <2>1. e = t.edge
    BY <1>6 DEF SameEdge, Put, IsTracker
  <2>2. a = w
    BY <1>6 DEF Attach
  <2>3. QED
    BY <1>3, <2>1, <2>2
<1>7. CASE ~SameEdge(t, o, p) /\ o \in DOMAIN t.edge
  <2>1. u = Adjust(w, t.edge[o], -1) /\ a = Adjust(u, p, 1) /\ t.edge[o] # p
    BY SMTT(30), <1>7 DEF Attach, Unbind, SameEdge
  <2>2. Cardinality(Kids(e, x))
          = Cardinality(Kids(t.edge, x)) - One(x, t.edge[o]) + One(x, p)
    BY SMTT(30), <1>2, <1>7, KidsMoved
  <2>3. u.count[x] = IF x = t.edge[o] THEN (w.count[x] + (-1)) % CountModulus ELSE w.count[x]
    BY SMTT(30), <1>1, <2>1, AdjustEffect
  <2>4. a.count[x] = IF x = p THEN (u.count[x] + 1) % CountModulus ELSE u.count[x]
    BY SMTT(30), <1>1, <2>1, AdjustEffect
  <2>5. w.count[x] = Cardinality(Kids(t.edge, x))
    BY SMTT(30), <1>3
  <2> HIDE DEF e, w, u, a
  <2>6. CASE x = t.edge[o]
    <3>1. Cardinality(Kids(e, x)) = Cardinality(Kids(t.edge, x)) - 1 /\ x # p
      BY <1>5, <2>1, <2>2, <2>6 DEF One
    <3>2. (w.count[x] + (-1)) % CountModulus = Cardinality(Kids(e, x))
      BY <1>5, <2>5, <3>1
    <3>3. QED
      BY SMTT(30), <2>3, <2>4, <2>6, <3>1, <3>2
  <2>7. CASE x # t.edge[o] /\ x = p
    <3>1. Cardinality(Kids(e, x)) = Cardinality(Kids(t.edge, x)) + 1
      BY SMTT(30), <1>5, <2>2, <2>7 DEF One
    <3>2. (u.count[x] + 1) % CountModulus = Cardinality(Kids(e, x))
      BY SMTT(30), <1>5, <2>3, <2>5, <2>7, <3>1
    <3>3. QED
      BY SMTT(30), <2>4, <2>7, <3>2
  <2>8. CASE x # t.edge[o] /\ x # p
    BY SMTT(30), <1>5, <2>2, <2>3, <2>4, <2>5, <2>8 DEF One
  <2>9. QED
    BY SMTT(30), <2>6, <2>7, <2>8
<1>8. CASE o \notin DOMAIN t.edge
  <2>1. a = Adjust(w, p, 1)
    BY <1>8 DEF Attach, Unbind, SameEdge
  <2>2. Cardinality(Kids(e, x)) = Cardinality(Kids(t.edge, x)) + One(x, p)
    BY SMTT(30), <1>2, <1>8, KidsAdded
  <2>3. a.count[x] = IF x = p THEN (w.count[x] + 1) % CountModulus ELSE w.count[x]
    BY SMTT(30), <1>1, <2>1, AdjustEffect
  <2>4. w.count[x] = Cardinality(Kids(t.edge, x))
    BY <1>3
  <2> HIDE DEF e, w, u, a
  <2>5. CASE x = p
    <3>1. (w.count[x] + 1) % CountModulus = Cardinality(Kids(e, x))
      BY SMTT(30), <1>5, <2>2, <2>4, <2>5 DEF One
    <3>2. QED
      BY SMTT(30), <2>3, <2>5, <3>1
  <2>6. CASE x # p
    BY SMTT(30), <1>5, <2>2, <2>3, <2>4, <2>6 DEF One
  <2>7. QED
    BY SMTT(30), <2>5, <2>6
<1>9. QED
  BY <1>6, <1>7, <1>8

\* deleteObject leaves every count exact.
LEMMA DetachExact ==
    ASSUME NEW t, IsTracker(t), Exact(t), NEW o
    PROVE  Exact(Detach(t, o))
<1>1. CASE o \notin DOMAIN t.edge
  BY <1>1 DEF Detach
<1>2. CASE o \in DOMAIN t.edge
  <2> DEFINE e == Drop(t.edge, {o})
             r == RemoveEntry(t, o)
             d == Detach(t, o)
  <2>1. IsTracker(r) /\ IsTracker(d) /\ r.edge = e /\ d.edge = e
    BY DetachTyped, DetachEdge
  <2>2. DOMAIN e = DOMAIN t.edge \ {o} /\ DOMAIN e \subseteq Objects /\ DOMAIN t.edge \subseteq Objects
    BY DEF Drop, IsTracker
  <2>3. \A x \in DOMAIN e : r.count[x] = Cardinality(Kids(t.edge, x))
    BY DEF RemoveEntry, Drop, IsTracker, Exact
  <2>4. SUFFICES ASSUME NEW x \in DOMAIN e PROVE d.count[x] = Cardinality(Kids(e, x))
    BY <2>1 DEF Exact
  <2>5. /\ Cardinality(Kids(t.edge, x)) \in 0..CountModulus - 1
        /\ Cardinality(Kids(e, x)) \in 0..CountModulus - 1
        /\ CountModulus \in Nat
    BY <2>2, KidsBounded, OpsAssumption DEF OpsAssumption
  <2>6. d = Adjust(r, t.edge[o], -1)
    BY SMTT(30), <1>2 DEF Detach
  <2>7. Cardinality(Kids(e, x)) = Cardinality(Kids(t.edge, x)) - One(x, t.edge[o])
    BY SMTT(30), <1>2, <2>2, KidsDropped
  <2>8. d.count[x] = IF x = t.edge[o] THEN (r.count[x] + (-1)) % CountModulus ELSE r.count[x]
    BY SMTT(30), <2>1, <2>6, AdjustEffect
  <2>9. r.count[x] = Cardinality(Kids(t.edge, x))
    BY SMTT(30), <2>3
  <2> HIDE DEF e, r, d
  <2>10. CASE x = t.edge[o]
    <3>1. (r.count[x] + (-1)) % CountModulus = Cardinality(Kids(e, x))
      BY SMTT(30), <2>5, <2>7, <2>9, <2>10 DEF One
    <3>2. QED
      BY SMTT(30), <2>8, <2>10, <3>1
  <2>11. CASE x # t.edge[o]
    BY <2>5, <2>7, <2>8, <2>9, <2>11 DEF One
  <2>12. QED
    BY <2>10, <2>11
<1>3. QED
  BY <1>1, <1>2

-----------------------------------------------------------------------------
(* What a list reads and what it leaves *)

\* domainExpiry and the leaf of a domain operation, at the epoch k.
ExpiryAt(k, current, term) == (IF k > current THEN k ELSE current) + term
FitsAt(k, current, term) == term > 0 /\ ExpiryAt(k, current, term) <= k + MaxTermEpochs
LeafAt(k, reg, tx, op) ==
    CASE op.kind = "register" ->
            [object |-> op.obj, owner |-> tx.sender, expiry |-> ExpiryAt(k, 0, op.term)]
      [] op.kind = "renew" -> [reg[op.name] EXCEPT !.expiry = ExpiryAt(k, @, op.term)]
      [] op.kind = "update" -> [reg[op.name] EXCEPT !.object = op.obj]
      [] op.kind = "transfer" -> [reg[op.name] EXCEPT !.owner = op.target]

\* The commit path takes both at the current epoch.
LEMMA AtEpoch ==
    /\ \A c, t : TermFits(c, t) <=> FitsAt(epoch, c, t)
    /\ \A reg, tx, op : NewLeaf(reg, tx, op) = LeafAt(epoch, reg, tx, op)
BY DEF TermFits, FitsAt, Expiry, ExpiryAt, NewLeaf, LeafAt

\* What an operation does to the parent edges and, at the epoch k, to the registry.
EdgesAfter(e, op) ==
    CASE op.kind = "reparent" -> Put(e, op.obj, op.target)
      [] op.kind = "delete" -> Drop(e, {op.obj})
      [] OTHER -> e
NamesAfter(k, reg, tx, op) ==
    CASE op.kind \in {"reparent", "delete"} -> reg
      [] op.kind = "release" -> Drop(reg, {op.name})
      [] OTHER -> Put(reg, op.name, LeafAt(k, reg, tx, op))

\* What validation establishes of an operation on the state x it reads.
Vetted(k, x, tx, op) ==
    /\ op.kind \in {"reparent", "delete", "register", "update"} =>
          Controls(x.edge, tx.sender, op.obj)
    /\ op.kind = "reparent" =>
          /\ op.target \in Objects => Controls(x.edge, tx.sender, op.target)
          /\ ~WouldCycle(x.edge, op.obj, op.target)
    /\ op.kind = "delete" => x.count[op.obj] = 0
    /\ op.kind = "register" => op.name \notin DOMAIN x.names /\ FitsAt(k, 0, op.term)
    /\ op.kind \in {"renew", "update", "transfer", "release"} =>
          Owns(x.names, tx.sender, op.name)
    /\ op.kind = "renew" => FitsAt(k, x.names[op.name].expiry, op.term)

\* The step from one reading to the next is the operation between them.
Follows(k, x, tx, op, y) ==
    /\ Vetted(k, x, tx, op)
    /\ y.edge = EdgesAfter(x.edge, op)
    /\ y.names = NamesAfter(k, x.names, tx, op)

\* The fields of a staged view.
IsOverlay(s) ==
    s = [parents |-> s.parents, deleted |-> s.deleted, delta |-> s.delta,
         names |-> s.names, removed |-> s.removed]

\* An overlay hides edges and moves them, and invents none.
IsView(s) ==
    /\ IsOverlay(s)
    /\ s.delta \in [Objects -> Int]
    /\ DOMAIN StagedEdges(s) \subseteq DOMAIN edge
    /\ IsEdges(StagedEdges(s))

\* The empty overlay reads the tracker and the registry.
LEMMA EmptyView ==
    ASSUME TrackOK, NamesOK
    PROVE  IsView(NewStagedView) /\ StagedReading(NewStagedView) = Reading
<1> DEFINE s == NewStagedView
<1>1. StagedEdges(s) = edge
  BY DEF StagedEdges, NewStagedView, NoLeaf, TrackOK, Tracker, IsTracker
<1>2. StagedNames(s) = names
  BY DEF StagedNames, NewStagedView, NoLeaf, NamesOK
<1>3. \A o \in DOMAIN edge : StagedCount(s, o) = count[o]
  BY OpsAssumption DEF StagedCount, NewStagedView, TrackOK, Tracker, IsTracker, OpsAssumption
<1>4. s.delta \in [Objects -> Int]
  BY SMTT(30) DEF NewStagedView
<1>5. IsOverlay(s)
  BY DEF NewStagedView, IsOverlay
<1> HIDE DEF s
<1>6. IsView(s)
  BY <1>1, <1>4, <1>5 DEF IsView, IsEdges, TrackOK, Tracker, IsTracker
<1>7. [o \in DOMAIN StagedEdges(s) |-> StagedCount(s, o)] = count
  BY <1>1, <1>3 DEF TrackOK, Tracker, IsTracker
<1>8. QED
  BY SMTT(30), <1>1, <1>2, <1>6, <1>7 DEF StagedReading, Reading, s

\* A delta stays a delta.
LEMMA DeltaTyped ==
    ASSUME NEW delta \in [Objects -> Int], NEW p, NEW d \in Int
    PROVE  /\ Delta(delta, p, d) \in [Objects -> Int]
           /\ \A x \in Objects : Delta(delta, p, d)[x] = delta[x] + IF x = p THEN d ELSE 0
BY SMTT(30) DEF Delta

\* stageReparent: the overlay shows the object under its new parent.
LEMMA ReparentStaged ==
    ASSUME TrackOK, NEW s, IsView(s), NEW o \in DOMAIN StagedEdges(s), NEW p \in Objects \cup Keys
    PROVE  LET z == StageReparent(s, o, p) IN
           /\ IsView(z)
           /\ StagedEdges(z) = Put(StagedEdges(s), o, p)
           /\ StagedNames(z) = StagedNames(s)
           /\ \A x \in Objects :
                 z.delta[x] = s.delta[x] - One(x, StagedEdges(s)[o]) + One(x, p)
<1> DEFINE z == StageReparent(s, o, p)
           l == Delta(s.delta, StagedEdges(s)[o], -1)
           d == Delta(l, p, 1)
<1>1. z = [parents |-> Put(s.parents, o, p), deleted |-> s.deleted, delta |-> d,
           names |-> s.names, removed |-> s.removed]
  <2>1. Left(s, o) = l
    BY DEF Left
  <2> HIDE DEF l
  <2>2. IsOverlay(s) /\ z = [s EXCEPT !.parents = Put(@, o, p), !.delta = d]
    BY <2>1 DEF StageReparent, IsView
  <2> HIDE DEF z, d
  <2>3. QED
    BY ZenonT(30), <2>2 DEF IsOverlay
<1>2. l \in [Objects -> Int] /\ \A x \in Objects : l[x] = s.delta[x] - One(x, StagedEdges(s)[o])
  BY DeltaTyped DEF IsView, One
<1> HIDE DEF l
<1>3. d \in [Objects -> Int] /\ \A x \in Objects : d[x] = l[x] + One(x, p)
  BY <1>2, DeltaTyped DEF One
<1> HIDE DEF d, z
<1>4. StagedEdges(z) = Put(StagedEdges(s), o, p)
  BY <1>1 DEF StagedEdges, Put
<1>5. StagedNames(z) = StagedNames(s)
  BY <1>1 DEF StagedNames
<1>6. IsOverlay(z) /\ z.delta = d
  BY <1>1 DEF IsOverlay
<1>7. IsEdges(Put(StagedEdges(s), o, p)) /\ DOMAIN Put(StagedEdges(s), o, p) = DOMAIN StagedEdges(s)
  BY SMTT(30) DEF Put, IsEdges, IsView
<1>8. IsView(z)
  BY <1>3, <1>4, <1>6, <1>7 DEF IsView
<1>9. \A x \in Objects : z.delta[x] = s.delta[x] - One(x, StagedEdges(s)[o]) + One(x, p)
  BY SMTT(30), <1>2, <1>3, <1>6
<1>10. QED
  BY <1>4, <1>5, <1>8, <1>9 DEF z

\* stageDelete: the overlay hides the object.
LEMMA DeleteStaged ==
    ASSUME TrackOK, NEW s, IsView(s), NEW o \in DOMAIN StagedEdges(s)
    PROVE  LET z == StageDelete(s, o) IN
           /\ IsView(z)
           /\ StagedEdges(z) = Drop(StagedEdges(s), {o})
           /\ StagedNames(z) = StagedNames(s)
           /\ \A x \in Objects : z.delta[x] = s.delta[x] - One(x, StagedEdges(s)[o])
<1> DEFINE z == StageDelete(s, o)
           d == Delta(s.delta, StagedEdges(s)[o], -1)
<1>1. z = [parents |-> s.parents, deleted |-> s.deleted \cup {o}, delta |-> d,
           names |-> s.names, removed |-> s.removed]
  <2>1. Left(s, o) = d
    BY DEF Left
  <2> HIDE DEF d
  <2>2. IsOverlay(s) /\ z = [s EXCEPT !.deleted = @ \cup {o}, !.delta = d]
    BY <2>1 DEF StageDelete, IsView
  <2> HIDE DEF z
  <2>3. QED
    BY ZenonT(30), <2>2 DEF IsOverlay
<1>2. d \in [Objects -> Int] /\ \A x \in Objects : d[x] = s.delta[x] - One(x, StagedEdges(s)[o])
  BY DeltaTyped DEF IsView, One
<1> HIDE DEF d, z
<1>3. StagedEdges(z) = Drop(StagedEdges(s), {o})
  BY <1>1 DEF StagedEdges, Drop
<1>4. StagedNames(z) = StagedNames(s)
  BY <1>1 DEF StagedNames
<1>5. IsOverlay(z) /\ z.delta = d
  BY <1>1 DEF IsOverlay
<1>6. IsEdges(Drop(StagedEdges(s), {o})) /\ DOMAIN Drop(StagedEdges(s), {o}) \subseteq DOMAIN edge
  BY DEF Drop, IsEdges, IsView
<1>7. IsView(z)
  BY Zenon, <1>2, <1>3, <1>5, <1>6 DEF IsView
<1>8. QED
  BY <1>2, <1>3, <1>4, <1>5, <1>7 DEF z

\* stageDomain: the overlay shows the leaf, and no edge is touched.
LEMMA NameStaged ==
    ASSUME NEW s, IsView(s), NEW n, NEW leaf, NEW z, z = StageName(s, n, leaf)
    PROVE  /\ IsView(z)
           /\ StagedEdges(z) = StagedEdges(s)
           /\ z.delta = s.delta
           /\ StagedNames(z) = Put(StagedNames(s), n, leaf)
<1> DEFINE l == Put(s.names, n, leaf)
<1>1. IsOverlay(s) /\ z = [s EXCEPT !.names = l, !.removed = @ \ {n}]
  BY DEF StageName, IsView
<1> HIDE DEF l
<1>2. z = [parents |-> s.parents, deleted |-> s.deleted, delta |-> s.delta,
           names |-> l, removed |-> s.removed \ {n}]
  BY ZenonT(30), <1>1 DEF IsOverlay
<1>3. StagedEdges(z) = StagedEdges(s)
  BY <1>2 DEF StagedEdges
<1>4. StagedNames(z) = Put(StagedNames(s), n, leaf)
  BY <1>2 DEF StagedNames, Put, l
<1>5. IsOverlay(z) /\ z.delta = s.delta
  BY <1>2 DEF IsOverlay
<1>6. QED
  BY <1>3, <1>4, <1>5 DEF IsView

\* stageDomainDelete: the overlay hides the name, and no edge is touched.
LEMMA NameHidden ==
    ASSUME NEW s, IsView(s), NEW n, NEW z, z = [s EXCEPT !.removed = @ \cup {n}]
    PROVE  /\ IsView(z)
           /\ StagedEdges(z) = StagedEdges(s)
           /\ z.delta = s.delta
           /\ StagedNames(z) = Drop(StagedNames(s), {n})
<1>1. IsOverlay(s)
  BY DEF IsView
<1>2. z = [parents |-> s.parents, deleted |-> s.deleted, delta |-> s.delta,
           names |-> s.names, removed |-> s.removed \cup {n}]
  BY <1>1 DEF IsOverlay
<1>3. StagedEdges(z) = StagedEdges(s)
  BY <1>2 DEF StagedEdges
<1>4. StagedNames(z) = Drop(StagedNames(s), {n})
  BY <1>2 DEF StagedNames, Drop
<1>5. IsOverlay(z) /\ z.delta = s.delta
  BY ZenonT(30), <1>2 DEF IsOverlay
<1>6. QED
  BY <1>3, <1>4, <1>5 DEF IsView

\* A valid operation, staged: the overlay's next reading is the operation's effect on
\* the reading it was validated against.
LEMMA StageFollows ==
    ASSUME TrackOK, NEW s, IsView(s), NEW tx, NEW op, IsOp(op), ValidOp(s, tx, op)
    PROVE  /\ IsView(StageOp(s, tx, op))
           /\ Follows(epoch, StagedReading(s), tx, op, StagedReading(StageOp(s, tx, op)))
<1> DEFINE x == StagedReading(s)
           z == StageOp(s, tx, op)
<1>1. /\ x.edge = StagedEdges(s) /\ x.names = StagedNames(s)
      /\ \A o \in DOMAIN StagedEdges(s) : x.count[o] = StagedCount(s, o)
      /\ StagedReading(z).edge = StagedEdges(z) /\ StagedReading(z).names = StagedNames(z)
  BY SMTT(30) DEF StagedReading
<1>2. op.obj \in Objects /\ op.target \in Objects \cup Keys /\ op.kind \in Kinds
  BY DEF IsOp
<1> HIDE DEF x
<1>3. CASE op.kind = "reparent"
  <2>1. ValidReparent(s, tx, op) /\ z = StageReparent(s, op.obj, op.target)
    BY SMTT(30), <1>3 DEF ValidOp, StageOp
  <2>2. op.obj \in DOMAIN StagedEdges(s)
    BY SMTT(30), <2>1, ControlledTracked DEF ValidReparent
  <2>3. /\ IsView(z)
        /\ StagedEdges(z) = Put(StagedEdges(s), op.obj, op.target)
        /\ StagedNames(z) = StagedNames(s)
    BY SMTT(30), <1>2, <2>1, <2>2, ReparentStaged
  <2>4. Vetted(epoch, x, tx, op)
    BY ZenonT(30), <1>1, <1>3, <2>1 DEF Vetted, ValidReparent
  <2> HIDE DEF z
  <2>5. QED
    BY <1>1, <1>3, <2>3, <2>4 DEF Follows, EdgesAfter, NamesAfter, x, z
<1>4. CASE op.kind = "delete"
  <2>1. ValidDelete(s, tx, op) /\ z = StageDelete(s, op.obj)
    BY SMTT(30), <1>4 DEF ValidOp, StageOp
  <2>2. op.obj \in DOMAIN StagedEdges(s)
    BY SMTT(30), <2>1, ControlledTracked DEF ValidDelete
  <2>3. /\ IsView(z)
        /\ StagedEdges(z) = Drop(StagedEdges(s), {op.obj})
        /\ StagedNames(z) = StagedNames(s)
    BY SMTT(30), <2>1, <2>2, DeleteStaged
  <2>4. Vetted(epoch, x, tx, op)
    BY ZenonT(30), <1>1, <1>4, <2>1, <2>2 DEF Vetted, ValidDelete
  <2> HIDE DEF z
  <2>5. QED
    BY <1>1, <1>4, <2>3, <2>4 DEF Follows, EdgesAfter, NamesAfter, x, z
<1>5. CASE op.kind = "release"
  <2>1. Owns(StagedNames(s), tx.sender, op.name) /\ z = [s EXCEPT !.removed = @ \cup {op.name}]
    BY <1>5 DEF ValidOp, StageOp
  <2> HIDE DEF z
  <2>2. /\ IsView(z)
        /\ StagedEdges(z) = StagedEdges(s)
        /\ StagedNames(z) = Drop(StagedNames(s), {op.name})
    BY ZenonT(30), <2>1, NameHidden
  <2>3. Vetted(epoch, x, tx, op)
    BY <1>1, <1>5, <2>1 DEF Vetted
  <2> HIDE DEF z
  <2>4. QED
    BY <1>1, <1>5, <2>2, <2>3 DEF Follows, EdgesAfter, NamesAfter, x, z
<1>6. CASE op.kind \in {"register", "renew", "update", "transfer"}
  <2> DEFINE leaf == NewLeaf(StagedNames(s), tx, op)
  <2>1. z = StageName(s, op.name, leaf)
    BY <1>6 DEF StageOp
  <2> HIDE DEF leaf, z
  <2>2. /\ IsView(z)
        /\ StagedEdges(z) = StagedEdges(s)
        /\ StagedNames(z) = Put(StagedNames(s), op.name, leaf)
    BY <2>1, NameStaged
  <2>3. Vetted(epoch, x, tx, op)
    <3>1. CASE op.kind = "register"
      BY <1>1, <3>1, AtEpoch DEF Vetted, ValidOp, ValidRegister
    <3>2. CASE op.kind = "renew"
      BY <1>1, <3>2, AtEpoch DEF Vetted, ValidOp
    <3>3. CASE op.kind = "update"
      BY <1>1, <3>3 DEF Vetted, ValidOp
    <3>4. CASE op.kind = "transfer"
      BY <1>1, <3>4 DEF Vetted, ValidOp
    <3>5. QED
      BY SMTT(30), <1>6, <3>1, <3>2, <3>3, <3>4
  <2>4. NamesAfter(epoch, x.names, tx, op) = Put(StagedNames(s), op.name, leaf)
    BY <1>1, <1>6, AtEpoch DEF NamesAfter, leaf
  <2>5. EdgesAfter(x.edge, op) = StagedEdges(s)
    BY SMTT(30), <1>1, <1>6 DEF EdgesAfter
  <2>6. QED
    BY Zenon, <1>1, <2>2, <2>3, <2>4, <2>5 DEF Follows, x, z
<1>7. QED
  BY <1>2, <1>3, <1>4, <1>5, <1>6 DEF Kinds

\* The overlay's deltas count the children it shows.
DeltaExact(s) ==
    \A o \in DOMAIN edge : count[o] + s.delta[o] = Cardinality(Kids(StagedEdges(s), o))

\* Every valid operation, staged, keeps the deltas exact.
LEMMA StageExact ==
    ASSUME TrackOK, NEW s, IsView(s), DeltaExact(s),
           NEW tx, NEW op, IsOp(op), ValidOp(s, tx, op)
    PROVE  DeltaExact(StageOp(s, tx, op))
<1> DEFINE z == StageOp(s, tx, op)
<1>1. SUFFICES ASSUME NEW y \in DOMAIN edge
               PROVE  count[y] + z.delta[y] = Cardinality(Kids(StagedEdges(z), y))
  BY SMTT(30) DEF DeltaExact
<1>2. /\ op.obj \in Objects /\ op.target \in Objects \cup Keys /\ op.kind \in Kinds
      /\ y \in Objects /\ count[y] \in Int /\ s.delta[y] \in Int
  BY OpsAssumption DEF IsOp, TrackOK, Tracker, IsTracker, IsView, OpsAssumption
<1>3. count[y] + s.delta[y] = Cardinality(Kids(StagedEdges(s), y))
  BY DEF DeltaExact
<1>4. DOMAIN StagedEdges(s) \subseteq Objects
  BY SMTT(30) DEF IsView, IsEdges
<1>5. CASE op.kind = "reparent"
  <2>1. ValidReparent(s, tx, op) /\ z = StageReparent(s, op.obj, op.target)
    BY SMTT(30), <1>5 DEF ValidOp, StageOp
  <2>2. op.obj \in DOMAIN StagedEdges(s)
    BY <2>1, ControlledTracked DEF ValidReparent
  <2> HIDE DEF z
  <2>3. /\ StagedEdges(z) = Put(StagedEdges(s), op.obj, op.target)
        /\ z.delta[y] = s.delta[y] - One(y, StagedEdges(s)[op.obj]) + One(y, op.target)
    <3>1. PICK o, p, w : o = op.obj /\ p = op.target /\ w = StageReparent(s, o, p)
      OBVIOUS
    <3>2. o \in DOMAIN StagedEdges(s) /\ p \in Objects \cup Keys
      BY SMTT(30), <1>2, <2>2, <3>1
    <3>3. /\ StagedEdges(w) = Put(StagedEdges(s), o, p)
          /\ \A x \in Objects :
                w.delta[x] = s.delta[x] - One(x, StagedEdges(s)[o]) + One(x, p)
      BY <3>1, <3>2, ReparentStaged
    <3>4. z = w
      BY Zenon, <2>1, <3>1
    <3>5. QED
      BY Zenon, <1>2, <3>1, <3>3, <3>4
  <2>4. Cardinality(Kids(StagedEdges(z), y))
          = Cardinality(Kids(StagedEdges(s), y)) - One(y, StagedEdges(s)[op.obj])
              + One(y, op.target)
    <3>1. PICK e, o, p : e = StagedEdges(s) /\ o = op.obj /\ p = op.target
      OBVIOUS
    <3>2. DOMAIN e \subseteq Objects /\ o \in DOMAIN e
      BY SMTT(30), <1>4, <2>2, <3>1
    <3>3. Cardinality(Kids(Put(e, o, p), y))
            = Cardinality(Kids(e, y)) - One(y, e[o]) + One(y, p)
      BY SMTT(30), <3>2, KidsMoved
    <3>4. QED
      BY Zenon, <2>3, <3>1, <3>3
  <2>5. QED
    BY <1>2, <1>3, <2>3, <2>4 DEF One
<1>6. CASE op.kind = "delete"
  <2>1. ValidDelete(s, tx, op) /\ z = StageDelete(s, op.obj)
    BY <1>6 DEF ValidOp, StageOp
  <2>2. op.obj \in DOMAIN StagedEdges(s)
    BY <2>1, ControlledTracked DEF ValidDelete
  <2> HIDE DEF z
  <2>3. /\ StagedEdges(z) = Drop(StagedEdges(s), {op.obj})
        /\ z.delta[y] = s.delta[y] - One(y, StagedEdges(s)[op.obj])
    BY Zenon, <1>2, <2>1, <2>2, DeleteStaged
  <2>4. Cardinality(Kids(StagedEdges(z), y))
          = Cardinality(Kids(StagedEdges(s), y)) - One(y, StagedEdges(s)[op.obj])
    <3>1. PICK e, o : e = StagedEdges(s) /\ o = op.obj
      OBVIOUS
    <3>2. DOMAIN e \subseteq Objects /\ o \in DOMAIN e
      BY SMTT(30), <1>4, <2>2, <3>1
    <3>3. Cardinality(Kids(Drop(e, {o}), y)) = Cardinality(Kids(e, y)) - One(y, e[o])
      BY SMTT(30), <3>2, KidsDropped
    <3>4. QED
      BY Zenon, <2>3, <3>1, <3>3
  <2>5. QED
    BY <1>2, <1>3, <2>3, <2>4 DEF One
<1>7. CASE op.kind \notin {"reparent", "delete"}
  <2>1. StagedEdges(z) = StagedEdges(s) /\ z.delta = s.delta
    <3>1. CASE op.kind = "release"
      <4>1. z = [s EXCEPT !.removed = @ \cup {op.name}]
        BY <3>1 DEF StageOp
      <4> HIDE DEF z
      <4>2. QED
        BY ZenonT(30), <4>1, NameHidden
    <3>2. CASE op.kind # "release"
      <4>1. z = StageName(s, op.name, NewLeaf(StagedNames(s), tx, op))
        BY <1>7, <3>2 DEF StageOp
      <4> HIDE DEF z
      <4>2. QED
        BY <4>1, NameStaged
    <3>3. QED
      BY <3>1, <3>2
  <2> HIDE DEF z
  <2>2. QED
    BY <1>3, <2>1
<1>8. QED
  BY SMTT(30), <1>5, <1>6, <1>7

-----------------------------------------------------------------------------
(* The strengthened invariant *)

\* The objects that exist or did: a creation in progress has not happened yet.
Made ==
    DOMAIN Rooted \cup {tx.creates : tx \in {t \in done : work = None \/ work.tx # t}}

\* No edge and no name speaks of an object before its creation.
IdsOK ==
    /\ DOMAIN edge \subseteq Made
    /\ \A o \in DOMAIN edge : edge[o] \in Objects => edge[o] \in Made
    /\ \A n \in DOMAIN names : names[n].object \in Made

\* The trees hold the committed state, between the writes of a list as well.
IndexOK == index = [edge |-> edge, names |-> names]

\* What the state satisfies: beyond a crash, all but the counts and the bodies.
StateOK ==
    /\ IdsOK
    /\ IndexOK
    /\ NoLoop(edge)
    /\ crashes = 0 => Exact(Tracker)
    /\ BodyMatches

\* The operations validated so far, and the reading the state itself is at.
Checked == IF work.phase = "validate" THEN work.at ELSE Len(work.tx.ops)
Here == IF work.phase = "validate" THEN 1 ELSE work.at + 1

\* A reading whose every count is the number of children.
ExactReading(x) == x = [edge |-> x.edge, count |-> ChildCounts(x.edge), names |-> x.names]

\* The readings of a list are a run of its operations, from the state the list began
\* in through the one it is validated against or applied to.
ReadingsOK ==
    /\ work.at <= Len(work.tx.ops)
    /\ Len(work.readings) = Checked + 1 /\ DOMAIN work.readings = 1..Checked + 1
    /\ \A i \in 1..Checked :
          Follows(epoch, work.readings[i], work.tx, work.tx.ops[i], work.readings[i + 1])
    /\ edge = work.readings[Here].edge /\ names = work.readings[Here].names
    /\ crashes = 0 => \A i \in 1..Checked + 1 : ExactReading(work.readings[i])

\* The overlay s over the edges e, the counts c and the registry reg.
EdgesOver(e, s) ==
    [o \in (DOMAIN s.parents \cup DOMAIN e) \ s.deleted |->
        IF o \in DOMAIN s.parents THEN s.parents[o] ELSE e[o]]
CountOver(e, c, s, o) ==
    LET staged == (IF o \in DOMAIN e THEN c[o] ELSE 0) + s.delta[o]
    IN  IF staged < 0 THEN 0 ELSE staged
NamesOver(reg, s) ==
    [n \in (DOMAIN s.names \cup DOMAIN reg) \ s.removed |->
        IF n \in DOMAIN s.names THEN s.names[n] ELSE reg[n]]
ReadingOver(e, c, reg, s) ==
    [edge |-> EdgesOver(e, s),
     count |-> [o \in DOMAIN EdgesOver(e, s) |-> CountOver(e, c, s, o)],
     names |-> NamesOver(reg, s)]
ViewOver(e, s) ==
    /\ IsOverlay(s)
    /\ s.delta \in [Objects -> Int]
    /\ DOMAIN EdgesOver(e, s) \subseteq DOMAIN e
    /\ IsEdges(EdgesOver(e, s))
DeltaOver(e, c, s) ==
    \A o \in DOMAIN e : c[o] + s.delta[o] = Cardinality(Kids(EdgesOver(e, s), o))

\* The staged view is the overlay over the current state.
LEMMA Over ==
    ASSUME NEW s
    PROVE  /\ StagedReading(s) = ReadingOver(edge, count, names, s)
           /\ IsView(s) <=> ViewOver(edge, s)
           /\ DeltaExact(s) <=> DeltaOver(edge, count, s)
<1>1. StagedEdges(s) = EdgesOver(edge, s) /\ StagedNames(s) = NamesOver(names, s)
  BY DEF StagedEdges, EdgesOver, StagedNames, NamesOver
<1>2. \A o : StagedCount(s, o) = CountOver(edge, count, s, o)
  BY DEF StagedCount, CountOver
<1>3. QED
  BY Zenon, <1>1, <1>2 DEF StagedReading, ReadingOver, IsView, ViewOver, DeltaExact, DeltaOver

\* While a list is validated, its last reading is what the overlay shows.
OverlayOK ==
    /\ ViewOver(edge, work.staged)
    /\ work.readings[work.at + 1] = ReadingOver(edge, count, names, work.staged)
    /\ crashes = 0 => DeltaOver(edge, count, work.staged)

Listing == Busy("validate") \/ Busy("apply")
ListOK == (Listing => ReadingsOK) /\ (Busy("validate") => OverlayOK)

HInv == IInv /\ StateOK /\ ListOK

=============================================================================
