-------------------------- MODULE DeclaredOpsProofs --------------------------
(***************************************************************************)
(* What the object tracker, the domain registry and the index keep, for    *)
(* every set of objects, names and transactions.  Supposing that mutable   *)
(* refs name tracked objects (RefsLive), it follows a declared list from   *)
(* the overlay it is validated in to the state it is applied to.           *)
(***************************************************************************)
EXTENDS DeclaredOpsLemmas

-----------------------------------------------------------------------------
(* The steps that leave the state alone *)

\* An exact tracker's counts, as a function.
LEMMA ExactCounts ==
    ASSUME TrackOK, Exact(Tracker)
    PROVE  count = ChildCounts(edge)
BY DEF Exact, Tracker, TrackOK, IsTracker, ChildCounts

\* Where every mutable ref is tracked, the version bump adds no entry.
LEMMA BumpNothing ==
    ASSUME RefsLive, TrackOK, NEW tx, Arrives(tx)
    PROVE  BumpVersions(tx.refs) = Tracker
<1>1. DOMAIN edge \cup tx.refs = DOMAIN edge
  BY DEF Arrives
<1>2. QED
  BY <1>1 DEF BumpVersions, Tracker, TrackOK, IsTracker

\* A step that changes no more than the marks and the work keeps the state.
LEMMA QuietKeeps ==
    ASSUME StateOK, Made \subseteq Made', UNCHANGED <<edge, count, body, names, index, crashes>>
    PROVE  StateOK'
<1>1. IdsOK'
  BY DEF StateOK, IdsOK
<1>2. IndexOK'
  BY DEF StateOK, IndexOK
<1>3. NoLoop(edge)' /\ (crashes = 0 => Exact(Tracker))'
  BY DEF StateOK, Tracker
<1>4. BodyMatches'
  BY DEF StateOK, BodyMatches
<1>5. QED
  BY SMTT(30), <1>1, <1>2, <1>3, <1>4 DEF StateOK

\* A list that is over, or a pod call, has no readings to keep.
LEMMA NoListKeeps ==
    ASSUME ~Listing' PROVE ListOK'
BY DEF ListOK, Listing

\* An object once made stays made.
LEMMA MadeGrows ==
    ASSUME done \subseteq done', work' # None => work = None \/ work'.tx = work.tx,
           work = None /\ work' # None => work'.tx \notin done
    PROVE  Made \subseteq Made'
<1>1. SUFFICES ASSUME NEW t \in done, work = None \/ work.tx # t
               PROVE  t \in done' /\ (work' = None \/ work'.tx # t)
  BY DEF Made
<1>2. QED
  BY <1>1

\* Refusals keep everything.
LEMMA RefuseKeepsAll ==
    ASSUME RefsLive, HInv, NEW tx \in Txs,
           RefuseVersion(tx) \/ RefuseFee(tx) \/ RefusePod(tx)
    PROVE  StateOK' /\ ListOK'
<1>1. TrackOK
  BY Parts DEF HInv
<1>2. /\ UNCHANGED <<edge, count, body, names, index, work, crashes>>
      /\ work = None /\ done \subseteq done'
  <2>1. CASE RefuseVersion(tx)
    BY SMTT(30), <2>1 DEF RefuseVersion, Mark
  <2>2. CASE RefuseFee(tx)
    <3>1. BumpVersions(tx.refs) = Tracker
      BY SMTT(30), <1>1, <2>2, BumpNothing DEF RefuseFee
    <3>2. QED
      BY <2>2, <3>1 DEF RefuseFee, SetTracker, Tracker, Arrives, Mark
  <2>3. CASE RefusePod(tx)
    <3>1. BumpVersions(tx.refs) = Tracker
      BY SMTT(30), <1>1, <2>3, BumpNothing DEF RefusePod
    <3>2. QED
      BY SMTT(30), <2>3, <3>1 DEF RefusePod, SetTracker, Tracker, Arrives, Mark
  <2>4. QED
    BY SMTT(30), <2>1, <2>2, <2>3
<1>3. Made \subseteq Made'
  BY <1>2, MadeGrows
<1>4. ~Listing'
  BY <1>2 DEF Listing, Busy
<1>5. QED
  BY SMTT(30), <1>2, <1>3, <1>4, QuietKeeps, NoListKeeps DEF HInv

\* Rejections, the end of a list and a failed pod call keep everything.
LEMMA EndKeepsAll ==
    ASSUME HInv, RejectOps \/ EndOps \/ ExecuteFails
    PROVE  StateOK' /\ ListOK'
<1>1. UNCHANGED <<edge, count, body, names, index, crashes, done>> /\ work' = None
  BY DEF RejectOps, EndOps, ExecuteFails
<1>2. Made \subseteq Made'
  BY <1>1, MadeGrows
<1>3. ~Listing'
  BY <1>1 DEF Listing, Busy
<1>4. QED
  BY SMTT(30), <1>1, <1>2, <1>3, QuietKeeps, NoListKeeps DEF HInv

\* A list begins with the state as its first reading and an empty overlay.
LEMMA BeginKeepsAll ==
    ASSUME RefsLive, HInv, NEW tx \in Txs, BeginOps(tx)
    PROVE  StateOK' /\ ListOK'
<1>1. TrackOK /\ NamesOK
  BY SMTT(30), Parts DEF HInv
<1>2. BumpVersions(tx.refs) = Tracker
  BY SMTT(30), <1>1, BumpNothing DEF BeginOps
<1>3. /\ UNCHANGED <<edge, count, body, names, index, epoch, crashes>>
      /\ done' = done \cup {tx} /\ tx \notin done /\ work = None
  BY SMTT(30), <1>2 DEF BeginOps, Arrives, Mark, SetTracker, Tracker
<1>4. work' = [tx |-> tx, phase |-> "validate", at |-> 0, staged |-> NewStagedView,
               readings |-> <<Reading>>]
  BY <1>2 DEF BeginOps, Tracker, Reading
<1>5. /\ work'.tx = tx /\ work'.phase = "validate" /\ work'.at = 0
      /\ work'.staged = NewStagedView /\ work'.readings = <<Reading>>
  BY <1>4
<1>6. StateOK'
  <2>1. Made \subseteq Made'
    BY <1>3, <1>5, MadeGrows
  <2>2. QED
    BY SMTT(30), <1>3, <2>1, QuietKeeps DEF HInv
<1>7. Checked' = 0 /\ Here' = 1 /\ work'.readings[1] = Reading /\ Len(work'.readings) = 1
      /\ DOMAIN work'.readings = 1..1
  BY <1>5 DEF Checked, Here
<1>8. crashes = 0 => ExactReading(Reading)
  <2>1. crashes = 0 => count = ChildCounts(edge)
    BY SMTT(30), <1>1, ExactCounts DEF HInv, StateOK
  <2>2. QED
    BY <2>1 DEF ExactReading, Reading
<1>9. ReadingsOK'
  <2>1. work'.at <= Len(work'.tx.ops)
    BY SMTT(30), <1>5, OpsAssumption DEF OpsAssumption, IsTx
  <2>2. edge' = work'.readings[Here'].edge /\ names' = work'.readings[Here'].names
    BY SMTT(30), <1>3, <1>7 DEF Reading
  <2>3. crashes' = 0 => \A i \in 1..Checked' + 1 : ExactReading(work'.readings[i])
    BY SMTT(30), <1>3, <1>7, <1>8
  <2>4. QED
    BY SMTT(30), <1>7, <2>1, <2>2, <2>3 DEF ReadingsOK
<1>10. OverlayOK'
  <2>1. IsView(NewStagedView) /\ StagedReading(NewStagedView) = Reading
    BY <1>1, EmptyView
  <2>2. crashes = 0 => DeltaExact(NewStagedView)
    <3>1. StagedEdges(NewStagedView) = edge
      BY SMTT(30), <2>1 DEF StagedReading, Reading
    <3>2. SUFFICES ASSUME crashes = 0, NEW o \in DOMAIN edge
                   PROVE  count[o] + NewStagedView.delta[o] = Cardinality(Kids(edge, o))
      BY <3>1 DEF DeltaExact
    <3>3. count[o] = Cardinality(Kids(edge, o))
      BY SMTT(30), <3>2 DEF HInv, StateOK, Exact, Tracker
    <3>4. count[o] \in Int /\ NewStagedView.delta[o] = 0
      BY SMTT(30), <1>1, <3>2, OpsAssumption DEF TrackOK, Tracker, IsTracker, NewStagedView, OpsAssumption
    <3>5. QED
      BY SMTT(30), <3>3, <3>4
  <2>3. /\ ViewOver(edge', work'.staged)
        /\ work'.readings[work'.at + 1] = ReadingOver(edge', count', names', work'.staged)
        /\ crashes' = 0 => DeltaOver(edge', count', work'.staged)
    BY SMTT(30), <1>3, <1>5, <1>7, <2>1, <2>2, Over
  <2>4. QED
    BY <2>3 DEF OverlayOK
<1>11. QED
  BY <1>6, <1>9, <1>10 DEF ListOK

-----------------------------------------------------------------------------
(* Validation *)

\* An overlay with exact deltas shows exact counts: the floor of childCount is never
\* reached.
LEMMA ShownExact ==
    ASSUME TrackOK, NEW s, IsView(s), DeltaExact(s)
    PROVE  ExactReading(StagedReading(s))
<1>1. \A o \in DOMAIN StagedEdges(s) :
         StagedCount(s, o) = Cardinality(Kids(StagedEdges(s), o))
  <2>1. TAKE o \in DOMAIN StagedEdges(s)
  <2>2. o \in DOMAIN edge /\ DOMAIN StagedEdges(s) \subseteq Objects
    BY DEF IsView, IsEdges
  <2>3. Cardinality(Kids(StagedEdges(s), o)) \in 0..CountModulus - 1
    BY SMTT(30), <2>2, KidsBounded
  <2>4. count[o] + s.delta[o] = Cardinality(Kids(StagedEdges(s), o))
    BY <2>2 DEF DeltaExact
  <2>5. QED
    BY <2>2, <2>3, <2>4 DEF StagedCount
<1>2. [o \in DOMAIN StagedEdges(s) |-> StagedCount(s, o)] = ChildCounts(StagedEdges(s))
  BY <1>1 DEF ChildCounts
<1>3. QED
  BY <1>2 DEF StagedReading, ExactReading

\* One more valid operation is one more reading.
LEMMA ValidateKeepsAll ==
    ASSUME HInv, ValidateOp
    PROVE  StateOK' /\ ListOK'
<1> DEFINE s == work.staged
           tx == work.tx
           op == CurrentOp
           z == StageOp(s, tx, op)
           R == work.readings
<1>1. /\ work # None /\ work.phase = "validate" /\ work.at < Len(tx.ops) /\ work.at \in Nat
      /\ ValidOp(s, tx, op)
      /\ UNCHANGED <<edge, count, body, names, index, epoch, done, crashes>>
  BY DEF ValidateOp, Busy, HInv, IInv, WorkOK
<1>2. /\ work'.tx = tx /\ work'.phase = "validate" /\ work'.at = work.at + 1
      /\ work'.staged = z /\ work'.readings = Append(R, StagedReading(z))
  <2>1. work = [k \in {"tx", "phase", "at", "staged", "readings"} |-> work[k]]
    BY <1>1 DEF HInv, IInv, WorkOK
  <2>2. work' = [work EXCEPT !.at = @ + 1, !.staged = z, !.readings = Append(@, StagedReading(z))]
    BY DEF ValidateOp
  <2> HIDE DEF z
  <2>3. QED
    BY <1>1, <2>1, <2>2
<1>3. TrackOK /\ IsOp(op) /\ IsTx(tx)
  BY SMTT(30), <1>1, Parts, CurrentOpTyped DEF HInv
<1>4. /\ IsView(s) /\ R[work.at + 1] = StagedReading(s)
      /\ crashes = 0 => DeltaExact(s)
      /\ ReadingsOK
  BY ZenonT(30), <1>1, Over DEF HInv, ListOK, Listing, Busy, OverlayOK
<1>5. IsView(z) /\ Follows(epoch, StagedReading(s), tx, op, StagedReading(z))
  BY SMTT(30), <1>1, <1>3, <1>4, StageFollows
<1>6. crashes = 0 => DeltaExact(z) /\ ExactReading(StagedReading(z))
  BY SMTT(30), <1>1, <1>3, <1>4, <1>5, StageExact, ShownExact
<1> DEFINE y == StagedReading(z)
<1> HIDE DEF z, s, y
<1>7. StateOK'
  <2>1. Made \subseteq Made'
    BY SMTT(30), <1>1, <1>2, MadeGrows
  <2>2. QED
    BY <1>1, <2>1, QuietKeeps DEF HInv
<1>8. Checked = work.at /\ Checked' = work.at + 1 /\ Here = 1 /\ Here' = 1
  BY SMTT(30), <1>1, <1>2 DEF Checked, Here
<1>9. /\ Len(R) = work.at + 1 /\ DOMAIN R = 1..work.at + 1
      /\ \A i \in 1..work.at : Follows(epoch, R[i], tx, tx.ops[i], R[i + 1])
      /\ edge = R[1].edge /\ names = R[1].names
      /\ crashes = 0 => \A i \in 1..work.at + 1 : ExactReading(R[i])
  BY SMTT(30), <1>4, <1>8 DEF ReadingsOK
<1>10. /\ Len(work'.readings) = work.at + 2 /\ DOMAIN work'.readings = 1..work.at + 2
       /\ \A i \in 1..work.at + 1 : work'.readings[i] = R[i]
       /\ work'.readings[work.at + 2] = y
  <2>1. work'.readings = Append(R, y)
    BY SMTT(30), <1>2 DEF y
  <2> HIDE DEF R
  <2>2. QED
    BY <1>1, <1>9, <2>1
<1>11. ReadingsOK'
  <2>1. work'.at <= Len(work'.tx.ops)
    BY SMTT(30), <1>1, <1>2, <1>3 DEF IsTx
  <2>2. \A i \in 1..work.at + 1 :
           Follows(epoch, work'.readings[i], tx, tx.ops[i], work'.readings[i + 1])
    <3>1. TAKE i \in 1..work.at + 1
    <3>2. CASE i = work.at + 1
      <4>1. work'.readings[i] = StagedReading(s) /\ work'.readings[i + 1] = y /\ op = tx.ops[i]
        BY SMTT(30), <1>1, <1>4, <1>10, <3>2 DEF CurrentOp
      <4>2. QED
        BY SMTT(30), <1>5, <4>1 DEF y
    <3>3. CASE i # work.at + 1
      <4>1. i \in 1..work.at /\ i + 1 \in 1..work.at + 1
        BY SMTT(30), <1>1, <3>3
      <4>2. QED
        BY SMTT(30), <1>9, <1>10, <4>1
    <3>4. QED
      BY SMTT(30), <3>2, <3>3
  <2>3. edge' = work'.readings[1].edge /\ names' = work'.readings[1].names
    BY SMTT(30), <1>1, <1>9, <1>10
  <2>4. crashes' = 0 => \A i \in 1..work.at + 2 : ExactReading(work'.readings[i])
    BY SMTT(60), <1>1, <1>6, <1>9, <1>10 DEF y
  <2>5. Len(work'.readings) = Checked' + 1 /\ DOMAIN work'.readings = 1..Checked' + 1
        /\ Checked' + 1 = work.at + 2
    BY <1>1, <1>8, <1>10
  <2>6. QED
    BY SMTT(30), <1>1, <1>2, <1>8, <2>1, <2>2, <2>3, <2>4, <2>5 DEF ReadingsOK
<1>12. OverlayOK'
  <2>1. /\ ViewOver(edge', work'.staged)
        /\ y = ReadingOver(edge', count', names', work'.staged)
        /\ crashes' = 0 => DeltaOver(edge', count', work'.staged)
    BY ZenonT(30), <1>1, <1>2, <1>5, <1>6, Over DEF y
  <2>2. work'.readings[work'.at + 1] = y
    BY SMTT(60), <1>1, <1>2, <1>10
  <2>3. QED
    BY SMTT(30), <2>1, <2>2 DEF OverlayOK
<1>13. QED
  BY <1>7, <1>11, <1>12 DEF ListOK

\* The apply phase starts from the first reading.
LEMMA StartKeepsAll ==
    ASSUME HInv, StartApply
    PROVE  StateOK' /\ ListOK'
<1>1. /\ work # None /\ work.phase = "validate" /\ work.at = Len(work.tx.ops) /\ work.at \in Nat
      /\ UNCHANGED <<edge, count, body, names, index, epoch, done, crashes>>
  BY DEF StartApply, Busy, HInv, IInv, WorkOK
<1>2. /\ work'.tx = work.tx /\ work'.phase = "apply" /\ work'.at = 0
      /\ work'.readings = work.readings
  <2>1. work = [k \in {"tx", "phase", "at", "staged", "readings"} |-> work[k]]
    BY <1>1 DEF HInv, IInv, WorkOK
  <2>2. work' = [work EXCEPT !.phase = "apply", !.at = 0]
    BY DEF StartApply
  <2>3. QED
    BY <2>1, <2>2
<1>3. StateOK'
  <2>1. Made \subseteq Made'
    BY <1>1, <1>2, MadeGrows
  <2>2. QED
    BY <1>1, <2>1, QuietKeeps DEF HInv
<1>4. Checked' = Checked /\ Here = 1 /\ Here' = 1
  BY <1>1, <1>2 DEF Checked, Here
<1>5. ReadingsOK
  BY SMTT(30), <1>1 DEF HInv, ListOK, Listing, Busy
<1>6. ReadingsOK'
  BY <1>1, <1>2, <1>4, <1>5 DEF ReadingsOK
<1>7. ~Busy("validate")'
  BY SMTT(30), <1>2 DEF Busy
<1>8. QED
  BY <1>3, <1>6, <1>7 DEF ListOK

-----------------------------------------------------------------------------
(* Application *)

\* What the apply phase finds is the reading the operation was validated against.
LEMMA ApplyReads ==
    ASSUME HInv, Busy("apply"), work.at < Len(work.tx.ops)
    PROVE  /\ IsOp(CurrentOp) /\ IsTx(work.tx)
           /\ work.at + 1 \in 1..Checked
           /\ work.readings[work.at + 1].edge = edge
           /\ work.readings[work.at + 1].names = names
           /\ Follows(epoch, work.readings[work.at + 1], work.tx, CurrentOp,
                      work.readings[work.at + 2])
           /\ crashes = 0 => work.readings[work.at + 1].count = count
<1>1. work # None /\ work.phase = "apply" /\ work.at \in Nat /\ TrackOK
  BY Parts DEF Busy, HInv, IInv, WorkOK
<1>2. IsOp(CurrentOp) /\ IsTx(work.tx)
  BY <1>1, CurrentOpTyped DEF HInv
<1>3. Checked = Len(work.tx.ops) /\ Here = work.at + 1 /\ work.at + 1 \in 1..Checked
  BY <1>1, <1>2 DEF Checked, Here, IsTx
<1>4. ReadingsOK
  BY DEF HInv, ListOK, Listing
<1>5. (work.at + 1) + 1 = work.at + 2
  BY SMTT(30), <1>1
<1>6. /\ work.readings[work.at + 1].edge = edge
      /\ work.readings[work.at + 1].names = names
      /\ Follows(epoch, work.readings[work.at + 1], work.tx, CurrentOp,
                 work.readings[work.at + 2])
  BY Zenon, <1>3, <1>4, <1>5 DEF ReadingsOK, CurrentOp
<1>7. crashes = 0 => work.readings[work.at + 1].count = count
  <2>1. SUFFICES ASSUME crashes = 0 PROVE work.readings[work.at + 1].count = count
    OBVIOUS
  <2>2. work.at + 1 \in 1..Checked + 1
    BY SMTT(30), <1>1, <1>2, <1>3 DEF IsTx
  <2>3. ExactReading(work.readings[work.at + 1])
    BY SMTT(30), <1>4, <2>1, <2>2 DEF ReadingsOK
  <2>4. work.readings[work.at + 1].count = ChildCounts(edge)
    BY SMTT(30), <1>6, <2>3 DEF ExactReading
  <2>5. QED
    BY <1>1, <2>1, <2>4, ExactCounts DEF HInv, StateOK
<1>8. QED
  BY SMTT(30), <1>2, <1>3, <1>6, <1>7

\* An apply does to the state and to the trees what staging did to the overlay: what
\* it checks again always holds.
LEMMA ApplyEffect ==
    ASSUME HInv, ApplyOp
    PROVE  /\ edge' = EdgesAfter(edge, CurrentOp)
           /\ names' = NamesAfter(epoch, names, work.tx, CurrentOp)
           /\ IndexOK'
<1> DEFINE op == CurrentOp
           tx == work.tx
           x == work.readings[work.at + 1]
<1>1. TrackOK /\ NamesOK /\ index = [edge |-> edge, names |-> names]
  BY Parts DEF HInv, StateOK, IndexOK
<1>2. Busy("apply") /\ work.at < Len(work.tx.ops)
  BY SMTT(30) DEF ApplyOp
<1>3. /\ IsOp(op) /\ x.edge = edge /\ x.names = names /\ Vetted(epoch, x, tx, op)
  BY SMTT(30), <1>2, ApplyReads DEF Follows
<1>4. op.kind \in Kinds /\ op.obj \in Objects /\ op.target \in Objects \cup Keys
  BY <1>3 DEF IsOp
<1>5. ApplyOp
  OBVIOUS
<1> HIDE DEF x, op, tx
<1>6. CASE op.kind = "reparent"
  <2>1. ApplyReparent(op)
    BY SMTT(30), <1>5, <1>6 DEF ApplyOp, op
  <2>2. edge' = Put(edge, op.obj, op.target) /\ names' = names
    BY SMTT(60), <1>1, <1>4, <2>1, AttachEdge DEF ApplyReparent, SetTracker, TrackOK, Tracker
  <2>3. index' = [edge |-> edge', names |-> names']
    BY <1>1, <2>1, <2>2 DEF ApplyReparent, FeedEdge
  <2>4. QED
    BY <1>6, <2>2, <2>3 DEF EdgesAfter, NamesAfter, IndexOK, op
<1>7. CASE op.kind = "delete"
  <2>1. ApplyDelete(op)
    BY <1>5, <1>7 DEF ApplyOp, op
  <2>2. edge' = Drop(edge, {op.obj}) /\ names' = names
    BY <1>1, <2>1, DetachEdge DEF ApplyDelete, SetTracker, TrackOK, Tracker
  <2>3. index' = [edge |-> edge', names |-> names']
    BY <1>1, <2>1, <2>2 DEF ApplyDelete, RemoveObject
  <2>4. QED
    BY <1>7, <2>2, <2>3 DEF EdgesAfter, NamesAfter, IndexOK, op
<1>8. CASE op.kind = "release"
  <2>1. ApplyRelease(op)
    BY <1>5, <1>8 DEF ApplyOp, op
  <2>2. edge' = edge /\ names' = Drop(names, {op.name})
    BY <2>1 DEF ApplyRelease
  <2>3. index' = [edge |-> edge', names |-> names']
    BY SMTT(30), <1>1, <2>1, <2>2 DEF ApplyRelease, RemoveDomains
  <2>4. QED
    BY <1>8, <2>2, <2>3 DEF EdgesAfter, NamesAfter, IndexOK, op
<1>9. CASE op.kind \in {"register", "renew", "update", "transfer"}
  <2> DEFINE leaf == LeafAt(epoch, names, tx, op)
  <2>1. ApplyLeaf(op)
    BY <1>5, <1>9 DEF ApplyOp, op
  <2>2. StillFits(op)
    <3>1. CASE op.kind = "register"
      BY <1>3, <3>1, AtEpoch DEF StillFits, Vetted
    <3>2. CASE op.kind = "renew"
      BY <1>3, <3>2, AtEpoch DEF StillFits, Vetted, Owns
    <3>3. CASE op.kind \in {"update", "transfer"}
      BY SMTT(30), <1>3, <3>3 DEF StillFits, Vetted, Owns
    <3>4. QED
      BY <1>9, <3>1, <3>2, <3>3
  <2>3. edge' = edge /\ names' = Put(names, op.name, leaf) /\ index' = FeedDomain(op.name, leaf)
    BY SMTT(30), <2>1, <2>2, AtEpoch DEF ApplyLeaf, tx
  <2> HIDE DEF leaf
  <2>4. index' = [edge |-> edge', names |-> names']
    BY <1>1, <2>3 DEF FeedDomain
  <2>5. EdgesAfter(edge, op) = edge /\ NamesAfter(epoch, names, tx, op) = Put(names, op.name, leaf)
    BY <1>9 DEF EdgesAfter, NamesAfter, leaf
  <2>6. QED
    BY <2>3, <2>4, <2>5 DEF IndexOK, op, tx
<1>10. QED
  BY SMTT(30), <1>4, <1>6, <1>7, <1>8, <1>9 DEF Kinds

\* The edges after a vetted operation close no loop.
LEMMA VettedLoopFree ==
    ASSUME TrackOK, NoLoop(edge), NEW x, x.edge = edge, NEW tx, NEW op, IsOp(op), NEW k,
           Vetted(k, x, tx, op)
    PROVE  NoLoop(EdgesAfter(edge, op))
<1>1. IsEdges(edge) /\ op.obj \in Objects /\ op.target \in Objects \cup Keys
  BY DEF TrackOK, Tracker, IsTracker, IsEdges, IsOp
<1>2. CASE op.kind = "reparent"
  BY <1>1, <1>2, MoveKeepsLoopFree DEF EdgesAfter, Vetted
<1>3. CASE op.kind = "delete"
  BY <1>3, DropKeepsLoopFree DEF EdgesAfter
<1>4. CASE op.kind \notin {"reparent", "delete"}
  BY SMTT(30), <1>4 DEF EdgesAfter
<1>5. QED
  BY SMTT(30), <1>2, <1>3, <1>4

\* A vetted operation names objects that exist, and no others.
LEMMA VettedIds ==
    ASSUME TrackOK, NamesOK, IdsOK, NEW x, x.edge = edge, x.names = names, NEW tx, NEW op,
           IsOp(op), NEW k, Vetted(k, x, tx, op),
           edge' = EdgesAfter(edge, op), names' = NamesAfter(k, names, tx, op),
           Made \subseteq Made'
    PROVE  IdsOK'
<1>1. op.kind \in {"reparent", "delete", "register", "update"} => op.obj \in DOMAIN edge
  BY ZenonT(30), ControlledTracked DEF Vetted
<1>2. op.kind = "reparent" /\ op.target \in Objects => op.target \in DOMAIN edge
  BY ZenonT(30), ControlledTracked DEF Vetted
<1>3. op.kind \in Kinds
  BY DEF IsOp
<1>4. DOMAIN edge' \subseteq Made' /\ \A o \in DOMAIN edge' : edge'[o] \in Objects => edge'[o] \in Made'
  BY ZenonT(30), <1>1, <1>2, Zenon DEF IdsOK, EdgesAfter, Put, Drop
<1>5. \A n \in DOMAIN names' : names'[n].object \in Made'
  <2>1. CASE op.kind \in {"reparent", "delete", "release"}
    BY SMTT(30), <2>1 DEF NamesAfter, Drop, IdsOK
  <2>2. CASE op.kind \in {"register", "renew", "update", "transfer"}
    <3> DEFINE leaf == LeafAt(k, names, tx, op)
    <3>1. names' = Put(names, op.name, leaf)
      BY <2>2 DEF NamesAfter
    <3>2. leaf.object \in Made
      <4>1. CASE op.kind = "register"
        BY <1>1, <4>1 DEF LeafAt, IdsOK
      <4>2. CASE op.kind = "renew"
        BY <4>2 DEF LeafAt, IdsOK, Vetted, Owns, NamesOK, Leaf
      <4>3. CASE op.kind = "update"
        BY <1>1, <4>3 DEF LeafAt, IdsOK, Vetted, Owns, NamesOK, Leaf
      <4>4. CASE op.kind = "transfer"
        BY <4>4 DEF LeafAt, IdsOK, Vetted, Owns, NamesOK, Leaf
      <4>5. QED
        BY SMTT(30), <2>2, <4>1, <4>2, <4>3, <4>4
    <3> HIDE DEF leaf
    <3>3. QED
      BY <3>1, <3>2 DEF Put, IdsOK
  <2>3. QED
    BY <1>3, <2>1, <2>2 DEF Kinds
<1>6. QED
  BY SMTT(30), <1>4, <1>5 DEF IdsOK

\* One more operation applied is one reading further.
LEMMA ApplyKeepsAll ==
    ASSUME HInv, ApplyOp
    PROVE  StateOK' /\ ListOK'
<1> DEFINE op == CurrentOp
           x == work.readings[work.at + 1]
<1>1. TrackOK /\ BodyOK /\ NamesOK /\ StateOK
  BY Parts DEF HInv
<1>2. /\ Busy("apply") /\ work.at < Len(work.tx.ops) /\ work.at \in Nat
      /\ UNCHANGED <<epoch, done, crashes>>
  BY DEF ApplyOp, HInv, IInv, WorkOK, Busy
<1>3. /\ work'.tx = work.tx /\ work'.phase = "apply" /\ work'.at = work.at + 1
      /\ work'.readings = work.readings
  <2>1. work = [k \in {"tx", "phase", "at", "staged", "readings"} |-> work[k]]
        /\ work.phase = "apply"
    BY <1>2 DEF HInv, IInv, WorkOK, Busy
  <2>2. work' = [work EXCEPT !.at = @ + 1]
    BY SMTT(30) DEF ApplyOp
  <2>3. QED
    BY SMTT(30), <2>1, <2>2
<1>4. /\ IsOp(op) /\ IsTx(work.tx)
      /\ x.edge = edge /\ x.names = names
      /\ Follows(epoch, x, work.tx, op, work.readings[work.at + 2])
      /\ Vetted(epoch, x, work.tx, op)
      /\ crashes = 0 => x.count = count
  BY ZenonT(30), <1>2, ApplyReads DEF Follows
<1>5. /\ edge' = EdgesAfter(edge, op)
      /\ names' = NamesAfter(epoch, names, work.tx, op)
      /\ IndexOK'
  BY ApplyEffect
<1>6. Made \subseteq Made'
  BY SMTT(30), <1>2, <1>3, MadeGrows DEF Busy
<1>7. op.kind \in Kinds /\ op.obj \in Objects /\ op.target \in Objects \cup Keys
  BY SMTT(30), <1>4 DEF IsOp
<1>8. ApplyOp
  OBVIOUS
<1> HIDE DEF op, x
<1>9. IdsOK'
  BY ZenonT(30), <1>1, <1>4, <1>5, <1>6, VettedIds DEF StateOK
<1>10. NoLoop(edge')
  BY SMTT(30), <1>1, <1>4, <1>5, VettedLoopFree DEF StateOK
<1>11. (crashes = 0 => Exact(Tracker))'
  <2>1. SUFFICES ASSUME crashes = 0 PROVE Exact(Tracker)'
    BY <1>2
  <2>2. Exact(Tracker) /\ IsTracker(Tracker) /\ Tracker.edge = edge
    BY SMTT(30), <1>1, <2>1 DEF StateOK, TrackOK, Tracker
  <2>3. CASE op.kind = "reparent"
    <3>1. SetTracker(Attach(Tracker, op.obj, op.target))
      BY SMTT(30), <1>8, <2>3 DEF ApplyOp, ApplyReparent, op
    <3>2. op.obj \in DOMAIN Tracker.edge
      BY ZenonT(30), <1>4, <2>2, <2>3, ControlledTracked DEF Vetted
    <3>3. Exact(Attach(Tracker, op.obj, op.target))
      BY SMTT(30), <1>7, <2>2, <3>2, AttachExact
    <3>4. QED
      BY <3>1, <3>3 DEF SetTracker, Exact, Tracker
  <2>4. CASE op.kind = "delete"
    <3>1. SetTracker(Detach(Tracker, op.obj))
      BY <1>8, <2>4 DEF ApplyOp, ApplyDelete, op
    <3>2. Exact(Detach(Tracker, op.obj))
      BY SMTT(30), <2>2, DetachExact
    <3>3. QED
      BY <3>1, <3>2 DEF SetTracker, Exact, Tracker
  <2>5. CASE op.kind \notin {"reparent", "delete"}
    <3>1. UNCHANGED <<edge, count>>
      BY <1>8, <2>5 DEF ApplyOp, ApplyRelease, ApplyLeaf, op
    <3>2. QED
      BY <2>2, <3>1 DEF Exact, Tracker
  <2>6. QED
    BY <2>3, <2>4, <2>5
<1>12. BodyMatches'
  <2>1. CASE op.kind = "reparent"
    <3>1. body' = IF op.obj \in DOMAIN body THEN [body EXCEPT ![op.obj] = op.target] ELSE body
      BY <1>8, <2>1 DEF ApplyOp, ApplyReparent, op
    <3>2. edge' = Put(edge, op.obj, op.target)
      BY SMTT(30), <1>5, <2>1 DEF EdgesAfter
    <3>3. QED
      BY <1>1, <1>2, <3>1, <3>2 DEF StateOK, BodyMatches, Put, BodyOK
  <2>2. CASE op.kind = "delete"
    <3>1. body' = Drop(body, {op.obj})
      BY <1>8, <2>2 DEF ApplyOp, ApplyDelete, op
    <3>2. edge' = Drop(edge, {op.obj})
      BY <1>5, <2>2 DEF EdgesAfter
    <3>3. QED
      BY <1>1, <1>2, <3>1, <3>2 DEF StateOK, BodyMatches, Drop
  <2>3. CASE op.kind \notin {"reparent", "delete"}
    <3>1. UNCHANGED <<edge, body>>
      BY <1>8, <2>3 DEF ApplyOp, ApplyRelease, ApplyLeaf, op
    <3>2. QED
      BY <1>1, <1>2, <3>1 DEF StateOK, BodyMatches
  <2>4. QED
    BY SMTT(30), <2>1, <2>2, <2>3
<1>13. StateOK'
  BY SMTT(30), <1>5, <1>9, <1>10, <1>11, <1>12 DEF StateOK
<1>14. ReadingsOK'
  <2>1. ReadingsOK
    BY SMTT(30), <1>2 DEF HInv, ListOK, Listing
  <2>2. Checked' = Checked /\ Checked = Len(work.tx.ops) /\ Here' = work.at + 2
    BY SMTT(30), <1>2, <1>3 DEF Checked, Here, Busy
  <2>3. work'.at <= Len(work'.tx.ops)
    BY SMTT(30), <1>2, <1>3, <1>4 DEF IsTx
  <2>4. edge' = work'.readings[Here'].edge /\ names' = work'.readings[Here'].names
    BY SMTT(30), <1>3, <1>4, <1>5, <2>2 DEF Follows
  <2>5. QED
    BY SMTT(30), <1>2, <1>3, <2>1, <2>2, <2>3, <2>4 DEF ReadingsOK
<1>15. ~Busy("validate")'
  BY <1>3 DEF Busy
<1>16. QED
  BY <1>13, <1>14, <1>15 DEF ListOK

-----------------------------------------------------------------------------
(* Pod calls, epochs and crashes *)

\* A declared deletion settles on the tracker and the trees; the body waits for the
\* pod, and names the same owner meanwhile because no edge is left to disagree with.
LEMMA SettleKeepsAll ==
    ASSUME RefsLive, HInv, NEW tx \in Txs, SettlePod(tx)
    PROVE  StateOK' /\ ListOK' /\ edge' = Drop(edge, {tx.deletes})
<1>1. TrackOK /\ BodyOK /\ NamesOK /\ StateOK /\ IsTx(tx)
  BY SMTT(30), Parts, OpsAssumption DEF HInv, OpsAssumption
<1>2. BumpVersions(tx.refs) = Tracker
  BY SMTT(30), <1>1, BumpNothing DEF SettlePod
<1>3. /\ UNCHANGED <<body, names, epoch, crashes>>
      /\ index' = RemoveObject(tx.deletes)
      /\ SetTracker(IF tx.deletes = None THEN Tracker ELSE Detach(Tracker, tx.deletes))
      /\ done' = done \cup {tx} /\ tx \notin done /\ work = None
      /\ work'.tx = tx /\ work'.phase = "execute"
  BY Zenon, <1>2 DEF SettlePod, Arrives, Mark
<1>4. edge' = Drop(edge, {tx.deletes})
  <2>1. CASE tx.deletes = None
    <3>1. tx.deletes \notin DOMAIN edge
      BY SMTT(30), <1>1, <2>1, OpsAssumption DEF TrackOK, Tracker, IsTracker, OpsAssumption
    <3>2. Drop(edge, {tx.deletes}) = edge
      BY SMTT(30), <1>1, <3>1 DEF Drop, TrackOK, Tracker, IsTracker
    <3>3. QED
      BY SMTT(30), <1>3, <2>1, <3>2 DEF SetTracker, Tracker
  <2>2. CASE tx.deletes # None
    BY SMTT(30), <1>1, <1>3, <2>2, DetachEdge DEF SetTracker, TrackOK, Tracker
  <2>3. QED
    BY SMTT(30), <2>1, <2>2
<1>5. Made \subseteq Made'
  BY SMTT(30), <1>3, MadeGrows
<1>6. IdsOK'
  BY ZenonT(30), <1>1, <1>3, <1>4, <1>5 DEF StateOK, IdsOK, Drop
<1>7. IndexOK'
  BY <1>1, <1>3, <1>4 DEF StateOK, IndexOK, RemoveObject
<1>8. NoLoop(edge')
  BY SMTT(30), <1>1, <1>4, DropKeepsLoopFree DEF StateOK
<1>9. (crashes = 0 => Exact(Tracker))'
  <2>1. SUFFICES ASSUME crashes = 0 PROVE Exact(Tracker)'
    BY <1>3
  <2>2. Exact(Tracker) /\ IsTracker(Tracker)
    BY <1>1, <2>1 DEF StateOK, TrackOK
  <2>3. Exact(IF tx.deletes = None THEN Tracker ELSE Detach(Tracker, tx.deletes))
    BY SMTT(30), <2>2, DetachExact
  <2>4. QED
    BY ZenonT(30), <1>3, <2>3 DEF SetTracker, Exact, Tracker
<1>10. BodyMatches'
  BY ZenonT(30), <1>1, <1>3, <1>4 DEF StateOK, BodyMatches, Drop
<1>11. ~Listing'
  BY <1>3 DEF Listing, Busy
<1>12. QED
  BY SMTT(30), <1>4, <1>6, <1>7, <1>8, <1>9, <1>10, <1>11, NoListKeeps DEF StateOK

\* The object a pod call creates is new: nothing is, and nothing hangs under it.
LEMMA CreatedIsNew ==
    ASSUME HInv, Busy("execute"), work.tx.creates # None
    PROVE  work.tx.creates \notin Made /\ work.tx.creates \notin DOMAIN edge
           /\ \A c \in DOMAIN edge : edge[c] # work.tx.creates
<1>1. work # None /\ work.tx \in Txs /\ done \subseteq Txs /\ IsTx(work.tx)
  BY OpsAssumption DEF HInv, IInv, TypeOK, WorkOK, Busy, OpsAssumption
<1>2. work.tx.creates \notin DOMAIN Rooted
  BY <1>1, IdsAssumption DEF IdsAssumption
<1>3. \A t \in done : t # work.tx => t.creates # work.tx.creates
  BY SMTT(30), <1>1, IdsAssumption DEF IdsAssumption
<1>4. work.tx.creates \notin Made /\ work.tx.creates \in Objects
  BY <1>1, <1>2, <1>3 DEF Made, IsTx
<1>5. QED
  BY SMTT(30), <1>4 DEF HInv, StateOK, IdsOK

\* processOutput: a creation keeps everything, and so does the end of a pod call
\* that creates nothing.
LEMMA ExecuteKeepsAll ==
    ASSUME HInv, ExecuteSucceeds
    PROVE  StateOK' /\ ListOK'
<1> DEFINE tx == work.tx
           o == tx.creates
<1>1. /\ TrackOK /\ BodyOK /\ NamesOK /\ StateOK
      /\ Busy("execute") /\ work # None /\ tx \in done /\ IsTx(tx)
  BY SMTT(30), Parts, OpsAssumption DEF HInv, IInv, TypeOK, WorkOK, ExecuteSucceeds, Busy, OpsAssumption
<1>2. work' = None /\ UNCHANGED <<names, epoch, done, crashes>>
  BY DEF ExecuteSucceeds
<1>3. Made \subseteq Made' /\ o \in Made'
  <2>1. Made \subseteq Made'
    BY <1>2, MadeGrows
  <2>2. o \in Made'
    BY <1>1, <1>2 DEF Made
  <2>3. QED
    BY <2>1, <2>2
<1>4. ~Listing'
  BY <1>2 DEF Listing, Busy
<1>5. CASE o = None
  <2>1. UNCHANGED <<edge, count, index>> /\ body' = Drop(body, {tx.deletes})
    BY SMTT(30), <1>5 DEF ExecuteSucceeds
  <2>2. BodyMatches'
    BY SMTT(30), <1>1, <1>2, <2>1 DEF StateOK, BodyMatches, Drop
  <2>3. IdsOK'
    BY SMTT(30), <1>1, <1>2, <1>3, <2>1 DEF StateOK, IdsOK
  <2>4. IndexOK' /\ NoLoop(edge)' /\ (crashes = 0 => Exact(Tracker))'
    BY <1>1, <1>2, <2>1 DEF StateOK, IndexOK, Tracker
  <2>5. QED
    BY SMTT(30), <1>4, <2>2, <2>3, <2>4, NoListKeeps DEF StateOK
<1>6. CASE o # None
  <2>1. /\ ParentAllowed(tx, Tracker)
        /\ SetTracker(Attach(Tracker, o, tx.under))
        /\ index' = FeedEdge(o, tx.under)
        /\ body' = Put(Drop(body, {tx.deletes}), o, tx.under)
    BY <1>6 DEF ExecuteSucceeds
  <2>2. o \in Objects /\ tx.under \in Objects \cup Keys
    BY <1>1, <1>6 DEF IsTx
  <2>3. o \notin Made /\ o \notin DOMAIN edge /\ \A c \in DOMAIN edge : edge[c] # o
    BY SMTT(30), <1>1, <1>6, CreatedIsNew
  <2>4. edge' = Put(edge, o, tx.under)
    BY SMTT(60), <1>1, <2>1, <2>2, AttachEdge DEF SetTracker, TrackOK, Tracker
  <2>5. tx.under \in Objects => tx.under \in Made
    <3>1. SUFFICES ASSUME tx.under \in Objects PROVE tx.under \in Made
      OBVIOUS
    <3>2. CASE tx.under \in SharedParents(tx)
      BY <1>1, <3>2 DEF SharedParents, StateOK, IdsOK
    <3>3. CASE Controls(Tracker.edge, tx.sender, tx.under)
      BY SMTT(30), <1>1, <3>3, ControlledTracked DEF Tracker, StateOK, IdsOK
    <3>4. QED
      BY <2>1, <3>1, <3>2, <3>3, OpsAssumption DEF ParentAllowed, OpsAssumption
  <2>6. tx.under # o
    BY SMTT(30), <2>2, <2>3, <2>5
  <2>7. IdsOK'
    BY SMTT(30), <1>1, <1>2, <1>3, <2>4, <2>5 DEF StateOK, IdsOK, Put
  <2>8. IndexOK'
    BY SMTT(30), <1>1, <1>2, <2>1, <2>4 DEF StateOK, IndexOK, FeedEdge
  <2>9. NoLoop(edge')
    BY ZenonT(30), <1>1, <2>3, <2>4, <2>6, NewKeepsLoopFree DEF StateOK
  <2>10. (crashes = 0 => Exact(Tracker))'
    <3>1. SUFFICES ASSUME crashes = 0 PROVE Exact(Tracker)'
      BY SMTT(30), <1>2
    <3>2. Exact(Tracker) /\ IsTracker(Tracker) /\ Kids(Tracker.edge, o) = {}
      BY ZenonT(30), <1>1, <2>3, <3>1 DEF StateOK, TrackOK, Tracker, Kids
    <3>3. Exact(Attach(Tracker, o, tx.under))
      BY ZenonT(30), <2>2, <3>2, AttachExact
    <3>4. QED
      BY ZenonT(30), <2>1, <3>3 DEF SetTracker, Exact, Tracker
  <2>11. BodyMatches'
    BY ZenonT(30), <1>1, <1>2, <2>1, <2>4 DEF StateOK, BodyMatches, Put, Drop
  <2>12. QED
    BY SMTT(30), <1>4, <2>7, <2>8, <2>9, <2>10, <2>11, NoListKeeps DEF StateOK
<1>7. QED
  BY SMTT(30), <1>5, <1>6

\* The epoch transition touches names and their trees only.
LEMMA TransitionKeepsAll ==
    ASSUME HInv, TransitionEpoch
    PROVE  StateOK' /\ ListOK'
<1>1. /\ UNCHANGED <<edge, count, body, done, work, crashes>>
      /\ names' = Drop(names, Swept(epoch + 1)) /\ index' = RemoveDomains(Swept(epoch + 1))
      /\ work = None
  BY DEF TransitionEpoch
<1>2. Made \subseteq Made'
  BY SMTT(30), <1>1, MadeGrows
<1>3. IdsOK'
  BY <1>1, <1>2 DEF HInv, StateOK, IdsOK, Drop
<1>4. IndexOK'
  <2> DEFINE S == Swept(epoch + 1)
  <2>1. index = [edge |-> edge, names |-> names] /\ names' = Drop(names, S)
        /\ index' = [index EXCEPT !.names = Drop(@, S)] /\ edge' = edge
    BY SMTT(30), <1>1 DEF HInv, StateOK, IndexOK, RemoveDomains
  <2> HIDE DEF S
  <2>2. QED
    BY <2>1 DEF IndexOK
<1>5. NoLoop(edge)' /\ (crashes = 0 => Exact(Tracker))' /\ BodyMatches'
  BY <1>1 DEF HInv, StateOK, Tracker, BodyMatches
<1>6. ~Listing'
  BY <1>1 DEF Listing, Busy
<1>7. QED
  BY SMTT(30), <1>3, <1>4, <1>5, <1>6, NoListKeeps DEF StateOK

\* A crash between two writes of an operation leaves its edge already written: only
\* the counts and the bodies can be behind.
LEMMA CrashKeepsAll ==
    ASSUME HInv, Crash
    PROVE  StateOK' /\ ListOK'
<1>1. TrackOK /\ NamesOK /\ StateOK
  BY SMTT(30), Parts DEF HInv
<1>2. /\ crashes' = crashes + 1 /\ crashes \in Nat
      /\ index' = [edge |-> edge', names |-> names] /\ work' = None
      /\ UNCHANGED <<body, names, epoch, done>>
  BY OpsAssumption DEF Crash, Rebuilt, HInv, IInv, TypeOK, OpsAssumption
<1>3. crashes' # 0
  BY <1>2
<1>4. Made \subseteq Made'
  BY SMTT(30), <1>2, MadeGrows
<1>5. IdsOK' /\ NoLoop(edge')
  <2>1. CASE UNCHANGED tracker
    BY SMTT(30), <1>1, <1>2, <1>4, <2>1 DEF tracker, StateOK, IdsOK
  <2>2. CASE /\ Busy("apply")
             /\ work.at < Len(work.tx.ops)
             /\ \E t \in Partials(CurrentOp) : SetTracker(t)
    <3> DEFINE op == CurrentOp
               x == work.readings[work.at + 1]
    <3>1. /\ IsOp(op) /\ x.edge = edge /\ x.names = names
          /\ Vetted(epoch, x, work.tx, op)
      BY ZenonT(30), <2>2, ApplyReads DEF Follows
    <3>2. op.kind \in Kinds /\ op.obj \in Objects /\ op.target \in Objects \cup Keys
      BY <3>1 DEF IsOp
    <3>3. PICK t \in Partials(op) : SetTracker(t)
      BY <2>2
    <3> HIDE DEF op, x
    <3>4. edge' = EdgesAfter(edge, op)
      <4>1. CASE op.kind = "reparent"
        BY SMTT(30), <1>1, <3>2, <3>3, <4>1, AttachEdge
           DEF Partials, SetTracker, EdgesAfter, TrackOK, Tracker
      <4>2. CASE op.kind = "delete"
        BY <1>1, <3>3, <4>2, DetachEdge DEF Partials, SetTracker, EdgesAfter, TrackOK, Tracker
      <4>3. CASE op.kind \notin {"reparent", "delete"}
        BY <3>3, <4>3 DEF Partials, SetTracker, EdgesAfter, Tracker
      <4>4. QED
        BY <4>1, <4>2, <4>3
    <3>5. NoLoop(edge')
      BY SMTT(30), <1>1, <3>1, <3>4, VettedLoopFree DEF StateOK
    <3>6. /\ op.kind \in {"reparent", "delete"} => op.obj \in DOMAIN edge
          /\ op.kind = "reparent" /\ op.target \in Objects => op.target \in DOMAIN edge
      BY Zenon, <3>1, ControlledTracked DEF Vetted
    <3>7. /\ DOMAIN edge' \subseteq Made'
          /\ \A o \in DOMAIN edge' : edge'[o] \in Objects => edge'[o] \in Made'
      BY ZenonT(30), <1>1, <1>4, <3>4, <3>6, Zenon DEF StateOK, IdsOK, EdgesAfter, Put, Drop
    <3>8. \A n \in DOMAIN names' : names'[n].object \in Made'
      BY ZenonT(30), <1>1, <1>2, <1>4 DEF StateOK, IdsOK
    <3>9. QED
      BY SMTT(30), <3>5, <3>7, <3>8 DEF IdsOK
  <2>3. QED
    BY SMTT(30), <2>1, <2>2 DEF Crash
<1>6. IndexOK' /\ (crashes = 0 => Exact(Tracker))' /\ BodyMatches'
  BY SMTT(30), <1>2, <1>3 DEF IndexOK, BodyMatches
<1>7. ~Listing'
  BY <1>2 DEF Listing, Busy
<1>8. QED
  BY <1>5, <1>6, <1>7, NoListKeeps DEF StateOK

\* The initial state satisfies the invariant.
LEMMA InitAll == Init => HInv
<1> SUFFICES ASSUME Init PROVE HInv
  OBVIOUS
<1>1. IInv
  BY SMTT(30), InitKeeps
<1>2. /\ edge = Rooted /\ count = [o \in DOMAIN Rooted |-> 0] /\ body = Rooted
      /\ names = NoLeaf /\ index = [edge |-> Rooted, names |-> NoLeaf] /\ work = None
  BY DEF Init
<1>3. \A o \in DOMAIN Rooted : Rooted[o] \in Keys /\ Rooted[o] \notin Objects
  BY SMTT(30), OpsAssumption DEF OpsAssumption
<1>4. IdsOK
  BY <1>2, <1>3 DEF IdsOK, Made, NoLeaf
<1>5. IndexOK
  BY SMTT(30), <1>2 DEF IndexOK
<1>6. NoLoop(edge)
  BY SMTT(30), <1>2, <1>3, OpsAssumption DEF NoLoop, OpsAssumption
<1>7. Exact(Tracker)
  <2>1. \A o \in DOMAIN Rooted : Kids(Rooted, o) = {}
    BY <1>3, OpsAssumption DEF Kids, OpsAssumption
  <2>2. QED
    BY SMTT(30), <1>2, <2>1, FS_EmptySet DEF Exact, Tracker
<1>8. BodyMatches
  BY <1>2 DEF BodyMatches
<1>9. ListOK
  BY SMTT(30), <1>2 DEF ListOK, Listing, Busy
<1>10. QED
  BY SMTT(30), <1>1, <1>4, <1>5, <1>6, <1>7, <1>8, <1>9 DEF HInv, StateOK

\* Every step keeps the invariant.
LEMMA NextAll ==
    ASSUME RefsLive, HInv, [Next]_vars
    PROVE  HInv'
<1>1. SUFFICES StateOK' /\ ListOK'
  BY NextKeeps DEF HInv
<1>2. ASSUME NEW tx \in Txs, RefuseVersion(tx) \/ RefuseFee(tx) \/ RefusePod(tx)
      PROVE  StateOK' /\ ListOK'
  BY <1>2, RefuseKeepsAll
<1>3. ASSUME NEW tx \in Txs, BeginOps(tx) PROVE StateOK' /\ ListOK'
  BY <1>3, BeginKeepsAll
<1>4. ASSUME NEW tx \in Txs, SettlePod(tx) PROVE StateOK' /\ ListOK'
  BY ZenonT(30), <1>4, SettleKeepsAll
<1>5. CASE RejectOps \/ EndOps \/ ExecuteFails
  BY <1>5, EndKeepsAll
<1>6. CASE ValidateOp
  BY <1>6, ValidateKeepsAll
<1>7. CASE StartApply
  BY <1>7, StartKeepsAll
<1>8. CASE ApplyOp
  BY <1>8, ApplyKeepsAll
<1>9. CASE ExecuteSucceeds
  BY <1>9, ExecuteKeepsAll
<1>10. CASE TransitionEpoch
  BY <1>10, TransitionKeepsAll
<1>11. CASE Crash
  BY <1>11, CrashKeepsAll
<1>12. CASE UNCHANGED vars
  <2>1. UNCHANGED <<edge, count, body, names, index, epoch, done, work, crashes>>
    BY SMTT(30), <1>12 DEF vars
  <2>2. Made \subseteq Made'
    BY <2>1 DEF Made
  <2>3. StateOK'
    BY SMTT(30), <2>1, <2>2, QuietKeeps DEF HInv
  <2>4. ListOK'
    <3>1. Checked' = Checked /\ Here' = Here
      BY SMTT(30), <2>1 DEF Checked, Here
    <3>2. ReadingsOK => ReadingsOK'
      BY ZenonT(30), <2>1, <3>1 DEF ReadingsOK
    <3>3. OverlayOK => OverlayOK'
      BY <2>1 DEF OverlayOK
    <3>4. QED
      BY SMTT(30), <2>1, <3>2, <3>3 DEF HInv, ListOK, Listing, Busy
  <2>5. QED
    BY SMTT(30), <2>3, <2>4
<1>13. QED
  BY SMTT(30), <1>2, <1>3, <1>4, <1>5, <1>6, <1>7, <1>8, <1>9, <1>10, <1>11, <1>12 DEF Next

\* Where every mutable ref is tracked, the strengthened invariant holds of every
\* behaviour.
THEOREM StrongInvariantHolds == ASSUME RefsLive PROVE Spec => []HInv
<1>1. HInv /\ [Next]_vars => HInv'
  BY NextAll
<1>2. QED
  BY <1>1, InitAll, PTL DEF Spec

\* Where every mutable ref is tracked, applying a validated list goes, until a crash,
\* through the very states its operations were validated against: the overlay of
\* stagedView and the tracker's own counters agree at every operation of every list,
\* whatever the hierarchy.
THEOREM StagedIsAppliedHolds == ASSUME RefsLive PROVE Spec => []StagedIsApplied
<1>1. ASSUME HInv, crashes = 0, Busy("apply") PROVE Reading = work.readings[work.at + 1]
  <2>1. ReadingsOK /\ TrackOK /\ Exact(Tracker)
    BY SMTT(30), <1>1, Parts DEF HInv, ListOK, Listing, StateOK
  <2>2. work.phase = "apply" /\ work.at \in Nat /\ work # None /\ Len(work.tx.ops) \in Nat
    BY SMTT(30), <1>1, OpsAssumption DEF Busy, HInv, IInv, TypeOK, WorkOK, OpsAssumption, IsTx
  <2>3. Here = work.at + 1 /\ work.at + 1 \in 1..Checked + 1
    BY SMTT(30), <2>1, <2>2 DEF Here, Checked, ReadingsOK
  <2>4. ExactReading(work.readings[work.at + 1])
    BY SMTT(30), <1>1, <2>1, <2>3 DEF ReadingsOK
  <2>5. edge = work.readings[work.at + 1].edge /\ names = work.readings[work.at + 1].names
    BY <2>1, <2>3 DEF ReadingsOK
  <2>6. count = ChildCounts(edge)
    BY SMTT(30), <2>1, ExactCounts
  <2>7. QED
    BY <2>4, <2>5, <2>6 DEF ExactReading, Reading
<1>2. HInv => StagedIsApplied
  BY SMTT(30), <1>1 DEF StagedIsApplied
<1>3. QED
  BY <1>2, StrongInvariantHolds, PTL

\* Where every mutable ref is tracked, no parent edge ever closes a loop, whatever
\* lists, creations, deletions and crashes between two tracker writes did
\* (wouldCycle over the staged view is enough).
THEOREM AcyclicHolds == ASSUME RefsLive PROVE Spec => []Acyclic
<1>1. HInv => Acyclic
  BY DEF HInv, StateOK, NoLoop, Acyclic
<1>2. QED
  BY <1>1, StrongInvariantHolds, PTL

\* Until a crash, a tracked object's stored body never names another owner than its
\* parent edge (applyReparent, TrackObject, settleDeletion).
THEOREM BodyMatchesHolds == ASSUME RefsLive PROVE Spec => []BodyMatches
<1>1. HInv => BodyMatches
  BY SMTT(30) DEF HInv, StateOK
<1>2. QED
  BY <1>1, StrongInvariantHolds, PTL

\* The incrementally fed trees hold what a rebuild would, at every step, so a
\* restarted node anchors the same root as one that never stopped.
THEOREM IndexMatchesHolds == ASSUME RefsLive PROVE Spec => []IndexMatches
<1>1. HInv => IndexMatches
  BY DEF HInv, StateOK, IndexOK, IndexMatches
<1>2. QED
  BY <1>1, StrongInvariantHolds, PTL

-----------------------------------------------------------------------------
(* No deletion orphans a child *)

\* No committed transaction reached the parent of what it created by a name.
NoNamedParent == \A tx \in done : tx.via = {}

\* Until a crash, every parent object is tracked.
Parented ==
    crashes = 0 /\ NoNamedParent =>
        \A o \in DOMAIN edge : edge[o] \in Objects => edge[o] \in DOMAIN edge

\* A committed transaction stays committed.
LEMMA DoneGrows == ASSUME [Next]_vars PROVE done \subseteq done'
<1>1. ASSUME NEW tx \in Txs, RefuseVersion(tx) \/ RefuseFee(tx) \/ BeginOps(tx)
                              \/ RefusePod(tx) \/ SettlePod(tx)
      PROVE  done \subseteq done'
  <2>1. Mark(tx)
    BY ZenonT(30), <1>1 DEF RefuseVersion, RefuseFee, BeginOps, RefusePod, SettlePod, Arrives
  <2>2. QED
    BY <2>1 DEF Mark
<1>2. CASE RejectOps \/ ValidateOp \/ StartApply \/ EndOps \/ ExecuteFails
  BY <1>2 DEF RejectOps, ValidateOp, StartApply, EndOps, ExecuteFails
<1>3. CASE ApplyOp
  BY <1>3 DEF ApplyOp
<1>4. CASE ExecuteSucceeds \/ TransitionEpoch \/ Crash
  BY <1>4 DEF ExecuteSucceeds, TransitionEpoch, Crash
<1>5. CASE UNCHANGED vars
  BY <1>5 DEF vars
<1>6. QED
  BY ZenonT(30), <1>1, <1>2, <1>3, <1>4, <1>5 DEF Next

\* An object whose exact count is zero can go: nothing hangs under it.
LEMMA ChildlessDropped ==
    ASSUME TrackOK, Exact(Tracker), NEW o \in DOMAIN edge, count[o] = 0,
           \A c \in DOMAIN edge : edge[c] \in Objects => edge[c] \in DOMAIN edge,
           NEW f, f = Drop(edge, {o})
    PROVE  \A c \in DOMAIN f : f[c] \in Objects => f[c] \in DOMAIN f
<1>1. DOMAIN edge \subseteq Objects
  BY SMTT(30) DEF TrackOK, Tracker, IsTracker
<1>2. Cardinality(Kids(edge, o)) = 0
  BY SMTT(30) DEF Exact, Tracker
<1>3. Kids(edge, o) = {}
  BY SMTT(30), <1>1, <1>2, KidsNone
<1>4. QED
  BY SMTT(30), <1>3 DEF Kids, Drop

\* Every step that reaches no parent by a name keeps parents tracked.
LEMMA ParentedKept ==
    ASSUME RefsLive, HInv, HInv', Parented, [Next]_vars
    PROVE  Parented'
<1>1. SUFFICES ASSUME crashes' = 0, NoNamedParent'
               PROVE  \A o \in DOMAIN edge' : edge'[o] \in Objects => edge'[o] \in DOMAIN edge'
  BY ZenonT(30) DEF Parented
<1>0. NoNamedParent
  BY <1>1, DoneGrows DEF NoNamedParent
<1>2. TrackOK /\ StateOK
  BY ZenonT(30), Parts DEF HInv
<1>3. CASE UNCHANGED <<edge, crashes>>
  BY SMTT(30), <1>0, <1>1, <1>3 DEF Parented
<1>4. ASSUME NEW tx \in Txs, RefuseVersion(tx) \/ RefuseFee(tx) \/ RefusePod(tx) \/ BeginOps(tx)
      PROVE  UNCHANGED <<edge, crashes>>
  <2>1. CASE RefuseVersion(tx)
    BY <2>1 DEF RefuseVersion
  <2>2. CASE ~RefuseVersion(tx)
    <3>1. Arrives(tx) /\ SetTracker(BumpVersions(tx.refs)) /\ UNCHANGED crashes
      BY ZenonT(30), <1>4, <2>2 DEF RefuseFee, RefusePod, BeginOps
    <3>2. QED
      BY SMTT(30), <1>2, <3>1, BumpNothing DEF SetTracker, Tracker
  <2>3. QED
    BY SMTT(30), <2>1, <2>2
<1>5. CASE RejectOps \/ EndOps \/ ExecuteFails \/ ValidateOp \/ StartApply \/ TransitionEpoch
  BY SMTT(30), <1>3, <1>5 DEF RejectOps, EndOps, ExecuteFails, ValidateOp, StartApply, TransitionEpoch
<1>6. CASE ApplyOp
  <2> DEFINE op == CurrentOp
             x == work.readings[work.at + 1]
  <2>1. UNCHANGED crashes /\ Busy("apply") /\ work.at < Len(work.tx.ops)
    BY SMTT(30), <1>6 DEF ApplyOp
  <2>2. /\ IsOp(op) /\ x.edge = edge /\ x.count = count
        /\ Vetted(epoch, x, work.tx, op) /\ edge' = EdgesAfter(edge, op)
    BY ZenonT(30), <1>1, <1>6, <2>1, ApplyReads, ApplyEffect DEF Follows
  <2>3. Exact(Tracker) /\ \A c \in DOMAIN edge : edge[c] \in Objects => edge[c] \in DOMAIN edge
    BY SMTT(30), <1>0, <1>1, <1>2, <2>1 DEF StateOK, Parented
  <2> HIDE DEF op, x
  <2>4. CASE op.kind = "reparent"
    <3>1. op.target \in Objects => op.target \in DOMAIN edge
      BY ZenonT(30), <2>2, <2>4, ControlledTracked DEF Vetted
    <3>2. edge' = Put(edge, op.obj, op.target)
      BY SMTT(30), <2>2, <2>4 DEF EdgesAfter
    <3>3. QED
      BY SMTT(30), <2>3, <3>1, <3>2 DEF Put
  <2>5. CASE op.kind = "delete"
    <3>1. op.obj \in DOMAIN edge /\ count[op.obj] = 0
      BY ZenonT(30), <2>2, <2>5, ControlledTracked DEF Vetted
    <3>2. edge' = Drop(edge, {op.obj})
      BY <2>2, <2>5 DEF EdgesAfter
    <3>3. QED
      BY ZenonT(30), <1>2, <2>3, <3>1, <3>2, ChildlessDropped
  <2>6. CASE op.kind \notin {"reparent", "delete"}
    BY SMTT(30), <2>2, <2>3, <2>6 DEF EdgesAfter
  <2>7. QED
    BY <2>4, <2>5, <2>6
<1>7. ASSUME NEW tx \in Txs, SettlePod(tx)
      PROVE  \A o \in DOMAIN edge' : edge'[o] \in Objects => edge'[o] \in DOMAIN edge'
  <2>1. UNCHANGED crashes /\ Arrives(tx) /\ Deletable(tx, BumpVersions(tx.refs))
    BY ZenonT(30), <1>7 DEF SettlePod
  <2>2. edge' = Drop(edge, {tx.deletes}) /\ BumpVersions(tx.refs) = Tracker
    BY SMTT(30), <1>2, <1>7, <2>1, SettleKeepsAll, BumpNothing
  <2>3. Exact(Tracker) /\ \A c \in DOMAIN edge : edge[c] \in Objects => edge[c] \in DOMAIN edge
    BY SMTT(30), <1>0, <1>1, <1>2, <2>1 DEF StateOK, Parented
  <2>4. CASE tx.deletes = None
    <3>1. None \notin Objects /\ DOMAIN edge \subseteq Objects
      BY SMTT(30), <1>2, OpsAssumption DEF OpsAssumption, TrackOK, Tracker, IsTracker
    <3>2. QED
      BY SMTT(30), <2>2, <2>3, <2>4, <3>1 DEF Drop
  <2>5. CASE tx.deletes # None
    <3>1. tx.deletes \in DOMAIN edge
      BY SMTT(30), <2>1, <2>5, OpsAssumption DEF OpsAssumption, IsTx, Arrives
    <3>2. count[tx.deletes] = 0
      BY SMTT(30), <2>1, <2>2, <2>5 DEF Deletable, Tracker
    <3>3. QED
      BY SMTT(30), <1>2, <2>2, <2>3, <3>1, <3>2, ChildlessDropped
  <2>6. QED
    BY SMTT(30), <2>4, <2>5
<1>8. CASE ExecuteSucceeds
  <2> DEFINE tx == work.tx
  <2>1. UNCHANGED crashes /\ Busy("execute") /\ tx \in Txs /\ IsTx(tx) /\ tx.via = {}
    BY ZenonT(30), <1>0, <1>8, OpsAssumption
       DEF ExecuteSucceeds, HInv, IInv, TypeOK, WorkOK, Busy, OpsAssumption, NoNamedParent
  <2>2. CASE tx.creates = None
    BY ZenonT(30), <1>3, <1>8, <2>1, <2>2 DEF ExecuteSucceeds
  <2>3. CASE tx.creates # None
    <3>1. ParentAllowed(tx, Tracker) /\ SetTracker(Attach(Tracker, tx.creates, tx.under))
      BY ZenonT(30), <1>8, <2>3 DEF ExecuteSucceeds
    <3>2. edge' = Put(edge, tx.creates, tx.under)
      <4>1. PICK t, o, p : t = Tracker /\ o = tx.creates /\ p = tx.under
        OBVIOUS
      <4>2. IsTracker(t) /\ o \in Objects /\ p \in Objects \cup Keys
        BY <1>2, <2>1, <2>3, <4>1 DEF TrackOK, IsTx
      <4>3. Attach(t, o, p).edge = Put(t.edge, o, p)
        BY Zenon, <4>2, AttachEdge
      <4>4. QED
        BY <3>1, <4>1, <4>3 DEF SetTracker, Tracker
    <3>3. tx.under \in Keys \/ tx.under \in DOMAIN edge
      BY <2>1, <3>1, ControlledTracked DEF ParentAllowed, SharedParents, Tracker
    <3>4. QED
      BY SMTT(30), <1>0, <1>1, <2>1, <3>2, <3>3, OpsAssumption DEF Parented, Put, OpsAssumption
  <2>4. QED
    BY SMTT(30), <2>2, <2>3
<1>9. CASE Crash
  BY SMTT(30), <1>1, <1>9, OpsAssumption DEF Crash, HInv, IInv, TypeOK, OpsAssumption
<1>10. CASE UNCHANGED vars
  BY <1>3, <1>10 DEF vars
<1>11. QED
  BY ZenonT(30), <1>3, <1>4, <1>5, <1>6, <1>7, <1>8, <1>9, <1>10 DEF Next

\* Where every mutable ref is tracked, no object hangs, until a crash or a parent that
\* is reached by a name, under an object the tracker no longer knows, and every child
\* count is the number of objects that hang there: neither deletion channel orphans a
\* child (validateDelete, settleDeclaredDeletions, rebindChildCount, adjustChildCount).
THEOREM ParentsTrackedHolds == ASSUME RefsLive PROVE Spec => []ParentsTracked
<1>1. Init => Parented
  BY SMTT(30), OpsAssumption DEF Init, Parented, OpsAssumption
<1>2. HInv /\ HInv' /\ Parented /\ [Next]_vars => Parented'
  BY SMTT(30), ParentedKept
<1>3. HInv /\ Parented => ParentsTracked
  BY ZenonT(30) DEF HInv, StateOK, Parented, NoNamedParent, Exact, Tracker, Kids, ParentsTracked
<1>4. QED
  BY <1>1, <1>2, <1>3, StrongInvariantHolds, PTL DEF Spec

-----------------------------------------------------------------------------
(* Who loses what *)

\* A walk is followed by any edges that agree with it.
LEMMA WalkKept ==
    ASSUME NEW e, NEW f, NEW o, NEW n \in Nat, NEW w \in Walks(e, o, n),
           \A i \in 0..n : w[i] \in DOMAIN f /\ f[w[i]] = e[w[i]]
    PROVE  w \in Walks(f, o, n)
<1>1. w \in [0..n -> DOMAIN e] /\ w[0] = o /\ \A i \in 1..n : w[i] = e[w[i - 1]]
  BY DEF Walks
<1>2. w \in [0..n -> DOMAIN f]
  BY SMTT(30), <1>1
<1>3. \A i \in 1..n : i - 1 \in 0..n
  OBVIOUS
<1>4. \A i \in 1..n : w[i] = f[w[i - 1]]
  BY SMTT(30), <1>1, <1>3
<1>5. QED
  BY SMTT(30), <1>1, <1>2, <1>4 DEF Walks

\* The walks through an object end at one key: who controls an object controls what
\* hangs under it, and nobody else does.
LEMMA OneController ==
    ASSUME NEW e, IsEdges(e), NEW k \in Keys, NEW s \in Keys,
           NEW o, NEW n \in Nat, NEW w \in Walks(e, o, n), e[w[n]] = k,
           NEW j \in 0..n, Controls(e, s, w[j])
    PROVE  s = k
<1>1. PICK m \in 0..WalkDepthLimit - 1 : \E v \in Walks(e, w[j], m) : e[v[m]] = s
  BY SMTT(30) DEF Controls
<1>2. PICK v \in Walks(e, w[j], m) : e[v[m]] = s
  BY SMTT(30), <1>1
<1>3. m \in Nat /\ m \in 0..m /\ n \in 0..n
  BY SMTT(30), <1>1, OpsAssumption DEF OpsAssumption
<1>4. /\ v \in [0..m -> DOMAIN e] /\ v[0] = w[j] /\ \A i \in 1..m : v[i] = e[v[i - 1]]
      /\ w \in [0..n -> DOMAIN e] /\ \A i \in 1..n : w[i] = e[w[i - 1]]
  BY Zenon, <1>2 DEF Walks
<1>5. \A x \in DOMAIN e : x \notin Keys
  BY SMTT(30), OpsAssumption DEF IsEdges, OpsAssumption
<1> DEFINE Off == {i \in 0..m : ~(j + i <= n /\ w[j + i] = v[i])}
<1>6. Off = {}
  <2>1. SUFFICES ASSUME Off # {} PROVE FALSE
    OBVIOUS
  <2>2. Off \in SUBSET Nat
    OBVIOUS
  <2> HIDE DEF Off
  <2>3. PICK i \in Off : \A y \in Off : i <= y
    BY SMTT(30), <2>1, <2>2, LeastNat
  <2> USE DEF Off
  <2>4. i # 0
    BY SMTT(30), <1>3, <1>4, <2>3
  <2>5. i - 1 \in 0..m /\ i \in 1..m /\ ~(i <= i - 1)
    BY SMTT(30), <2>3, <2>4
  <2>6. j + (i - 1) <= n /\ w[j + (i - 1)] = v[i - 1]
    BY SMTT(30), <2>3, <2>5
  <2>7. v[i] = e[w[j + (i - 1)]] /\ v[i] \in DOMAIN e
    BY ZenonT(30), <1>4, <2>5, <2>6
  <2>8. j + (i - 1) # n
    BY <1>5, <2>7
  <2>9. j + i \in 1..n /\ (j + i) - 1 = j + (i - 1)
    BY SMTT(30), <1>3, <2>5, <2>6, <2>8
  <2>10. w[j + i] = v[i]
    BY SMTT(30), <1>4, <2>7, <2>9
  <2>11. QED
    BY SMTT(30), <2>3, <2>9, <2>10
<1>7. j + m <= n /\ w[j + m] = v[m]
  BY SMTT(30), <1>3, <1>6
<1>8. j + m = n
  <2>1. SUFFICES ASSUME j + m # n PROVE FALSE
    OBVIOUS
  <2>2. j + m + 1 \in 1..n /\ (j + m + 1) - 1 = j + m /\ j + m + 1 \in 0..n
    BY SMTT(30), <1>3, <1>7, <2>1
  <2>3. w[j + m + 1] = s /\ w[j + m + 1] \in DOMAIN e
    BY SMTT(30), <1>2, <1>4, <1>7, <2>2
  <2>4. QED
    BY SMTT(30), <1>5, <2>3
<1>9. QED
  BY SMTT(30), <1>2, <1>7, <1>8

\* A change at an object the sender controls takes control from nobody else.
LEMMA ControlSurvives ==
    ASSUME NEW e, IsEdges(e), NEW k \in Keys, NEW o, Controls(e, k, o),
           NEW s \in Keys, s # k, NEW x, Controls(e, s, x),
           NEW f, \A y \in DOMAIN e \ {x} : y \in DOMAIN f /\ f[y] = e[y]
    PROVE  Controls(f, k, o)
<1>1. PICK n \in 0..WalkDepthLimit - 1 : \E w \in Walks(e, o, n) : e[w[n]] = k
  BY SMTT(30) DEF Controls
<1>2. PICK w \in Walks(e, o, n) : e[w[n]] = k
  BY SMTT(30), <1>1
<1>3. n \in Nat /\ n \in 0..n
  BY SMTT(30), <1>1, OpsAssumption DEF OpsAssumption
<1>4. \A i \in 0..n : w[i] # x
  BY SMTT(30), <1>2, <1>3, OneController
<1>5. \A i \in 0..n : w[i] \in DOMAIN f /\ f[w[i]] = e[w[i]]
  BY SMTT(30), <1>2, <1>4 DEF Walks
<1>6. w \in Walks(f, o, n) /\ f[w[n]] = k
  BY SMTT(30), <1>2, <1>3, <1>5, WalkKept
<1>7. QED
  BY SMTT(30), <1>1, <1>6 DEF Controls

\* New edges take control from nobody.
LEMMA ControlGrows ==
    ASSUME NEW e, NEW k, NEW o, Controls(e, k, o),
           NEW f, \A y \in DOMAIN e : y \in DOMAIN f /\ f[y] = e[y]
    PROVE  Controls(f, k, o)
<1>1. PICK n \in 0..WalkDepthLimit - 1 : \E w \in Walks(e, o, n) : e[w[n]] = k
  BY DEF Controls
<1>2. PICK w \in Walks(e, o, n) : e[w[n]] = k
  BY SMTT(30), <1>1
<1>3. n \in Nat /\ n \in 0..n
  BY SMTT(30), <1>1, OpsAssumption DEF OpsAssumption
<1>4. \A i \in 0..n : w[i] \in DOMAIN f /\ f[w[i]] = e[w[i]]
  BY SMTT(30), <1>2 DEF Walks
<1>5. w \in Walks(f, o, n) /\ f[w[n]] = k
  BY SMTT(30), <1>2, <1>3, <1>4, WalkKept
<1>6. QED
  BY SMTT(30), <1>1, <1>5 DEF Controls

\* The key an object hangs under controls it.
LEMMA RootControls ==
    ASSUME NEW e, NEW o \in DOMAIN e
    PROVE  Controls(e, e[o], o)
<1> DEFINE w == [i \in 0..0 |-> o]
<1>1. w \in Walks(e, o, 0) /\ e[w[0]] = e[o]
  BY DEF Walks
<1>2. 0 \in 0..WalkDepthLimit - 1
  BY SMTT(30), OpsAssumption DEF OpsAssumption
<1>3. QED
  BY SMTT(30), <1>1, <1>2 DEF Controls

\* What a step may do to the control of an object.
ControlStep ==
    crashes' = 0 => \A o \in DOMAIN edge : \A k \in Keys \ {ZeroKey} :
        Controls(edge, k, o) /\ ~Controls(edge', k, o)
          => \/ work # None /\ work.tx.sender = k
             \/ \E tx \in done' \ done : tx.sender = k

\* Every step takes control from its transaction's sender alone.
LEMMA ControlStepHolds ==
    ASSUME RefsLive, HInv, Next
    PROVE  ControlStep
<1>1. SUFFICES ASSUME crashes' = 0, NEW o \in DOMAIN edge, NEW k \in Keys,
                      Controls(edge, k, o), ~Controls(edge', k, o)
               PROVE  \/ work # None /\ work.tx.sender = k
                      \/ \E tx \in done' \ done : tx.sender = k
  BY SMTT(30) DEF ControlStep
<1>2. TrackOK /\ StateOK /\ IsEdges(edge) /\ edge' # edge
  BY <1>1, Parts DEF HInv, TrackOK, Tracker, IsTracker, IsEdges
<1>3. ASSUME NEW tx \in Txs, RefuseVersion(tx) \/ RefuseFee(tx) \/ RefusePod(tx) \/ BeginOps(tx)
      PROVE  FALSE
  <2>1. CASE RefuseVersion(tx)
    BY <1>2, <2>1 DEF RefuseVersion
  <2>2. CASE ~RefuseVersion(tx)
    <3>1. Arrives(tx) /\ SetTracker(BumpVersions(tx.refs))
      BY ZenonT(30), <1>3, <2>2 DEF RefuseFee, RefusePod, BeginOps
    <3>2. QED
      BY SMTT(30), <1>2, <3>1, BumpNothing DEF SetTracker, Tracker
  <2>3. QED
    BY <2>1, <2>2
<1>4. CASE RejectOps \/ EndOps \/ ExecuteFails \/ ValidateOp \/ StartApply \/ TransitionEpoch
  BY SMTT(30), <1>2, <1>4 DEF RejectOps, EndOps, ExecuteFails, ValidateOp, StartApply, TransitionEpoch
<1>5. CASE ApplyOp
  <2> DEFINE op == CurrentOp
             x == work.readings[work.at + 1]
             s == work.tx.sender
  <2>1. Busy("apply") /\ work.at < Len(work.tx.ops) /\ work # None
    BY SMTT(30), <1>5 DEF ApplyOp, Busy
  <2>2. /\ IsOp(op) /\ x.edge = edge /\ s \in Keys
        /\ Vetted(epoch, x, work.tx, op) /\ edge' = EdgesAfter(edge, op)
    BY <1>5, <2>1, ApplyReads, ApplyEffect DEF Follows, IsTx
  <2>3. op.kind \in {"reparent", "delete"}
    BY SMTT(30), <1>2, <2>2 DEF EdgesAfter
  <2>4. Controls(edge, s, op.obj)
    BY ZenonT(30), <2>2, <2>3 DEF Vetted
  <2>5. \A y \in DOMAIN edge \ {op.obj} : y \in DOMAIN edge' /\ edge'[y] = edge[y]
    BY SMTT(30), <2>2, <2>3 DEF EdgesAfter, Put, Drop
  <2>6. s = k
    BY SMTT(60), <1>1, <1>2, <2>2, <2>4, <2>5, ControlSurvives
  <2>7. QED
    BY <2>1, <2>6
<1>6. ASSUME NEW tx \in Txs, SettlePod(tx)
      PROVE  tx \in done' \ done /\ tx.sender = k
  <2>1. /\ Arrives(tx) /\ OwnsRefs(tx) /\ crashes = 0 /\ tx \in done' \ done /\ IsTx(tx)
    BY <1>1, <1>6, OpsAssumption DEF SettlePod, Arrives, Mark, OpsAssumption
  <2>2. edge' = Drop(edge, {tx.deletes})
    BY <1>6, SettleKeepsAll
  <2>3. tx.deletes \in DOMAIN edge
    <3>1. CASE tx.deletes \notin DOMAIN edge
      <4>1. Drop(edge, {tx.deletes}) = edge
        BY SMTT(30), <1>2, <3>1 DEF Drop, IsEdges
      <4>2. QED
        BY <1>2, <2>2, <4>1
    <3>2. QED
      BY SMTT(30), <3>1
  <2>4. tx.deletes \in tx.refs
    BY SMTT(30), <1>2, <2>1, <2>3, OpsAssumption DEF IsTx, IsEdges, OpsAssumption
  <2>5. edge[tx.deletes] = tx.sender /\ tx.sender \in Keys
    BY SMTT(30), <1>2, <2>1, <2>3, <2>4 DEF OwnsRefs, StateOK, BodyMatches, IsTx
  <2>6. Controls(edge, tx.sender, tx.deletes)
    BY SMTT(30), <2>3, <2>5, RootControls
  <2>7. \A y \in DOMAIN edge \ {tx.deletes} : y \in DOMAIN edge' /\ edge'[y] = edge[y]
    BY SMTT(30), <2>2 DEF Drop
  <2>8. tx.sender = k
    BY SMTT(60), <1>1, <1>2, <2>5, <2>6, <2>7, ControlSurvives
  <2>9. QED
    BY <2>1, <2>8
<1>7. CASE ExecuteSucceeds
  <2>1. Busy("execute") /\ IsTx(work.tx)
    BY <1>7, OpsAssumption DEF ExecuteSucceeds, HInv, IInv, TypeOK, WorkOK, Busy, OpsAssumption
  <2>2. work.tx.creates # None /\ SetTracker(Attach(Tracker, work.tx.creates, work.tx.under))
    BY SMTT(30), <1>2, <1>7 DEF ExecuteSucceeds
  <2>3. edge' = Put(edge, work.tx.creates, work.tx.under) /\ work.tx.creates \notin DOMAIN edge
    <3>1. PICK t, c, p : t = Tracker /\ c = work.tx.creates /\ p = work.tx.under
      OBVIOUS
    <3>2. IsTracker(t) /\ c \in Objects /\ p \in Objects \cup Keys
      BY <1>2, <2>1, <2>2, <3>1 DEF TrackOK, IsTx
    <3>3. Attach(t, c, p).edge = Put(t.edge, c, p)
      BY Zenon, <3>2, AttachEdge
    <3>4. edge' = Put(edge, c, p)
      BY <2>2, <3>1, <3>3 DEF SetTracker, Tracker
    <3>5. c \notin DOMAIN edge
      BY SMTT(30), <1>2, <2>1, <2>2, <3>1, CreatedIsNew
    <3>6. QED
      BY Zenon, <3>1, <3>4, <3>5
  <2>4. \A y \in DOMAIN edge : y \in DOMAIN edge' /\ edge'[y] = edge[y]
    BY <2>3 DEF Put
  <2>5. QED
    BY <1>1, <2>4, ControlGrows
<1>8. CASE Crash
  BY <1>1, <1>8, OpsAssumption DEF Crash, HInv, IInv, TypeOK, OpsAssumption
<1>9. QED
  BY SMTT(30), <1>3, <1>4, <1>5, <1>6, <1>7, <1>8 DEF Next

\* Where every mutable ref is tracked, a key loses control of an object, until a
\* crash, only by a transaction it sent itself: the controls checks of reparent and
\* delete and the owner check of a pod call let no one take an object, however deep
\* in the hierarchy, from the key at its root.
THEOREM ControlKeptHolds == ASSUME RefsLive PROVE Spec => ControlKept
<1>1. HInv /\ [Next]_vars => [ControlStep]_vars
  BY ControlStepHolds
<1>2. QED
  BY <1>1, StrongInvariantHolds, PTL DEF Spec, ControlKept, ControlStep

\* What a step may do to a name.
NameStep ==
    \A n \in DOMAIN names :
        (n \in DOMAIN names' => names'[n].owner # names[n].owner)
          => \/ work # None /\ work.tx.sender = names[n].owner
             \/ epoch' > names[n].expiry + GraceEpochs

\* Every step takes names from its transaction's sender or past their grace window.
LEMMA NameStepHolds ==
    ASSUME HInv, Next
    PROVE  NameStep
<1>1. SUFFICES ASSUME NEW n \in DOMAIN names, n \in DOMAIN names' => names'[n].owner # names[n].owner
               PROVE  \/ work # None /\ work.tx.sender = names[n].owner
                      \/ epoch' > names[n].expiry + GraceEpochs
  BY DEF NameStep
<1>2. names' # names /\ NamesOK
  BY SMTT(30), <1>1, Parts DEF HInv
<1>3. CASE ApplyOp
  <2> DEFINE op == CurrentOp
             x == work.readings[work.at + 1]
  <2>1. Busy("apply") /\ work.at < Len(work.tx.ops) /\ work # None
    BY SMTT(30), <1>3 DEF ApplyOp, Busy
  <2>2. /\ IsOp(op) /\ x.names = names
        /\ Vetted(epoch, x, work.tx, op) /\ names' = NamesAfter(epoch, names, work.tx, op)
    BY ZenonT(30), <1>3, <2>1, ApplyReads, ApplyEffect DEF Follows
  <2>3. op.kind \in Kinds \ {"reparent", "delete"}
    BY <1>2, <2>2 DEF NamesAfter, IsOp
  <2> HIDE DEF op, x
  <2>4. n = op.name
    BY SMTT(30), <1>1, <2>2, <2>3 DEF NamesAfter, Put, Drop
  <2>5. op.kind # "register"
    BY ZenonT(30), <1>1, <2>2, <2>4 DEF Vetted
  <2>6. names[n].owner = work.tx.sender
    BY ZenonT(30), <2>2, <2>3, <2>4, <2>5 DEF Vetted, Owns, Kinds
  <2>7. QED
    BY <2>1, <2>6
<1>4. CASE TransitionEpoch
  BY SMTT(30), <1>1, <1>4 DEF TransitionEpoch, Drop, Swept
<1>5. CASE ~ApplyOp /\ ~TransitionEpoch
  <2>1. names' = names
    BY <1>5 DEF Next, RefuseVersion, RefuseFee, BeginOps, RefusePod, SettlePod, RejectOps,
                ValidateOp, StartApply, EndOps, ExecuteFails, ExecuteSucceeds, Crash
  <2>2. QED
    BY SMTT(30), <1>2, <2>1
<1>6. QED
  BY SMTT(30), <1>3, <1>4, <1>5

\* Where every mutable ref is tracked, a name leaves its owner only by a transaction
\* the owner sent or when the sweep finds its grace window over, crashes included
\* (ownedDomain over the staged registry, sweepExpiredDomains).
THEOREM NameKeptHolds == ASSUME RefsLive PROVE Spec => NameKept
<1>1. HInv /\ [Next]_vars => [NameStep]_vars
  BY NameStepHolds
<1>2. QED
  BY <1>1, StrongInvariantHolds, PTL DEF Spec, NameKept, NameStep

=============================================================================
