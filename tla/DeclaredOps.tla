----------------------------- MODULE DeclaredOps -----------------------------
(***************************************************************************)
(* The object hierarchy and the domain registry of one node, as the commit *)
(* path drives them: the version bump of a transaction's mutable refs, the *)
(* declared-operation list (validated against a staged view, then applied  *)
(* write by write), the pod-call channel that creates and deletes objects, *)
(* the epoch sweep of leases, and the verifiable index fed beside them.    *)
(*                                                                         *)
(* A transaction is a record of its sender, its mutable refs, its declared *)
(* operations, and, for a pod call, the objects it declares deleted and    *)
(* the object its pod creates.  Ids and keys are disjoint, so the parent   *)
(* kind is the set a parent belongs to.  The commit loop is one goroutine  *)
(* under commitMu: nothing interleaves with a list but a crash.            *)
(***************************************************************************)
EXTENDS Integers, Sequences, FiniteSets

CONSTANTS
    None,
    Keys,            \* Ed25519 keys
    ZeroKey,         \* the key nobody holds
    Objects,         \* object ids, created or not
    Names,           \* well-formed domain names
    Namespace,       \* the name after the first label, None for a bare root
    Txs,             \* the transactions that reach the commit path
    Rooted,          \* the objects tracked at the start and their keys
    RefsLive,        \* TRUE when every mutable ref names a tracked object
    WalkDepthLimit,
    MaxTermEpochs,
    GraceEpochs,
    CountModulus,    \* 2^32 in the code
    MaxEpoch,
    MaxCrashes

VARIABLES
    edge,     \* tracker: the parent of every tracked object
    count,    \* tracker: the child count of every tracked object
    body,     \* the owner bytes of every stored body
    names,    \* domain registry: name -> leaf
    index,    \* in-memory trees: parent edges and domain leaves
    epoch,
    done,     \* transactions marked committed
    work,     \* the list in progress, or None
    crashes

tracker == <<edge, count>>
vars == <<edge, count, body, names, index, epoch, done, work, crashes>>

Kinds == {"reparent", "delete", "register", "renew", "update", "transfer", "release"}

IsOp(op) ==
    /\ op.kind \in Kinds
    /\ op.obj \in Objects
    /\ op.target \in Objects \cup Keys
    /\ op.name \in Names
    /\ op.term \in Nat

IsTx(tx) ==
    /\ tx.sender \in Keys \ {ZeroKey}
    /\ tx.refs \subseteq Objects
    /\ Len(tx.ops) \in Nat
    /\ \A i \in 1..Len(tx.ops) : IsOp(tx.ops[i])
    /\ tx.deletes \in tx.refs \cup {None}
    /\ tx.creates \in Objects \cup {None}
    /\ tx.under \in Objects \cup Keys
    /\ tx.via \subseteq Names

ASSUME OpsAssumption ==
    /\ IsFiniteSet(Objects) /\ Objects \cap Keys = {} /\ None \notin Objects \cup Names
    /\ ZeroKey \in Keys
    /\ Namespace \in [Names -> Names \cup {None}]
    /\ \A tx \in Txs : IsTx(tx)
    /\ DOMAIN Rooted \subseteq Objects /\ Rooted \in [DOMAIN Rooted -> Keys]
    /\ RefsLive \in BOOLEAN
    /\ WalkDepthLimit \in Nat \ {0}
    /\ MaxTermEpochs \in Nat /\ GraceEpochs \in Nat
    /\ CountModulus \in Nat /\ CountModulus > Cardinality(Objects)
    /\ MaxEpoch \in Nat /\ MaxCrashes \in Nat

\* computeObjectID: a created object's id hashes the transaction that creates it.
ASSUME IdsAssumption ==
    \A tx \in Txs : tx.creates # None =>
        /\ tx.creates \notin DOMAIN Rooted
        /\ \A u \in Txs : u.creates = tx.creates => u = tx

-----------------------------------------------------------------------------
(* Partial functions *)

Put(f, k, v) == [x \in DOMAIN f \cup {k} |-> IF x = k THEN v ELSE f[x]]
Drop(f, S) == [x \in DOMAIN f \ S |-> f[x]]

-----------------------------------------------------------------------------
(* The object tracker *)

\* The walks of n + 1 objects up the parent edges e from o.
Walks(e, o, n) ==
    {w \in [0..n -> DOMAIN e] : w[0] = o /\ \A i \in 1..n : w[i] = e[w[i - 1]]}

\* controllerOf, controls
Controls(e, sender, o) ==
    \E n \in 0..WalkDepthLimit - 1 : \E w \in Walks(e, o, n) : e[w[n]] = sender

\* Mutation: a cycle is looked for at the first step only.
CyclesAtOnce(e, o, p) == p = o

\* wouldCycle: the walk up from p meets o, or cannot be followed to a key.
WouldCycle(e, o, p) ==
    /\ p \notin Keys
    /\ \A n \in 0..WalkDepthLimit - 1 : \A w \in Walks(e, p, n) :
          e[w[n]] \in Keys => \E i \in 0..n : w[i] = o

\* adjustChildCount: only a tracked parent object keeps a count.
Adjust(t, p, delta) ==
    IF p \in DOMAIN t.edge
    THEN [t EXCEPT !.count[p] = (@ + delta) % CountModulus]
    ELSE t

\* encodeValue and Set: the entry alone, its own child count kept.
WriteEntry(t, o, p) ==
    [edge |-> Put(t.edge, o, p),
     count |-> Put(t.count, o, IF o \in DOMAIN t.edge THEN t.count[o] ELSE 0)]

SameEdge(t, o, p) == o \in DOMAIN t.edge /\ t.edge[o] = p

\* rebindChildCount, first half: the old parent loses the child.
Unbind(t, o, written) ==
    IF o \in DOMAIN t.edge THEN Adjust(written, t.edge[o], -1) ELSE written

\* trackObject, setParent
Attach(t, o, p) ==
    IF SameEdge(t, o, p)
    THEN WriteEntry(t, o, p)
    ELSE Adjust(Unbind(t, o, WriteEntry(t, o, p)), p, 1)

\* deleteObject: the entry goes, then the parent loses the child.
RemoveEntry(t, o) == [edge |-> Drop(t.edge, {o}), count |-> Drop(t.count, {o})]
Detach(t, o) ==
    IF o \in DOMAIN t.edge THEN Adjust(RemoveEntry(t, o), t.edge[o], -1) ELSE t

Tracker == [edge |-> edge, count |-> count]

\* incrementMutableObjects: an untracked ref becomes an entry under the zero key.
BumpVersions(refs) ==
    [edge |-> [o \in DOMAIN edge \cup refs |-> IF o \in DOMAIN edge THEN edge[o] ELSE ZeroKey],
     count |-> [o \in DOMAIN edge \cup refs |-> IF o \in DOMAIN edge THEN count[o] ELSE 0]]

-----------------------------------------------------------------------------
(* The staged view: an overlay on the tracker and the registry *)

NoLeaf == [x \in {} |-> None]

\* newStagedView
NewStagedView ==
    [parents |-> NoLeaf, deleted |-> {}, delta |-> [o \in Objects |-> 0],
     names |-> NoLeaf, removed |-> {}]

\* getParent
StagedEdges(s) ==
    [o \in (DOMAIN s.parents \cup DOMAIN edge) \ s.deleted |->
        IF o \in DOMAIN s.parents THEN s.parents[o] ELSE edge[o]]

\* childCount: floored at zero.
StagedCount(s, o) ==
    LET staged == (IF o \in DOMAIN edge THEN count[o] ELSE 0) + s.delta[o]
    IN  IF staged < 0 THEN 0 ELSE staged

\* getDomain
StagedNames(s) ==
    [n \in (DOMAIN s.names \cup DOMAIN names) \ s.removed |->
        IF n \in DOMAIN s.names THEN s.names[n] ELSE names[n]]

\* Whether p counts its children: a key does not.
Delta(delta, p, d) == IF p \in Objects THEN [delta EXCEPT ![p] = @ + d] ELSE delta

\* The staged delta once o has left its parent.
Left(s, o) ==
    IF o \in DOMAIN StagedEdges(s) THEN Delta(s.delta, StagedEdges(s)[o], -1) ELSE s.delta

\* stageReparent
StageReparent(s, o, p) ==
    [s EXCEPT !.parents = Put(@, o, p), !.delta = Delta(Left(s, o), p, 1)]

\* Mutation: a staged delete forgets the parent's count.
StageDeleteOnly(s, o) == [s EXCEPT !.deleted = @ \cup {o}]

\* stageDelete
StageDelete(s, o) == [s EXCEPT !.deleted = @ \cup {o}, !.delta = Left(s, o)]

\* stageDomain
StageName(s, n, leaf) == [s EXCEPT !.names = Put(@, n, leaf), !.removed = @ \ {n}]

\* domainExpiry: from the later of the current expiry and the epoch, never clamped.
Expiry(current, term) == (IF epoch > current THEN epoch ELSE current) + term

\* domainExpiry: whether the result is allowed.
TermFits(current, term) == term > 0 /\ Expiry(current, term) <= epoch + MaxTermEpochs

\* ownedDomain
Owns(reg, sender, n) == n \in DOMAIN reg /\ reg[n].owner = sender

\* ownsDomainNamespace
OwnsNamespace(reg, sender, n) ==
    Namespace[n] # None =>
        Owns(reg, sender, Namespace[n]) /\ reg[Namespace[n]].expiry >= epoch

\* Mutation: any mutable ref may be moved.
ReparentAnyRef(s, tx, op) ==
    op.obj \in tx.refs /\ ~WouldCycle(StagedEdges(s), op.obj, op.target)

\* validateReparent
ValidReparent(s, tx, op) ==
    LET e == StagedEdges(s) IN
    /\ op.obj \in tx.refs
    /\ Controls(e, tx.sender, op.obj)
    /\ op.target \in Objects => Controls(e, tx.sender, op.target)
    /\ ~WouldCycle(e, op.obj, op.target)

\* Mutation: a parent may go before its children.
DeleteParent(s, tx, op) ==
    op.obj \in tx.refs /\ Controls(StagedEdges(s), tx.sender, op.obj)

\* validateDelete
ValidDelete(s, tx, op) ==
    /\ op.obj \in tx.refs
    /\ Controls(StagedEdges(s), tx.sender, op.obj)
    /\ StagedCount(s, op.obj) = 0

\* validateDomainRegister
ValidRegister(s, tx, op) ==
    LET reg == StagedNames(s) IN
    /\ op.name \notin DOMAIN reg
    /\ OwnsNamespace(reg, tx.sender, op.name)
    /\ Controls(StagedEdges(s), tx.sender, op.obj)
    /\ TermFits(0, op.term)

\* validate, validateDomainRenew, validateDomainUpdate, validateDomainTransfer,
\* validateDomainDelete
ValidOp(s, tx, op) ==
    LET reg == StagedNames(s) IN
    CASE op.kind = "reparent" -> ValidReparent(s, tx, op)
      [] op.kind = "delete" -> ValidDelete(s, tx, op)
      [] op.kind = "register" -> ValidRegister(s, tx, op)
      [] op.kind = "renew" ->
            Owns(reg, tx.sender, op.name) /\ TermFits(reg[op.name].expiry, op.term)
      [] op.kind = "update" ->
            Owns(reg, tx.sender, op.name) /\ Controls(StagedEdges(s), tx.sender, op.obj)
      [] op.kind = "transfer" ->
            Owns(reg, tx.sender, op.name) /\ op.target \in Keys \ {ZeroKey}
      [] op.kind = "release" -> Owns(reg, tx.sender, op.name)

\* The leaf a domain operation leaves behind, from the registry it reads.
NewLeaf(reg, tx, op) ==
    CASE op.kind = "register" ->
            [object |-> op.obj, owner |-> tx.sender, expiry |-> Expiry(0, op.term)]
      [] op.kind = "renew" ->
            [reg[op.name] EXCEPT !.expiry = Expiry(@, op.term)]
      [] op.kind = "update" -> [reg[op.name] EXCEPT !.object = op.obj]
      [] op.kind = "transfer" -> [reg[op.name] EXCEPT !.owner = op.target]

\* The view with the operation staged.
StageOp(s, tx, op) ==
    CASE op.kind = "reparent" -> StageReparent(s, op.obj, op.target)
      [] op.kind = "delete" -> StageDelete(s, op.obj)
      [] op.kind = "release" -> [s EXCEPT !.removed = @ \cup {op.name}]
      [] OTHER -> StageName(s, op.name, NewLeaf(StagedNames(s), tx, op))

\* What a reader of the staged view, and a reader of the real state, sees.
StagedReading(s) ==
    [edge |-> StagedEdges(s),
     count |-> [o \in DOMAIN StagedEdges(s) |-> StagedCount(s, o)],
     names |-> StagedNames(s)]
Reading == [edge |-> edge, count |-> count, names |-> names]

-----------------------------------------------------------------------------
(* The index's feed points: ApplyEdge, RemoveObject, ApplyDomain, RemoveDomain *)

FeedEdge(o, p) == [index EXCEPT !.edge = Put(@, o, p)]
RemoveObject(o) == [index EXCEPT !.edge = Drop(@, {o})]
FeedDomain(n, leaf) == [index EXCEPT !.names = Put(@, n, leaf)]
RemoveDomains(S) == [index EXCEPT !.names = Drop(@, S)]

-----------------------------------------------------------------------------
(* The commit path *)

Init ==
    /\ edge = Rooted
    /\ count = [o \in DOMAIN Rooted |-> 0]
    /\ body = Rooted
    /\ names = NoLeaf
    /\ index = [edge |-> Rooted, names |-> NoLeaf]
    /\ epoch = 0
    /\ done = {}
    /\ work = None
    /\ crashes = 0

\* executeTx: the first occurrence is marked before anything else.
Mark(tx) ==
    /\ work = None
    /\ tx \in Txs \ done
    /\ done' = done \cup {tx}

\* executeTx, checkAndUpdate refusing: the mark is all that stays.
RefuseVersion(tx) ==
    /\ Mark(tx)
    /\ UNCHANGED <<edge, count, body, names, index, epoch, work, crashes>>

\* checkAndUpdate passing; an untracked ref passes at version zero.
Arrives(tx) ==
    /\ Mark(tx)
    /\ RefsLive => tx.refs \subseteq DOMAIN edge

SetTracker(t) == edge' = t.edge /\ count' = t.count

\* executeTx, deductFees refusing: the versions are bumped already.
RefuseFee(tx) ==
    /\ Arrives(tx)
    /\ SetTracker(BumpVersions(tx.refs))
    /\ UNCHANGED <<body, names, index, epoch, work, crashes>>

\* handleDeclaredOps: the list is validated from an empty overlay.
BeginOps(tx) ==
    /\ Arrives(tx)
    /\ tx.ops # <<>>
    /\ LET t == BumpVersions(tx.refs) IN
        /\ SetTracker(t)
        /\ work' = [tx |-> tx, phase |-> "validate", at |-> 0, staged |-> NewStagedView,
                    readings |-> <<[edge |-> t.edge, count |-> t.count, names |-> names]>>]
    /\ UNCHANGED <<body, names, index, epoch, crashes>>

CurrentOp == work.tx.ops[work.at + 1]
Busy(phase) == work # None /\ work.phase = phase

\* handleDeclaredOps: the first invalid operation rejects the list.
RejectOps ==
    /\ Busy("validate")
    /\ work.at < Len(work.tx.ops)
    /\ ~ValidOp(work.staged, work.tx, CurrentOp)
    /\ work' = None
    /\ UNCHANGED <<edge, count, body, names, index, epoch, done, crashes>>

\* handleDeclaredOps: one more operation holds, and is staged.
ValidateOp ==
    /\ Busy("validate")
    /\ work.at < Len(work.tx.ops)
    /\ ValidOp(work.staged, work.tx, CurrentOp)
    /\ LET s == StageOp(work.staged, work.tx, CurrentOp) IN
        work' = [work EXCEPT !.at = @ + 1, !.staged = s,
                             !.readings = Append(@, StagedReading(s))]
    /\ UNCHANGED <<edge, count, body, names, index, epoch, done, crashes>>

\* applyDeclaredOps starts once the whole list holds.
StartApply ==
    /\ Busy("validate")
    /\ work.at = Len(work.tx.ops)
    /\ work' = [work EXCEPT !.phase = "apply", !.at = 0]
    /\ UNCHANGED <<edge, count, body, names, index, epoch, done, crashes>>

\* Mutation: the stored owner is not rewritten.
ReparentEdgeOnly(op) ==
    /\ SetTracker(Attach(Tracker, op.obj, op.target))
    /\ index' = FeedEdge(op.obj, op.target)
    /\ UNCHANGED <<names, body>>

\* applyReparent: the edge, the stored owner, the index.
ApplyReparent(op) ==
    /\ SetTracker(Attach(Tracker, op.obj, op.target))
    /\ body' = IF op.obj \in DOMAIN body THEN [body EXCEPT ![op.obj] = op.target] ELSE body
    /\ index' = FeedEdge(op.obj, op.target)
    /\ UNCHANGED names

\* applyDelete, settleDeletion
ApplyDelete(op) ==
    /\ SetTracker(Detach(Tracker, op.obj))
    /\ body' = Drop(body, {op.obj})
    /\ index' = RemoveObject(op.obj)
    /\ UNCHANGED names

\* applyDomainDelete
ApplyRelease(op) ==
    /\ names' = Drop(names, {op.name})
    /\ index' = RemoveDomains({op.name})
    /\ UNCHANGED <<edge, count, body>>

\* What an apply checks again before it writes a leaf.
StillFits(op) ==
    CASE op.kind = "register" -> TermFits(0, op.term)
      [] op.kind = "renew" ->
            op.name \in DOMAIN names /\ TermFits(names[op.name].expiry, op.term)
      [] OTHER -> op.name \in DOMAIN names

\* applyDomainRegister, applyDomainRenew, applyDomainUpdate, applyDomainTransfer,
\* writeDomainLeaf
ApplyLeaf(op) ==
    /\ IF StillFits(op)
       THEN LET leaf == NewLeaf(names, work.tx, op) IN
            /\ names' = Put(names, op.name, leaf)
            /\ index' = FeedDomain(op.name, leaf)
       ELSE UNCHANGED <<names, index>>
    /\ UNCHANGED <<edge, count, body>>

\* applyDeclaredOps, applyDomainOp: the next operation of the list.
ApplyOp ==
    /\ Busy("apply")
    /\ work.at < Len(work.tx.ops)
    /\ CASE CurrentOp.kind = "reparent" -> ApplyReparent(CurrentOp)
         [] CurrentOp.kind = "delete" -> ApplyDelete(CurrentOp)
         [] CurrentOp.kind = "release" -> ApplyRelease(CurrentOp)
         [] OTHER -> ApplyLeaf(CurrentOp)
    /\ work' = [work EXCEPT !.at = @ + 1]
    /\ UNCHANGED <<epoch, done, crashes>>

\* commitDeclaredOps returns.
EndOps ==
    /\ Busy("apply")
    /\ work.at = Len(work.tx.ops)
    /\ work' = None
    /\ UNCHANGED <<edge, count, body, names, index, epoch, done, crashes>>

-----------------------------------------------------------------------------
(* The pod-call channel *)

\* createdParentAllowed, domainReferencedParents: a name that resolves lends its
\* object as a parent, whether or not the object is still there.
SharedParents(tx) ==
    {names[n].object : n \in {m \in tx.via \cap DOMAIN names : names[m].expiry >= epoch}}

ParentAllowed(tx, t) ==
    \/ tx.under \in Keys
    \/ tx.under \in SharedParents(tx)
    \/ Controls(t.edge, tx.sender, tx.under)

\* validateMutableRefOwnership: the owner bytes of the body, not the cascade.
OwnsRefs(tx) == \A o \in tx.refs : o \in DOMAIN body /\ body[o] = tx.sender

\* settleDeclaredDeletions: no declared deletion leaves a child behind.
Deletable(tx, t) == tx.deletes # None => t.count[tx.deletes] = 0

\* executeTx refusing a pod call after its versions moved.
RefusePod(tx) ==
    /\ Arrives(tx)
    /\ tx.ops = <<>>
    /\ LET t == BumpVersions(tx.refs) IN
        /\ ~(OwnsRefs(tx) /\ Deletable(tx, t))
        /\ SetTracker(t)
    /\ UNCHANGED <<body, names, index, epoch, work, crashes>>

\* executeTx, settleDeclaredDeletions: the deletion settles before the pod runs.
SettlePod(tx) ==
    /\ Arrives(tx)
    /\ tx.ops = <<>>
    /\ OwnsRefs(tx)
    /\ LET t == BumpVersions(tx.refs) IN
        /\ Deletable(tx, t)
        /\ SetTracker(IF tx.deletes = None THEN t ELSE Detach(t, tx.deletes))
    /\ index' = RemoveObject(tx.deletes)
    /\ work' = [tx |-> tx, phase |-> "execute", at |-> 0, staged |-> NewStagedView,
                readings |-> <<>>]
    /\ UNCHANGED <<body, names, epoch, crashes>>

\* Execute, processOutput returning an error: nothing is written.
ExecuteFails ==
    /\ Busy("execute")
    /\ work' = None
    /\ UNCHANGED <<edge, count, body, names, index, epoch, done, crashes>>

\* processOutput: applyCreatedObjects (TrackObject), applyDeletedObjects.
ExecuteSucceeds ==
    /\ Busy("execute")
    /\ LET tx == work.tx
           kept == Drop(body, {tx.deletes})
       IN  IF tx.creates = None
           THEN /\ body' = kept
                /\ UNCHANGED <<edge, count, index>>
           ELSE /\ ParentAllowed(tx, Tracker)
                /\ SetTracker(Attach(Tracker, tx.creates, tx.under))
                /\ index' = FeedEdge(tx.creates, tx.under)
                /\ body' = Put(kept, tx.creates, tx.under)
    /\ work' = None
    /\ UNCHANGED <<names, epoch, done, crashes>>

-----------------------------------------------------------------------------
(* Epochs and crashes *)

\* Mutation: a lease is swept once it no longer resolves.
SweptAtExpiry(e) == {n \in DOMAIN names : e > names[n].expiry}

\* sweepExpiredDomains
Swept(e) == {n \in DOMAIN names : e > names[n].expiry + GraceEpochs}

\* transitionEpoch, its sweep: between two rounds, at the new epoch.
TransitionEpoch ==
    /\ work = None
    /\ epoch < MaxEpoch
    /\ epoch' = epoch + 1
    /\ names' = Drop(names, Swept(epoch + 1))
    /\ index' = RemoveDomains(Swept(epoch + 1))
    /\ UNCHANGED <<edge, count, body, done, work, crashes>>

\* Mutation: only the registry is read back.
RebuiltNames(e, reg) == [edge |-> NoLeaf, names |-> reg]

\* backfillIndex, BuildFromState
Rebuilt(e, reg) == [edge |-> e, names |-> reg]

\* What the separate tracker writes of an operation leave behind when they stop.
Partials(op) ==
    CASE op.kind = "reparent" ->
            {WriteEntry(Tracker, op.obj, op.target),
             Unbind(Tracker, op.obj, WriteEntry(Tracker, op.obj, op.target)),
             Attach(Tracker, op.obj, op.target)}
      [] op.kind = "delete" -> {RemoveEntry(Tracker, op.obj), Detach(Tracker, op.obj)}
      [] OTHER -> {Tracker}

\* The node stops and starts again: memory is lost, the trees are rebuilt, and
\* the mark keeps the transaction from running a second time.
Crash ==
    /\ crashes < MaxCrashes
    /\ crashes' = crashes + 1
    /\ \/ UNCHANGED tracker
       \/ /\ Busy("apply")
          /\ work.at < Len(work.tx.ops)
          /\ \E t \in Partials(CurrentOp) : SetTracker(t)
    /\ index' = Rebuilt(edge', names)
    /\ work' = None
    /\ UNCHANGED <<body, names, epoch, done>>

Next ==
    \/ \E tx \in Txs :
          \/ RefuseVersion(tx) \/ RefuseFee(tx) \/ BeginOps(tx)
          \/ RefusePod(tx) \/ SettlePod(tx)
    \/ RejectOps \/ ValidateOp \/ StartApply \/ ApplyOp \/ EndOps
    \/ ExecuteFails \/ ExecuteSucceeds
    \/ TransitionEpoch
    \/ Crash

Spec == Init /\ [][Next]_vars

-----------------------------------------------------------------------------
(* Properties *)

Leaf == [object : Objects, owner : Keys \ {ZeroKey}, expiry : Nat]

\* The tracker, the bodies, the registry and the list in progress are well formed.
TypeOK ==
    /\ DOMAIN edge \subseteq Objects
    /\ edge \in [DOMAIN edge -> Objects \cup Keys]
    /\ count \in [DOMAIN edge -> 0..CountModulus - 1]
    /\ DOMAIN body \subseteq Objects
    /\ body \in [DOMAIN body -> Objects \cup Keys]
    /\ DOMAIN names \subseteq Names
    /\ names \in [DOMAIN names -> Leaf]
    /\ epoch \in 0..MaxEpoch
    /\ done \subseteq Txs
    /\ crashes \in 0..MaxCrashes
    /\ work # None =>
          work.tx \in done /\ work.phase \in {"validate", "apply", "execute"}

\* Until a crash, applying a validated list to the tracker and the registry goes
\* through the very states its operations were validated against in the overlay
\* (applyDeclaredOps after stagedView.validate).
StagedIsApplied ==
    crashes = 0 /\ Busy("apply") => Reading = work.readings[work.at + 1]

\* No parent edge closes a loop, whatever lists, pod calls and crashes wrote it
\* (wouldCycle over the staged view).
Acyclic ==
    \A S \in SUBSET DOMAIN edge : S # {} => \E o \in S : edge[o] \notin S

\* Until a crash, and until a name stands for a parent, no object hangs under an object
\* the tracker no longer knows, and a tracked object's child count is the number of
\* edges that name it, so neither deletion channel orphans a child (validateDelete,
\* settleDeclaredDeletions, rebindChildCount, adjustChildCount).
ParentsTracked ==
    crashes = 0 /\ (\A tx \in done : tx.via = {}) =>
      \A o \in DOMAIN edge :
        /\ edge[o] \in Objects => edge[o] \in DOMAIN edge
        /\ count[o] = Cardinality({c \in DOMAIN edge : edge[c] = o})

\* Until a crash, no reader sees a tracked object's body name another owner than
\* its parent edge does (applyReparent rewriting both, TrackObject beside the stored body).
BodyMatches ==
    crashes = 0 => \A o \in DOMAIN body \cap DOMAIN edge : body[o] = edge[o]

\* The incrementally fed trees hold what a rebuild from the committed tracker and
\* registry would (TrackObject, applyReparent, settleDeletion, writeDomainLeaf
\* against backfillIndex), so a restarted node anchors the same root.
IndexMatches == work = None => index.edge = edge /\ index.names = names

\* A registered name's lease never runs past the cap, and is never kept past its
\* grace window (domainExpiry, sweepExpiredDomains).
LeasesLive ==
    \A n \in DOMAIN names :
        /\ names[n].expiry <= epoch + MaxTermEpochs
        /\ epoch <= names[n].expiry + GraceEpochs

\* Until a crash, a key loses control of an object only by a transaction it sent
\* (the controls checks of the reparent and delete operations, the owner check of
\* a pod call).
ControlKept ==
    [][crashes' = 0 => \A o \in DOMAIN edge : \A k \in Keys \ {ZeroKey} :
          Controls(edge, k, o) /\ ~Controls(edge', k, o)
            => \/ work # None /\ work.tx.sender = k
               \/ \E tx \in done' \ done : tx.sender = k]_vars

\* A name leaves its owner only by a transaction the owner sent, or when the
\* epoch sweep finds its grace window over (ownedDomain, sweepExpiredDomains).
NameKept ==
    [][\A n \in DOMAIN names :
          (n \in DOMAIN names' => names'[n].owner # names[n].owner)
            => \/ work # None /\ work.tx.sender = names[n].owner
               \/ epoch' > names[n].expiry + GraceEpochs]_vars

=============================================================================
