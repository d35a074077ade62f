----------------------------- MODULE Attestation -----------------------------
(***************************************************************************)
(* The life of one replicated object outside consensus.  Its holders, the  *)
(* first Replication nodes of the epoch's rendezvous order, store its body *)
(* and sign it; a client's daemon reads the holder set, the epoch and the  *)
(* object from one node, collects a quorum of signatures, and submits an   *)
(* attested transaction; every node checks the proof when it commits the   *)
(* round, holders execute, epochs turn over, and a node that becomes a     *)
(* holder fetches the body in the background.                              *)
(*                                                                         *)
(* The committed order is given (log): nodes apply it one round at a time, *)
(* some behind others.  A hash is the body it is taken of; content is the  *)
(* number of the transaction that wrote it.                                *)
(***************************************************************************)
EXTENDS Integers, Sequences, FiniteSets, Functions

CONSTANTS
  Nodes,
  Ranking,        \* Ranking[e + 1]: the nodes by rendezvous score in epoch e
  Replication,
  EpochLength,
  GraceRounds,
  maxRetries,
  MaxRound,       \* bound: rounds of the log
  MaxTx,          \* bound: transactions the client submits
  MaxLag,         \* bound: rounds a node may be behind the log
  Entries         \* the nodes a client may talk to

VARIABLES
  log,        \* <<>> or <<attested transaction>> for each decided round
  verdicts,   \* verdicts[n][r]: what node n made of round r
  body,       \* body[n]: <<>> or the stored body
  sig,        \* sig[n]: <<>> or the stored signature, with its version
  fetch,      \* fetch[n]: where node n's background fetch is, and what it read
  entry,      \* the node the client talks to
  d,          \* the daemon
  pool        \* attested transactions waiting for a round
avars == <<log, verdicts, body, sig, fetch, entry, d, pool>>

-----------------------------------------------------------------------------
(* Epochs and holders.                                                      *)

applied(n) == Len(verdicts[n])
Epoch(n) == applied(n) \div EpochLength
tracker(n) == Cardinality({r \in 1..applied(n) : verdicts[n][r] = "ok"})

\* The boundary round is committed before the transition it triggers.
commitEpochForRound(r) ==
  LET e == r \div EpochLength IN IF e > 0 /\ r % EpochLength = 0 THEN e - 1 ELSE e

\* The order for an epoch of which no node is yet part is never consulted.
ComputeHolders(e, count) == SubSeq(Ranking[e + 1], 1, IF count < Len(Ranking[e + 1]) THEN count ELSE Len(Ranking[e + 1]))
Holders(e) == ComputeHolders(e, Replication)
QuorumSize(k) == (k * 67 + 99) \div 100
buildIsHolder(n, e) == n \in Range(Holders(e))

\* A mirror without the epoch that just closed.
NoPrevious(n, e) == e = Epoch(n) \/ e = Epoch(n) + 1
\* The mirror resolves the current epoch, the one before and the proxy of the next.
HoldersForEpoch(n, e) == e = Epoch(n) \/ (Epoch(n) > 0 /\ e = Epoch(n) - 1) \/ e = Epoch(n) + 1

objectFetchProbeHolders == 10
\* What a routed read through n can return: its own copy when it is a holder, else the
\* copy of whichever probed node is reachable and has one.
routedRead(n) ==
  IF body[n] # <<>> /\ buildIsHolder(n, Epoch(n)) THEN {body[n]}
  ELSE {body[m] : m \in Range(ComputeHolders(Epoch(n), objectFetchProbeHolders)) \ {n}} \ {<<>>}
fetchObjectFromHolder(n) ==
  {body[m] : m \in Range(ComputeHolders(Epoch(n), objectFetchProbeHolders)) \ {n}} \ {<<>>}

-----------------------------------------------------------------------------
(* The daemon.                                                              *)

Idle == [pc |-> "idle", tx |-> 0, kind |-> "", ref |-> 0, holders |-> 0, epoch |-> 0, obj |-> <<>>,
         sigs |-> {}, failed |-> 0, asked |-> {}, tries |-> 0]

Init ==
  /\ log = <<>> /\ verdicts = [n \in Nodes |-> <<>>]
  /\ body = [n \in Nodes |-> IF buildIsHolder(n, 0) THEN <<[version |-> 0, content |-> 0, owner |-> 0]>> ELSE <<>>]
  /\ sig = [n \in Nodes |-> <<>>]
  /\ fetch = [n \in Nodes |-> [pc |-> "none", got |-> <<>>]]
  /\ entry \in Entries
  /\ d = Idle /\ pool = {}

\* The wallet reads the object for the version its reference declares.
GetObject ==
  /\ d.pc = "idle" /\ d.tx < MaxTx
  /\ \E b \in routedRead(entry), kind \in {"set_object", "reparent"} :
       d' = [Idle EXCEPT !.pc = "sync", !.tx = d.tx + 1, !.kind = kind, !.ref = b[1].version,
                         !.holders = d.holders, !.epoch = d.epoch]
  /\ UNCHANGED <<log, verdicts, body, sig, fetch, entry, pool>>

\* handleGetValidators loads the holder set ...
SyncHolders ==
  /\ d.pc = "sync"
  /\ d' = [d EXCEPT !.pc = "syncEpoch", !.holders = Epoch(entry)]
  /\ UNCHANGED <<log, verdicts, body, sig, fetch, entry, pool>>
\* ... and then the epoch it is served with.
SyncEpoch ==
  /\ d.pc = "syncEpoch"
  /\ d' = [d EXCEPT !.pc = "fetch", !.epoch = Epoch(entry)]
  /\ UNCHANGED <<log, verdicts, body, sig, fetch, entry, pool>>
\* A failed sync is ignored: the daemon keeps the set and the epoch it had.
SyncFails ==
  /\ d.pc = "sync"
  /\ d' = [d EXCEPT !.pc = "fetch"]
  /\ UNCHANGED <<log, verdicts, body, sig, fetch, entry, pool>>

\* collectOne reads the object again, whatever version the reference declares.
collectOne ==
  /\ d.pc = "fetch"
  /\ \E b \in routedRead(entry) :
       d' = [d EXCEPT !.pc = "collect", !.obj = b, !.sigs = {}, !.failed = 0, !.asked = {}]
  /\ UNCHANGED <<log, verdicts, body, sig, fetch, entry, pool>>

\* A holder with the requested version answers with its stored signature for it, or
\* signs now if it is a holder.
storedSig(h) == sig[h] # <<>> /\ sig[h][1].version = d.obj[1].version
signatureForCurrent(h) == IF storedSig(h) THEN sig[h][1].over ELSE body[h][1]
processRequest(h) ==
  /\ body[h] # <<>> /\ body[h][1].version = d.obj[1].version
  /\ storedSig(h) \/ buildIsHolder(h, Epoch(h))
\* ... which the daemon takes only over the body it read itself.
requestOne(h) == processRequest(h) /\ body[h] = d.obj /\ signatureForCurrent(h) = d.obj[1]

BuildATX(sigs) ==
  [tx |-> d.tx, kind |-> d.kind, ref |-> d.ref, obj |-> d.obj[1], sigs |-> sigs, epoch |-> d.epoch,
   collectedFrom |-> d.holders]

Positive(i, h) ==
  LET sigs == d.sigs \cup {[index |-> i, by |-> h]} IN
  IF Cardinality(sigs) >= QuorumSize(Len(Holders(d.holders)))
  THEN d' = [Idle EXCEPT !.tx = d.tx, !.holders = d.holders, !.epoch = d.epoch] /\ pool' = pool \cup {BuildATX(sigs)}
  ELSE d' = [d EXCEPT !.sigs = sigs, !.asked = @ \cup {i}] /\ UNCHANGED pool

\* Fail fast: as soon as the holders left cannot make a quorum, resync and retry.
Negative(i) ==
  LET total == Len(Holders(d.holders)) IN
  /\ d' = IF total - (d.failed + 1) >= QuorumSize(total)
          THEN [d EXCEPT !.failed = @ + 1, !.asked = @ \cup {i}]
          ELSE IF d.tries < maxRetries
          THEN [d EXCEPT !.pc = "sync", !.tries = @ + 1, !.obj = <<>>, !.sigs = {}, !.failed = 0, !.asked = {}]
          ELSE [Idle EXCEPT !.tx = d.tx, !.holders = d.holders, !.epoch = d.epoch]
  /\ UNCHANGED pool

collectUntilQuorum(i) ==
  LET h == Holders(d.holders)[i] IN
  /\ d.pc = "collect" /\ i \notin d.asked
  /\ IF requestOne(h) THEN Positive(i, h) ELSE Negative(i)
  /\ sig' = IF processRequest(h) /\ ~storedSig(h)
            THEN [sig EXCEPT ![h] = <<[version |-> body[h][1].version, over |-> body[h][1]]>>] ELSE sig
  /\ UNCHANGED <<log, verdicts, body, fetch, entry>>
attestRoundTripFails(i) ==
  /\ d.pc = "collect" /\ i \notin d.asked
  /\ Negative(i)
  /\ UNCHANGED <<log, verdicts, body, sig, fetch, entry>>

-----------------------------------------------------------------------------
(* Commit, execution, epoch transition.                                     *)

Decide(round) ==
  /\ Len(log) < MaxRound
  /\ \A n \in Nodes : Len(log) - applied(n) < MaxLag
  /\ log' = Append(log, round)
  /\ pool' = pool \ Range(round)
  /\ UNCHANGED <<verdicts, body, sig, fetch, entry, d>>

withinGrace(r) ==
  LET boundary == commitEpochForRound(r) * EpochLength IN r >= boundary /\ r - boundary < GraceRounds

resolveHolders(n, a, r) ==
  LET ce == commitEpochForRound(r) IN
  /\ \/ a.epoch = ce
     \/ ce > 0 /\ a.epoch = ce - 1 /\ withinGrace(r)
  /\ HoldersForEpoch(n, a.epoch)

\* The bitmap is read against the order of the stamped epoch.
prepareSingleProof(a) ==
  LET holders == Holders(a.epoch)
      keys == {holders[i] : i \in {s.index : s \in a.sigs} \cap DOMAIN holders}
  IN /\ Cardinality(keys) >= QuorumSize(Len(holders))
     /\ {s.by : s \in a.sigs} = keys

\* A version check against the stored copy.
CheckStored(n, r) ==
  IF log[r] = <<>> THEN "empty"
  ELSE LET a == log[r][1] IN
    IF ~resolveHolders(n, a, r) \/ ~prepareSingleProof(a) THEN "proof"
    ELSE IF body[n] # <<>> /\ a.ref # body[n][1].version THEN "version" ELSE "ok"
executeTx(n, r) ==
  IF log[r] = <<>> THEN "empty"
  ELSE LET a == log[r][1] IN
    IF ~resolveHolders(n, a, r) \/ ~prepareSingleProof(a) THEN "proof"
    ELSE IF a.ref # tracker(n) THEN "version" ELSE "ok"

\* An update without ensureMutableVersions: the version is the attested one plus one.
UpdateOnly(a) == [version |-> a.obj.version + 1, content |-> a.tx, owner |-> a.obj.owner]
\* The pod's output is written at the attested version plus one, then stamped with the
\* declared version plus one.
applyUpdatedObjects(a) == [version |-> a.ref + 1, content |-> a.tx, owner |-> a.obj.owner]
\* Any stored body is given the new owner and the version of the tracker.
ReparentObject(b, a) == [b EXCEPT !.owner = a.tx, !.version = a.ref + 1]

Commit(n) ==
  LET r == applied(n) + 1 IN
  /\ r <= Len(log)
  /\ LET v == executeTx(n, r)
         a == log[r][1]
         runs == v = "ok" /\ a.kind = "set_object" /\ buildIsHolder(n, Epoch(n))
         moves == v = "ok" /\ a.kind = "reparent" /\ body[n] # <<>>
         eager == [version |-> a.obj.version + 1, content |-> a.tx, owner |-> a.obj.owner]
     IN /\ verdicts' = [verdicts EXCEPT ![n] = Append(@, v)]
        /\ body' = IF runs THEN [body EXCEPT ![n] = <<applyUpdatedObjects(a)>>]
                   ELSE IF moves THEN [body EXCEPT ![n] = <<ReparentObject(@[1], a)>>]
                   ELSE body
        /\ sig' = IF runs THEN [sig EXCEPT ![n] = <<[version |-> a.obj.version + 1, over |-> eager]>>] ELSE sig
        /\ fetch' = IF r % EpochLength = 0 THEN [fetch EXCEPT ![n].pc = "scan"] ELSE fetch
  /\ UNCHANGED <<log, entry, d, pool>>

\* The scan after a transition: only a holder without a copy fetches; a copy that can be
\* dropped is kept.
scanObjectsForEpoch(n) ==
  /\ fetch[n].pc = "scan"
  /\ fetch' = [fetch EXCEPT ![n].pc = IF buildIsHolder(n, Epoch(n)) /\ body[n] = <<>> THEN "want" ELSE "none"]
  /\ UNCHANGED <<log, verdicts, body, sig, entry, d, pool>>
FetchAnswered(n) ==
  /\ fetch[n].pc = "want"
  /\ \E b \in fetchObjectFromHolder(n) : fetch' = [fetch EXCEPT ![n] = [pc |-> "store", got |-> b]]
  /\ UNCHANGED <<log, verdicts, body, sig, entry, d, pool>>
FetchFails(n) ==
  /\ fetch[n].pc = "want"
  /\ fetch' = [fetch EXCEPT ![n].pc = "none"]
  /\ UNCHANGED <<log, verdicts, body, sig, entry, d, pool>>
SetObject(n) ==
  /\ fetch[n].pc = "store"
  /\ body' = [body EXCEPT ![n] = fetch[n].got]
  /\ fetch' = [fetch EXCEPT ![n] = [pc |-> "none", got |-> <<>>]]
  /\ UNCHANGED <<log, verdicts, sig, entry, d, pool>>

Done ==
  /\ Len(log) = MaxRound /\ \A n \in Nodes : applied(n) = MaxRound /\ fetch[n].pc = "none"
  /\ UNCHANGED avars

Next ==
  \/ GetObject \/ SyncHolders \/ SyncEpoch \/ SyncFails \/ collectOne
  \/ (\E i \in DOMAIN Holders(d.holders) : collectUntilQuorum(i) \/ attestRoundTripFails(i))
  \/ (\E round \in {<<>>} \cup {<<a>> : a \in pool} : Decide(round))
  \/ (\E n \in Nodes : Commit(n) \/ scanObjectsForEpoch(n) \/ FetchAnswered(n) \/ FetchFails(n) \/ SetObject(n))
  \/ Done
Spec == Init /\ [][Next]_avars

-----------------------------------------------------------------------------
\* Nodes that have applied the same rounds decided the same: whether a proof is refused
\* depends on the round it commits in, never on when the node gets there.
VerdictsAgree ==
  \A m, n \in Nodes : \A r \in 1..applied(m) \cap 1..applied(n) : verdicts[m][r] = verdicts[n][r]

\* A proof collected from the holders of the epoch it is stamped with is refused only past
\* its grace: whatever transition falls between collection and commit, the verifier still
\* has that epoch's holders and reads the bitmap in the order the daemon wrote it.
FreshProofAccepted ==
  \A n \in Nodes : \A r \in 1..applied(n) :
    verdicts[n][r] = "proof" =>
      LET a == log[r][1] IN
      \/ a.collectedFrom # a.epoch
      \/ r > (a.epoch + 1) * EpochLength + GraceRounds - 1

\* A node that has been a holder in every epoch so far stores the object at exactly the
\* version the tracker has for it, though the version it executes on is the attested one
\* and a reparent never executes.
HolderKeepsUp ==
  \A n \in Nodes :
    (\A e \in 0..Epoch(n) : buildIsHolder(n, e)) => body[n] # <<>> /\ body[n][1].version = tracker(n)

\* What the aggregation design says of the commit's checks: "the attested version equals
\* the version the transaction declares and the version tracked from the DAG".
AttestedVersionDeclared ==
  \A n \in Nodes : \A r \in 1..applied(n) :
    verdicts[n][r] = "ok" => log[r][1].obj.version = log[r][1].ref
=============================================================================
