--------------------------- MODULE AnchorDecision ---------------------------
(***************************************************************************)
(* The anchor rule of internal/consensus: how ONE node decides, from the   *)
(* vertices it has stored so far, whether a round's designated anchor is   *)
(* committed, skipped or still waited for (anchor_decision.go, anchor.go). *)
(*                                                                         *)
(* The state is the node's store.  It only grows, one vertex at a time, in *)
(* any order the network delivers.  Two nodes of the network are two such  *)
(* stores of one DAG, and the union of two stores is again a store, so the *)
(* nodes agree on a round exactly when no decision changes as a store      *)
(* grows.  Agreement is therefore stated here as properties of the growth  *)
(* of one store.                                                           *)
(***************************************************************************)
EXTENDS Integers, FiniteSets

CONSTANTS
  Producers,    \* everyone whose vertices ingress accepts
  Holders,      \* the epoch holder snapshot the rounds are weighed against
  Faulty,       \* producers that may equivocate and need not cite their own chain
  Quorums,      \* the subsets of Holders with two thirds of the capped stake
  Designated,   \* [Rounds -> Holders], anchorProducerFor
  MaxRound,     \* bound: highest round of a vertex
  MaxCopies,    \* bound: vertices of one producer in one round
  SilenceSpan,  \* anchorSilenceSpanRounds (20 in the code)
  StrictStart,  \* strictStartRound: rounds below it are decided relaxed
  Resolvable,   \* rounds whose epoch has a holder snapshot on this node
  Converged,    \* fullQuorumAchieved: parents are validated, production needs a quorum
  Timely,       \* no vertex arrives later than the silence span allows for
  FirstRound,   \* [Producers -> Rounds], the round a producer starts at
  HashRank      \* [Vertex -> Nat], the byte order of the vertex hashes

VARIABLES
  stored,       \* the vertices in the node's store
  parents       \* the parent links of each stored vertex

vars == <<stored, parents>>

Rounds == 0..MaxRound

\* A vertex, identified by who produced it when; "copy" tells the vertices of
\* an equivocating producer apart.  Its content is its parent links.
Vertex == [round : Rounds, producer : Producers, copy : 1..MaxCopies]

ASSUME ConstantsAssumption ==
  /\ Holders \subseteq Producers
  /\ Faulty \subseteq Producers
  /\ Designated \in [Rounds -> Holders]
  /\ MaxRound \in Nat
  /\ MaxCopies \in Nat \ {0}
  /\ SilenceSpan \in Nat
  /\ StrictStart \in Nat
  /\ Converged \in BOOLEAN
  /\ Timely \in BOOLEAN
  /\ FirstRound \in [Producers -> Rounds]

\* quorumReached is monotone in the stake it is given.
ASSUME QuorumsUpwardClosed ==
  /\ Quorums \subseteq SUBSET Holders
  /\ \A Q \in Quorums, S \in SUBSET Holders : Q \subseteq S => S \in Quorums

\* Two thirds of one stake total overlap.
ASSUME QuorumsIntersect ==
  \A Q1, Q2 \in Quorums : Q1 \cap Q2 # {}

\* Hashes do not collide.
ASSUME HashesDistinct ==
  /\ HashRank \in [Vertex -> Nat]
  /\ \A v, w \in Vertex : HashRank[v] = HashRank[w] => v = w

-----------------------------------------------------------------------------
(* Reading the store *)

IsRelaxed(r) == r < StrictStart

\* The designated producer of r and the holders that weigh round r+1 are known.
Resolves(r) == r \in Resolvable /\ r + 1 \in Resolvable

ReachesRound(r) == \E v \in stored : v.round >= r

\* Mutation: any holder at all counts as a quorum.
AnyHolderIsQuorum(S) == S \cap Holders # {}

ReachesStrictQuorum(S) == S \cap Holders \in Quorums

DesignatedVertices(r) ==
  {v \in stored : v.round = r /\ v.producer = Designated[r]}

\* Producers of the round after c that cite c in some vertex of theirs.
Supporters(c) ==
  {w.producer : w \in {x \in stored : x.round = c.round + 1 /\ c \in parents[x]}}

\* Mutation: a holder with no vertex in round r+1 counts as a blamer.
AbsentBlamers(r) ==
  {p \in Producers :
     \A x \in stored : x.round = r + 1 /\ x.producer = p =>
        parents[x] \cap DesignatedVertices(r) = {}}

\* Producers of round r+1 none of whose vertices cites a candidate of round r.
Blamers(r) ==
  LET citers == {w \in stored : w.round = r + 1}
      supports == {w \in citers : parents[w] \cap DesignatedVertices(r) # {}}
  IN  {w.producer : w \in citers} \ {w.producer : w \in supports}

\* Mutation: the support is compared for equality with the threshold.
CertifiesAtThreshold(S, relaxed) ==
  IF relaxed THEN S \cap Holders # {}
  ELSE ReachesStrictQuorum(S) /\ \A p \in S \cap Holders : ~ReachesStrictQuorum(S \ {p})

Certifies(S, relaxed) ==
  IF relaxed THEN S \cap Holders # {} ELSE ReachesStrictQuorum(S)

CertifiedVertices(r) ==
  {c \in DesignatedVertices(r) : Certifies(Supporters(c), IsRelaxed(r))}

LowestHash(S) == CHOOSE v \in S : \A w \in S : HashRank[v] <= HashRank[w]

-----------------------------------------------------------------------------
(* The direct verdict of a round, from the citations of the next round *)

DirectVerdict(r) ==
  IF ~Resolves(r) THEN "wait"
  ELSE IF CertifiedVertices(r) # {} THEN "certified"
  ELSE IF ~IsRelaxed(r) /\ ReachesStrictQuorum(Blamers(r)) THEN "blamed"
  ELSE "undecided"

CertifiedAnchor(r) == LowestHash(CertifiedVertices(r))

\* Holders with no stored vertex in the span above "frontier", once the whole
\* span has been observed.
SilentHolders(frontier) ==
  IF ReachesRound(frontier + SilenceSpan)
  THEN {h \in Holders :
          \A v \in stored : v.producer = h =>
             v.round \notin frontier..(frontier + SilenceSpan)}
  ELSE {}

DeadDesignatedProducer(r) ==
  /\ Resolves(r)
  /\ DesignatedVertices(r) = {}
  /\ Designated[r] \in SilentHolders(r + 1)

\* Even every holder outside S together falls short of a quorum.
CertificationRuledOut(S) ==
  Holders \in Quorums /\ Holders \ S \notin Quorums

\* certImpossibility: no grade, the reversible grade, the immutable grade.
CertImpossibility(r) ==
  LET blamers == Blamers(r)
      silent  == SilentHolders(r + 1)
  IN  IF DeadDesignatedProducer(r) THEN "silence"
      ELSE IF IsRelaxed(r) \/ ~Resolves(r) THEN "possible"
      ELSE IF CertificationRuledOut(blamers) THEN "blame"
      ELSE IF silent # {} /\ CertificationRuledOut(blamers \cup silent) THEN "silence"
      ELSE "possible"

-----------------------------------------------------------------------------
(* The indirect rule: a later certified anchor decides an undecided round *)

\* The walk of causalBatch from anchor a, layer by layer; it stops at the
\* vertices in "flags" (already committed) and at vertices it does not hold.
CausalHistory(a, flags) ==
  LET layer[i \in Rounds] ==
        IF i = 0 THEN {a} \ flags
        ELSE (UNION {parents[w] : w \in layer[i - 1] \cap stored}) \ flags
  IN  UNION {layer[i] : i \in Rounds}

\* causalBatch's ok result: every vertex the walk meets is held.
HistoryHeld(a, flags) == CausalHistory(a, flags) \subseteq stored

Commit(v) == <<"commit", v>>
Skip == <<"skip">>
Wait == <<"wait">>

\* A holder that neither blamed nor fell silent may yet cite the candidate.
RelaxedSupporterStillPossible(r) ==
  Resolves(r) /\ ~ Holders \subseteq Blamers(r) \cup SilentHolders(r + 1)

DecideMembership(candidates, history) ==
  IF candidates \cap history = {} THEN Skip
  ELSE Commit(LowestHash(candidates \cap history))

\* Mutation: the relaxed regime skips at once, as the strict regime does.
ResolveWithoutWaiting(r, certified, flags) ==
  IF r \notin Resolvable THEN Wait
  ELSE IF DesignatedVertices(r) = {} THEN Skip
  ELSE IF ~HistoryHeld(certified, flags) THEN Wait
  ELSE DecideMembership(DesignatedVertices(r), CausalHistory(certified, flags))

ResolveIndirect(r, certified, flags) ==
  LET candidates == DesignatedVertices(r)
      decision   == DecideMembership(candidates, CausalHistory(certified, flags))
  IN  IF r \notin Resolvable THEN Wait
      ELSE IF candidates = {}
      THEN IF IsRelaxed(r) /\ ~DeadDesignatedProducer(r) THEN Wait ELSE Skip
      ELSE IF ~HistoryHeld(certified, flags) THEN Wait
      ELSE IF decision = Skip /\ IsRelaxed(r) /\ RelaxedSupporterStillPossible(r)
      THEN Wait
      ELSE decision

\* Certifying round r+1 would decide round r as every later anchor does.
AdjacentCertifyAgrees(r) ==
  \/ DeadDesignatedProducer(r)
  \/ /\ r \in Resolvable /\ r + 1 \in Resolvable
     /\ Cardinality(DesignatedVertices(r)) = 1
     /\ DesignatedVertices(r + 1) # {}
     /\ \A w \in DesignatedVertices(r + 1) : parents[w] \cap DesignatedVertices(r) # {}

\* The forward scan for round "r" may go past the later undecided round "later".
ScanPastUndecided(r, later) ==
  /\ CertImpossibility(later) # "possible"
  /\ \/ CertImpossibility(later) = "blame"
     \/ later # r + 1
     \/ AdjacentCertifyAgrees(r)

ScanPasses(r, later) ==
  IF later = r THEN DirectVerdict(r) = "undecided"
  ELSE \/ DirectVerdict(later) = "blamed"
       \/ DirectVerdict(later) = "undecided" /\ ScanPastUndecided(r, later)

\* The rounds at which the scan for round r would stop.
ScanStops(r) ==
  {s \in r..MaxRound : ReachesRound(s) /\ ~ScanPasses(r, s)}

AnchorStatus(r, flags) ==
  LET stops   == ScanStops(r)
      stop    == CHOOSE x \in stops : \A y \in stops : x <= y
      verdict == DirectVerdict(stop)
  IN  IF stops = {} THEN Wait
      ELSE CASE verdict = "certified" /\ stop = r -> Commit(CertifiedAnchor(r))
             [] verdict = "certified" /\ stop # r ->
                  ResolveIndirect(r, CertifiedAnchor(stop), flags)
             [] verdict = "blamed" -> Skip
             [] OTHER -> Wait

-----------------------------------------------------------------------------
(* The store grows *)

\* A vertex an honest producer may have made: its only one of a round it was
\* already producing in.
Producible(v) ==
  v.producer \notin Faulty => v.copy = 1 /\ v.round >= FirstRound[v.producer]

\* Mutation: production does not wait for a quorum of the previous round.
ProducedOnAnyParent(v, ps) ==
  /\ \A w \in ps : Producible(w)
  /\ v.round > FirstRound[v.producer] =>
       \E w \in ps : w.producer = v.producer

\* What produceVertex guarantees of an honest vertex: it cites vertices that
\* exist, the producer's own previous one among them, on a quorum of the
\* previous round.
HonestlyProduced(v, ps) ==
  /\ \A w \in ps : Producible(w)
  /\ v.round > FirstRound[v.producer] =>
       \E w \in ps : w.producer = v.producer
  /\ Converged /\ v.round > 0 => ReachesStrictQuorum({w.producer : w \in ps})

\* What ingress checks of any vertex (validateVertex): parents one round below,
\* at least one of them, all of them held once the network has converged.
Admissible(v, ps) ==
  /\ \A w \in ps : w.round + 1 = v.round
  /\ v.round > 0 => ps # {}
  /\ Converged => ps \subseteq stored

\* The producer was already taken for silent in a span that holds v's round.
ArrivesTooLate(v) ==
  \E frontier \in Rounds :
     /\ v.round \in frontier..(frontier + SilenceSpan)
     /\ v.producer \in SilentHolders(frontier)

AddVertex(v, ps) ==
  /\ v \notin stored
  /\ Producible(v)
  /\ Admissible(v, ps)
  /\ v.producer \notin Faulty => HonestlyProduced(v, ps)
  /\ Timely => ~ArrivesTooLate(v)
  /\ stored' = stored \cup {v}
  /\ parents' = [parents EXCEPT ![v] = ps]

Init ==
  /\ stored = {}
  /\ parents = [v \in Vertex |-> {}]

\* The vertices a vertex of round r may name as parents.
PreviousVertices(r) == {w \in Vertex : w.round < r /\ r <= w.round + 2}

Next == \E v \in Vertex : \E ps \in SUBSET PreviousVertices(v.round) : AddVertex(v, ps)

Spec == Init /\ [][Next]_vars

-----------------------------------------------------------------------------
(* Properties *)

\* Every stored vertex is a vertex of a known round with parents one round below
\* (store.add, validateParents).
TypeOK ==
  /\ stored \subseteq Vertex
  /\ parents \in [Vertex -> SUBSET Vertex]
  /\ \A v \in Vertex : \A w \in parents[v] : w.round + 1 = v.round

\* verdictFromTally tests "certified" before "blamed"; the order never matters,
\* because a round whose anchor has a certificate never has a blame quorum.
CertificateExcludesBlame ==
  \A r \in Rounds :
     ~IsRelaxed(r) /\ CertifiedVertices(r) # {} => ~ReachesStrictQuorum(Blamers(r))

\* A certificate, once formed from the stored citations, is never lost to
\* vertices that arrive later, equivocations included.
CertificatesAccumulate ==
  [][\A r \in Rounds : CertifiedVertices(r) \subseteq CertifiedVertices(r)']_vars

\* A certified round stays certified, by the same vertex: directAnchorVerdict
\* never moves the anchor to another vertex of the designated producer.
CertifiedAnchorFinal ==
  [][\A r \in Rounds :
       DirectVerdict(r) = "certified" =>
          DirectVerdict(r)' = "certified" /\ CertifiedAnchor(r)' = CertifiedAnchor(r)]_vars

\* A round blamed by a quorum of stored next-round vertices stays blamed.
BlameFinal ==
  [][\A r \in Rounds : DirectVerdict(r) = "blamed" => DirectVerdict(r)' = "blamed"]_vars

\* Once stored blame alone rules certification out, the round is never certified
\* (the immutable grade of certImpossibility, on which the scan passes a round).
BlameImpossibilityFinal ==
  [][\A r \in Rounds :
       CertImpossibility(r) = "blame" =>
          DirectVerdict(r)' # "certified" /\ CertImpossibility(r)' # "possible"]_vars

\* The claim scanPastUndecided rests on: while a strict round is undecided and
\* its designated vertex is held, every certified anchor two or more rounds above
\* carries that vertex in its history.
FarAnchorsCarryCandidate ==
  \A r, s \in Rounds :
     /\ ~IsRelaxed(r) /\ s >= r + 2
     /\ DirectVerdict(r) = "undecided" /\ DirectVerdict(s) = "certified"
     => DesignatedVertices(r) \subseteq CausalHistory(CertifiedAnchor(s), {})

\* A committed round keeps its decision however the store grows.
CommitFinal ==
  [][\A r \in Rounds :
       AnchorStatus(r, {})[1] = "commit" => AnchorStatus(r, {})' = AnchorStatus(r, {})]_vars

=============================================================================
