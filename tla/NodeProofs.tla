------------------------------ MODULE NodeProofs ------------------------------
(***************************************************************************)
(* Proofs about parts of a node that share no state, for every value of    *)
(* their bounds and limits: the decision on the anchor of a round, for     *)
(* every store a node may have and every vertex that may still arrive; the *)
(* filter of the relay under races, partitions and clean-up; and the       *)
(* status a client is told, against the commit path and the channel        *)
(* between them.                                                           *)
(***************************************************************************)
EXTENDS AnchorDecision, Relay, Submissions, WellFoundedInduction, TLAPS

\* Every non-empty set of natural numbers has a least element.
LEMMA LeastNat ==
  ASSUME NEW T \in SUBSET Nat, T # {}
  PROVE  \E x \in T : \A y \in T : x <= y
<1>1. PICK x \in T : \A y \in T : ~(<<y, x>> \in OpToRel(<, Nat))
  BY Zenon, NatLessThanWellFounded, WFMin
<1>2. \A y \in T : ~(y < x)
  BY Zenon, <1>1 DEF OpToRel
<1>3. QED
  BY <1>2

-----------------------------------------------------------------------------
(* The decision on an anchor *)

\* The store holds vertices whose parents lie one round below (store.add after
\* validateParents), whatever is delivered.
THEOREM TypeCorrect == Spec => []TypeOK
<1>1. Init => TypeOK
  BY DEF Init, TypeOK
<1>2. TypeOK /\ [Next]_vars => TypeOK'
  <2> SUFFICES ASSUME TypeOK, [Next]_vars
               PROVE  TypeOK'
    OBVIOUS
  <2>1. CASE UNCHANGED vars
    BY <2>1 DEF vars, TypeOK
  <2>2. CASE Next
    <3>1. PICK v \in Vertex : \E ps \in SUBSET PreviousVertices(v.round) : AddVertex(v, ps)
      BY <2>2 DEF Next
    <3>a. PICK ps \in SUBSET PreviousVertices(v.round) : AddVertex(v, ps)
      BY <3>1
    <3>2. ps \subseteq Vertex /\ \A w \in ps : w.round + 1 = v.round
      BY <3>a DEF PreviousVertices, AddVertex, Admissible
    <3>3. stored' = stored \cup {v} /\ parents' = [parents EXCEPT ![v] = ps]
      BY <3>a DEF AddVertex
    <3>4. QED
      BY <3>2, <3>3 DEF TypeOK
  <2>3. QED
    BY <2>1, <2>2
<1>3. QED
  BY <1>1, <1>2, PTL DEF Spec

\* The supporters of a designated vertex and the blamers of its round share no
\* producer (tallyCitations puts a producer on one side only).
LEMMA SupportersAreNotBlamers ==
  ASSUME NEW r \in Rounds, NEW c \in DesignatedVertices(r)
  PROVE  Supporters(c) \cap Blamers(r) = {}
<1> SUFFICES ASSUME NEW p \in Supporters(c), p \in Blamers(r)
             PROVE  FALSE
  OBVIOUS
<1>1. c.round = r
  BY DEF DesignatedVertices
<1>2. PICK w \in stored : /\ w.round = c.round + 1
                          /\ c \in parents[w]
                          /\ p = w.producer
  BY DEF Supporters
<1>3. w.round = r + 1 /\ parents[w] \cap DesignatedVertices(r) # {}
  BY <1>1, <1>2
<1>4. QED
  BY <1>2, <1>3 DEF Blamers

\* verdictFromTally: a certified strict round never has a blame quorum, because
\* two stake quorums share a holder.
THEOREM CertificateExcludesBlameHolds == Spec => []CertificateExcludesBlame
<1>1. CertificateExcludesBlame
  <2> SUFFICES ASSUME NEW r \in Rounds, ~IsRelaxed(r),
                      NEW c \in CertifiedVertices(r),
                      ReachesStrictQuorum(Blamers(r))
               PROVE  FALSE
    BY DEF CertificateExcludesBlame
  <2>1. c \in DesignatedVertices(r) /\ ReachesStrictQuorum(Supporters(c))
    BY DEF CertifiedVertices, Certifies
  <2>2. (Supporters(c) \cap Holders) \cap (Blamers(r) \cap Holders) # {}
    BY <2>1, QuorumsIntersect DEF ReachesStrictQuorum
  <2>3. QED
    BY <2>1, <2>2, SupportersAreNotBlamers
<1>2. QED
  BY <1>1, PTL

\* A growing store keeps every citation it had.
LEMMA SupportersGrow ==
  ASSUME TypeOK, [Next]_vars, NEW c \in stored
  PROVE  Supporters(c) \subseteq Supporters(c)'
<1>1. CASE UNCHANGED vars
  BY <1>1 DEF vars, Supporters
<1>2. CASE Next
  <2>1. PICK v \in Vertex : \E ps \in SUBSET PreviousVertices(v.round) : AddVertex(v, ps)
    BY <1>2 DEF Next
  <2>a. PICK ps \in SUBSET PreviousVertices(v.round) : AddVertex(v, ps)
    BY <2>1
  <2>2. \A w \in stored : w \in stored' /\ parents'[w] = parents[w]
    BY <2>a DEF AddVertex, TypeOK
  <2>3. QED
    BY <2>2 DEF Supporters
<1>3. QED
  BY <1>1, <1>2

\* One step takes no certificate away.
LEMMA CertificatesGrow ==
  ASSUME TypeOK, [Next]_vars, NEW r \in Rounds
  PROVE  CertifiedVertices(r) \subseteq CertifiedVertices(r)'
<1> SUFFICES ASSUME NEW c \in CertifiedVertices(r)
             PROVE  c \in CertifiedVertices(r)'
  OBVIOUS
<1>1. c \in DesignatedVertices(r) /\ Certifies(Supporters(c), IsRelaxed(r))
  BY DEF CertifiedVertices
<1>2. c \in stored
  BY <1>1 DEF DesignatedVertices
<1>3. stored \subseteq stored'
  BY DEF Next, AddVertex, vars
<1>4. c \in DesignatedVertices(r)'
  BY <1>1, <1>2, <1>3 DEF DesignatedVertices
<1>5. Supporters(c) \subseteq Supporters(c)'
  BY <1>2, SupportersGrow
<1>6. Certifies(Supporters(c)', IsRelaxed(r))
  BY <1>1, <1>5, QuorumsUpwardClosed DEF Certifies, ReachesStrictQuorum
<1>7. QED
  BY <1>4, <1>6 DEF CertifiedVertices, IsRelaxed, Certifies, ReachesStrictQuorum

\* directAnchorVerdict: no vertex that arrives later, an equivocating one
\* included, takes a certificate away from a vertex that has one.
THEOREM CertificatesAccumulateHolds == Spec => CertificatesAccumulate
<1>1. TypeOK /\ [Next]_vars =>
        [\A r \in Rounds : CertifiedVertices(r) \subseteq CertifiedVertices(r)']_vars
  BY CertificatesGrow
<1>2. QED
  BY <1>1, TypeCorrect, PTL DEF Spec, CertificatesAccumulate

-----------------------------------------------------------------------------
(* With no equivocation and validated parents, verdicts never change *)

\* What validateParents and honest production keep true of the store: it holds
\* the parents of all it holds, and one vertex of an honest producer per round.
ClosedStore ==
  /\ TypeOK
  /\ Converged => \A v \in stored : parents[v] \subseteq stored
  /\ \A v \in stored : v.producer \notin Faulty => v.copy = 1

\* AddVertex keeps the store causally closed once parents are validated, and
\* free of second vertices of honest producers.
THEOREM StoreStaysClosed == Spec => []ClosedStore
<1>1. Init => ClosedStore
  BY DEF Init, ClosedStore, TypeOK
<1>2. ClosedStore /\ TypeOK' /\ [Next]_vars => ClosedStore'
  <2> SUFFICES ASSUME ClosedStore, TypeOK', [Next]_vars
               PROVE  ClosedStore'
    OBVIOUS
  <2>1. CASE UNCHANGED vars
    BY <2>1 DEF vars, ClosedStore, TypeOK
  <2>2. CASE Next
    <3>1. PICK v \in Vertex : \E ps \in SUBSET PreviousVertices(v.round) : AddVertex(v, ps)
      BY <2>2 DEF Next
    <3>2. PICK ps \in SUBSET PreviousVertices(v.round) : AddVertex(v, ps)
      BY <3>1
    <3>3. /\ stored' = stored \cup {v}
          /\ parents' = [parents EXCEPT ![v] = ps]
          /\ v.producer \notin Faulty => v.copy = 1
          /\ Converged => ps \subseteq stored
      BY <3>2 DEF AddVertex, Producible, Admissible
    <3>4. Converged => \A w \in stored' : parents'[w] \subseteq stored'
      BY <3>3 DEF ClosedStore, TypeOK
    <3>5. QED
      BY <3>3, <3>4 DEF ClosedStore
  <2>3. QED
    BY <2>1, <2>2
<1>3. QED
  BY <1>1, <1>2, TypeCorrect, PTL DEF Spec

\* Without equivocation a stored blamer stays a blamer.
LEMMA BlamersGrow ==
  ASSUME Faulty = {}, Converged, ClosedStore, [Next]_vars, NEW r \in Rounds
  PROVE  Blamers(r) \subseteq Blamers(r)'
<1>1. CASE UNCHANGED vars
  BY <1>1 DEF vars, Blamers, DesignatedVertices
<1>2. CASE Next
  <2>1. PICK v \in Vertex : \E ps \in SUBSET PreviousVertices(v.round) : AddVertex(v, ps)
    BY <1>2 DEF Next
  <2>2. PICK ps \in SUBSET PreviousVertices(v.round) : AddVertex(v, ps)
    BY <2>1
  <2>3. /\ v \notin stored
        /\ stored' = stored \cup {v}
        /\ \A w \in stored : parents'[w] = parents[w]
        /\ v.copy = 1
    BY <2>2 DEF AddVertex, Producible, ClosedStore, TypeOK
  <2> SUFFICES ASSUME NEW p \in Blamers(r)
               PROVE  p \in Blamers(r)'
    OBVIOUS
  <2>4. PICK x \in stored : x.round = r + 1 /\ x.producer = p
    BY DEF Blamers
  <2>5. \A w \in stored : w.round = r + 1 /\ w.producer = p =>
                           parents[w] \cap DesignatedVertices(r) = {}
    BY DEF Blamers
  <2>6. v.round # r + 1 \/ v.producer # p
    <3> SUFFICES ASSUME v.round = r + 1, v.producer = p
                 PROVE  FALSE
      OBVIOUS
    <3>1. x \in Vertex /\ x.copy = 1
      BY DEF ClosedStore, TypeOK
    <3>2. x = v
      BY <2>3, <2>4, <3>1 DEF Vertex
    <3>3. QED
      BY <2>3, <3>2
  <2>7. \A w \in stored : parents[w] \cap DesignatedVertices(r)' = parents[w] \cap DesignatedVertices(r)
    BY <2>3 DEF ClosedStore, DesignatedVertices
  <2>8. \A w \in stored' : w.round = r + 1 /\ w.producer = p =>
                            parents'[w] \cap DesignatedVertices(r)' = {}
    BY <2>3, <2>5, <2>6, <2>7
  <2>9. QED
    BY <2>3, <2>4, <2>8 DEF Blamers
<1>3. QED
  BY <1>1, <1>2

\* A round blamed by a quorum of the stored next-round vertices stays blamed on
\* every extension of the store, as long as nobody equivocates.
THEOREM BlameFinalHolds ==
  ASSUME Faulty = {}, Converged
  PROVE  Spec => BlameFinal
<1>1. ClosedStore /\ CertificateExcludesBlame' /\ [Next]_vars =>
        [\A r \in Rounds : DirectVerdict(r) = "blamed" => DirectVerdict(r)' = "blamed"]_vars
  <2> SUFFICES ASSUME ClosedStore, CertificateExcludesBlame', [Next]_vars,
                      NEW r \in Rounds, DirectVerdict(r) = "blamed"
               PROVE  DirectVerdict(r)' = "blamed"
    OBVIOUS
  <2>1. Resolves(r) /\ ~IsRelaxed(r) /\ ReachesStrictQuorum(Blamers(r))
    BY DEF DirectVerdict
  <2>2. Blamers(r) \subseteq Blamers(r)'
    BY BlamersGrow
  <2>3. ReachesStrictQuorum(Blamers(r)')
    BY <2>1, <2>2, QuorumsUpwardClosed DEF ReachesStrictQuorum
  <2>4. CertifiedVertices(r)' = {}
    BY <2>1, <2>3 DEF CertificateExcludesBlame, IsRelaxed, ReachesStrictQuorum
  <2>5. QED
    BY <2>1, <2>3, <2>4 DEF DirectVerdict, Resolves, IsRelaxed, ReachesStrictQuorum
<1>2. QED
  BY <1>1, StoreStaysClosed, CertificateExcludesBlameHolds, PTL DEF Spec, BlameFinal

\* A certified round stays certified, by the same vertex, on every extension of
\* the store, as long as nobody equivocates; the relaxed regime included.
THEOREM CertifiedAnchorFinalHolds ==
  ASSUME Faulty = {}
  PROVE  Spec => CertifiedAnchorFinal
<1>1. ClosedStore /\ ClosedStore' /\ [Next]_vars =>
        [\A r \in Rounds :
           DirectVerdict(r) = "certified" =>
              DirectVerdict(r)' = "certified" /\ CertifiedAnchor(r)' = CertifiedAnchor(r)]_vars
  <2> SUFFICES ASSUME ClosedStore, ClosedStore', [Next]_vars,
                      NEW r \in Rounds, DirectVerdict(r) = "certified"
               PROVE  DirectVerdict(r)' = "certified" /\ CertifiedAnchor(r)' = CertifiedAnchor(r)
    OBVIOUS
  <2>1. Resolves(r) /\ CertifiedVertices(r) # {}
    BY DEF DirectVerdict
  <2>2. PICK c : c \in CertifiedVertices(r)
    BY <2>1
  <2>3. CertifiedVertices(r) \subseteq CertifiedVertices(r)'
    BY CertificatesGrow DEF ClosedStore
  <2>4. \A e \in DesignatedVertices(r)' : e = c
    <3> SUFFICES ASSUME NEW e \in DesignatedVertices(r)'
                 PROVE  e = c
      OBVIOUS
    <3>1. c \in DesignatedVertices(r)'
      BY <2>2, <2>3 DEF CertifiedVertices
    <3>2. /\ c \in Vertex /\ c.round = r /\ c.producer = Designated[r] /\ c.copy = 1
          /\ e \in Vertex /\ e.round = r /\ e.producer = Designated[r] /\ e.copy = 1
      BY <3>1 DEF ClosedStore, TypeOK, DesignatedVertices
    <3>3. QED
      BY <3>2 DEF Vertex
  <2>5. CertifiedVertices(r)' = {c} /\ CertifiedVertices(r) = {c}
    BY <2>2, <2>3, <2>4 DEF CertifiedVertices
  <2>6. CertifiedAnchor(r)' = CertifiedAnchor(r)
    BY <2>5 DEF CertifiedAnchor
  <2>7. QED
    BY <2>1, <2>5, <2>6 DEF DirectVerdict, Resolves
<1>2. QED
  BY <1>1, StoreStaysClosed, PTL DEF Spec, CertifiedAnchorFinal

\* No producer both supports and blames a round, in any state.
SupportersNeverBlame ==
  \A r \in Rounds : \A c \in DesignatedVertices(r) : Supporters(c) \cap Blamers(r) = {}

\* certImpossibility: once stored blame alone rules a certificate out, no vertex
\* that arrives later certifies the round, as long as nobody equivocates.
THEOREM BlameImpossibilityFinalHolds ==
  ASSUME Faulty = {}, Converged
  PROVE  Spec => BlameImpossibilityFinal
<1>1. SupportersNeverBlame
  BY SupportersAreNotBlamers DEF SupportersNeverBlame
<1>2. ClosedStore /\ SupportersNeverBlame' /\ [Next]_vars =>
        [\A r \in Rounds :
           CertImpossibility(r) = "blame" =>
              DirectVerdict(r)' # "certified" /\ CertImpossibility(r)' # "possible"]_vars
  <2> SUFFICES ASSUME ClosedStore, SupportersNeverBlame', [Next]_vars,
                      NEW r \in Rounds, CertImpossibility(r) = "blame"
               PROVE  DirectVerdict(r)' # "certified" /\ CertImpossibility(r)' # "possible"
    OBVIOUS
  <2>1. Resolves(r) /\ ~IsRelaxed(r) /\ CertificationRuledOut(Blamers(r))
    BY DEF CertImpossibility
  <2>2. Blamers(r) \subseteq Blamers(r)'
    BY BlamersGrow
  <2>3. CertificationRuledOut(Blamers(r)')
    BY <2>1, <2>2, QuorumsUpwardClosed DEF CertificationRuledOut
  <2>4. CertifiedVertices(r)' = {}
    <3> SUFFICES ASSUME NEW c \in CertifiedVertices(r)'
                 PROVE  FALSE
      OBVIOUS
    <3>1. c \in DesignatedVertices(r)' /\ Supporters(c)' \cap Holders \in Quorums
      BY <2>1 DEF CertifiedVertices, Certifies, ReachesStrictQuorum, IsRelaxed
    <3>2. Supporters(c)' \cap Holders \subseteq Holders \ Blamers(r)'
      BY <3>1 DEF SupportersNeverBlame
    <3>3. Holders \ Blamers(r)' \in Quorums
      BY <3>1, <3>2, QuorumsUpwardClosed
    <3>4. QED
      BY <2>3, <3>3 DEF CertificationRuledOut
  <2>5. DirectVerdict(r)' # "certified"
    BY <2>4 DEF DirectVerdict
  <2>6. CertImpossibility(r)' # "possible"
    BY <2>1, <2>3 DEF CertImpossibility, CertificationRuledOut, Resolves, IsRelaxed
  <2>7. QED
    BY <2>5, <2>6
<1>3. QED
  BY <1>1, <1>2, StoreStaysClosed, PTL DEF Spec, BlameImpossibilityFinal

-----------------------------------------------------------------------------
(* Every far anchor carries a held candidate *)

\* The layers of causalBatch's walk, as far as round n.
LayersTo(f, n, a, flags) ==
  f = [i \in 0..n |->
         IF i = 0 THEN {a} \ flags
         ELSE (UNION {parents[w] : w \in f[i - 1] \cap stored}) \ flags]

\* The walk of causalBatch has layers to any depth: each is determined by the
\* one before it.
LEMMA LayersExist ==
  ASSUME NEW a, NEW flags, NEW n \in Nat
  PROVE  \E f : LayersTo(f, n, a, flags)
<1> DEFINE Missing == {k \in Nat : ~\E f : LayersTo(f, k, a, flags)}
<1> SUFFICES ASSUME Missing # {} PROVE FALSE
  OBVIOUS
<1>1. PICK k \in Missing : \A j \in Missing : k <= j
  <2>1. Missing \in SUBSET Nat
    OBVIOUS
  <2>2. QED
    BY Zenon, <2>1, LeastNat
<1>2. k # 0
  <2> SUFFICES ASSUME k = 0 PROVE FALSE
    OBVIOUS
  <2> DEFINE g == [i \in 0..0 |-> {a} \ flags]
  <2>1. LayersTo(g, 0, a, flags)
    BY DEF LayersTo
  <2>2. QED
    BY <1>1, <2>1
<1>3. PICK f : LayersTo(f, k - 1, a, flags)
  BY <1>1, <1>2
<1> DEFINE Above == (UNION {parents[w] : w \in f[k - 1] \cap stored}) \ flags
           g == [i \in 0..k |-> IF i = k THEN Above ELSE f[i]]
<1>4. \A i \in 0..(k - 1) :
        f[i] = IF i = 0 THEN {a} \ flags
               ELSE (UNION {parents[w] : w \in f[i - 1] \cap stored}) \ flags
  BY Zenon, <1>3 DEF LayersTo
<1>5. \A i \in 0..k :
        g[i] = IF i = 0 THEN {a} \ flags
               ELSE (UNION {parents[w] : w \in g[i - 1] \cap stored}) \ flags
  <2> SUFFICES ASSUME NEW i \in 0..k
               PROVE  g[i] = IF i = 0 THEN {a} \ flags
                             ELSE (UNION {parents[w] : w \in g[i - 1] \cap stored}) \ flags
    OBVIOUS
  <2>1. CASE i = 0
    <3>1. i \in 0..(k - 1) /\ g[i] = f[i]
      BY <1>1, <1>2, <2>1
    <3>2. f[i] = {a} \ flags
      BY Zenon, <1>4, <2>1, <3>1
    <3>3. QED
      BY <2>1, <3>1, <3>2
  <2>2. CASE i # 0
    <3>1. i - 1 \in 0..(k - 1) /\ g[i - 1] = f[i - 1]
      BY <1>1, <2>2
    <3>2. CASE i = k
      BY <2>2, <3>1, <3>2
    <3>3. CASE i # k
      <4>1. i \in 0..(k - 1) /\ g[i] = f[i]
        BY <1>1, <3>3
      <4>2. QED
        BY Zenon, <1>4, <2>2, <3>1, <4>1
    <3>4. QED
      BY <3>2, <3>3
  <2>3. QED
    BY <2>1, <2>2
<1>6. g = [i \in 0..k |->
             IF i = 0 THEN {a} \ flags
             ELSE (UNION {parents[w] : w \in g[i - 1] \cap stored}) \ flags]
  <2> HIDE DEF Above
  <2>1. g = [i \in 0..k |-> g[i]]
    OBVIOUS
  <2> HIDE DEF g
  <2>2. QED
    BY Zenon, <1>5, <2>1
<1>7. LayersTo(g, k, a, flags)
  BY Zenon, <1>6 DEF LayersTo
<1>8. QED
  BY <1>1, <1>7

\* CausalHistory is the union of such layers.
LEMMA HistoryLayers ==
  ASSUME NEW a, NEW flags
  PROVE  \E f : /\ LayersTo(f, MaxRound, a, flags)
                /\ CausalHistory(a, flags) = UNION {f[i] : i \in Rounds}
<1> DEFINE L == CHOOSE f : f = [i \in Rounds |->
                  IF i = 0 THEN {a} \ flags
                  ELSE (UNION {parents[w] : w \in f[i - 1] \cap stored}) \ flags]
<1>1. \E f : f = [i \in Rounds |->
                  IF i = 0 THEN {a} \ flags
                  ELSE (UNION {parents[w] : w \in f[i - 1] \cap stored}) \ flags]
  <2>1. MaxRound \in Nat
    BY ConstantsAssumption
  <2>2. \E f : LayersTo(f, MaxRound, a, flags)
    BY Zenon, <2>1, LayersExist
  <2>3. QED
    BY Zenon, <2>2 DEF LayersTo, Rounds
<1>2. LayersTo(L, MaxRound, a, flags)
  BY Zenon, <1>1 DEF LayersTo, Rounds
<1>3. CausalHistory(a, flags) = UNION {L[i] : i \in Rounds}
  BY Zenon DEF CausalHistory
<1>4. QED
  BY Zenon, <1>2, <1>3

\* A converged node holds, of honest producers, only vertices that cite a quorum
\* of the round below (produceVertex).
QuorumParents ==
  \A v \in stored : v.round > 0 => ReachesStrictQuorum({w.producer : w \in parents[v]})

\* Production on a quorum of the previous round keeps that so.
LEMMA QuorumParentsKept ==
  ASSUME Faulty = {}, Converged, TypeOK, QuorumParents, [Next]_vars
  PROVE  QuorumParents'
<1>1. CASE UNCHANGED vars
  BY <1>1 DEF vars, QuorumParents, ReachesStrictQuorum
<1>2. CASE Next
  <2>1. PICK v \in Vertex : \E ps \in SUBSET PreviousVertices(v.round) : AddVertex(v, ps)
    BY <1>2 DEF Next
  <2>2. PICK ps \in SUBSET PreviousVertices(v.round) : AddVertex(v, ps)
    BY <2>1
  <2>3. /\ stored' = stored \cup {v}
        /\ parents'[v] = ps
        /\ \A w \in stored : parents'[w] = parents[w]
        /\ v.round > 0 => ReachesStrictQuorum({w.producer : w \in ps})
    BY <2>2 DEF AddVertex, HonestlyProduced, TypeOK
  <2>4. QED
    BY Zenon, <2>3 DEF QuorumParents, ReachesStrictQuorum
<1>3. QED
  BY <1>1, <1>2

\* Without equivocation a producer has one vertex per round.
LEMMA OneVertexPerRound ==
  ASSUME Faulty = {}, ClosedStore, NEW v \in stored, NEW w \in stored,
         v.round = w.round, v.producer = w.producer
  PROVE  v = w
<1>1. v \in Vertex /\ w \in Vertex /\ v.copy = 1 /\ w.copy = 1
  BY DEF ClosedStore, TypeOK
<1>2. QED
  BY <1>1 DEF Vertex

\* While round r is not blamed, a vertex two rounds above has a parent that cites
\* a designated vertex of r: else the quorum of its parents would blame r.
LEMMA GrandchildCites ==
  ASSUME Faulty = {}, Converged, ClosedStore, QuorumParents,
         NEW r \in Rounds, ~IsRelaxed(r), DirectVerdict(r) = "undecided",
         NEW x \in stored, x.round = r + 2
  PROVE  \E y \in parents[x] : y.round = r + 1 /\ parents[y] \cap DesignatedVertices(r) # {}
<1> SUFFICES ASSUME \A y \in parents[x] :
                      y.round = r + 1 => parents[y] \cap DesignatedVertices(r) = {}
             PROVE  FALSE
  OBVIOUS
<1>0. r \in Nat /\ x \in Vertex
  BY ConstantsAssumption DEF Rounds, ClosedStore, TypeOK
<1>1. \A y \in parents[x] : y \in stored /\ y.round = r + 1
  <2> SUFFICES ASSUME NEW y \in parents[x] PROVE y \in stored /\ y.round = r + 1
    OBVIOUS
  <2>1. y \in stored /\ y \in Vertex /\ y.round + 1 = x.round
    BY <1>0 DEF ClosedStore, TypeOK
  <2>2. y.round \in Int
    BY <2>1 DEF Vertex, Rounds
  <2>3. QED
    BY <1>0, <2>1, <2>2
<1>2. {y.producer : y \in parents[x]} \subseteq Blamers(r)
  <2> SUFFICES ASSUME NEW y \in parents[x] PROVE y.producer \in Blamers(r)
    OBVIOUS
  <2>1. \A w \in stored : w.round = r + 1 /\ w.producer = y.producer => w = y
    BY <1>1, OneVertexPerRound
  <2>2. QED
    BY <1>1, <2>1 DEF Blamers
<1>3. ReachesStrictQuorum({y.producer : y \in parents[x]})
  BY <1>0 DEF QuorumParents
<1>4. ReachesStrictQuorum(Blamers(r))
  BY <1>2, <1>3, QuorumsUpwardClosed DEF ReachesStrictQuorum
<1>5. QED
  BY <1>4 DEF DirectVerdict

\* The walk from a held vertex of round s meets, in each layer, held vertices of
\* the next round below and at least one of them.
LEMMA LayersDescend ==
  ASSUME Faulty = {}, Converged, ClosedStore, QuorumParents,
         NEW a \in stored, NEW f, LayersTo(f, MaxRound, a, {}), NEW i \in 0..a.round
  PROVE  /\ f[i] # {}
         /\ \A w \in f[i] : w \in stored /\ w.round = a.round - i
<1> DEFINE Good(j) == /\ f[j] # {}
                      /\ \A w \in f[j] : w \in stored /\ w.round = a.round - j
           Bad == {j \in 0..a.round : ~Good(j)}
<1>0. a.round \in Nat /\ a.round <= MaxRound /\ MaxRound \in Nat
  BY ConstantsAssumption DEF ClosedStore, TypeOK, Vertex, Rounds
<1>1. /\ f[0] = {a}
      /\ \A j \in 1..a.round : f[j] = UNION {parents[w] : w \in f[j - 1] \cap stored}
  BY <1>0 DEF LayersTo
<1> SUFFICES ASSUME Bad # {} PROVE FALSE
  OBVIOUS
<1>2. PICK k \in Bad : \A j \in Bad : k <= j
  <2>1. Bad \in SUBSET Nat
    BY <1>0
  <2>2. QED
    BY Zenon, <2>1, LeastNat
<1>3. Good(0)
  BY <1>0, <1>1
<1>4. k \in 1..a.round /\ Good(k - 1)
  BY <1>0, <1>2, <1>3
<1>5. PICK u : u \in f[k - 1]
  BY <1>4
<1>6. \A w \in f[k - 1] : w \in stored /\ w.round = a.round - (k - 1)
  BY <1>4
<1>7. f[k] = UNION {parents[w] : w \in f[k - 1]}
  BY <1>1, <1>4, <1>6
<1>8. \A w \in f[k] : w \in stored /\ w.round = a.round - k
  <2> SUFFICES ASSUME NEW w \in f[k] PROVE w \in stored /\ w.round = a.round - k
    OBVIOUS
  <2>1. PICK z \in f[k - 1] : w \in parents[z]
    BY <1>7
  <2>2. z \in stored /\ z.round = a.round - (k - 1)
    BY <1>6
  <2>3. w \in stored /\ w \in Vertex /\ w.round + 1 = z.round
    BY <2>1, <2>2 DEF ClosedStore, TypeOK
  <2>4. w.round \in Int
    BY <2>3 DEF Vertex, Rounds
  <2>5. QED
    BY <1>0, <1>4, <2>2, <2>3, <2>4
<1>9. f[k] # {}
  <2>1. u \in stored /\ u.round > 0
    BY <1>0, <1>4, <1>5, <1>6
  <2>2. {w.producer : w \in parents[u]} \cap Holders \in Quorums
    BY <2>1 DEF QuorumParents, ReachesStrictQuorum
  <2>3. parents[u] # {}
    BY <2>2, QuorumsIntersect
  <2>4. QED
    BY <1>5, <1>7, <2>3
<1>10. QED
  BY <1>2, <1>8, <1>9

\* scanPastUndecided's claim: while a strict round is undecided and its designated
\* vertex is held, every certified anchor two or more rounds above carries it.
THEOREM FarAnchorsCarryCandidateHolds ==
  ASSUME Faulty = {}, Converged
  PROVE  Spec => []FarAnchorsCarryCandidate
<1>1. Init => QuorumParents
  BY DEF Init, QuorumParents
<1>2. TypeOK /\ QuorumParents /\ [Next]_vars => QuorumParents'
  BY QuorumParentsKept
<1>3. ClosedStore /\ QuorumParents => FarAnchorsCarryCandidate
  <2> SUFFICES ASSUME ClosedStore, QuorumParents, NEW r \in Rounds, NEW s \in Rounds,
                      ~IsRelaxed(r), s >= r + 2,
                      DirectVerdict(r) = "undecided", DirectVerdict(s) = "certified",
                      NEW c \in DesignatedVertices(r)
               PROVE  c \in CausalHistory(CertifiedAnchor(s), {})
    BY DEF FarAnchorsCarryCandidate
  <2>0. r \in Nat /\ s \in Nat /\ MaxRound \in Nat /\ s <= MaxRound
    BY ConstantsAssumption DEF Rounds
  <2>1. PICK a : a \in CertifiedVertices(s)
    BY DEF DirectVerdict
  <2>2. a \in stored /\ a.round = s
    BY <2>1 DEF CertifiedVertices, DesignatedVertices
  <2>3. CertifiedAnchor(s) = a
    <3>1. \A b \in CertifiedVertices(s) : b = a
      BY <2>1, OneVertexPerRound DEF CertifiedVertices, DesignatedVertices
    <3>2. CertifiedVertices(s) = {a}
      BY <2>1, <3>1
    <3>3. a \in Vertex
      BY <2>2 DEF ClosedStore, TypeOK
    <3>4. HashRank[a] \in Nat
      BY <3>3, HashesDistinct
    <3>5. QED
      BY <3>2, <3>4 DEF CertifiedAnchor, LowestHash
  <2>4. PICK f : /\ LayersTo(f, MaxRound, a, {})
                 /\ CausalHistory(a, {}) = UNION {f[i] : i \in Rounds}
    BY Zenon, HistoryLayers
  <2>5. s - (r + 2) \in 0..s /\ s - (r + 1) \in Rounds /\ s - r \in Rounds
    BY <2>0 DEF Rounds
  <2> DEFINE k == s - (r + 2)
  <2>a. k \in 0..a.round
    BY <2>2, <2>5
  <2> HIDE DEF k
  <2>b. f[k] # {} /\ \A w \in f[k] : w \in stored /\ w.round = a.round - k
    BY Zenon, <2>2, <2>4, <2>a, LayersDescend
  <2>6. PICK x : x \in f[k]
    BY <2>b
  <2>7. x \in stored /\ x.round = r + 2
    <3>1. x \in stored /\ x.round = s - (s - (r + 2))
      BY <2>2, <2>6, <2>b DEF k
    <3>2. QED
      BY <2>0, <3>1
  <2>8. PICK y \in parents[x] : y.round = r + 1 /\ parents[y] \cap DesignatedVertices(r) # {}
    BY <2>7, GrandchildCites
  <2>9. y \in stored /\ c \in parents[y]
    <3>1. y \in stored
      BY <2>7 DEF ClosedStore
    <3>2. PICK d \in DesignatedVertices(r) : d \in parents[y]
      BY <2>8
    <3>3. d = c
      BY OneVertexPerRound DEF DesignatedVertices
    <3>4. QED
      BY <3>1, <3>2, <3>3
  <2>10. \A i \in 1..MaxRound : f[i] = UNION {parents[w] : w \in f[i - 1] \cap stored}
    BY SMTT(30), <2>0, <2>4 DEF LayersTo
  <2>11. y \in f[s - (r + 1)]
    <3>1. s - (r + 1) \in 1..MaxRound /\ (s - (r + 1)) - 1 = s - (r + 2)
      BY <2>0
    <3>2. f[s - (r + 1)] = UNION {parents[w] : w \in f[s - (r + 2)] \cap stored}
      BY <2>10, <3>1
    <3>3. QED
      BY <2>6, <2>7, <3>2 DEF k
  <2>12. c \in f[s - r]
    <3>1. s - r \in 1..MaxRound /\ (s - r) - 1 = s - (r + 1)
      BY <2>0
    <3>2. f[s - r] = UNION {parents[w] : w \in f[s - (r + 1)] \cap stored}
      BY <2>10, <3>1
    <3>3. QED
      BY <2>9, <2>11, <3>2
  <2>13. QED
    BY <2>3, <2>4, <2>5, <2>12
<1>4. QED
  BY <1>1, <1>2, <1>3, TypeCorrect, StoreStaysClosed, PTL DEF Spec

-----------------------------------------------------------------------------
(* The relay *)

\* The window is positive, a Check takes a bounded time.
WindowAssumed == Ttl \in Nat \ {0} /\ MaxDelay \in Nat

RelayTypeInv ==
  /\ clock \in Nat /\ spacing \in Int
  /\ seen \in [Peers -> Int] /\ handled \in [Peers -> Int]
  /\ \A c \in flying : c.to \in Peers
  /\ filtered \subseteq Peers

\* A Check works with a stamp at most MaxDelay old.
ChecksRecent ==
  \A k \in checks : k.at \in Peers /\ k.now \in 0..clock /\ clock - k.now <= MaxDelay

\* What the filter knows of node n is the stamp of the last call of its handler, or
\* nothing once that stamp is a window old.
FilterOK(n) ==
  /\ handled[n] = Never \/ handled[n] \in 0..clock
  /\ seen[n] # Never => seen[n] = handled[n]
  /\ seen[n] = Never /\ handled[n] # Never => clock - handled[n] >= Ttl

FilterKnows == \A n \in Peers : FilterOK(n)

RelayInv == RelayTypeInv /\ ChecksRecent /\ FilterKnows /\ HandledApart /\ FilteredWasHandled

\* The first state: nothing recorded, nothing handled.
LEMMA RelayInitKeeps == ASSUME WindowAssumed, RelayInit PROVE RelayInv
<1>1. Never \in Int
  BY DEF WindowAssumed, Never
<1>2. RelayTypeInv /\ ChecksRecent
  BY <1>1 DEF WindowAssumed, RelayInit, RelayTypeInv, ChecksRecent
<1>3. FilterKnows
  BY DEF RelayInit, FilterKnows, FilterOK
<1>4. HandledApart /\ FilteredWasHandled
  BY DEF WindowAssumed, RelayInit, HandledApart, FilteredWasHandled
<1>5. QED
  BY <1>2, <1>3, <1>4 DEF RelayInv

\* A node sends to peers only.
LEMMA SendsToPeers ==
  ASSUME NEW n, NEW S, S \subseteq Peers
  PROVE  \A c \in Send(n, S) : c.to \in Peers
BY DEF Send

\* A forward only adds copies to peers.
LEMMA ForwardKeeps ==
  ASSUME NEW n, handleGossipMessage(n), \A c \in flying : c.to \in Peers
  PROVE  \A c \in flying' : c.to \in Peers
<1>1. CASE UNCHANGED flying
  BY <1>1
<1>2. ASSUME NEW to \in selectRandomPeers(n, Fanout), flying' = flying \cup Send(n, to)
      PROVE  \A c \in flying' : c.to \in Peers
  <2>1. to \subseteq Peers
    BY DEF selectRandomPeers
  <2>2. QED
    BY <1>2, <2>1, SendsToPeers
<1>3. QED
  BY <1>1, <1>2 DEF handleGossipMessage

\* A step that leaves the filter, the stamps and the clock alone keeps the invariant
\* if the copies still go to peers and its Checks are recent.
LEMMA QuietKeeps ==
  ASSUME RelayInv, UNCHANGED <<clock, seen, handled, spacing>>,
         \A c \in flying' : c.to \in Peers,
         ChecksRecent',
         \A n \in filtered' \ filtered : n \in Peers /\ handled[n] # Never
  PROVE  RelayInv'
<1>1. Never' = Never
  BY DEF Never
<1>2. RelayTypeInv'
  BY DEF RelayInv, RelayTypeInv
<1>3. FilterKnows'
  BY <1>1 DEF RelayInv, FilterKnows, FilterOK
<1>4. HandledApart' /\ FilteredWasHandled'
  BY <1>1 DEF RelayInv, HandledApart, FilteredWasHandled
<1>5. QED
  BY <1>2, <1>3, <1>4 DEF RelayInv

\* The filter calls fresh only what the handler has had.
LEMMA FreshWasHandled ==
  ASSUME RelayInv, NEW n \in Peers, NEW now, Fresh(n, now)
  PROVE  handled[n] # Never
BY DEF RelayInv, FilterKnows, FilterOK, Fresh

\* handleUniStream: the look-up under the read lock.
LEMMA LookUpKeeps ==
  ASSUME WindowAssumed, RelayInv, NEW c \in flying, handleUniStream(c)
  PROVE  RelayInv'
<1>1. c.to \in Peers /\ clock \in Nat
  BY DEF RelayInv, RelayTypeInv
<1>2. UNCHANGED <<clock, seen, handled, spacing>> /\ \A x \in flying' : x.to \in Peers
  BY DEF handleUniStream, RelayInv, RelayTypeInv
<1>3. checks' \subseteq checks \cup {[at |-> c.to, from |-> c.from, now |-> clock]}
  BY DEF handleUniStream
<1>4. ChecksRecent'
  BY <1>1, <1>2, <1>3 DEF WindowAssumed, RelayInv, ChecksRecent
<1>5. \A n \in filtered' \ filtered : n = c.to /\ Fresh(c.to, clock)
  BY DEF handleUniStream
<1>6. QED
  BY <1>1, <1>2, <1>4, <1>5, FreshWasHandled, QuietKeeps

\* Check: what it records under the write lock is a window past the last call, less
\* the age of its stamp.
LEMMA CheckKeeps ==
  ASSUME WindowAssumed, RelayInv, NEW k \in checks, Check(k)
  PROVE  RelayInv'
<1> DEFINE n == k.at
<1>1. n \in Peers /\ k.now \in Nat /\ k.now <= clock /\ clock - k.now <= MaxDelay
  BY DEF RelayInv, RelayTypeInv, ChecksRecent
<1>2. clock' = clock /\ checks' \subseteq checks
  BY DEF Check
<1>3. ChecksRecent'
  BY <1>2 DEF RelayInv, ChecksRecent
<1>4. CASE Fresh(n, k.now)
  <2>1. UNCHANGED <<flying, seen, handled, spacing>> /\ filtered' = filtered \cup {n}
    BY <1>4 DEF Check
  <2>2. \A c \in flying' : c.to \in Peers
    BY <2>1 DEF RelayInv, RelayTypeInv
  <2>3. handled[n] # Never
    BY <1>1, <1>4, FreshWasHandled
  <2>4. QED
    BY SMTT(30), <1>1, <1>2, <1>3, <2>1, <2>2, <2>3, QuietKeeps
<1>5. CASE ~Fresh(n, k.now)
  <2>1. Record(k)
    BY <1>5 DEF Check
  <2>2. /\ seen' = [seen EXCEPT ![n] = k.now]
        /\ handled' = [handled EXCEPT ![n] = k.now]
        /\ filtered' = filtered
    BY <2>1 DEF Record
  <2>3. \A c \in flying' : c.to \in Peers
    BY <2>1, ForwardKeeps DEF Record, RelayInv, RelayTypeInv
  <2>4. handled[n] # Never => k.now - handled[n] >= Ttl - MaxDelay
    <3>1. /\ clock \in Nat /\ handled[n] \in Int /\ seen[n] \in Int
          /\ Ttl \in Nat /\ MaxDelay \in Nat
      BY <1>1 DEF WindowAssumed, RelayInv, RelayTypeInv
    <3>2. CASE seen[n] = Never
      BY <1>1, <3>1, <3>2 DEF RelayInv, FilterKnows, FilterOK
    <3>3. CASE seen[n] # Never
      BY <1>1, <1>5, <3>1, <3>3 DEF RelayInv, FilterKnows, FilterOK, Fresh
    <3>4. QED
      BY <3>2, <3>3
  <2>5. spacing' = IF handled[n] # Never /\ k.now - handled[n] < spacing
                   THEN k.now - handled[n] ELSE spacing
    BY <2>1 DEF Record
  <2>6. spacing' \in Int /\ HandledApart'
    BY <1>1, <2>4, <2>5 DEF RelayInv, RelayTypeInv, HandledApart, WindowAssumed
  <2>7. RelayTypeInv'
    BY <1>1, <1>2, <2>2, <2>3, <2>6 DEF RelayInv, RelayTypeInv
  <2>8. Never' = Never /\ k.now # Never
    BY <1>1 DEF Never, WindowAssumed
  <2>9. FilterKnows'
    <3> SUFFICES ASSUME NEW m \in Peers PROVE FilterOK(m)'
      BY DEF FilterKnows
    <3>1. CASE m = n
      BY <1>1, <1>2, <2>2, <2>8, <3>1 DEF RelayInv, RelayTypeInv, FilterOK
    <3>2. CASE m # n
      BY <1>2, <2>2, <2>8, <3>2 DEF RelayInv, RelayTypeInv, FilterKnows, FilterOK
    <3>3. QED
      BY <3>1, <3>2
  <2>10. FilteredWasHandled'
    BY <1>1, <2>2, <2>8 DEF RelayInv, RelayTypeInv, FilteredWasHandled
  <2>11. QED
    BY <1>3, <2>6, <2>7, <2>9, <2>10 DEF RelayInv
<1>6. QED
  BY <1>4, <1>5

\* cleanup: what is forgotten is a window old.
LEMMA CleanupKeeps ==
  ASSUME WindowAssumed, RelayInv, NEW n \in Peers, cleanup(n)
  PROVE  RelayInv'
<1>1. /\ seen[n] # Never /\ clock - seen[n] >= Ttl
      /\ seen' = [seen EXCEPT ![n] = Never]
      /\ UNCHANGED <<clock, flying, checks, handled, spacing, filtered>>
  BY DEF cleanup
<1>2. Never' = Never /\ Never \in Int
  BY DEF Never, WindowAssumed
<1>3. RelayTypeInv' /\ ChecksRecent'
  BY <1>1, <1>2 DEF RelayInv, RelayTypeInv, ChecksRecent
<1>4. FilterKnows'
  BY <1>1, <1>2 DEF RelayInv, RelayTypeInv, FilterKnows, FilterOK
<1>5. HandledApart' /\ FilteredWasHandled'
  BY <1>1, <1>2 DEF RelayInv, HandledApart, FilteredWasHandled
<1>6. QED
  BY <1>3, <1>4, <1>5 DEF RelayInv

\* Time passes only while every Check in progress stays recent.
LEMMA TickKeeps ==
  ASSUME WindowAssumed, RelayInv, Tick
  PROVE  RelayInv'
<1>1. /\ clock' = clock + 1 /\ \A k \in checks : clock - k.now < MaxDelay
      /\ UNCHANGED <<flying, checks, seen, handled, spacing, filtered>>
  BY DEF Tick
<1>2. Never' = Never /\ clock \in Nat /\ MaxDelay \in Nat /\ Ttl \in Nat
  BY DEF Never, WindowAssumed, RelayInv, RelayTypeInv
<1>3. RelayTypeInv'
  BY <1>1, <1>2 DEF RelayInv, RelayTypeInv
<1>4. ChecksRecent'
  BY <1>1, <1>2 DEF RelayInv, ChecksRecent
<1>5. FilterKnows'
  <2> SUFFICES ASSUME NEW m \in Peers PROVE FilterOK(m)'
    BY DEF FilterKnows
  <2>1. handled[m] \in Int /\ FilterOK(m)
    BY DEF RelayInv, RelayTypeInv, FilterKnows
  <2>2. QED
    BY <1>1, <1>2, <2>1 DEF FilterOK
<1>6. HandledApart' /\ FilteredWasHandled'
  BY <1>1, <1>2 DEF RelayInv, HandledApart, FilteredWasHandled
<1>7. QED
  BY <1>3, <1>4, <1>5, <1>6 DEF RelayInv

\* Every step of the relay keeps the inductive invariant.
LEMMA RelayNextKeeps == ASSUME WindowAssumed, RelayInv, [RelayNext]_relayVars PROVE RelayInv'
<1>1. CASE Broadcast
  <2>1. \A c \in flying' : c.to \in Peers
    BY <1>1, SendsToPeers DEF Broadcast, RelayInv, RelayTypeInv
  <2>2. UNCHANGED <<clock, checks, seen, handled, spacing, filtered>>
    BY <1>1 DEF Broadcast
  <2>3. QED
    BY <2>1, <2>2, QuietKeeps DEF RelayInv, ChecksRecent
<1>2. ASSUME NEW c \in flying, SendFails(c) PROVE RelayInv'
  <2>1. UNCHANGED <<clock, checks, seen, handled, spacing, filtered>> /\ flying' \subseteq flying
    BY <1>2 DEF SendFails
  <2>2. QED
    BY <2>1, QuietKeeps DEF RelayInv, RelayTypeInv, ChecksRecent
<1>3. ASSUME NEW c \in flying, handleUniStream(c) PROVE RelayInv'
  BY <1>3, LookUpKeeps
<1>4. ASSUME NEW k \in checks, Check(k) PROVE RelayInv'
  BY <1>4, CheckKeeps
<1>5. ASSUME NEW n \in Peers, cleanup(n) PROVE RelayInv'
  BY <1>5, CleanupKeeps
<1>6. CASE \/ \E n \in Peers : ClearBlocklist(n)
           \/ \E n \in Peers \ {Origin} : SetBlocklist(n, {Origin})
           \/ RelayDone \/ UNCHANGED relayVars
  <2>1. UNCHANGED <<clock, flying, checks, seen, handled, spacing, filtered>>
    BY <1>6 DEF ClearBlocklist, SetBlocklist, RelayDone, relayVars
  <2>2. QED
    BY <2>1, QuietKeeps DEF RelayInv, RelayTypeInv, ChecksRecent
<1>7. CASE Tick
  BY <1>7, TickKeeps
<1>8. QED
  BY SMTT(30), <1>1, <1>2, <1>3, <1>4, <1>5, <1>6, <1>7 DEF RelayNext

\* The inductive invariant holds of every behaviour.
THEOREM RelayInvariant == ASSUME WindowAssumed PROVE RelaySpec => []RelayInv
<1>1. RelayInit => RelayInv
  BY RelayInitKeeps
<1>2. RelayInv /\ [RelayNext]_relayVars => RelayInv'
  BY RelayNextKeeps
<1>3. QED
  BY <1>1, <1>2, PTL DEF RelaySpec

\* Whatever races through the filter, partitions and clean-up in between, the filter
\* drops a copy only at a node whose handler has had the payload (handleUniStream,
\* Dedup.Check).
THEOREM FilteredWasHandledHolds == ASSUME WindowAssumed PROVE RelaySpec => []FilteredWasHandled
<1>1. RelayInv => FilteredWasHandled
  BY DEF RelayInv
<1>2. QED
  BY <1>1, RelayInvariant, PTL

\* Two calls of one node's handler with one payload are a window apart, less the time
\* a Check may take, for every window and delay (Dedup.Check, cleanup).
THEOREM HandledApartHolds == ASSUME WindowAssumed PROVE RelaySpec => []HandledApart
<1>1. RelayInv => HandledApart
  BY DEF RelayInv
<1>2. QED
  BY <1>1, RelayInvariant, PTL

-----------------------------------------------------------------------------
(* The status index *)

Outcome == [tx : Txs, ok : BOOLEAN]
Final(t) == status[t].state \in {"finalized", "failed"}
OnItsWay(t) == \E i \in DOMAIN channel : channel[i].tx = t

StatusTypeInv ==
  /\ status = [t \in Txs |-> status[t]]
  /\ channel \in Seq(Outcome)
  /\ \A c \in carried : c.tx \in Txs
  /\ marked \subseteq Txs

\* What the commit path has decided is recorded, or its outcome is in the channel: the
\* index never has an older entry for it that nothing will overwrite.
DecidedReported == \A t \in marked \ forgotten : Final(t) \/ OnItsWay(t)

StatusInv == StatusTypeInv /\ DecidedReported

\* The first state: nothing decided, nothing on its way.
LEMMA StatusInitKeeps == StatusInit => StatusInv
BY DEF StatusInit, StatusInv, StatusTypeInv, DecidedReported, Outcome

\* A copy is pooled of a transaction.
LEMMA PoolTyped ==
  ASSUME NEW t \in Txs, Pool(t), StatusTypeInv
  PROVE  \A c \in carried' : c.tx \in Txs
BY DEF Pool, StatusTypeInv

\* A submission touches an entry only where the index has none: what is decided is
\* final, or its outcome is still in the channel.
LEMMA SubmitKeeps ==
  ASSUME StatusInv, NEW t \in Txs, Pool(t), status' = markPending(t),
         UNCHANGED <<marked, channel, forgotten>>
  PROVE  StatusInv'
<1>1. \A x \in Txs : Final(x) => status'[x] = status[x]
  <2> SUFFICES ASSUME NEW x \in Txs, Final(x) PROVE status'[x] = status[x]
    OBVIOUS
  <2>1. CASE x = t
    <3>1. status[t] # Unknown
      BY <2>1 DEF Final, Unknown
    <3>2. QED
      BY <3>1 DEF markPending
  <2>2. CASE x # t
    BY <2>2 DEF markPending, StatusInv, StatusTypeInv
  <2>3. QED
    BY <2>1, <2>2
<1>2. status' = [x \in Txs |-> status'[x]]
  BY DEF markPending, StatusInv, StatusTypeInv
<1>3. StatusTypeInv'
  BY <1>2, PoolTyped DEF StatusInv, StatusTypeInv
<1>4. DecidedReported'
  BY SMTT(30), <1>1 DEF StatusInv, StatusTypeInv, DecidedReported, Final, OnItsWay
<1>5. QED
  BY <1>3, <1>4 DEF StatusInv

\* Sending an outcome keeps those in the channel, and adds its own.
LEMMA EmitAppends ==
  ASSUME channel \in Seq(Outcome), NEW t \in Txs, NEW ok \in BOOLEAN, emitTransaction(t, ok)
  PROVE  /\ channel' \in Seq(Outcome)
         /\ OnItsWay(t)'
         /\ \A x : OnItsWay(x) => OnItsWay(x)'
<1> DEFINE o == [tx |-> t, ok |-> ok]
<1>1. o \in Outcome /\ channel' = Append(channel, o)
  BY DEF Outcome, emitTransaction
<1>2. channel' \in Seq(Outcome) /\ DOMAIN channel' = 1..Len(channel) + 1
  BY <1>1
<1>3. channel'[Len(channel) + 1] = o /\ \A i \in 1..Len(channel) : channel'[i] = channel[i]
  BY <1>1
<1>4. DOMAIN channel = 1..Len(channel) /\ Len(channel) \in Nat
  OBVIOUS
<1>5. OnItsWay(t)'
  BY <1>2, <1>3, <1>4 DEF OnItsWay
<1>6. \A x : OnItsWay(x) => OnItsWay(x)'
  BY <1>2, <1>3, <1>4 DEF OnItsWay
<1>7. QED
  BY <1>2, <1>5, <1>6

\* executeTx: whatever it marks it reports.
LEMMA ExecuteKeeps ==
  ASSUME StatusInv, NEW c \in carried, executeCarried(c)
  PROVE  StatusInv'
<1> DEFINE t == c.tx
<1>1. t \in Txs /\ channel \in Seq(Outcome)
  BY DEF StatusInv, StatusTypeInv
<1>2. UNCHANGED <<status, forgotten>> /\ carried' \subseteq carried
  BY DEF executeCarried
<1>3. CASE ~Expired(t) /\ t \in marked
  <2>1. UNCHANGED <<channel, marked>>
    BY <1>3 DEF executeCarried
  <2>2. QED
    BY Zenon, <1>2, <2>1 DEF StatusInv, StatusTypeInv, DecidedReported, Final, OnItsWay
<1>4. CASE Expired(t) \/ t \notin marked
  <2>1. /\ \E ok \in BOOLEAN : emitTransaction(t, ok)
        /\ marked' \subseteq marked \cup {t}
    BY ZenonT(30), <1>4 DEF executeCarried, VersionFits
  <2>2. /\ channel' \in Seq(Outcome)
        /\ OnItsWay(t)'
        /\ \A x : OnItsWay(x) => OnItsWay(x)'
    BY <1>1, <2>1, EmitAppends
  <2>3. StatusTypeInv'
    BY <1>1, <1>2, <2>1, <2>2 DEF StatusInv, StatusTypeInv
  <2>4. DecidedReported'
    BY <1>1, <1>2, <2>1, <2>2 DEF StatusInv, DecidedReported, Final
  <2>5. QED
    BY <2>3, <2>4 DEF StatusInv
<1>5. QED
  BY <1>3, <1>4

\* processCommitted: the outcome taken from the channel is recorded; what it prunes is
\* forgotten.
LEMMA ProcessKeeps ==
  ASSUME StatusInv, processCommitted
  PROVE  StatusInv'
<1> DEFINE o == Head(channel)
           st == markCommitted(o)
<1>1. /\ channel # <<>> /\ channel' = Tail(channel)
      /\ status' = [t \in Txs |-> IF t \in pruned(st) THEN Unknown ELSE st[t]]
      /\ forgotten' = forgotten \cup pruned(st)
      /\ UNCHANGED <<marked, carried>>
  BY DEF processCommitted
<1>2. channel \in Seq(Outcome)
  BY DEF StatusInv, StatusTypeInv
<1>3. o = channel[1] /\ o \in Outcome /\ channel' \in Seq(Outcome)
  BY <1>1, <1>2
<1>4. /\ st[o.tx].state \in {"finalized", "failed"}
      /\ \A t \in Txs : t # o.tx => st[t] = status[t]
  BY <1>3 DEF markCommitted, StatusInv, StatusTypeInv, Outcome
<1>5. \A t : t # o.tx /\ OnItsWay(t) => OnItsWay(t)'
  <2> SUFFICES ASSUME NEW t, t # o.tx, NEW i \in DOMAIN channel, channel[i].tx = t
               PROVE  OnItsWay(t)'
    BY DEF OnItsWay
  <2>1. i \in 2..Len(channel)
    BY <1>2, <1>3
  <2>2. i - 1 \in DOMAIN channel' /\ channel'[i - 1] = channel[i]
    BY <1>1, <1>2, <2>1
  <2>3. QED
    BY <2>2 DEF OnItsWay
<1>6. StatusTypeInv'
  BY SMTT(30), <1>1, <1>3 DEF StatusInv, StatusTypeInv
<1>7. DecidedReported'
  <2> SUFFICES ASSUME NEW t \in marked \ forgotten'
               PROVE  Final(t)' \/ OnItsWay(t)'
    BY <1>1 DEF DecidedReported
  <2>1. t \in Txs /\ t \notin pruned(st) /\ (Final(t) \/ OnItsWay(t))
    BY <1>1 DEF StatusInv, StatusTypeInv, DecidedReported
  <2>2. status'[t] = st[t]
    BY <1>1, <2>1
  <2> HIDE DEF st, o
  <2>3. QED
    BY <1>4, <1>5, <2>1, <2>2 DEF Final
<1>8. QED
  BY <1>6, <1>7 DEF StatusInv

\* Every step keeps the inductive invariant.
LEMMA StatusNextKeeps == StatusInv /\ [StatusNext]_statusVars => StatusInv'
<1> SUFFICES ASSUME StatusInv, [StatusNext]_statusVars PROVE StatusInv'
  OBVIOUS
<1>1. CASE handleSubmitTx
  BY SMTT(30), <1>1, SubmitKeeps DEF handleSubmitTx, Txs
<1>2. ASSUME NEW s \in Splits, handleFaucet(s) PROVE StatusInv'
  BY <1>2, SubmitKeeps DEF handleFaucet, Txs
<1>3. ASSUME NEW c \in carried, executeCarried(c) PROVE StatusInv'
  BY <1>3, ExecuteKeeps
<1>4. CASE processCommitted
  BY <1>4, ProcessKeeps
<1>5. CASE Restart
  BY <1>5 DEF Restart, StatusInv, StatusTypeInv, DecidedReported
<1>6. CASE NextRound \/ StatusDone \/ UNCHANGED statusVars
  <2>1. UNCHANGED <<status, channel, carried, marked, forgotten>>
    BY <1>6 DEF NextRound, StatusDone, statusVars
  <2>2. QED
    BY <2>1 DEF StatusInv, StatusTypeInv, DecidedReported, Final, OnItsWay
<1>7. QED
  BY SMTT(30), <1>1, <1>2, <1>3, <1>4, <1>5, <1>6 DEF StatusNext

\* A transaction the commit path has decided is shown pending only while its outcome is
\* on its way to the index, or after its entry was pruned or lost: no order of
\* submissions, resubmissions, gossip, commits and restarts leaves a pending status
\* behind (markPending, markCommitted, prune).
THEOREM PendingUndecidedHolds == StatusSpec => []PendingUndecided
<1>1. StatusInv => PendingUndecided
  BY DEF StatusInv, DecidedReported, PendingUndecided, Final, OnItsWay
<1>2. StatusSpec => []StatusInv
  BY StatusInitKeeps, StatusNextKeeps, PTL DEF StatusSpec
<1>3. QED
  BY <1>1, <1>2, PTL

=============================================================================
