----------------------------- MODULE SyncProofs -----------------------------
(***************************************************************************)
(* Joining from a snapshot, for every DAG, window and number of crashes:   *)
(* the imported window is closed, and the joiner agrees with its source.   *)
(***************************************************************************)
EXTENDS SnapshotSync, WellFoundedInduction, TLAPS

\* Every non-empty set of natural numbers has a least element.
LEMMA LeastNat ==
  ASSUME NEW T \in SUBSET Nat, T # {}
  PROVE  \E x \in T : \A y \in T : x <= y
<1>1. PICK x \in T : \A y \in T : ~(<<y, x>> \in OpToRel(<, Nat))
  BY Zenon, NatLessThanWellFounded, WFMin
<1>2. \A y \in T : ~(y < x)
  BY Zenon, <1>1 DEF OpToRel
<1>3. QED
  BY <1>2

\* Every non-empty set of vertices has a vertex that precedes the others in the
\* order of causalBatch, and First picks it.
LEMMA FirstPrecedes ==
  ASSUME NEW d \in Dags, NEW B \in SUBSET d.vertices, B # {}
  PROVE  First(B) \in B /\ \A w \in B \ {First(B)} : Precedes(First(B), w)
<1>0. /\ \A v \in B : v.round \in Nat /\ v.hash \in Nat
      /\ \A v, w \in B : v.round = w.round /\ v.hash = w.hash => v = w
  BY DagsAssumption
<1>1. PICK r \in {v.round : v \in B} : \A y \in {v.round : v \in B} : r <= y
  <2>1. {v.round : v \in B} \in SUBSET Nat /\ {v.round : v \in B} # {}
    BY <1>0
  <2>2. QED
    BY Zenon, <2>1, LeastNat
<1> DEFINE R == {v \in B : v.round = r}
<1>2. PICK h \in {v.hash : v \in R} : \A y \in {v.hash : v \in R} : h <= y
  <2>1. {v.hash : v \in R} \in SUBSET Nat /\ {v.hash : v \in R} # {}
    BY <1>0, <1>1
  <2>2. QED
    BY Zenon, <2>1, LeastNat
<1>3. PICK v \in R : v.hash = h
  BY <1>2
<1>4. ASSUME NEW w \in B \ {v} PROVE Precedes(v, w)
  <2>1. v \in B /\ v.round = r /\ r \in Nat /\ h \in Nat
    BY <1>0, <1>1, <1>2, <1>3
  <2>2. w.round \in Nat /\ w.hash \in Nat /\ r <= w.round
    BY <1>0, <1>1
  <2>3. CASE w.round = r
    <3>1. h <= w.hash
      BY <1>2, <2>3
    <3>2. w.hash # h
      BY <1>0, <1>3, <2>1, <2>3
    <3>3. QED
      BY <1>3, <2>1, <2>2, <2>3, <3>1, <3>2 DEF Precedes
  <2>4. CASE w.round # r
    BY <2>1, <2>2, <2>4 DEF Precedes
  <2>5. QED
    BY <2>3, <2>4
<1>5. QED
  BY <1>3, <1>4 DEF First

\* The accumulators are records; the proof needs no more of their types.
Shaped(m) == m = [k \in {"cursor", "epoch", "fees", "live", "produced"} |-> m[k]]

\* The settlement of an epoch leaves the cursor alone.
LEMMA SettledShaped ==
  ASSUME NEW m, Shaped(m)
  PROVE  Shaped(SettleDeferredEpoch(m)) /\ SettleDeferredEpoch(m).cursor = m.cursor
BY Zenon DEF SettleDeferredEpoch, Shaped

-----------------------------------------------------------------------------
(* Two nodes over one DAG go the same way *)

\* Every transaction is carried by one vertex. Commit-once records are not part of a
\* snapshot, so a second carrier of a transaction would be applied by the joiner.
OneCarrier ==
  \A d \in Dags : \A v, w \in d.vertices : d.tx[v] # NoTx /\ d.tx[v] = d.tx[w] => v = w

\* Where a node stands on its way through the rounds: the vertices that bound its
\* walks, and what it does next. Credits count inside a batch only.
Stand(C, m, A, B, cr, j) ==
  [flags |-> C, mem |-> m, applied |-> A, batch |-> B, job |-> j,
   credited |-> IF j \in {"idle", "save"} THEN {} ELSE cr]

OwnStand == Stand({v \in dag.vertices : Bounds(v)}, mem, applied, batch, credited, job)

\* B is the batch of anchor a for a node whose walks C bounds.
Collects(d, C, a, B) ==
  IF a = Skip THEN B = {}
  ELSE /\ B \subseteq d.vertices \ C
       /\ a \in B \cup C
       /\ \A v \in B : d.parents[v] \subseteq B \cup C
       /\ \A v \in B \ {a} : \E w \in B : v \in d.parents[w]

\* The accumulators with a vertex credited, with a fee, and past a round.
Credited(m, cr, v) ==
  [m EXCEPT !.live = IF <<v.producer, v.round>> \in cr THEN m.live
                     ELSE [m.live EXCEPT ![EpochOf(v.round)][v.producer] = @ + 1]]
Charged(m, v) == [m EXCEPT !.fees[EpochOf(v.round)] = @ + 1]
Turned(m) ==
  IF EpochBoundary(m.cursor)
  THEN [SettleDeferredEpoch(m) EXCEPT !.cursor = @ + 1, !.epoch = @ + 1]
  ELSE [m EXCEPT !.cursor = @ + 1]

\* A step of the commit loop from s to t: nothing else decides on it.
Goes(d, s, t) ==
  LET v == First(s.batch) IN
  \/ /\ s.job = "idle"
     /\ \E B : /\ Collects(d, s.flags, d.anchor[s.mem.cursor], B)
               /\ t = Stand(s.flags, s.mem, s.applied, B, {}, "apply")
  \/ /\ s.job = "apply" /\ s.batch # {}
     /\ t = Stand(s.flags, Credited(s.mem, s.credited, v), s.applied, s.batch,
                  s.credited \cup {<<v.producer, v.round>>},
                  IF d.tx[v] = NoTx THEN "flag" ELSE "execute")
  \/ /\ s.job = "execute"
     /\ t = Stand(s.flags, Charged(s.mem, v), Append(s.applied, d.tx[v]), s.batch,
                  s.credited, "flag")
  \/ /\ s.job = "flag"
     /\ t = Stand(s.flags \cup {v}, [s.mem EXCEPT !.produced = @ \cup {v.producer}],
                  s.applied, s.batch \ {v}, s.credited, "apply")
  \/ /\ s.job = "apply" /\ s.batch = {}
     /\ t = Stand(s.flags, Turned(s.mem), s.applied, s.batch, s.credited, "save")
  \/ /\ s.job = "save"
     /\ t = Stand(s.flags, s.mem, s.applied, s.batch, s.credited, "idle")

\* The flags and the anchor leave no choice of a batch.
LEMMA CollectsOnce ==
  ASSUME NEW d \in Dags, NEW C, NEW a, NEW A, NEW B,
         Collects(d, C, a, A), Collects(d, C, a, B)
  PROVE  A \subseteq B
<1>1. CASE a = Skip
  BY <1>1 DEF Collects
<1>2. CASE a # Skip
  <2>1. SUFFICES ASSUME A \ B # {} PROVE FALSE
    OBVIOUS
  <2>2. /\ MaxRound \in Nat /\ A \subseteq d.vertices
        /\ \A v \in d.vertices : v.round \in 0..MaxRound
        /\ \A v \in d.vertices : \A x \in d.parents[v] : x.round + 1 = v.round
    BY <1>2, DagsAssumption DEF Collects
  <2> DEFINE T == {MaxRound - v.round : v \in A \ B}
  <2>3. T \in SUBSET Nat /\ T # {}
    BY <2>1, <2>2
  <2>4. PICK n \in T : \A m \in T : n <= m
    BY Zenon, <2>3, LeastNat
  <2>5. PICK v \in A \ B : n = MaxRound - v.round
    BY <2>4
  <2>6. v # a
    BY <1>2, <2>5 DEF Collects
  <2>7. PICK w \in A : v \in d.parents[w]
    BY <1>2, <2>5, <2>6 DEF Collects
  <2>8. w \in B
    <3>1. SUFFICES ASSUME w \notin B PROVE FALSE
      OBVIOUS
    <3>2. MaxRound - v.round <= MaxRound - w.round
      BY <2>4, <2>5, <3>1
    <3>3. v.round + 1 = w.round /\ v.round \in 0..MaxRound /\ w.round \in 0..MaxRound
      BY <2>2, <2>7
    <3>4. QED
      BY <2>2, <3>2, <3>3
  <2>9. QED
    BY <1>2, <2>5, <2>7, <2>8 DEF Collects
<1>3. QED
  BY <1>1, <1>2

\* There is one way to go.
LEMMA OneWay ==
  ASSUME NEW d \in Dags, NEW s, NEW t, NEW u, Goes(d, s, t), Goes(d, s, u)
  PROVE  t = u
<1>1. CASE s.job = "idle"
  <2>1. PICK A : /\ Collects(d, s.flags, d.anchor[s.mem.cursor], A)
                 /\ t = Stand(s.flags, s.mem, s.applied, A, {}, "apply")
    BY Zenon, <1>1 DEF Goes
  <2>2. PICK B : /\ Collects(d, s.flags, d.anchor[s.mem.cursor], B)
                 /\ u = Stand(s.flags, s.mem, s.applied, B, {}, "apply")
    BY Zenon, <1>1 DEF Goes
  <2>3. A = B
    BY <2>1, <2>2, CollectsOnce
  <2>4. QED
    BY Zenon, <2>1, <2>2, <2>3
<1> DEFINE v == First(s.batch)
           X == Stand(s.flags, Credited(s.mem, s.credited, v), s.applied, s.batch,
                      s.credited \cup {<<v.producer, v.round>>},
                      IF d.tx[v] = NoTx THEN "flag" ELSE "execute")
           Y == Stand(s.flags, Turned(s.mem), s.applied, s.batch, s.credited, "save")
           Z == Stand(s.flags, Charged(s.mem, v), Append(s.applied, d.tx[v]), s.batch,
                      s.credited, "flag")
           F == Stand(s.flags \cup {v}, [s.mem EXCEPT !.produced = @ \cup {v.producer}],
                      s.applied, s.batch \ {v}, s.credited, "apply")
           S == Stand(s.flags, s.mem, s.applied, s.batch, s.credited, "idle")
<1>2. \A w : Goes(d, s, w) =>
        \/ s.job = "idle"
        \/ s.job = "apply" /\ s.batch # {} /\ w = X
        \/ s.job = "apply" /\ s.batch = {} /\ w = Y
        \/ s.job = "execute" /\ w = Z
        \/ s.job = "flag" /\ w = F
        \/ s.job = "save" /\ w = S
  BY Zenon DEF Goes
<1> HIDE DEF X, Y, Z, F, S
<1>3. QED
  BY <1>1, <1>2

-----------------------------------------------------------------------------

\* t lies ahead of s, and one of the two ahead of the other.
Links(d, s, t, n, H) ==
  H[0] = s /\ H[n] = t /\ \A i \in 0..(n - 1) : Goes(d, H[i], H[i + 1])
Ahead(d, s, t) == \E n \in Nat : \E H : Links(d, s, t, n, H)
OnOneWay(d, s, t) == Ahead(d, s, t) \/ Ahead(d, t, s)

\* Who goes on stays on the way of the other.
LEMMA WayKept ==
  ASSUME NEW d \in Dags, NEW s, NEW t, NEW u, OnOneWay(d, s, t), Goes(d, s, u)
  PROVE  OnOneWay(d, u, t) /\ OnOneWay(d, t, u)
<1>1. CASE Ahead(d, s, t)
  <2>1. PICK n \in Nat : \E H : Links(d, s, t, n, H)
    BY Zenon, <1>1 DEF Ahead
  <2>2. PICK H : Links(d, s, t, n, H)
    BY Zenon, <2>1
  <2>3. CASE n = 0
    <3> DEFINE G == [i \in 0..1 |-> IF i = 0 THEN t ELSE u]
    <3>1. s = t
      BY <2>2, <2>3 DEF Links
    <3>2. G[0] = t /\ G[1] = u /\ \A i \in 0..(1 - 1) : i = 0 /\ i + 1 = 1
      OBVIOUS
    <3> HIDE DEF G
    <3>3. Links(d, t, u, 1, G)
      BY <3>1, <3>2 DEF Links
    <3>4. Ahead(d, t, u)
      BY <3>3 DEF Ahead
    <3>5. QED
      BY Zenon, <3>4 DEF OnOneWay
  <2>4. CASE n # 0
    <3> DEFINE G == [i \in 0..(n - 1) |-> H[i + 1]]
    <3>1. n - 1 \in Nat /\ 0 \in 0..(n - 1) /\ n - 1 \in 0..(n - 1)
      BY <2>4
    <3>2. u = H[1]
      <4>1. Goes(d, s, H[1])
        BY <2>2, <3>1 DEF Links
      <4>2. QED
        BY <4>1, OneWay
    <3>3. G[0] = u /\ G[n - 1] = t
      BY <2>2, <3>1, <3>2 DEF Links
    <3>4. ASSUME NEW i \in 0..((n - 1) - 1) PROVE Goes(d, G[i], G[i + 1])
      <4>1. i + 1 \in 0..(n - 1) /\ i \in 0..(n - 1)
        BY <3>1
      <4>2. Goes(d, H[i + 1], H[(i + 1) + 1])
        BY Zenon, <2>2, <4>1 DEF Links
      <4>3. G[i] = H[i + 1] /\ G[i + 1] = H[(i + 1) + 1]
        BY <4>1
      <4>4. QED
        BY Zenon, <4>2, <4>3
    <3> HIDE DEF G
    <3>5. Links(d, u, t, n - 1, G)
      BY Zenon, <3>3, <3>4 DEF Links
    <3>6. Ahead(d, u, t)
      BY Zenon, <3>1, <3>5 DEF Ahead
    <3>7. QED
      BY Zenon, <3>6 DEF OnOneWay
  <2>5. QED
    BY <2>3, <2>4
<1>2. CASE Ahead(d, t, s)
  <2>1. PICK n \in Nat : \E H : Links(d, t, s, n, H)
    BY Zenon, <1>2 DEF Ahead
  <2>2. PICK H : Links(d, t, s, n, H)
    BY Zenon, <2>1
  <2> DEFINE G == [i \in 0..(n + 1) |-> IF i <= n THEN H[i] ELSE u]
  <2>3. G[0] = t /\ G[n] = s /\ G[n + 1] = u
    BY <2>2 DEF Links
  <2>4. ASSUME NEW i \in 0..((n + 1) - 1) PROVE Goes(d, G[i], G[i + 1])
    <3>1. CASE i = n
      BY Zenon, <2>3, <3>1
    <3>2. CASE i # n
      <4>1. i \in 0..(n - 1) /\ i \in 0..(n + 1) /\ i + 1 \in 0..(n + 1) /\ i <= n /\ i + 1 <= n
        BY <3>2
      <4>2. G[i] = H[i] /\ G[i + 1] = H[i + 1]
        BY <4>1
      <4>3. Goes(d, H[i], H[i + 1])
        BY Zenon, <2>2, <4>1 DEF Links
      <4>4. QED
        BY Zenon, <4>2, <4>3
    <3>3. QED
      BY <3>1, <3>2
  <2> HIDE DEF G
  <2>5. Links(d, t, u, n + 1, G)
    BY Zenon, <2>3, <2>4 DEF Links
  <2>6. n + 1 \in Nat
    OBVIOUS
  <2>7. Ahead(d, t, u)
    BY Zenon, <2>5, <2>6 DEF Ahead
  <2>8. QED
    BY Zenon, <2>7 DEF OnOneWay
<1>3. QED
  BY <1>1, <1>2 DEF OnOneWay

-----------------------------------------------------------------------------

\* The cursor is a number, which orders the stands of a way.
Numbered(s) == Shaped(s.mem) /\ s.mem.cursor \in Nat
Rank(s) ==
  IF s.job = "idle" THEN 2 * s.mem.cursor
  ELSE IF s.job = "save" THEN 2 * s.mem.cursor - 1
  ELSE 2 * s.mem.cursor + 1

\* Crediting a vertex leaves the cursor alone.
LEMMA CreditedShaped ==
  ASSUME NEW m, Shaped(m), NEW cr, NEW v
  PROVE  Shaped(Credited(m, cr, v)) /\ Credited(m, cr, v).cursor = m.cursor
BY Zenon DEF Credited, Shaped

\* Charging a fee leaves the cursor alone.
LEMMA ChargedShaped ==
  ASSUME NEW m, Shaped(m), NEW v
  PROVE  Shaped(Charged(m, v)) /\ Charged(m, v).cursor = m.cursor
BY Zenon DEF Charged, Shaped

\* Closing a round moves the cursor by one, at a boundary too.
LEMMA TurnedShaped ==
  ASSUME NEW m, Shaped(m)
  PROVE  Shaped(Turned(m)) /\ Turned(m).cursor = m.cursor + 1
<1>1. CASE EpochBoundary(m.cursor)
  <2>1. PICK x : x = SettleDeferredEpoch(m)
    OBVIOUS
  <2>2. Shaped(x) /\ x.cursor = m.cursor
    BY <2>1, SettledShaped
  <2>3. Turned(m) = [x EXCEPT !.cursor = @ + 1, !.epoch = @ + 1]
    BY <1>1, <2>1 DEF Turned
  <2>4. QED
    BY Zenon, <2>2, <2>3 DEF Shaped
<1>2. CASE ~EpochBoundary(m.cursor)
  BY <1>2 DEF Turned, Shaped
<1>3. QED
  BY <1>1, <1>2

\* A step never goes back, and leaves an idle node past its round.
LEMMA GoesOn ==
  ASSUME NEW d, NEW s, NEW t, Goes(d, s, t), Numbered(s)
  PROVE  Numbered(t) /\ Rank(s) <= Rank(t) /\ (s.job = "idle" => Rank(s) < Rank(t))
<1>0. Shaped(s.mem)
  BY DEF Numbered
<1>1. PICK c : c = s.mem.cursor /\ c \in Nat
  BY DEF Numbered
<1>2. CASE s.job = "idle"
  <2>1. t.mem = s.mem /\ t.job = "apply"
    BY <1>2 DEF Goes, Stand
  <2>2. QED
    BY <1>1, <1>2, <2>1 DEF Numbered, Rank
<1>3. CASE s.job \in {"execute", "flag"} \/ (s.job = "apply" /\ s.batch # {})
  <2>1. Shaped(t.mem) /\ t.mem.cursor = c /\ t.job \in {"apply", "execute", "flag"}
    <3>1. CASE s.job = "execute"
      <4>1. t.mem = Charged(s.mem, First(s.batch)) /\ t.job = "flag"
        BY <3>1 DEF Goes, Stand
      <4>2. Shaped(t.mem) /\ t.mem.cursor = s.mem.cursor
        BY Zenon, <1>0, <4>1, ChargedShaped
      <4>3. QED
        BY <1>1, <4>1, <4>2
    <3>2. CASE s.job = "flag"
      <4>1. /\ t.mem = [s.mem EXCEPT !.produced = @ \cup {First(s.batch).producer}]
            /\ t.job = "apply"
        BY <3>2 DEF Goes, Stand
      <4>2. Shaped(t.mem) /\ t.mem.cursor = s.mem.cursor
        BY Zenon, <1>0, <4>1 DEF Shaped
      <4>3. QED
        BY <1>1, <4>1, <4>2
    <3>3. CASE s.job = "apply" /\ s.batch # {}
      <4>1. t.mem = Credited(s.mem, s.credited, First(s.batch))
        BY <3>3 DEF Goes, Stand
      <4>2. t.job \in {"execute", "flag"}
        BY <3>3 DEF Goes, Stand
      <4>3. PICK m, cr, w : m = s.mem /\ cr = s.credited /\ w = First(s.batch)
        BY Zenon
      <4>4. Shaped(Credited(m, cr, w)) /\ Credited(m, cr, w).cursor = m.cursor
        <5>1. Shaped(m)
          BY Zenon, <1>0, <4>3
        <5>2. QED
          BY Zenon, <5>1, CreditedShaped
      <4>5. Shaped(t.mem) /\ t.mem.cursor = s.mem.cursor
        BY Zenon, <4>1, <4>3, <4>4
      <4>6. QED
        BY <1>1, <4>2, <4>5
    <3>4. QED
      BY <1>3, <3>1, <3>2, <3>3
  <2>2. QED
    BY <1>1, <1>3, <2>1 DEF Numbered, Rank
<1>4. CASE s.job = "apply" /\ s.batch = {}
  <2>1. t.mem = Turned(s.mem) /\ t.job = "save"
    BY <1>4 DEF Goes, Stand
  <2>2. Shaped(t.mem) /\ t.mem.cursor = c + 1
    BY Zenon, <1>0, <1>1, <2>1, TurnedShaped
  <2>3. QED
    BY <1>1, <1>4, <2>1, <2>2 DEF Numbered, Rank
<1>5. CASE s.job = "save"
  <2>1. t.mem = s.mem /\ t.job = "idle"
    BY <1>5 DEF Goes, Stand
  <2>2. QED
    BY <1>1, <1>5, <2>1 DEF Numbered, Rank
<1>6. QED
  BY Zenon, <1>2, <1>3, <1>4, <1>5 DEF Goes

\* Two idle stands of one way with the same cursor are the same.
LEMMA AheadMeets ==
  ASSUME NEW d, NEW s, NEW t, Ahead(d, s, t), Numbered(s),
         s.job = "idle", t.job = "idle", s.mem.cursor = t.mem.cursor
  PROVE  s = t
<1>1. PICK n \in Nat : \E H : Links(d, s, t, n, H)
  BY Zenon DEF Ahead
<1>2. PICK H : Links(d, s, t, n, H)
  BY Zenon, <1>1
<1>3. SUFFICES ASSUME n # 0 PROVE FALSE
  BY <1>2 DEF Links
<1> DEFINE Past(i) == Numbered(H[i]) /\ Rank(s) < Rank(H[i])
           T == {i \in 1..n : ~Past(i)}
<1>4. Rank(s) \in Int /\ \A x : Numbered(x) => Rank(x) \in Int
  BY DEF Numbered, Rank
<1>5. T = {}
  <2>1. SUFFICES ASSUME T # {} PROVE FALSE
    OBVIOUS
  <2>2. T \in SUBSET Nat
    OBVIOUS
  <2> HIDE DEF T
  <2>3. PICK i \in T : \A j \in T : i <= j
    BY Zenon, <2>1, <2>2, LeastNat
  <2>4. i \in 1..n /\ ~Past(i) /\ i - 1 \in 0..(n - 1) /\ (i - 1) + 1 = i
    BY <2>3 DEF T
  <2>5. Goes(d, H[i - 1], H[i])
    <3>1. Goes(d, H[i - 1], H[(i - 1) + 1])
      BY Zenon, <1>2, <2>4 DEF Links
    <3>2. QED
      BY Zenon, <2>4, <3>1
  <2>6. CASE i = 1
    <3>1. H[i - 1] = s
      BY <1>2, <2>6 DEF Links
    <3>2. Past(i)
      BY <2>5, <3>1, GoesOn
    <3>3. QED
      BY <2>4, <3>2
  <2>7. CASE i # 1
    <3>1. i - 1 \in 1..n /\ i - 1 \notin T
      BY <2>3, <2>4, <2>7
    <3>2. Past(i - 1)
      BY Zenon, <3>1 DEF T
    <3>3. Numbered(H[i]) /\ Rank(H[i - 1]) <= Rank(H[i])
      BY <2>5, <3>2, GoesOn
    <3>4. Past(i)
      BY <1>4, <3>2, <3>3
    <3>5. QED
      BY <2>4, <3>4
  <2>8. QED
    BY <2>6, <2>7
<1>6. n \in 1..n
  BY <1>3
<1>7. Past(n)
  BY <1>5, <1>6
<1>8. Rank(s) < Rank(t)
  BY <1>2, <1>7 DEF Links
<1>9. Rank(s) = Rank(t)
  BY DEF Rank
<1>10. QED
  BY <1>4, <1>8, <1>9

-----------------------------------------------------------------------------

\* A stand is over vertices of the DAG, and the commit-once records K are those of
\* the vertices behind it: a vertex of the batch finds no record of its transaction.
StandOK(d, s, K) ==
  /\ s.flags \subseteq d.vertices /\ s.batch \subseteq d.vertices \ s.flags
  /\ Numbered(s)
  /\ s.job \in {"execute", "flag"} => s.batch # {}
  /\ s.job \in {"idle", "save"} => s.batch = {}
  /\ \A t \in K : \/ \E v \in s.flags : t = d.tx[v]
                  \/ s.job \in {"execute", "flag"} /\ t = d.tx[First(s.batch)]

Recorded(d, s, K) ==
  IF s.job = "apply" /\ s.batch # {} /\ d.tx[First(s.batch)] # NoTx
  THEN K \cup {d.tx[First(s.batch)]} ELSE K

\* Stands stay that way.
LEMMA StandKept ==
  ASSUME NEW d \in Dags, NEW s, NEW K, StandOK(d, s, K), NEW t, Goes(d, s, t)
  PROVE  StandOK(d, t, Recorded(d, s, K))
<1>1. Numbered(t)
  BY GoesOn DEF StandOK
<1>2. PICK v : v = First(s.batch)
  OBVIOUS
<1>3. s.batch # {} => v \in s.batch
  BY <1>2, FirstPrecedes DEF StandOK
<1>4. CASE s.job = "idle"
  <2>1. PICK B : /\ Collects(d, s.flags, d.anchor[s.mem.cursor], B)
                 /\ t = Stand(s.flags, s.mem, s.applied, B, {}, "apply")
    BY Zenon, <1>4 DEF Goes
  <2>2. t.flags = s.flags /\ t.batch = B /\ t.job = "apply" /\ Recorded(d, s, K) = K
    BY <1>4, <2>1 DEF Stand, Recorded
  <2>3. B \subseteq d.vertices \ s.flags
    BY <2>1 DEF Collects
  <2>4. QED
    BY <1>1, <1>4, <2>2, <2>3 DEF StandOK
<1>5. CASE s.job = "apply" /\ s.batch # {}
  <2>1. t.flags = s.flags /\ t.batch = s.batch /\ t.job \in {"execute", "flag"}
    BY <1>5 DEF Goes, Stand
  <2>2. Recorded(d, s, K) \subseteq K \cup {d.tx[v]}
    BY <1>2 DEF Recorded
  <2>3. QED
    BY SMTT(30), <1>1, <1>2, <1>5, <2>1, <2>2 DEF StandOK
<1>6. CASE s.job = "execute"
  <2>1. /\ t.flags = s.flags /\ t.batch = s.batch /\ t.job = "flag"
        /\ Recorded(d, s, K) = K
    BY <1>6 DEF Goes, Stand, Recorded
  <2>2. QED
    BY <1>1, <1>6, <2>1 DEF StandOK
<1>7. CASE s.job = "flag"
  <2>1. /\ t.flags = s.flags \cup {v} /\ t.batch = s.batch \ {v} /\ t.job = "apply"
        /\ Recorded(d, s, K) = K
    BY <1>2, <1>7 DEF Goes, Stand, Recorded
  <2>2. QED
    BY SMTT(30), <1>1, <1>2, <1>3, <1>7, <2>1 DEF StandOK
<1>8. CASE (s.job = "apply" /\ s.batch = {}) \/ s.job = "save"
  <2>1. /\ t.flags = s.flags /\ t.batch = s.batch /\ t.job \in {"save", "idle"}
        /\ Recorded(d, s, K) = K /\ s.job \in {"apply", "save"}
    BY <1>8 DEF Goes, Stand, Recorded
  <2>2. QED
    BY <1>1, <1>8, <2>1 DEF StandOK
<1>9. QED
  BY Zenon, <1>4, <1>5, <1>6, <1>7, <1>8 DEF Goes

\* The guard of executeTx passes the first carrier of a transaction.
LEMMA CarrierPasses ==
  ASSUME OneCarrier, NEW d \in Dags, NEW s, NEW K, StandOK(d, s, K),
         s.job = "apply", s.batch # {}
  PROVE  d.tx[First(s.batch)] # NoTx => d.tx[First(s.batch)] \notin K
<1>1. PICK v : v = First(s.batch)
  OBVIOUS
<1>2. v \in s.batch
  BY <1>1, FirstPrecedes DEF StandOK
<1>3. SUFFICES ASSUME d.tx[v] # NoTx, d.tx[v] \in K PROVE FALSE
  BY <1>1
<1>4. PICK w \in s.flags : d.tx[v] = d.tx[w]
  BY <1>3 DEF StandOK
<1>5. v \in d.vertices /\ w \in d.vertices /\ v # w
  BY <1>2, <1>4 DEF StandOK
<1>6. QED
  BY Zenon, <1>3, <1>4, <1>5 DEF OneCarrier

\* The commit loop goes the one way.
LEMMA OwnStep ==
  ASSUME OneCarrier, dag \in Dags, stored \subseteq dag.vertices,
         StandOK(dag, OwnStand, claimed), Commits
  PROVE  /\ Goes(dag, OwnStand, OwnStand') /\ claimed' = Recorded(dag, OwnStand, claimed)
         /\ UNCHANGED <<dag, floor>>
<1> DEFINE C == {v \in dag.vertices : Bounds(v)}
<1>1. PICK s : s = OwnStand
  OBVIOUS
<1>2. /\ s.flags = C /\ s.mem = mem /\ s.applied = applied /\ s.batch = batch /\ s.job = job
      /\ s.credited = IF job \in {"idle", "save"} THEN {} ELSE credited
  BY <1>1 DEF OwnStand, Stand
<1>3. StandOK(dag, s, claimed)
  BY <1>1
<1>4. OwnStand' = Stand(C', mem', applied', batch', credited', job')
  BY Zenon DEF OwnStand
<1>5. UNCHANGED <<dag, floor>>
  BY DEF Commits, CommitNextRound, ApplyVertex, ExecuteTx, FlagVertex,
         AdvanceCommitCursor, SaveCommitCursor
<1>6. committed' = committed => C' = C
  BY <1>5 DEF Bounds
<1> HIDE DEF C
<1>7. CASE CommitNextRound
  <2>1. /\ job = "idle" /\ credited' = {} /\ job' = "apply"
        /\ UNCHANGED <<committed, mem, claimed, applied>>
    BY <1>7 DEF CommitNextRound
  <2>2. Collects(dag, C, dag.anchor[mem.cursor], batch')
    <3>1. PICK a : a = dag.anchor[mem.cursor]
      OBVIOUS
    <3>2. CASE Skips(a) /\ batch' = {}
      BY <3>1, <3>2 DEF Skips, Collects
    <3>3. CASE /\ ~Skips(a) /\ a \in stored
               /\ \E B \in SUBSET {v \in stored : ~Bounds(v)} : IsBatch(a, B) /\ batch' = B
      <4>1. PICK B \in SUBSET {v \in stored : ~Bounds(v)} : IsBatch(a, B) /\ batch' = B
        BY <3>3
      <4>2. \A v \in dag.vertices : dag.parents[v] \subseteq dag.vertices
        BY DagsAssumption
      <4>3. /\ B \subseteq dag.vertices \ C /\ a \in B \cup C
            /\ \A v \in B : dag.parents[v] \subseteq B \cup C
            /\ \A v \in B \ {a} : \E w \in B : v \in dag.parents[w]
        BY SMTT(30), <3>3, <4>1, <4>2 DEF IsBatch, C
      <4>4. QED
        BY <3>1, <3>3, <4>1, <4>3 DEF Collects, Skips
    <3>4. QED
      BY Zenon, <1>7, <3>1, <3>2, <3>3 DEF CommitNextRound
  <2>3. OwnStand' = Stand(s.flags, s.mem, s.applied, batch', {}, "apply")
    BY Zenon, <1>2, <1>4, <1>6, <2>1
  <2>4. Goes(dag, s, OwnStand')
    BY Zenon, <1>2, <2>1, <2>2, <2>3 DEF Goes
  <2>5. QED
    BY <1>1, <1>2, <1>5, <2>1, <2>4 DEF Recorded
<1>8. CASE ApplyVertex
  <2>1. PICK v : v = First(batch)
    OBVIOUS
  <2>2. /\ job = "apply" /\ batch # {}
        /\ mem' = [mem EXCEPT !.live = CreditLiveness(v)]
        /\ credited' = credited \cup {<<v.producer, v.round>>}
        /\ claimed' = IF dag.tx[v] = NoTx THEN claimed ELSE claimed \cup {dag.tx[v]}
        /\ job' = IF Claims(dag.tx[v]) THEN "execute" ELSE "flag"
        /\ UNCHANGED <<committed, applied, batch>>
    BY Zenon, <1>8, <2>1 DEF ApplyVertex
  <2>3. dag.tx[v] # NoTx => dag.tx[v] \notin claimed
    BY Zenon, <1>2, <1>3, <2>1, <2>2, CarrierPasses
  <2>4. job' = IF dag.tx[v] = NoTx THEN "flag" ELSE "execute"
    BY <2>2, <2>3 DEF Claims
  <2>5. mem' = Credited(mem, credited, v)
    BY Zenon, <2>2 DEF CreditLiveness, Credited
  <2>6. s.credited = credited
    BY <1>2, <2>2
  <2>7. Goes(dag, s, OwnStand')
    BY Zenon, <1>2, <1>4, <1>6, <2>1, <2>2, <2>4, <2>5, <2>6 DEF Goes
  <2>8. QED
    BY Zenon, <1>1, <1>2, <1>5, <2>1, <2>2, <2>7 DEF Recorded
<1>9. CASE ExecuteTx
  <2>1. /\ job = "execute" /\ applied' = Append(applied, dag.tx[First(batch)])
        /\ mem' = Charged(mem, First(batch)) /\ job' = "flag"
        /\ UNCHANGED <<committed, claimed, batch, credited>>
    BY Zenon, <1>9 DEF ExecuteTx, Charged
  <2>2. s.credited = credited
    BY <1>2, <2>1
  <2>3. Goes(dag, s, OwnStand')
    BY Zenon, <1>2, <1>4, <1>6, <2>1, <2>2 DEF Goes
  <2>4. QED
    BY <1>1, <1>2, <1>5, <2>1, <2>3 DEF Recorded
<1>10. CASE FlagVertex
  <2>1. PICK v : v = First(batch)
    OBVIOUS
  <2>2. /\ job = "flag" /\ committed' = committed \cup {v} /\ batch' = batch \ {v}
        /\ mem' = [mem EXCEPT !.produced = @ \cup {v.producer}] /\ job' = "apply"
        /\ UNCHANGED <<claimed, applied, credited>>
    BY Zenon, <1>10, <2>1 DEF FlagVertex
  <2>3. v \in dag.vertices
    BY <1>2, <1>3, <2>1, <2>2, FirstPrecedes DEF StandOK
  <2>4. C' = C \cup {v}
    BY <1>5, <2>2, <2>3 DEF C, Bounds
  <2>5. s.credited = credited
    BY <1>2, <2>2
  <2>6. Goes(dag, s, OwnStand')
    BY Zenon, <1>2, <1>4, <2>1, <2>2, <2>4, <2>5 DEF Goes
  <2>7. QED
    BY <1>1, <1>2, <1>5, <2>2, <2>6 DEF Recorded
<1>11. CASE AdvanceCommitCursor
  <2>1. /\ job = "apply" /\ batch = {} /\ mem' = Turned(mem) /\ job' = "save"
        /\ UNCHANGED <<committed, claimed, applied, batch, credited>>
    BY Zenon, <1>11 DEF AdvanceCommitCursor, Turned
  <2>2. s.credited = credited
    BY <1>2, <2>1
  <2>3. Goes(dag, s, OwnStand')
    BY Zenon, <1>2, <1>4, <1>6, <2>1, <2>2 DEF Goes
  <2>4. QED
    BY <1>1, <1>2, <1>5, <2>1, <2>3 DEF Recorded
<1>12. CASE SaveCommitCursor
  <2>1. /\ job = "save" /\ job' = "idle"
        /\ UNCHANGED <<committed, mem, claimed, applied, batch, credited>>
    BY <1>12 DEF SaveCommitCursor
  <2>2. OwnStand' = Stand(s.flags, s.mem, s.applied, s.batch, s.credited, "idle")
    BY <1>2, <1>4, <1>6, <2>1 DEF Stand
  <2>3. Goes(dag, s, OwnStand')
    BY Zenon, <1>2, <2>1, <2>2 DEF Goes
  <2>4. QED
    BY <1>1, <1>2, <1>5, <2>1, <2>3 DEF Recorded
<1>13. QED
  BY Zenon, <1>7, <1>8, <1>9, <1>10, <1>11, <1>12 DEF Commits

-----------------------------------------------------------------------------
(* Joining from a snapshot: the imported window *)

\* Below a flagged vertex or one of the batch lies a flagged one, one of the batch
\* or history at or below f.
Walled(d, C, B, f) ==
  /\ C \subseteq d.vertices /\ B \subseteq d.vertices
  /\ \A v \in C : \A x \in d.parents[v] : x \in C \/ x.round <= f
  /\ \A v \in B : \A x \in d.parents[v] : x \in B \cup C \/ x.round <= f

\* A batch is flagged parents first.
LEMMA FlagWalled ==
  ASSUME NEW d \in Dags, NEW C, NEW B, NEW f, Walled(d, C, B, f), B # {}
  PROVE  First(B) \in B /\ Walled(d, C \cup {First(B)}, B \ {First(B)}, f)
<1>1. PICK v : v = First(B)
  OBVIOUS
<1>2. v \in B /\ \A w \in B \ {v} : Precedes(v, w)
  BY <1>1, FirstPrecedes DEF Walled
<1>3. ASSUME NEW x \in d.parents[v], x \in B PROVE FALSE
  <2>1. x.round \in Nat /\ v.round \in Nat /\ x.round + 1 = v.round
    BY <1>2, <1>3, DagsAssumption DEF Walled
  <2>2. Precedes(v, x)
    BY <1>2, <1>3, <2>1
  <2>3. QED
    BY <2>1, <2>2 DEF Precedes
<1>4. Walled(d, C \cup {v}, B \ {v}, f)
  BY SMTT(30), <1>2, <1>3 DEF Walled
<1>5. QED
  BY Zenon, <1>1, <1>2, <1>4

\* What a node stores, has flagged and is flagging.
Stocked(d, st, C, B, j) ==
  /\ st \subseteq d.vertices /\ C \subseteq st /\ B \subseteq st
  /\ j \in {"execute", "flag"} => B # {}

\* The source's flags are closed under parents; so are those of a joiner that started
\* over an empty directory, down to its floor.
WindowInv ==
  /\ dag \in Dags
  /\ floor \in Int
  /\ Stocked(dag, srcStored, srcCommitted, srcBatch, srcJob)
  /\ Walled(dag, srcCommitted, srcBatch, -1)
  /\ Stocked(dag, stored, committed, batch, job)
  /\ ~joined => batch = {} /\ job = "idle"
  /\ fresh => Walled(dag, committed, batch, floor)

\* A walk that collects B leaves nothing between B and what bounds it.
LEMMA BatchWalled ==
  ASSUME dag \in Dags, Walled(dag, committed, batch, floor), NEW a,
         NEW B \in SUBSET dag.vertices, IsBatch(a, B)
  PROVE  Walled(dag, committed, B, floor)
BY SMTT(30) DEF Walled, IsBatch, Bounds

\* The same for the source, which has no floor.
LEMMA SourceBatchWalled ==
  ASSUME dag \in Dags, Walled(dag, srcCommitted, srcBatch, -1), NEW a,
         NEW B \in SUBSET dag.vertices, Source!IsBatch(a, B)
  PROVE  Walled(dag, srcCommitted, B, -1)
BY SMTT(30) DEF Walled, Source!IsBatch, Source!Bounds

\* The joiner's own steps keep its window closed.
LEMMA RunsWalled ==
  ASSUME WindowInv, Runs
  PROVE  /\ Stocked(dag, stored, committed, batch, job)'
         /\ fresh => Walled(dag, committed, batch, floor)'
<1> USE DEF WindowInv
<1>1. CASE \E v \in dag.vertices : Receive(v) \/ Fetch(v)
  <2>1. /\ stored \subseteq stored' /\ stored' \subseteq dag.vertices
        /\ UNCHANGED <<dag, committed, batch, floor, job>>
    BY SMTT(30), <1>1 DEF Receive, Fetch, Stocked
  <2>2. QED
    BY <2>1 DEF Stocked
<1>2. CASE CommitNextRound
  <2>1. job' = "apply" /\ UNCHANGED <<dag, stored, committed, floor>>
    BY <1>2 DEF CommitNextRound
  <2>2. CASE batch' = {}
    BY <2>1, <2>2 DEF Stocked, Walled
  <2>3. CASE \E B \in SUBSET {v \in stored : ~Bounds(v)} :
               IsBatch(dag.anchor[mem.cursor], B) /\ batch' = B
    <3>1. PICK B \in SUBSET {v \in stored : ~Bounds(v)} :
            IsBatch(dag.anchor[mem.cursor], B) /\ batch' = B
      BY <2>3
    <3>2. B \in SUBSET dag.vertices /\ B \subseteq stored
      BY DEF Stocked
    <3>3. fresh => Walled(dag, committed, B, floor)
      BY <3>1, <3>2, BatchWalled
    <3>4. QED
      BY <2>1, <3>1, <3>2, <3>3 DEF Stocked
  <2>4. QED
    BY <1>2, <2>2, <2>3 DEF CommitNextRound
<1>3. CASE ApplyVertex \/ ExecuteTx
  <2>1. UNCHANGED <<dag, stored, committed, batch, floor>> /\ batch # {}
    BY <1>3 DEF ApplyVertex, ExecuteTx, Stocked
  <2>2. QED
    BY <2>1 DEF Stocked
<1>4. CASE FlagVertex
  <2>1. /\ committed' = committed \cup {First(batch)} /\ batch' = batch \ {First(batch)}
        /\ job' = "apply" /\ batch # {} /\ UNCHANGED <<dag, stored, floor>>
    BY <1>4 DEF FlagVertex, Stocked
  <2>2. First(batch) \in batch
    BY <2>1, FirstPrecedes DEF Stocked
  <2>3. Stocked(dag, stored, committed, batch, job)'
    BY <2>1, <2>2 DEF Stocked
  <2>4. fresh => Walled(dag, committed, batch, floor)'
    BY Zenon, <2>1, FlagWalled
  <2>5. QED
    BY <2>3, <2>4
<1>5. CASE AdvanceCommitCursor \/ SaveCommitCursor
  <2>1. UNCHANGED <<dag, stored, committed, batch, floor>> /\ job' \in {"save", "idle"}
    BY <1>5 DEF AdvanceCommitCursor, SaveCommitCursor
  <2>2. QED
    BY <2>1 DEF Stocked
<1>6. QED
  BY Zenon, <1>1, <1>2, <1>3, <1>4, <1>5 DEF Runs, Commits

\* The source's steps keep its flags closed.
LEMMA SourceWalled ==
  ASSUME WindowInv, SourceRuns
  PROVE  /\ Stocked(dag, srcStored, srcCommitted, srcBatch, srcJob)'
         /\ Walled(dag, srcCommitted, srcBatch, -1)'
<1> USE DEF WindowInv
<1>1. CASE \E v \in dag.vertices : Source!Receive(v)
  <2>1. /\ srcStored \subseteq srcStored' /\ srcStored' \subseteq dag.vertices
        /\ UNCHANGED <<dag, srcCommitted, srcBatch, srcJob>>
    BY SMTT(30), <1>1 DEF Source!Receive, Stocked
  <2>2. QED
    BY <2>1 DEF Stocked
<1>2. CASE Source!CommitNextRound
  <2>1. srcJob' = "apply" /\ UNCHANGED <<dag, srcStored, srcCommitted>>
    BY <1>2 DEF Source!CommitNextRound
  <2>2. CASE srcBatch' = {}
    BY <2>1, <2>2 DEF Stocked, Walled
  <2>3. CASE \E B \in SUBSET {v \in srcStored : ~Source!Bounds(v)} :
               Source!IsBatch(dag.anchor[srcMem.cursor], B) /\ srcBatch' = B
    <3>1. PICK B \in SUBSET {v \in srcStored : ~Source!Bounds(v)} :
            Source!IsBatch(dag.anchor[srcMem.cursor], B) /\ srcBatch' = B
      BY <2>3
    <3>2. B \in SUBSET dag.vertices /\ B \subseteq srcStored
      BY DEF Stocked
    <3>3. Walled(dag, srcCommitted, B, -1)
      BY <3>1, <3>2, SourceBatchWalled
    <3>4. QED
      BY <2>1, <3>1, <3>2, <3>3 DEF Stocked
  <2>4. QED
    BY <1>2, <2>2, <2>3 DEF Source!CommitNextRound
<1>3. CASE Source!ApplyVertex \/ Source!ExecuteTx
  <2>1. UNCHANGED <<dag, srcStored, srcCommitted, srcBatch>> /\ srcBatch # {}
    BY <1>3 DEF Source!ApplyVertex, Source!ExecuteTx, Stocked
  <2>2. QED
    BY <2>1 DEF Stocked
<1>4. CASE Source!FlagVertex
  <2>1. /\ srcCommitted' = srcCommitted \cup {Source!First(srcBatch)}
        /\ srcBatch' = srcBatch \ {Source!First(srcBatch)}
        /\ srcJob' = "apply" /\ srcBatch # {} /\ UNCHANGED <<dag, srcStored>>
    BY <1>4 DEF Source!FlagVertex, Stocked
  <2>2. Source!First(srcBatch) = First(srcBatch)
    BY Zenon DEF Source!First, First, Source!Precedes, Precedes
  <2>3. First(srcBatch) \in srcBatch
    BY <2>1, FirstPrecedes DEF Stocked
  <2>4. Stocked(dag, srcStored, srcCommitted, srcBatch, srcJob)'
    BY <2>1, <2>2, <2>3 DEF Stocked
  <2>5. Walled(dag, srcCommitted, srcBatch, -1)'
    BY Zenon, <2>1, <2>2, FlagWalled
  <2>6. QED
    BY <2>4, <2>5
<1>5. CASE Source!AdvanceCommitCursor \/ Source!SaveCommitCursor
  <2>1. UNCHANGED <<dag, srcStored, srcCommitted, srcBatch>> /\ srcJob' \in {"save", "idle"}
    BY <1>5 DEF Source!AdvanceCommitCursor, Source!SaveCommitCursor
  <2>2. QED
    BY <2>1 DEF Stocked
<1>6. QED
  BY Zenon, <1>1, <1>2, <1>3, <1>4, <1>5 DEF SourceRuns, Source!Commits

\* The floor of a snapshot lies right below the window: what the source stores and
\* does not export is at or below it.
LEMMA WindowAboveFloor ==
  ASSUME WindowInv, srcStored # {}
  PROVE  /\ RaisedFloor \in Int
         /\ \A x \in srcStored : x \in Exported \/ x.round <= RaisedFloor
<1>0. floor \in Int /\ \A v \in srcStored : v.round \in 0..MaxRound
  BY DagsAssumption DEF WindowInv, Stocked
<1> DEFINE R == {w.round : w \in srcStored}
<1>1. PICK top \in R : \A y \in R : y <= top
  <2> DEFINE T == {MaxRound - r : r \in R}
  <2>1. T \in SUBSET Nat /\ T # {}
    BY <1>0, DagsAssumption
  <2> HIDE DEF T
  <2>2. PICK n \in T : \A m \in T : n <= m
    BY Zenon, <2>1, LeastNat
  <2>3. PICK r \in R : n = MaxRound - r
    BY <2>2 DEF T
  <2>4. ASSUME NEW y \in R PROVE y <= r
    <3>1. n <= MaxRound - y
      BY <2>2 DEF T
    <3>2. y \in Int /\ r \in Int /\ MaxRound \in Int
      BY <1>0, DagsAssumption
    <3>3. QED
      BY <2>3, <3>1, <3>2
  <2>5. QED
    BY <2>4
<1>2. Greatest(R) = top
  <2>1. \A x \in R : x \in Int
    BY <1>0
  <2> HIDE DEF R
  <2>2. ASSUME NEW x \in R, \A y \in R : y <= x PROVE x = top
    BY <1>1, <2>1, <2>2
  <2>3. QED
    BY <1>1, <2>2 DEF Greatest
<1>3. PICK from : from = ExportedFrom(top)
  OBVIOUS
<1>4. top \in Int /\ from \in Int /\ from <= top
  BY <1>0, <1>1, <1>3, WindowAssumption DEF ExportedFrom
<1>5. Exported = {v \in srcStored : v.round >= from}
  BY Zenon, <1>2, <1>3 DEF Exported
<1> DEFINE L == {v.round : v \in Exported}
<1>6. L \in SUBSET Nat /\ L # {} /\ \A y \in L : y >= from
  BY <1>0, <1>1, <1>4, <1>5
<1>7. PICK low \in L : \A y \in L : low <= y
  <2> HIDE DEF L
  <2>1. QED
    BY Zenon, <1>6, LeastNat
<1>8. Least(L) = low
  <2> HIDE DEF L
  <2>1. ASSUME NEW x \in L, \A y \in L : x <= y PROVE x = low
    BY <1>6, <1>7, <2>1
  <2>2. QED
    BY <1>7, <2>1 DEF Least
<1>9. RaisedFloor = IF low > 0 /\ low - 1 > floor THEN low - 1 ELSE floor
  BY Zenon, <1>8 DEF RaisedFloor
<1>10. low \in Nat /\ low >= from
  BY <1>6, <1>7
<1>11. ASSUME NEW x \in srcStored, x \notin Exported PROVE x.round <= RaisedFloor
  <2>1. x.round \in Nat /\ x.round < from
    BY <1>0, <1>4, <1>5, <1>11
  <2>2. QED
    BY <1>0, <1>4, <1>9, <1>10, <2>1
<1>12. QED
  BY <1>0, <1>9, <1>10, <1>11

\* The snapshot is a closed window: the parents of a flagged vertex are flagged by the
\* source, and come along unless they lie below the floor.
LEMMA JoinWalled == ASSUME WindowInv, Join PROVE WindowInv'
<1>1. /\ ~joined /\ srcStored # {} /\ stored' = stored \cup Exported
      /\ committed' = committed \cup Flagged /\ floor' = RaisedFloor
      /\ fresh' = (stored = {})
      /\ UNCHANGED <<dag, batch, job, srcVars>> /\ joined'
  BY DEF Join
<1>2. UNCHANGED <<srcStored, srcCommitted, srcBatch, srcJob>>
  BY <1>1 DEF srcVars
<1>3. /\ floor' \in Int
      /\ \A x \in srcStored : x \in Exported \/ x.round <= RaisedFloor
  BY <1>1, WindowAboveFloor
<1>4. Exported \subseteq srcStored /\ Flagged \subseteq Exported
  BY Zenon DEF Exported, Flagged
<1>5. batch = {} /\ job = "idle" /\ committed \subseteq stored
  BY <1>1 DEF WindowInv, Stocked
<1>6. Stocked(dag, stored, committed, batch, job)'
  BY <1>1, <1>4, <1>5 DEF WindowInv, Stocked
<1>7. ASSUME fresh' PROVE Walled(dag, committed, batch, floor)'
  <2>1. stored = {} /\ committed' = Flagged /\ Flagged = Exported \cap srcCommitted
    BY Zenon, <1>1, <1>5, <1>7 DEF Flagged
  <2>2. ASSUME NEW v \in Flagged, NEW x \in dag.parents[v]
        PROVE  x \in Flagged \/ x.round <= RaisedFloor
    <3>1. v \in srcCommitted /\ v \in dag.vertices
      BY <1>4, <2>1 DEF WindowInv, Stocked
    <3>2. x \in dag.vertices /\ x.round \in Nat
      BY <3>1, DagsAssumption DEF WindowInv
    <3>3. x \in srcCommitted
      BY <3>1, <3>2 DEF WindowInv, Walled
    <3>4. QED
      BY <1>3, <2>1, <3>3 DEF WindowInv, Stocked
  <2>3. Flagged \subseteq dag.vertices
    BY <1>4 DEF WindowInv, Stocked
  <2>4. QED
    BY <1>1, <1>5, <2>1, <2>2, <2>3 DEF Walled
<1>8. QED
  BY <1>1, <1>2, <1>3, <1>6, <1>7 DEF WindowInv

\* Every step keeps the windows closed.
LEMMA WindowKept == ASSUME WindowInv, [SyncNext]_syncVars PROVE WindowInv'
<1>1. CASE SourceRuns
  <2>1. UNCHANGED <<stored, floor, committed, batch, job, joined, fresh>>
    BY <1>1 DEF SourceRuns
  <2>2. dag' = dag
    BY <1>1 DEF SourceRuns, Source!Commits, Source!Receive, Source!CommitNextRound,
                Source!ApplyVertex, Source!ExecuteTx, Source!FlagVertex,
                Source!AdvanceCommitCursor, Source!SaveCommitCursor
  <2>3. QED
    BY Zenon, <1>1, <2>1, <2>2, SourceWalled DEF WindowInv
<1>2. CASE Join
  BY <1>2, JoinWalled
<1>3. CASE Runs
  <2>1. joined /\ UNCHANGED <<srcVars, joined, fresh>>
    BY <1>3 DEF Runs
  <2>2. dag' = dag /\ floor' = floor
    BY <1>3 DEF Runs, Commits, Receive, Fetch, CommitNextRound, ApplyVertex, ExecuteTx,
                FlagVertex, AdvanceCommitCursor, SaveCommitCursor
  <2>3. QED
    BY <1>3, <2>1, <2>2, RunsWalled DEF WindowInv, srcVars
<1>4. CASE Restart
  <2>1. /\ batch' = {} /\ job' = "idle"
        /\ UNCHANGED <<dag, stored, floor, committed, fresh, srcVars>>
    BY <1>4 DEF Restart, Crash
  <2>2. QED
    BY <2>1 DEF WindowInv, Stocked, Walled, srcVars
<1>5. CASE MarkStateAdopted \/ UNCHANGED syncVars
  <2>1. UNCHANGED <<vars, srcVars, joined, fresh>>
    BY Zenon, <1>5 DEF MarkStateAdopted, syncVars
  <2>2. QED
    BY <2>1 DEF vars, srcVars, WindowInv
<1>6. QED
  BY Zenon, <1>1, <1>2, <1>3, <1>4, <1>5 DEF SyncNext

\* The windows are closed throughout.
LEMMA WindowsHold == SyncSpec => []WindowInv
<1>1. SyncInit => WindowInv
  BY DEF SyncInit, Init, Source!Init, WindowInv, Stocked, Walled
<1>2. QED
  BY <1>1, WindowKept, PTL DEF SyncSpec

\* A joiner that started over an empty directory never waits for history below its
\* window, wherever a crash falls: the snapshot's flags are closed down to its floor, and
\* its own are written parents first (ImportVertices, setCommitFloorLocked,
\* collectCausal).
THEOREM WindowClosedHolds == SyncSpec => []WindowClosed
<1>1. WindowInv => WindowClosed
  BY DEF WindowInv, Walled, WindowClosed
<1>2. QED
  BY <1>1, WindowsHold, PTL

-----------------------------------------------------------------------------
(* The joiner and its source go the same way *)

SourceStand == Stand(srcCommitted, srcMem, srcApplied, srcBatch, srcCredited, srcJob)

\* The source's instance of the commit path computes what the joiner's does.
LEMMA SourceOps ==
  /\ \A B : Source!First(B) = First(B)
  /\ \A r : Source!EpochOf(r) = EpochOf(r)
  /\ \A r : Source!EpochBoundary(r) = EpochBoundary(r)
  /\ \A m : Source!SettleDeferredEpoch(m) = SettleDeferredEpoch(m)
<1>1. \A B : Source!First(B) = First(B)
  BY Zenon DEF Source!First, First, Source!Precedes, Precedes
<1>2. \A r : Source!EpochOf(r) = EpochOf(r)
  BY Zenon DEF Source!EpochOf, EpochOf
<1>3. \A r : Source!EpochBoundary(r) = EpochBoundary(r)
  BY Zenon DEF Source!EpochBoundary, EpochBoundary
<1>4. \A m : Source!SettleDeferredEpoch(m) = SettleDeferredEpoch(m)
  BY Zenon DEF Source!SettleDeferredEpoch, SettleDeferredEpoch, Source!Distributable,
               Distributable
<1>5. QED
  BY <1>1, <1>2, <1>3, <1>4

\* The source's commit loop goes the one way too.
LEMMA SourceStep ==
  ASSUME OneCarrier, WindowInv, StandOK(dag, SourceStand, srcClaimed), Source!Commits
  PROVE  /\ Goes(dag, SourceStand, SourceStand')
         /\ srcClaimed' = Recorded(dag, SourceStand, srcClaimed)
         /\ dag' = dag
<1>1. PICK s : s = SourceStand
  OBVIOUS
<1>2. /\ s.flags = srcCommitted /\ s.mem = srcMem /\ s.applied = srcApplied
      /\ s.batch = srcBatch /\ s.job = srcJob
      /\ s.credited = IF srcJob \in {"idle", "save"} THEN {} ELSE srcCredited
  BY <1>1 DEF SourceStand, Stand
<1>3. dag \in Dags /\ StandOK(dag, s, srcClaimed)
  BY <1>1 DEF WindowInv
<1>4. SourceStand' = Stand(srcCommitted', srcMem', srcApplied', srcBatch',
                             srcCredited', srcJob')
  BY Zenon DEF SourceStand
<1>5. dag' = dag
  BY DEF Source!Commits, Source!CommitNextRound, Source!ApplyVertex, Source!ExecuteTx,
         Source!FlagVertex, Source!AdvanceCommitCursor, Source!SaveCommitCursor
<1>6. \A v \in dag.vertices : Source!Bounds(v) <=> v \in srcCommitted
  BY <1>3, DagsAssumption DEF Source!Bounds
<1>7. CASE Source!CommitNextRound
  <2>1. /\ srcJob = "idle" /\ srcCredited' = {} /\ srcJob' = "apply"
        /\ UNCHANGED <<srcCommitted, srcMem, srcClaimed, srcApplied>>
    BY <1>7 DEF Source!CommitNextRound
  <2>2. Collects(dag, srcCommitted, dag.anchor[srcMem.cursor], srcBatch')
    <3>1. PICK a : a = dag.anchor[srcMem.cursor]
      OBVIOUS
    <3>2. CASE Source!Skips(a) /\ srcBatch' = {}
      BY Zenon, <3>1, <3>2 DEF Source!Skips, Collects
    <3>3. CASE /\ ~Source!Skips(a) /\ a \in srcStored
               /\ \E B \in SUBSET {v \in srcStored : ~Source!Bounds(v)} :
                    Source!IsBatch(a, B) /\ srcBatch' = B
      <4>1. PICK B \in SUBSET {v \in srcStored : ~Source!Bounds(v)} :
              Source!IsBatch(a, B) /\ srcBatch' = B
        BY Zenon, <3>3
      <4>2. srcStored \subseteq dag.vertices /\ \A v \in dag.vertices : dag.parents[v] \subseteq dag.vertices
        <5>1. srcStored \subseteq dag.vertices /\ dag \in Dags
          BY Zenon DEF WindowInv, Stocked
        <5>2. QED
          BY <5>1, DagsAssumption
      <4>3. /\ B \subseteq dag.vertices \ srcCommitted /\ a \in B \cup srcCommitted
            /\ \A v \in B : dag.parents[v] \subseteq B \cup srcCommitted
            /\ \A v \in B \ {a} : \E w \in B : v \in dag.parents[w]
        BY SMTT(30), <1>6, <3>3, <4>1, <4>2 DEF Source!IsBatch
      <4>4. QED
        BY <3>1, <3>3, <4>1, <4>3 DEF Collects, Source!Skips
    <3>4. QED
      BY Zenon, <1>7, <3>1, <3>2, <3>3 DEF Source!CommitNextRound
  <2>3. SourceStand' = Stand(s.flags, s.mem, s.applied, srcBatch', {}, "apply")
    BY Zenon, <1>2, <1>4, <2>1
  <2>4. Goes(dag, s, SourceStand')
    BY Zenon, <1>2, <2>1, <2>2, <2>3 DEF Goes
  <2>5. QED
    BY Zenon, <1>1, <1>2, <1>5, <2>1, <2>4 DEF Recorded
<1>8. CASE Source!ApplyVertex
  <2>1. PICK v : v = First(srcBatch)
    OBVIOUS
  <2>2. /\ srcJob = "apply" /\ srcBatch # {}
        /\ srcMem' = [srcMem EXCEPT !.live = Source!CreditLiveness(v)]
        /\ srcCredited' = srcCredited \cup {<<v.producer, v.round>>}
        /\ srcClaimed' = IF dag.tx[v] = NoTx THEN srcClaimed ELSE srcClaimed \cup {dag.tx[v]}
        /\ srcJob' = IF Source!Claims(dag.tx[v]) THEN "execute" ELSE "flag"
        /\ UNCHANGED <<srcCommitted, srcApplied, srcBatch>>
    BY Zenon, <1>8, <2>1, SourceOps DEF Source!ApplyVertex
  <2>3. dag.tx[v] # NoTx => dag.tx[v] \notin srcClaimed
    BY Zenon, <1>2, <1>3, <2>1, <2>2, CarrierPasses
  <2>4. srcJob' = IF dag.tx[v] = NoTx THEN "flag" ELSE "execute"
    BY <2>2, <2>3 DEF Source!Claims
  <2>5. srcMem' = Credited(srcMem, srcCredited, v)
    BY Zenon, <2>2, SourceOps DEF Source!CreditLiveness, Credited
  <2>6. s.credited = srcCredited
    BY <1>2, <2>2
  <2>7. Goes(dag, s, SourceStand')
    BY Zenon, <1>2, <1>4, <2>1, <2>2, <2>4, <2>5, <2>6 DEF Goes
  <2>8. QED
    BY Zenon, <1>1, <1>2, <1>5, <2>1, <2>2, <2>7 DEF Recorded
<1>9. CASE Source!ExecuteTx
  <2>1. /\ srcJob = "execute" /\ srcApplied' = Append(srcApplied, dag.tx[First(srcBatch)])
        /\ srcMem' = Charged(srcMem, First(srcBatch)) /\ srcJob' = "flag"
        /\ UNCHANGED <<srcCommitted, srcClaimed, srcBatch, srcCredited>>
    BY Zenon, <1>9, SourceOps DEF Source!ExecuteTx, Charged
  <2>2. s.credited = srcCredited
    BY <1>2, <2>1
  <2>3. Goes(dag, s, SourceStand')
    BY Zenon, <1>2, <1>4, <2>1, <2>2 DEF Goes
  <2>4. QED
    BY <1>1, <1>2, <1>5, <2>1, <2>3 DEF Recorded
<1>10. CASE Source!FlagVertex
  <2>1. PICK v : v = First(srcBatch)
    OBVIOUS
  <2>2. /\ srcJob = "flag" /\ srcCommitted' = srcCommitted \cup {v} /\ srcBatch' = srcBatch \ {v}
        /\ srcMem' = [srcMem EXCEPT !.produced = @ \cup {v.producer}] /\ srcJob' = "apply"
        /\ UNCHANGED <<srcClaimed, srcApplied, srcCredited>>
    BY Zenon, <1>10, <2>1, SourceOps DEF Source!FlagVertex
  <2>3. s.credited = srcCredited
    BY <1>2, <2>2
  <2>4. Goes(dag, s, SourceStand')
    BY Zenon, <1>2, <1>4, <2>1, <2>2, <2>3 DEF Goes
  <2>5. QED
    BY <1>1, <1>2, <1>5, <2>2, <2>4 DEF Recorded
<1>11. CASE Source!AdvanceCommitCursor
  <2>1. /\ srcJob = "apply" /\ srcBatch = {} /\ srcMem' = Turned(srcMem) /\ srcJob' = "save"
        /\ UNCHANGED <<srcCommitted, srcClaimed, srcApplied, srcBatch, srcCredited>>
    BY Zenon, <1>11, SourceOps DEF Source!AdvanceCommitCursor, Turned
  <2>2. s.credited = srcCredited
    BY <1>2, <2>1
  <2>3. Goes(dag, s, SourceStand')
    BY Zenon, <1>2, <1>4, <2>1, <2>2 DEF Goes
  <2>4. QED
    BY <1>1, <1>2, <1>5, <2>1, <2>3 DEF Recorded
<1>12. CASE Source!SaveCommitCursor
  <2>1. /\ srcJob = "save" /\ srcJob' = "idle"
        /\ UNCHANGED <<srcCommitted, srcMem, srcClaimed, srcApplied, srcBatch, srcCredited>>
    BY <1>12 DEF Source!SaveCommitCursor
  <2>2. SourceStand' = Stand(s.flags, s.mem, s.applied, s.batch, s.credited, "idle")
    BY <1>2, <1>4, <2>1 DEF Stand
  <2>3. Goes(dag, s, SourceStand')
    BY Zenon, <1>2, <2>1, <2>2 DEF Goes
  <2>4. QED
    BY <1>1, <1>2, <1>5, <2>1, <2>3 DEF Recorded
<1>13. QED
  BY Zenon, <1>7, <1>8, <1>9, <1>10, <1>11, <1>12 DEF Source!Commits

\* Until it crashes, a joiner is where the snapshot found the source, or on the way
\* from there, which the source goes too; before it joins, it is empty.
WayInv ==
  /\ crashes \in Nat
  /\ StandOK(dag, SourceStand, srcClaimed)
  /\ crashes = 0 /\ ~joined => stored = {} /\ committed = {} /\ floor = -1 /\ claimed = {}
  /\ crashes = 0 /\ joined /\ covered =>
       StandOK(dag, OwnStand, claimed) /\ OnOneWay(dag, SourceStand, OwnStand)

\* A covered snapshot puts the joiner where the source is.
LEMMA JoinMeets ==
  ASSUME SnapshotsFrom > 0, WindowInv, WayInv, Join, crashes = 0, covered'
  PROVE  OwnStand' = SourceStand
<1>1. /\ ~joined /\ srcJob = "idle" /\ srcStored # {} /\ srcMem.cursor >= SnapshotsFrom
      /\ committed' = committed \cup Flagged /\ floor' = RaisedFloor
      /\ mem' = [srcMem EXCEPT !.cursor = LastDecidedRound(@) + 1]
      /\ applied' = srcApplied
      /\ \A v \in dag.vertices : v.round <= RaisedFloor => v \in srcCommitted
      /\ UNCHANGED <<dag, batch, credited, job>>
  BY Zenon DEF Join
<1>2. stored = {} /\ committed = {} /\ batch = {} /\ job = "idle"
  BY <1>1 DEF WayInv, WindowInv
<1>3. {v \in dag.vertices : Bounds(v)}' = srcCommitted
  <2>1. Flagged = Exported \cap srcCommitted
    BY <1>2 DEF Flagged
  <2>2. srcCommitted \subseteq srcStored /\ srcStored \subseteq dag.vertices
    BY DEF WindowInv, Stocked
  <2>3. \A x \in srcStored : x \in Exported \/ x.round <= RaisedFloor
    BY <1>1, WindowAboveFloor
  <2>4. {v \in dag.vertices : Bounds(v)}' = {v \in dag.vertices : v \in Flagged \/ v.round <= RaisedFloor}
    BY <1>1, <1>2 DEF Bounds
  <2> HIDE DEF Exported, Flagged, RaisedFloor
  <2>5. QED
    BY <1>1, <2>1, <2>2, <2>3, <2>4
<1>4. srcBatch = {} /\ Shaped(srcMem) /\ srcMem.cursor \in Nat
  BY <1>1 DEF WayInv, StandOK, Numbered, SourceStand, Stand
<1>5. mem' = srcMem
  <2>1. LastDecidedRound(srcMem.cursor) + 1 = srcMem.cursor
    BY <1>1, <1>4, WindowAssumption DEF LastDecidedRound
  <2>2. QED
    BY <1>1, <1>4, <2>1 DEF Shaped
<1>6. QED
  BY Zenon, <1>1, <1>2, <1>3, <1>4, <1>5 DEF OwnStand, SourceStand, Stand

\* Every step keeps both nodes on one way.
LEMMA WayInvKept ==
  ASSUME OneCarrier, SnapshotsFrom > 0, WindowInv, WayInv, [SyncNext]_syncVars
  PROVE  WayInv'
<1>1. CASE SourceRuns
  <2>1. UNCHANGED <<stored, floor, committed, mem, claimed, applied, batch, credited, job,
                    crashes, joined, covered>>
    BY <1>1 DEF SourceRuns
  <2>2. dag' = dag => OwnStand' = OwnStand
    BY <2>1 DEF OwnStand, Bounds
  <2>3. CASE \E v \in dag.vertices : Source!Receive(v)
    <3>1. dag' = dag /\ srcClaimed' = srcClaimed /\ SourceStand' = SourceStand
      BY <2>3 DEF Source!Receive, SourceStand
    <3>2. QED
      BY Zenon, <2>1, <2>2, <3>1 DEF WayInv
  <2>4. CASE Source!Commits
    <3>1. /\ dag' = dag /\ Goes(dag, SourceStand, SourceStand')
          /\ srcClaimed' = Recorded(dag, SourceStand, srcClaimed)
      BY Zenon, <2>4, SourceStep DEF WayInv
    <3>2. StandOK(dag, SourceStand', srcClaimed') /\ dag \in Dags
      BY Zenon, <3>1, StandKept DEF WayInv, WindowInv
    <3>3. OnOneWay(dag, SourceStand, OwnStand) => OnOneWay(dag, SourceStand', OwnStand)
      BY Zenon, <3>1, <3>2, WayKept
    <3>4. QED
      BY Zenon, <2>1, <2>2, <3>1, <3>2, <3>3 DEF WayInv
  <2>5. QED
    BY <1>1, <2>3, <2>4 DEF SourceRuns
<1>2. CASE Join
  <2>1. ~joined /\ joined' /\ UNCHANGED <<dag, claimed, crashes, srcVars>>
    BY <1>2 DEF Join
  <2>2. SourceStand' = SourceStand /\ srcClaimed' = srcClaimed
    BY <2>1 DEF srcVars, SourceStand
  <2>3. ASSUME crashes' = 0, covered'
        PROVE  StandOK(dag, OwnStand', claimed') /\ OnOneWay(dag, SourceStand', OwnStand')
    <3>1. OwnStand' = SourceStand
      BY <1>2, <2>1, <2>3, JoinMeets
    <3>2. claimed' = {}
      BY <2>1, <2>3 DEF WayInv
    <3>3. StandOK(dag, SourceStand, {})
      BY Zenon DEF WayInv, StandOK
    <3> DEFINE G == [i \in {0} |-> SourceStand]
    <3>4. G[0] = SourceStand /\ 0 \in Nat /\ \A i \in 0..(0 - 1) : FALSE
      OBVIOUS
    <3> HIDE DEF G
    <3>5. Links(dag, SourceStand, SourceStand, 0, G)
      BY Zenon, <3>4 DEF Links
    <3>6. OnOneWay(dag, SourceStand, SourceStand)
      BY Zenon, <3>4, <3>5 DEF OnOneWay, Ahead
    <3>7. QED
      BY Zenon, <2>2, <3>1, <3>2, <3>3, <3>6
  <2>4. QED
    BY Zenon, <2>1, <2>2, <2>3 DEF WayInv
<1>3. CASE Runs
  <2>1. joined /\ joined' /\ UNCHANGED <<srcVars, covered>>
    BY <1>3 DEF Runs
  <2>2. SourceStand' = SourceStand /\ srcClaimed' = srcClaimed
    BY <2>1 DEF srcVars, SourceStand
  <2>3. crashes' = crashes /\ dag' = dag
    BY <1>3 DEF Runs, Commits, Receive, Fetch, CommitNextRound, ApplyVertex, ExecuteTx,
                FlagVertex, AdvanceCommitCursor, SaveCommitCursor
  <2>4. CASE \E v \in dag.vertices : Receive(v) \/ Fetch(v)
    <3>1. claimed' = claimed /\ OwnStand' = OwnStand
      BY <2>4 DEF Receive, Fetch, OwnStand, Bounds
    <3>2. QED
      BY Zenon, <2>1, <2>2, <2>3, <3>1 DEF WayInv
  <2>5. CASE Commits
    <3>1. ASSUME StandOK(dag, OwnStand, claimed), OnOneWay(dag, SourceStand, OwnStand)
          PROVE  StandOK(dag, OwnStand', claimed') /\ OnOneWay(dag, SourceStand, OwnStand')
      <4>1. /\ Goes(dag, OwnStand, OwnStand')
            /\ claimed' = Recorded(dag, OwnStand, claimed)
        BY Zenon, <2>5, <3>1, OwnStep DEF WindowInv, Stocked
      <4>2. dag \in Dags /\ OnOneWay(dag, OwnStand, SourceStand)
        BY Zenon, <3>1 DEF WindowInv, OnOneWay
      <4>3. StandOK(dag, OwnStand', claimed')
        BY Zenon, <3>1, <4>1, <4>2, StandKept
      <4>4. QED
        BY Zenon, <4>1, <4>2, <4>3, WayKept
    <3>2. QED
      BY Zenon, <2>1, <2>2, <2>3, <3>1 DEF WayInv
  <2>6. QED
    BY <1>3, <2>4, <2>5 DEF Runs
<1>4. CASE Restart
  <2>1. crashes' = crashes + 1 /\ UNCHANGED <<dag, srcVars>>
    BY <1>4 DEF Restart, Crash
  <2>2. SourceStand' = SourceStand /\ srcClaimed' = srcClaimed
    BY <2>1 DEF srcVars, SourceStand
  <2>3. crashes' \in Nat /\ crashes' # 0
    BY <2>1 DEF WayInv
  <2>4. QED
    BY Zenon, <2>1, <2>2, <2>3 DEF WayInv
<1>5. CASE MarkStateAdopted \/ UNCHANGED syncVars
  <2>1. UNCHANGED <<vars, srcVars, joined, covered>>
    BY Zenon, <1>5 DEF MarkStateAdopted, syncVars
  <2>2. UNCHANGED <<dag, stored, floor, committed, claimed, crashes, srcClaimed>>
    BY Zenon, <2>1 DEF vars, srcVars
  <2>3. OwnStand' = OwnStand /\ SourceStand' = SourceStand
    BY <2>1 DEF vars, srcVars, OwnStand, SourceStand, Bounds
  <2>4. QED
    BY Zenon, <2>1, <2>2, <2>3 DEF WayInv
<1>6. QED
  BY Zenon, <1>1, <1>2, <1>3, <1>4, <1>5 DEF SyncNext

\* Where every transaction has one carrier, and snapshots are taken past round 0, a
\* joiner whose window reaches down to what the source has committed is, until it
\* crashes, in the source's state whenever both are at the same cursor: the same flags
\* above the floor, the same transactions applied, the same accumulators, whoever of the
\* two is faster (createSnapshot, ImportVertices, WithLastCommittedRound,
\* WithSyncedRegimeState).
THEOREM JoinerAgreesHolds ==
  ASSUME OneCarrier, SnapshotsFrom > 0
  PROVE  SyncSpec => []JoinerAgrees
<1>1. SyncInit => WayInv
  <2>1. SUFFICES ASSUME SyncInit PROVE WayInv
    OBVIOUS
  <2>2. Shaped(Source!Fresh) /\ Source!Fresh.cursor = 0
    BY Zenon DEF Shaped, Source!Fresh
  <2>3. /\ SourceStand.flags = {} /\ SourceStand.batch = {} /\ SourceStand.job = "idle"
        /\ SourceStand.mem = Source!Fresh /\ srcClaimed = {}
    <3>1. /\ srcCommitted = {} /\ srcBatch = {} /\ srcJob = "idle" /\ srcMem = Source!Fresh
          /\ srcClaimed = {}
      BY Zenon, <2>1 DEF SyncInit, Source!Init
    <3>2. QED
      BY Zenon, <3>1 DEF SourceStand, Stand
  <2>4. StandOK(dag, SourceStand, srcClaimed)
    BY <2>2, <2>3 DEF StandOK, Numbered
  <2>5. QED
    BY <2>1, <2>4 DEF SyncInit, Init, WayInv
<1>2. WindowInv /\ WayInv /\ [SyncNext]_syncVars => WayInv'
  BY WayInvKept
<1>3. WindowInv /\ WayInv => JoinerAgrees
  <2>1. SUFFICES ASSUME WindowInv, WayInv, joined, covered, crashes = 0, job = "idle",
                        srcJob = "idle", mem.cursor = srcMem.cursor
                 PROVE  /\ AboveFloor(committed) = AboveFloor(srcCommitted)
                        /\ applied = srcApplied
                        /\ mem = srcMem
    BY DEF JoinerAgrees
  <2>2. /\ OwnStand.flags = {v \in dag.vertices : Bounds(v)} /\ OwnStand.mem = mem
        /\ OwnStand.applied = applied /\ OwnStand.job = job
    BY DEF OwnStand, Stand
  <2>3. /\ SourceStand.flags = srcCommitted /\ SourceStand.mem = srcMem
        /\ SourceStand.applied = srcApplied /\ SourceStand.job = srcJob
    BY DEF SourceStand, Stand
  <2>4. /\ OnOneWay(dag, SourceStand, OwnStand)
        /\ Numbered(SourceStand) /\ Numbered(OwnStand)
    BY Zenon, <2>1 DEF WayInv, StandOK
  <2>5. OwnStand = SourceStand
    BY <2>1, <2>2, <2>3, <2>4, AheadMeets DEF OnOneWay
  <2>6. srcCommitted = {v \in dag.vertices : Bounds(v)} /\ applied = srcApplied /\ mem = srcMem
    BY Zenon, <2>2, <2>3, <2>5
  <2>7. committed \subseteq dag.vertices /\ floor \in Int
    BY <2>1 DEF WindowInv, Stocked
  <2>8. \A v \in dag.vertices : v.round \in Int
    BY <2>1, DagsAssumption DEF WindowInv
  <2>9. AboveFloor(committed) = AboveFloor(srcCommitted)
    BY <2>6, <2>7, <2>8 DEF AboveFloor, Bounds
  <2>10. QED
    BY <2>6, <2>9
<1>4. QED
  BY <1>1, <1>2, <1>3, WindowsHold, PTL DEF SyncSpec

=============================================================================
