---------------------------- MODULE ServiceProofs ----------------------------
(***************************************************************************)
(* Two services of a node that share no state.                             *)
(*                                                                         *)
(* The counters of the ingress gate, for every number of connections,      *)
(* streams and sizes.  The counters are sums: what SumFunctionOnSet        *)
(* computes on a finite set, whatever the order in which it picks the      *)
(* elements, comes first.                                                  *)
(*                                                                         *)
(* What the nodes make of attested transactions, for every number of       *)
(* nodes, holder order, replication, epoch length, lag and log.            *)
(***************************************************************************)
EXTENDS Attestation, Gate, FiniteSetTheorems, TLAPS

\* Every non-empty set of natural numbers has a least element.
LEMMA LeastNat ==
  ASSUME NEW T \in SUBSET Nat, T # {}
  PROVE  \E x \in T : \A y \in T : x <= y
<1>1. PICK x \in T : \A y \in T : ~(<<y, x>> \in OpToRel(<, Nat))
  BY Zenon, NatLessThanWellFounded, WFMin
<1>2. \A y \in T : ~(y < x)
  BY Zenon, <1>1 DEF OpToRel
<1>3. QED
  BY <1>2

\* Every non-empty set of finite sets has a member of least cardinality.
LEMMA LeastSet ==
  ASSUME NEW T, T # {}, \A s \in T : IsFiniteSet(s)
  PROVE  \E s \in T : \A t \in T : Cardinality(s) <= Cardinality(t)
<1> DEFINE sizes == {Cardinality(s) : s \in T}
<1>1. sizes \in SUBSET Nat /\ sizes # {}
  BY FS_CardinalityType
<1>2. PICK n \in sizes : \A m \in sizes : n <= m
  <2> HIDE DEF sizes
  <2>1. QED
    BY Zenon, <1>1, LeastNat
<1>3. QED
  BY <1>2

-----------------------------------------------------------------------------
(* The sum of a function over a set *)

Pick(s) == CHOOSE x \in s : TRUE

\* The sum over s, from the sums f over smaller sets.
SumStep(f, g, s) == IF s = {} THEN 0 ELSE g[Pick(s)] + f[s \ {Pick(s)}]

\* f is the sum of g over every set of D, and over every subset of S.
SumsOver(f, g, D) == f = [s \in D |-> SumStep(f, g, s)]
SumsOf(f, g, S) == SumsOver(f, g, SUBSET S)

\* Taking the picked element away leaves a smaller subset.
LEMMA PickSmaller ==
  ASSUME NEW S, IsFiniteSet(S), NEW s \in SUBSET S, s # {}
  PROVE  /\ Pick(s) \in s
         /\ s \ {Pick(s)} \in SUBSET S
         /\ Cardinality(s \ {Pick(s)}) = Cardinality(s) - 1
         /\ Cardinality(s) \in Nat
<1>1. Pick(s) \in s
  BY DEF Pick
<1>2. IsFiniteSet(s)
  BY FS_Subset
<1>3. QED
  BY <1>1, <1>2, FS_RemoveElement, FS_CardinalityType

UpTo(S, n) == {t \in SUBSET S : Cardinality(t) <= n}

\* There are sums over the subsets of at most n elements.
LEMMA SumsUpTo ==
  ASSUME NEW S, IsFiniteSet(S), NEW g, NEW n \in Nat
  PROVE  \E f : SumsOver(f, g, UpTo(S, n))
<1> USE DEF UpTo, SumsOver
<1> DEFINE D(k) == UpTo(S, k)
           Has(k) == \E f : f = [s \in D(k) |-> SumStep(f, g, s)]
           Missing == {k \in Nat : ~Has(k)}
<1> SUFFICES ASSUME Missing # {} PROVE FALSE
  BY Zenon
<1>1. PICK k \in Missing : \A j \in Missing : k <= j
  <2>1. Missing \in SUBSET Nat
    OBVIOUS
  <2>2. QED
    BY Zenon, <2>1, LeastNat
<1>2. \E f : \A s \in D(k) : s # {} => \A h : (h = [t \in D(k) |-> SumStep(f, g, t)]) =>
                                          h[s \ {Pick(s)}] = f[s \ {Pick(s)}]
  <2>1. CASE k = 0
    <3>1. \A s \in D(k) : s = {}
      BY <2>1, FS_Subset, FS_EmptySet, FS_CardinalityType
    <3>2. QED
      BY <3>1
  <2>2. CASE k # 0
    <3>1. k - 1 \in Nat /\ Has(k - 1)
      <4>1. k \in Nat /\ k - 1 \in Nat
        BY <2>2
      <4>2. k - 1 \notin Missing
        <5> HIDE DEF Missing
        <5>1. QED
          BY <1>1, <4>1
      <4> HIDE DEF Has
      <4>3. QED
        BY <4>1, <4>2
    <3>2. PICK f : f = [s \in D(k - 1) |-> SumStep(f, g, s)]
      BY Zenon, <3>1
    <3>3. ASSUME NEW s \in D(k), s # {}, NEW h, h = [t \in D(k) |-> SumStep(f, g, t)]
          PROVE  h[s \ {Pick(s)}] = f[s \ {Pick(s)}]
      <4> DEFINE t == s \ {Pick(s)}
      <4>1. t \in SUBSET S /\ Cardinality(t) <= k - 1 /\ Cardinality(t) \in Int
        BY <1>1, <3>3, PickSmaller
      <4>2. t \in D(k - 1) /\ t \in D(k)
        BY <1>1, <4>1
      <4> HIDE DEF t, UpTo
      <4>3. f[t] = SumStep(f, g, t)
        BY <3>2, <4>2
      <4>4. h[t] = SumStep(f, g, t)
        BY <3>3, <4>2
      <4>5. QED
        BY <4>3, <4>4 DEF t
    <3>4. QED
      BY Zenon, <3>3
  <2>3. QED
    BY Zenon, <2>1, <2>2
<1>3. PICK f : \A s \in D(k) : s # {} => \A h : (h = [t \in D(k) |-> SumStep(f, g, t)]) =>
                                          h[s \ {Pick(s)}] = f[s \ {Pick(s)}]
  BY Zenon, <1>2
<1> DEFINE h == [s \in D(k) |-> SumStep(f, g, s)]
<1>4. \A s \in D(k) : SumStep(h, g, s) = SumStep(f, g, s)
  <2> HIDE DEF UpTo
  <2>1. \A s \in D(k) : s # {} => h[s \ {Pick(s)}] = f[s \ {Pick(s)}]
    BY <1>3
  <2> HIDE DEF h
  <2>2. QED
    BY <2>1 DEF SumStep
<1>5. h = [s \in D(k) |-> SumStep(h, g, s)]
  <2> HIDE DEF UpTo
  <2>1. h = [s \in D(k) |-> SumStep(f, g, s)]
    OBVIOUS
  <2> HIDE DEF h
  <2>2. QED
    BY <1>4, <2>1
<1>6. Has(k)
  <2> HIDE DEF h, UpTo
  <2>1. QED
    BY <1>5
<1>7. QED
  BY Zenon, <1>1, <1>6

\* There are sums over the subsets of a finite set, and SumFunctionOnSet is the one
\* over the whole of it.
LEMMA SumsExist ==
  ASSUME NEW S, IsFiniteSet(S), NEW g
  PROVE  \E f : SumsOf(f, g, S) /\ SumFunctionOnSet(g, S) = f[S]
<1> DEFINE F == CHOOSE f : f = [s \in SUBSET S |->
                  IF s = {} THEN 0
                  ELSE g[CHOOSE x \in s : TRUE] + f[s \ {CHOOSE x \in s : TRUE}]]
<1>1. \E f : SumsOf(f, g, S)
  <2>1. PICK n \in Nat : n = Cardinality(S)
    BY FS_CardinalityType
  <2>2. UpTo(S, n) = SUBSET S
    BY <2>1, FS_Subset DEF UpTo
  <2>3. PICK f : SumsOver(f, g, UpTo(S, n))
    BY SumsUpTo
  <2>4. QED
    BY Zenon, <2>2, <2>3 DEF SumsOf
<1>2. SumsOf(F, g, S)
  BY Zenon, <1>1 DEF SumsOf, SumsOver, SumStep, Pick
<1>3. SumFunctionOnSet(g, S) = F[S]
  BY Zenon DEF SumFunctionOnSet, FoldFunctionOnSet, MapThenFoldSet
<1>4. QED
  BY Zenon, <1>2, <1>3

\* What the sums over the subsets of S are, one by one.
LEMMA SumsValues ==
  ASSUME NEW S, NEW f, NEW g, SumsOf(f, g, S)
  PROVE  /\ f[{}] = 0
         /\ \A s \in SUBSET S : s # {} => f[s] = g[Pick(s)] + f[s \ {Pick(s)}]
<1>1. \A s \in SUBSET S : f[s] = SumStep(f, g, s)
  BY DEF SumsOf, SumsOver
<1>2. QED
  BY <1>1 DEF SumStep

Agree(g, h, T) == \A x \in T : g[x] = h[x]

\* Two functions that agree on T have the same sums over its subsets.
LEMMA SumsSame ==
  ASSUME NEW S, NEW T \in SUBSET S, IsFiniteSet(S),
         NEW f, NEW g, SumsOf(f, g, S), NEW e, NEW h, SumsOf(e, h, T),
         Agree(g, h, T), NEW s \in SUBSET T
  PROVE  f[s] = e[s]
<1> DEFINE Differ == {t \in SUBSET T : f[t] # e[t]}
<1> SUFFICES ASSUME Differ # {} PROVE FALSE
  OBVIOUS
<1>1. IsFiniteSet(T) /\ \A t \in Differ : IsFiniteSet(t)
  BY FS_Subset
<1>2. PICK t \in Differ : \A u \in Differ : Cardinality(t) <= Cardinality(u)
  <2> HIDE DEF Differ
  <2>1. QED
    BY <1>1, LeastSet
<1>3. t \in SUBSET T /\ t \in SUBSET S /\ t # {}
  BY Zenon, <1>2, SumsValues
<1>4. PICK x, u : x = Pick(t) /\ u = t \ {Pick(t)}
  BY Zenon
<1>5. x \in T /\ u \in SUBSET T /\ ~(Cardinality(t) <= Cardinality(u))
  <2>1. Cardinality(u) = Cardinality(t) - 1 /\ Cardinality(t) \in Nat /\ x \in t
    BY <1>1, <1>3, <1>4, PickSmaller
  <2>2. QED
    BY <1>3, <1>4, <2>1
<1>6. f[u] = e[u]
  BY <1>2, <1>5
<1>7. f[t] = g[x] + f[u] /\ e[t] = h[x] + e[u]
  <2>1. f[t] = g[x] + f[u]
    BY SMTT(30), <1>3, <1>4, SumsValues
  <2>2. e[t] = h[x] + e[u]
    <3>1. e[t] = SumStep(e, h, t)
      BY <1>3 DEF SumsOf, SumsOver
    <3>2. QED
      BY <1>3, <1>4, <3>1 DEF SumStep
  <2>3. QED
    BY <2>1, <2>2
<1>8. QED
  BY <1>2, <1>5, <1>6, <1>7 DEF Agree

\* Sums of integers are integers.
LEMMA SumsTyped ==
  ASSUME NEW S, IsFiniteSet(S), NEW f, NEW g, SumsOf(f, g, S), \A x \in S : g[x] \in Int,
         NEW s \in SUBSET S
  PROVE  f[s] \in Int
<1> DEFINE Bad == {t \in SUBSET S : f[t] \notin Int}
<1> SUFFICES ASSUME Bad # {} PROVE FALSE
  BY Zenon
<1>1. \A t \in Bad : IsFiniteSet(t)
  BY FS_Subset
<1>2. PICK t \in Bad : \A u \in Bad : Cardinality(t) <= Cardinality(u)
  <2> HIDE DEF Bad
  <2>1. QED
    BY <1>1, LeastSet
<1>3. t \in SUBSET S /\ t # {}
  <2>1. f[{}] = 0
    BY SumsValues
  <2>2. QED
    BY SMTT(30), <1>2, <2>1
<1>4. PICK x, u : x = Pick(t) /\ u = t \ {Pick(t)}
  BY Zenon
<1>5. x \in S /\ u \in SUBSET S /\ ~(Cardinality(t) <= Cardinality(u))
  <2>1. Cardinality(u) = Cardinality(t) - 1 /\ Cardinality(t) \in Nat /\ x \in t
    BY <1>3, <1>4, PickSmaller
  <2>2. QED
    BY <1>3, <1>4, <2>1
<1>6. f[u] \in Int
  BY <1>2, <1>5
<1>7. f[t] = g[x] + f[u]
  BY <1>3, <1>4, SumsValues
<1>8. QED
  BY <1>2, <1>5, <1>6, <1>7

\* Any element may be taken out first.
LEMMA SumsAnyOrder ==
  ASSUME NEW S, IsFiniteSet(S), NEW f, NEW g, SumsOf(f, g, S), \A x \in S : g[x] \in Int,
         NEW s \in SUBSET S, NEW y \in s
  PROVE  f[s] = g[y] + f[s \ {y}]
<1> DEFINE Bad == {t \in SUBSET S : \E z \in t : f[t] # g[z] + f[t \ {z}]}
<1> SUFFICES ASSUME Bad # {} PROVE FALSE
  BY Zenon
<1>1. \A t \in Bad : IsFiniteSet(t)
  BY FS_Subset
<1>2. PICK t \in Bad : \A u \in Bad : Cardinality(t) <= Cardinality(u)
  <2> HIDE DEF Bad
  <2>1. QED
    BY <1>1, LeastSet
<1>3. PICK z \in t : f[t] # g[z] + f[t \ {z}]
  BY <1>2
<1>4. t \in SUBSET S /\ t # {}
  BY <1>2, <1>3
<1>5. PICK x : x = Pick(t)
  OBVIOUS
<1>6. x \in t /\ f[t] = g[x] + f[t \ {x}]
  <2>1. x \in t
    BY Zenon, <1>4, <1>5, PickSmaller
  <2>2. f[t] = g[x] + f[t \ {x}]
    BY <1>4, <1>5, SumsValues
  <2>3. QED
    BY <2>1, <2>2
<1>7. x # z
  BY Zenon, <1>3, <1>6
<1>8. PICK u, w, r : u = t \ {x} /\ w = t \ {z} /\ r = t \ {x, z}
  BY Zenon
<1>9. /\ u \in SUBSET S /\ w \in SUBSET S /\ r \in SUBSET S
      /\ z \in u /\ x \in w /\ r = u \ {z} /\ r = w \ {x}
  BY <1>3, <1>4, <1>6, <1>7, <1>8
<1>10. ~(Cardinality(t) <= Cardinality(u)) /\ ~(Cardinality(t) <= Cardinality(w))
  <2>1. IsFiniteSet(t)
    BY <1>1
  <2>2. Cardinality(t) \in Nat
    BY <2>1, FS_CardinalityType
  <2>3. Cardinality(u) = Cardinality(t) - 1 /\ Cardinality(w) = Cardinality(t) - 1
    BY Zenon, <1>3, <1>6, <1>8, <2>1, FS_RemoveElement
  <2>4. QED
    BY <2>2, <2>3
<1>11. u \notin Bad /\ w \notin Bad
  BY <1>2, <1>10
<1>12. f[u] = g[z] + f[r] /\ f[w] = g[x] + f[r]
  BY Zenon, <1>9, <1>11
<1>13. f[r] \in Int /\ g[x] \in Int /\ g[z] \in Int
  BY <1>3, <1>4, <1>6, <1>9, SumsTyped
<1>14. QED
  BY <1>3, <1>6, <1>8, <1>12, <1>13

-----------------------------------------------------------------------------
(* SumFunctionOnSet *)

\* The sum over no element.
LEMMA SumEmpty ==
  ASSUME NEW g
  PROVE  SumFunctionOnSet(g, {}) = 0
<1>1. PICK f : SumsOf(f, g, {}) /\ SumFunctionOnSet(g, {}) = f[{}]
  BY SumsExist, FS_EmptySet
<1>2. QED
  BY <1>1, SumsValues

\* The sum over a finite set is any element's value and the sum over the others.
LEMMA SumTakes ==
  ASSUME NEW S, IsFiniteSet(S), NEW g, \A x \in S : g[x] \in Int, NEW y \in S
  PROVE  /\ SumFunctionOnSet(g, S) = g[y] + SumFunctionOnSet(g, S \ {y})
         /\ SumFunctionOnSet(g, S) \in Int
         /\ SumFunctionOnSet(g, S \ {y}) \in Int
<1>1. PICK f : SumsOf(f, g, S) /\ SumFunctionOnSet(g, S) = f[S]
  BY SumsExist
<1> DEFINE T == S \ {y}
<1>2. IsFiniteSet(T) /\ T \in SUBSET S
  BY FS_RemoveElement
<1>3. PICK e : SumsOf(e, g, T) /\ SumFunctionOnSet(g, T) = e[T]
  BY <1>2, SumsExist
<1>4. f[T] = e[T]
  <2> HIDE DEF T
  <2>1. Agree(g, g, T)
    BY DEF Agree
  <2>2. QED
    BY <1>1, <1>2, <1>3, <2>1, SumsSame
<1>5. f[S] = g[y] + f[T] /\ f[S] \in Int /\ f[T] \in Int
  <2>1. S \in SUBSET S
    OBVIOUS
  <2>2. f[S] = g[y] + f[S \ {y}]
    BY <1>1, <2>1, SumsAnyOrder
  <2>3. f[S] \in Int /\ f[S \ {y}] \in Int
    BY <1>1, <1>2, <2>1, SumsTyped
  <2>4. QED
    BY <2>2, <2>3
<1>6. QED
  BY <1>1, <1>3, <1>4, <1>5

\* The sum of naturals is a natural.
LEMMA SumNat ==
  ASSUME NEW S, IsFiniteSet(S), NEW g, \A x \in S : g[x] \in Nat
  PROVE  SumFunctionOnSet(g, S) \in Nat
<1>1. PICK f : SumsOf(f, g, S) /\ SumFunctionOnSet(g, S) = f[S]
  BY SumsExist
<1> DEFINE Bad == {t \in SUBSET S : f[t] \notin Nat}
<1> SUFFICES ASSUME Bad # {} PROVE FALSE
  BY <1>1
<1>2. \A t \in Bad : IsFiniteSet(t)
  BY FS_Subset
<1>3. PICK t \in Bad : \A u \in Bad : Cardinality(t) <= Cardinality(u)
  <2> HIDE DEF Bad
  <2>1. QED
    BY <1>2, LeastSet
<1>4. t \in SUBSET S /\ t # {}
  <2>1. f[{}] = 0
    BY <1>1, SumsValues
  <2>2. QED
    BY <1>3, <2>1
<1>5. PICK x, u : x = Pick(t) /\ u = t \ {Pick(t)}
  BY Zenon
<1>6. x \in S /\ u \in SUBSET S /\ ~(Cardinality(t) <= Cardinality(u))
  <2>1. Cardinality(u) = Cardinality(t) - 1 /\ Cardinality(t) \in Nat /\ x \in t
    BY <1>4, <1>5, PickSmaller
  <2>2. QED
    BY <1>4, <1>5, <2>1
<1>7. f[u] \in Nat
  BY <1>3, <1>6
<1>8. f[t] = g[x] + f[u]
  BY <1>1, <1>4, <1>5, SumsValues
<1>9. QED
  BY <1>3, <1>6, <1>7, <1>8

-----------------------------------------------------------------------------
(* The ingress gate *)

\* Finitely many connections and streams, and requests of some size.
GateAssumed ==
  IsFiniteSet(Clients) /\ IsFiniteSet(Streams) /\ ByteSizes \subseteq Nat /\ clientRateBurst \in Nat

\* The counters are numbers, and exact.
GateInv ==
  /\ scope = [conns |-> scope.conns, streams |-> scope.streams,
              pendingBytes |-> scope.pendingBytes, tokens |-> scope.tokens]
  /\ conn = [c \in Clients |-> conn[c]] /\ stream = [s \in Streams |-> stream[s]]
  /\ bytes \in [Streams -> Nat]
  /\ CountsExact

\* What CountsExact counts are numbers.
LEMMA GateCounts ==
  ASSUME GateAssumed, GateInv
  PROVE  /\ IsFiniteSet(Open) /\ IsFiniteSet(Serving)
         /\ scope.conns \in Nat /\ scope.streams \in Nat /\ scope.pendingBytes \in Nat
<1>1. IsFiniteSet(Open) /\ IsFiniteSet(Serving)
  BY FS_Subset DEF GateAssumed, Open, Serving
<1>2. \A s \in Serving : bytes[s] \in Nat
  BY DEF GateInv, Serving
<1>3. SumFunctionOnSet(bytes, Serving) \in Nat
  BY SMTT(30), <1>1, <1>2, SumNat
<1>4. QED
  BY SMTT(30), <1>1, <1>3, FS_CardinalityType DEF GateInv, CountsExact

\* scopeFor makes a scope of nothing in use, or takes the one there is.
LEMMA ScopeForCounts ==
  ASSUME GateAssumed, GateInv
  PROVE  /\ scopeFor.conns = scope.conns /\ scopeFor.streams = scope.streams
         /\ scopeFor.pendingBytes = scope.pendingBytes
         /\ scopeFor = [conns |-> scope.conns, streams |-> scope.streams,
                             pendingBytes |-> scope.pendingBytes,
                             tokens |-> scopeFor.tokens]
<1>1. CASE Absent
  BY <1>1 DEF scopeFor, Absent, NoScope
<1>2. CASE ~Absent
  BY <1>2 DEF scopeFor, GateInv
<1>3. QED
  BY <1>1, <1>2

\* admitConn and releaseConn count one connection up or down.
LEMMA ConnKeeps ==
  ASSUME GateAssumed, GateInv, NEW c \in Clients, admitConn(c) \/ releaseConn(c)
  PROVE  GateInv'
<1>1. UNCHANGED <<stream, bytes>>
  BY DEF admitConn, releaseConn
<1>2. Serving' = Serving
  BY SMTT(30), <1>1 DEF Serving
<1>3. /\ IsFiniteSet(Open) /\ scope.conns = Cardinality(Open) /\ scope.conns \in Nat
      /\ scope.streams = Cardinality(Serving) /\ scope.streams \in Nat
      /\ scope.pendingBytes = SumFunctionOnSet(bytes, Serving) /\ scope.pendingBytes \in Nat
  BY SMTT(30), GateCounts DEF GateInv, CountsExact
<1>4. SUFFICES /\ scope' = [conns |-> Cardinality(Open'), streams |-> scope.streams,
                            pendingBytes |-> scope.pendingBytes, tokens |-> scope'.tokens]
               /\ conn' = [x \in Clients |-> conn'[x]]
  BY <1>1, <1>2, <1>3 DEF GateInv, CountsExact
<1>5. conn' = [x \in Clients |-> conn'[x]]
  BY DEF admitConn, releaseConn, GateInv
<1>6. CASE admitConn(c)
  <2>1. CASE scopeFor.conns >= maxClientConnsPerIP
    <3>1. scope' = scopeFor /\ conn[c] = "new" /\ conn' = [conn EXCEPT ![c] = "closed"]
      BY <1>6, <2>1 DEF admitConn
    <3>2. Open' = Open
      BY <3>1 DEF Open, GateInv
    <3>3. QED
      BY <1>3, <1>5, <3>1, <3>2, ScopeForCounts
  <2>2. CASE ~(scopeFor.conns >= maxClientConnsPerIP)
    <3>1. /\ scope' = [scopeFor EXCEPT !.conns = @ + 1]
          /\ conn[c] = "new" /\ conn' = [conn EXCEPT ![c] = "open"]
      BY <1>6, <2>2 DEF admitConn
    <3>2. Open' = Open \cup {c} /\ c \notin Open
      BY <3>1 DEF Open, GateInv
    <3>3. Cardinality(Open') = scope.conns + 1
      BY ZenonT(30), <1>3, <3>2, FS_AddElement
    <3>4. PICK f : f = scopeFor
      OBVIOUS
    <3>5. f = [conns |-> scope.conns, streams |-> scope.streams,
               pendingBytes |-> scope.pendingBytes, tokens |-> f.tokens]
      BY <3>4, ScopeForCounts
    <3>6. scope' = [f EXCEPT !.conns = @ + 1]
      BY <3>1, <3>4
    <3>7. QED
      BY <1>5, <3>3, <3>5, <3>6
  <2>3. QED
    BY <2>1, <2>2
<1>7. CASE releaseConn(c)
  <2>1. conn[c] = "open" /\ conn' = [conn EXCEPT ![c] = "closed"]
    BY <1>7 DEF releaseConn
  <2>2. Open' = Open \ {c} /\ c \in Open
    BY <2>1 DEF Open, GateInv
  <2>3. Cardinality(Open') = scope.conns - 1 /\ scope.conns # 0
    BY <1>3, <2>2, FS_RemoveElement, FS_EmptySet
  <2>4. ~Absent
    BY <2>3 DEF Absent, NoScope
  <2>5. CASE scope.conns <= 1 /\ scope.streams <= 0 /\ scope.pendingBytes <= 0
    <3>1. scope' = NoScope
      BY SMTT(30), <1>7, <2>4, <2>5 DEF releaseConn
    <3>2. scope.conns = 1 /\ scope.streams = 0 /\ scope.pendingBytes = 0
      BY <1>3, <2>3, <2>5
    <3>3. QED
      BY <1>5, <2>3, <3>1, <3>2 DEF NoScope
  <2>6. CASE ~(scope.conns <= 1 /\ scope.streams <= 0 /\ scope.pendingBytes <= 0)
    <3>1. scope' = [scope EXCEPT !.conns = @ - 1]
      BY SMTT(30), <1>7, <2>4, <2>6 DEF releaseConn
    <3>2. QED
      BY <1>5, <2>3, <3>1 DEF GateInv
  <2>7. QED
    BY <2>5, <2>6
<1>8. QED
  BY <1>6, <1>7

\* admitStream and releaseStream count one stream and its bytes up or down.
LEMMA StreamKeeps ==
  ASSUME GateAssumed, GateInv, NEW s \in Streams, admitStream(s) \/ releaseStream(s)
  PROVE  GateInv'
<1>1. UNCHANGED <<conn, bytes>>
  BY DEF admitStream, releaseStream
<1>2. Open' = Open
  BY SMTT(30), <1>1 DEF Open
<1>3. /\ scope.conns = Cardinality(Open) /\ scope.conns \in Nat
      /\ scope.streams = Cardinality(Serving) /\ scope.streams \in Nat
      /\ scope.pendingBytes = SumFunctionOnSet(bytes, Serving) /\ scope.pendingBytes \in Nat
      /\ IsFiniteSet(Serving) /\ bytes \in [Streams -> Nat]
  BY GateCounts DEF GateInv, CountsExact
<1>4. PICK S, T : S = Serving /\ T = Serving'
  OBVIOUS
<1>t. S \subseteq Streams /\ bytes \in [Streams -> Nat]
  BY <1>3, <1>4 DEF Serving
<1>5. SUFFICES /\ scope' = [conns |-> scope.conns, streams |-> Cardinality(T),
                            pendingBytes |-> SumFunctionOnSet(bytes, T), tokens |-> scope'.tokens]
               /\ stream' = [x \in Streams |-> stream'[x]]
  BY <1>1, <1>2, <1>3, <1>4 DEF GateInv, CountsExact
<1>6. stream' = [x \in Streams |-> stream'[x]]
  BY DEF admitStream, releaseStream, GateInv
<1>7. CASE admitStream(s)
  <2>1. PICK f : f = scopeFor
    OBVIOUS
  <2>2. f = [conns |-> scope.conns, streams |-> scope.streams,
             pendingBytes |-> scope.pendingBytes, tokens |-> f.tokens]
    BY <2>1, ScopeForCounts
  <2>3. CASE RoomFor(s, scopeFor)
    <3>1. /\ scope' = [f EXCEPT !.streams = @ + 1, !.pendingBytes = @ + bytes[s], !.tokens = @ - 1]
          /\ stream[s] = "reading" /\ stream' = [stream EXCEPT ![s] = "serving"]
      BY <1>7, <2>1, <2>3 DEF admitStream
    <3>2. T = S \cup {s} /\ s \notin S
      BY <1>4, <3>1 DEF Serving, GateInv
    <3>3. Cardinality(T) = scope.streams + 1 /\ IsFiniteSet(T)
      BY SMTT(30), <1>3, <1>4, <3>2, FS_AddElement
    <3>4. SumFunctionOnSet(bytes, T) = scope.pendingBytes + bytes[s]
      <4>1. s \in T /\ \A x \in T : bytes[x] \in Int
        BY <1>t, <3>2
      <4>2. /\ SumFunctionOnSet(bytes, T) = bytes[s] + SumFunctionOnSet(bytes, T \ {s})
            /\ SumFunctionOnSet(bytes, T \ {s}) \in Int
        BY <3>3, <4>1, SumTakes
      <4>3. T \ {s} = S
        BY <3>2
      <4>4. QED
        BY SMTT(30), <1>3, <1>4, <4>1, <4>2, <4>3
    <3>5. PICK b, n, p : /\ b = bytes[s] /\ n = Cardinality(T)
                         /\ p = SumFunctionOnSet(bytes, T)
      OBVIOUS
    <3>6. scope' = [f EXCEPT !.streams = @ + 1, !.pendingBytes = @ + b, !.tokens = @ - 1]
      BY <3>1, <3>5
    <3>7. n = scope.streams + 1 /\ p = scope.pendingBytes + b
      BY SMTT(30), <3>3, <3>4, <3>5
    <3>8. scope' = [conns |-> scope.conns, streams |-> n, pendingBytes |-> p,
                    tokens |-> scope'.tokens]
      <4>1. PICK c, m, q, t : /\ c = scope.conns /\ m = scope.streams
                              /\ q = scope.pendingBytes /\ t = f.tokens
        OBVIOUS
      <4>2. f = [conns |-> c, streams |-> m, pendingBytes |-> q, tokens |-> t]
        BY <2>2, <4>1
      <4>3. PICK u : u = t - 1
        OBVIOUS
      <4>4. scope' = [f EXCEPT !.streams = n, !.pendingBytes = p, !.tokens = u]
        BY SMTT(30), <3>6, <3>7, <4>1, <4>2, <4>3
      <4>5. scope' = [conns |-> c, streams |-> n, pendingBytes |-> p, tokens |-> u]
        BY ZenonT(30), <4>2, <4>4
      <4>6. QED
        BY <4>1, <4>5
    <3>9. QED
      BY <1>6, <3>5, <3>8
  <2>4. CASE ~RoomFor(s, scopeFor)
    <3>1. scope' = f /\ stream[s] = "reading" /\ stream' = [stream EXCEPT ![s] = "done"]
      BY <1>7, <2>1, <2>4 DEF admitStream
    <3>2. T = S
      BY <1>4, <3>1 DEF Serving, GateInv
    <3>3. QED
      BY <1>3, <1>4, <1>6, <2>2, <3>1, <3>2
  <2>5. QED
    BY SMTT(30), <2>3, <2>4
<1>8. CASE releaseStream(s)
  <2>1. stream[s] = "serving" /\ stream' = [stream EXCEPT ![s] = "done"]
    BY <1>8 DEF releaseStream
  <2>2. T = S \ {s} /\ s \in S
    BY <1>4, <2>1 DEF Serving, GateInv
  <2>3. Cardinality(T) = scope.streams - 1 /\ scope.streams # 0
    BY ZenonT(30), <1>3, <1>4, <2>2, FS_RemoveElement, FS_EmptySet
  <2>4. /\ scope.pendingBytes = bytes[s] + SumFunctionOnSet(bytes, T)
        /\ SumFunctionOnSet(bytes, T) \in Nat /\ bytes[s] \in Nat
    <3>1. /\ \A x \in S : bytes[x] \in Int
          /\ \A x \in T : bytes[x] \in Nat
      BY <1>t, <2>2
    <3>2. SumFunctionOnSet(bytes, S) = bytes[s] + SumFunctionOnSet(bytes, S \ {s})
      BY <1>3, <1>4, <2>2, <3>1, SumTakes
    <3>3. IsFiniteSet(T)
      BY SMTT(30), <1>3, <1>4, <2>2, FS_RemoveElement
    <3>4. SumFunctionOnSet(bytes, T) \in Nat
      BY SMTT(30), <3>1, <3>3, SumNat
    <3>5. QED
      BY <1>3, <1>4, <2>2, <3>2, <3>4
  <2>5. ~Absent
    BY <2>3 DEF Absent, NoScope
  <2>6. scope' = [scope EXCEPT !.streams = @ - 1,
                               !.pendingBytes = IF @ < bytes[s] THEN 0 ELSE @ - bytes[s]]
    BY <1>8, <2>5 DEF releaseStream
  <2>7. scope' = [scope EXCEPT !.streams = Cardinality(T),
                               !.pendingBytes = SumFunctionOnSet(bytes, T)]
    <3>1. PICK b, n, p : /\ b = bytes[s] /\ n = Cardinality(T)
                         /\ p = SumFunctionOnSet(bytes, T)
      OBVIOUS
    <3>2. /\ n = scope.streams - 1
          /\ p = IF scope.pendingBytes < b THEN 0 ELSE scope.pendingBytes - b
      BY <2>3, <2>4, <3>1
    <3>3. scope' = [scope EXCEPT !.streams = @ - 1,
                                 !.pendingBytes = IF @ < b THEN 0 ELSE @ - b]
      BY <2>6, <3>1
    <3>4. scope' = [scope EXCEPT !.streams = n, !.pendingBytes = p]
      BY <3>2, <3>3 DEF GateInv
    <3>5. QED
      BY <3>1, <3>4
  <2>8. QED
    BY Zenon, <1>6, <2>7 DEF GateInv
<1>9. QED
  BY <1>7, <1>8

\* Every step of the gate keeps the counters exact.
LEMMA GateNextKeeps ==
  ASSUME GateAssumed, GateInv, [GateNext]_gateVars
  PROVE  GateInv'
<1>1. ASSUME NEW c \in Clients, admitConn(c) \/ releaseConn(c) PROVE GateInv'
  BY <1>1, ConnKeeps
<1>2. ASSUME NEW s \in Streams, admitStream(s) \/ releaseStream(s) PROVE GateInv'
  BY SMTT(30), <1>2, StreamKeeps
<1>3. ASSUME NEW s \in Streams, AcceptStream(s) \/ ReadFails(s) PROVE GateInv'
  <2>1. /\ UNCHANGED <<scope, conn, bytes>> /\ stream[s] # "serving"
        /\ stream' = [stream EXCEPT ![s] = "reading"] \/ stream' = [stream EXCEPT ![s] = "done"]
    BY SMTT(30), <1>3 DEF AcceptStream, ReadFails
  <2>2. Serving' = Serving /\ Open' = Open
    BY <2>1 DEF Serving, Open, GateInv
  <2>3. stream' = [x \in Streams |-> stream'[x]]
    BY <2>1 DEF GateInv
  <2>4. QED
    BY SMTT(30), <2>1, <2>2, <2>3 DEF GateInv, CountsExact
<1>4. CASE Refill
  <2>1. scope' = [scope EXCEPT !.tokens = @ + 1] /\ UNCHANGED <<conn, stream, bytes>>
    BY <1>4 DEF Refill
  <2>2. /\ scope'.conns = scope.conns /\ scope'.streams = scope.streams
        /\ scope'.pendingBytes = scope.pendingBytes
        /\ scope' = [conns |-> scope'.conns, streams |-> scope'.streams,
                     pendingBytes |-> scope'.pendingBytes, tokens |-> scope'.tokens]
    BY <2>1 DEF GateInv
  <2>3. Serving' = Serving /\ Open' = Open
    BY SMTT(30), <2>1 DEF Serving, Open
  <2>4. QED
    BY <2>1, <2>2, <2>3 DEF GateInv, CountsExact
<1>5. CASE GateDone \/ UNCHANGED gateVars
  <2>1. UNCHANGED <<scope, conn, stream, bytes>>
    BY <1>5 DEF GateDone, gateVars
  <2>2. Serving' = Serving /\ Open' = Open
    BY <2>1 DEF Serving, Open
  <2>3. QED
    BY <2>1, <2>2 DEF GateInv, CountsExact
<1>6. QED
  BY SMTT(30), <1>1, <1>2, <1>3, <1>4, <1>5 DEF GateNext

\* However connections and the streams that outlive them end, the counters of an address
\* are those of what it has open, for every limit: the scope that is dropped is one of
\* nothing in use (admitConn, releaseConn, admitStream, releaseStream).
THEOREM CountsExactHolds == ASSUME GateAssumed PROVE GateSpec => []CountsExact
<1>1. GateInit => GateInv
  <2> SUFFICES ASSUME GateInit PROVE GateInv
    OBVIOUS
  <2>1. /\ scope = NoScope /\ conn = [c \in Clients |-> "new"]
        /\ stream = [s \in Streams |-> "new"] /\ bytes \in [Streams -> Nat]
    BY Zenon DEF GateInit, GateAssumed
  <2>2. Open = {} /\ Serving = {}
    BY <2>1 DEF Open, Serving
  <2>3. CountsExact
    BY <2>1, <2>2, FS_EmptySet, SumEmpty DEF CountsExact, NoScope
  <2>4. QED
    BY <2>1, <2>3 DEF GateInv, NoScope
<1>2. GateInv /\ [GateNext]_gateVars => GateInv'
  BY GateNextKeeps
<1>3. GateInv => CountsExact
  BY DEF GateInv
<1>4. QED
  BY <1>1, <1>2, <1>3, PTL DEF GateSpec

-----------------------------------------------------------------------------
(* Attested transactions *)

LastEpoch == MaxRound \div EpochLength

\* The rendezvous order lists nodes, each once.
IsRanking(s) ==
  /\ s \in Seq(Nodes)
  /\ \A i, j \in 1..Len(s) : s[i] = s[j] => i = j

\* Epochs have a length, and every epoch of the log has a holder order.
EpochsAssumed ==
  /\ EpochLength \in Nat \ {0} /\ GraceRounds \in Nat
  /\ Replication \in Nat /\ MaxRound \in Nat
  /\ Entries \subseteq Nodes
  /\ \A e \in 0..LastEpoch : IsRanking(Ranking[e + 1])

Stored == [version : Nat, content : Nat, owner : Nat]
Bodies == {<<>>} \cup {<<b>> : b \in Stored}
Verdicts == {"empty", "proof", "version", "ok"}
TxKinds == {"set_object", "reparent"}
Fields == {"pc", "tx", "kind", "ref", "holders", "epoch", "obj", "sigs", "failed", "asked", "tries"}

\* The epoch the end of the log is in.
Frontier == Len(log) \div EpochLength

\* Signatures of the holders of epoch e, each at its own place in their order.
SignedBy(sigs, e) ==
  /\ IsFiniteSet(sigs)
  /\ \A s \in sigs :
       /\ s = [index |-> s.index, by |-> s.by]
       /\ s.index \in DOMAIN Holders(e) /\ s.by = Holders(e)[s.index]

DaemonOK ==
  /\ d = [f \in Fields |-> d[f]]
  /\ d.tx \in Nat /\ d.ref \in Nat
  /\ d.holders \in 0..Frontier /\ d.epoch \in 0..Frontier
  /\ d.pc # "idle" => d.kind \in TxKinds
  /\ d.pc = "collect" => d.obj \in Bodies \ {<<>>} /\ SignedBy(d.sigs, d.holders)

\* An attested transaction built while the log was in epoch e.
AtxOK(a, e) ==
  /\ a.kind \in TxKinds /\ a.tx \in Nat /\ a.ref \in Nat /\ a.obj \in Stored
  /\ a.epoch \in 0..e /\ a.collectedFrom \in 0..e
  /\ SignedBy(a.sigs, a.collectedFrom)
  /\ Cardinality(a.sigs) >= QuorumSize(Len(Holders(a.collectedFrom)))

\* The epoch in which round r is committed.
EpochAt(r) == (r - 1) \div EpochLength

LogOK ==
  /\ DOMAIN log = 1..Len(log) /\ Len(log) \in 0..MaxRound
  /\ \A r \in 1..Len(log) : log[r] # <<>> => log[r] = <<log[r][1]>> /\ AtxOK(log[r][1], EpochAt(r))

PoolOK == \A a \in pool : AtxOK(a, Frontier)

NodesOK ==
  /\ verdicts \in [Nodes -> Seq(Verdicts)]
  /\ body \in [Nodes -> Bodies]
  /\ fetch \in [Nodes -> [pc : {"none", "scan", "want", "store"}, got : Bodies]]
  /\ entry \in Nodes
  /\ \A n \in Nodes : applied(n) <= Len(log)

TypeInv == LogOK /\ PoolOK /\ DaemonOK /\ NodesOK

-----------------------------------------------------------------------------
(* A verdict as a function of the log and the verdicts before it.           *)

HolderSetKnown(a, r) ==
  \/ a.epoch = EpochAt(r)
  \/ EpochAt(r) > 0 /\ a.epoch = EpochAt(r) - 1
  \/ a.epoch = EpochAt(r) + 1

Resolves(a, r) ==
  LET ce == commitEpochForRound(r) IN
  /\ \/ a.epoch = ce
     \/ ce > 0 /\ a.epoch = ce - 1 /\ withinGrace(r)
  /\ HolderSetKnown(a, r)

OkBefore(vs, r) == Cardinality({i \in 1..(r - 1) : vs[i] = "ok"})

Judged(round, vs, r) ==
  IF round = <<>> THEN "empty"
  ELSE LET a == round[1] IN
    IF ~Resolves(a, r) \/ ~prepareSingleProof(a) THEN "proof"
    ELSE IF a.ref # OkBefore(vs, r) THEN "version" ELSE "ok"

\* Every verdict follows from the round and the verdicts before it.
Determined ==
  \A n \in Nodes : \A r \in 1..applied(n) : verdicts[n][r] = Judged(log[r], verdicts[n], r)

\* A node that was a holder in every epoch is never without the body, fetches nothing,
\* and stores the version the tracker has.
AlwaysHolder(n) == \A e \in 0..Epoch(n) : buildIsHolder(n, e)
HolderCurrent ==
  \A n \in Nodes :
    AlwaysHolder(n) =>
      /\ body[n] # <<>> /\ body[n][1].version = tracker(n)
      /\ fetch[n].pc \in {"none", "scan"}

IInv == TypeInv /\ Determined /\ HolderCurrent

-----------------------------------------------------------------------------
(* Arithmetic, holder orders and proofs.                                    *)

\* A round lies in the epoch its number is divided into.
LEMMA DivBounds ==
  ASSUME NEW x \in Nat, NEW L \in Nat \ {0}
  PROVE  x \div L \in Nat /\ (x \div L) * L <= x /\ x < (x \div L) * L + L
OBVIOUS

\* Later rounds lie in later epochs.
LEMMA DivMonotone ==
  ASSUME NEW x \in Nat, NEW y \in Nat, x <= y, NEW L \in Nat \ {0}
  PROVE  x \div L <= y \div L
OBVIOUS

\* The last epoch of the log is a number.
LEMMA LastEpochTyped == ASSUME EpochsAssumed PROVE LastEpoch \in Nat
BY DivBounds DEF EpochsAssumed, LastEpoch

\* commitEpochForRound is the epoch of a node that has applied every earlier round: the
\* boundary round still belongs to the epoch it closes.
LEMMA CommitEpoch ==
  ASSUME EpochsAssumed, NEW r \in Nat \ {0}
  PROVE  commitEpochForRound(r) = EpochAt(r) /\ EpochAt(r) \in Nat
<1> DEFINE L == EpochLength
           e == r \div L
<1>1. L \in Nat \ {0} /\ r - 1 \in Nat
  BY DEF EpochsAssumed
<1>2. e \in Nat /\ e * L <= r /\ r < e * L + L
  BY <1>1, DivBounds
<1>3. r % L = r - e * L
  BY <1>1
<1>4. EpochAt(r) \in Nat /\ EpochAt(r) * L <= r - 1 /\ r - 1 < EpochAt(r) * L + L
  BY <1>1, DivBounds DEF EpochAt
<1> HIDE DEF e, L
<1>5. CASE e > 0 /\ r % L = 0
  <2>1. (e - 1) * L = e * L - L
    BY <1>1, <1>2
  <2>2. (r - 1) \div L = e - 1
    BY <1>1, <1>2, <1>3, <1>5, <2>1
  <2>3. QED
    BY <1>4, <1>5, <2>2 DEF commitEpochForRound, EpochAt, e, L
<1>6. CASE ~(e > 0 /\ r % L = 0)
  <2>1. e * L <= r - 1
    BY <1>1, <1>2, <1>3, <1>6
  <2>2. (r - 1) \div L = e
    BY <1>1, <1>2, <2>1
  <2>3. QED
    BY <1>4, <1>6, <2>2 DEF commitEpochForRound, EpochAt, e, L
<1>7. QED
  BY <1>5, <1>6

\* The first holders of an order are an order themselves.
LEMMA HoldersTyped ==
  ASSUME EpochsAssumed, NEW e \in 0..LastEpoch, NEW count \in Nat
  PROVE  IsRanking(ComputeHolders(e, count))
<1> DEFINE s == Ranking[e + 1]
           k == IF count < Len(s) THEN count ELSE Len(s)
<1>1. IsRanking(s)
  BY DEF EpochsAssumed
<1>2. k \in 0..Len(s)
  BY <1>1 DEF IsRanking
<1>3. ComputeHolders(e, count) = SubSeq(s, 1, k)
  BY DEF ComputeHolders
<1> HIDE DEF s, k
<1>4. /\ SubSeq(s, 1, k) \in Seq(Nodes) /\ Len(SubSeq(s, 1, k)) = k
      /\ \A i \in 1..k : SubSeq(s, 1, k)[i] = s[i]
  BY <1>1, <1>2 DEF IsRanking
<1>5. QED
  BY <1>1, <1>2, <1>3, <1>4 DEF IsRanking

\* A quorum of signatures of an epoch's holders passes the check against that epoch's
\* order: no two of them are read as the same holder.
LEMMA QuorumPasses ==
  ASSUME EpochsAssumed, NEW a, NEW e \in 0..LastEpoch, AtxOK(a, e), a.collectedFrom = a.epoch
  PROVE  prepareSingleProof(a)
<1> DEFINE holders == Holders(a.epoch)
           keys == {holders[i] : i \in {s.index : s \in a.sigs} \cap DOMAIN holders}
           f == [s \in a.sigs |-> s.by]
<1>1. a.epoch \in 0..LastEpoch /\ SignedBy(a.sigs, a.epoch)
  BY LastEpochTyped DEF AtxOK
<1>2. IsRanking(holders)
  BY <1>1, HoldersTyped DEF Holders, EpochsAssumed
<1>3. \A s \in a.sigs : /\ s = [index |-> s.index, by |-> s.by]
                        /\ s.index \in DOMAIN holders /\ s.by = holders[s.index]
  BY <1>1 DEF SignedBy
<1> HIDE DEF holders
<1>4. keys = {s.by : s \in a.sigs}
  BY <1>3
<1>5. \A s, t \in a.sigs : s.by = t.by => s = t
  BY <1>2, <1>3 DEF IsRanking
<1> HIDE DEF keys
<1>6. f \in Bijection(a.sigs, keys)
  <2>1. f \in [a.sigs -> keys] /\ \A s, t \in a.sigs : f[s] = f[t] => s = t
    BY <1>4, <1>5
  <2>2. \A k \in keys : \E s \in a.sigs : f[s] = k
    BY <1>4
  <2>3. QED
    BY <2>1, <2>2 DEF Bijection, Injection, Surjection, IsInjective
<1>7. IsFiniteSet(a.sigs)
  BY <1>1 DEF SignedBy
<1>8. Cardinality(keys) = Cardinality(a.sigs)
  BY <1>6, <1>7, FS_Bijection DEF ExistsBijection
<1>9. Cardinality(a.sigs) >= QuorumSize(Len(holders))
  BY DEF AtxOK, holders
<1>10. QED
  BY Zenon, <1>4, <1>8, <1>9 DEF prepareSingleProof, keys, holders

-----------------------------------------------------------------------------
(* The steps of the daemon.                                                 *)

\* The log has a length.
LEMMA LogTyped == ASSUME TypeInv PROVE Len(log) \in Nat
BY DEF TypeInv, LogOK

\* No node and no part of the log is in an epoch without a holder order.
LEMMA EpochsTyped ==
  ASSUME EpochsAssumed, TypeInv
  PROVE  /\ Frontier \in 0..LastEpoch
         /\ \A n \in Nodes : applied(n) \in Nat /\ Epoch(n) \in 0..Frontier
<1>1. Len(log) \in Nat /\ MaxRound \in Nat /\ Len(log) <= MaxRound /\ EpochLength \in Nat \ {0}
  BY DEF EpochsAssumed, TypeInv, LogOK
<1>2. Frontier \in 0..LastEpoch
  BY <1>1, DivBounds, DivMonotone DEF Frontier, LastEpoch
<1>3. ASSUME NEW n \in Nodes PROVE applied(n) \in Nat /\ Epoch(n) \in 0..Frontier
  <2>1. applied(n) \in Nat /\ applied(n) <= Len(log)
    BY DEF TypeInv, NodesOK, applied
  <2>2. Epoch(n) \in Nat
    BY <1>1, <2>1, DivBounds DEF Epoch
  <2>3. Epoch(n) <= Frontier
    BY <1>1, <2>1, DivMonotone DEF Epoch, Frontier
  <2>4. Frontier \in Nat
    BY <1>1, DivBounds DEF Frontier
  <2>5. QED
    BY <2>1, <2>2, <2>3, <2>4
<1>4. QED
  BY <1>2, <1>3

\* What a routed read returns is a stored body.
LEMMA ReadTyped ==
  ASSUME EpochsAssumed, TypeInv, NEW n \in Nodes
  PROVE  /\ routedRead(n) \subseteq Bodies \ {<<>>}
         /\ fetchObjectFromHolder(n) \subseteq Bodies \ {<<>>}
<1> DEFINE probed == ComputeHolders(Epoch(n), objectFetchProbeHolders)
<1>1. Epoch(n) \in 0..LastEpoch
  BY EpochsTyped, LastEpochTyped
<1>2. IsRanking(probed)
  BY <1>1, HoldersTyped DEF objectFetchProbeHolders
<1>3. Range(probed) \subseteq Nodes
  BY <1>2 DEF IsRanking, Range
<1>4. \A m \in Nodes : body[m] \in Bodies
  BY DEF TypeInv, NodesOK
<1> HIDE DEF probed
<1>5. {body[m] : m \in Range(probed) \ {n}} \ {<<>>} \subseteq Bodies \ {<<>>}
  BY <1>3, <1>4
<1>6. QED
  BY <1>4, <1>5 DEF routedRead, fetchObjectFromHolder, probed

\* A body has a version.
LEMMA BodyTyped ==
  ASSUME NEW b \in Bodies \ {<<>>}
  PROVE  b[1] \in Stored /\ b[1].version \in Nat /\ b = <<b[1]>>
BY DEF Bodies, Stored

\* A step that leaves the log and the nodes alone keeps the invariant if it keeps the
\* daemon's part of it.
LEMMA DaemonFrame ==
  ASSUME IInv, UNCHANGED <<log, verdicts, body, fetch, entry>>, DaemonOK', PoolOK'
  PROVE  IInv'
<1>1. LogOK' /\ NodesOK'
  BY DEF IInv, TypeInv, LogOK, NodesOK, applied
<1>2. Determined'
  BY DEF IInv, Determined, applied
<1>3. HolderCurrent'
  BY DEF IInv, HolderCurrent, AlwaysHolder, Epoch, applied, tracker
<1>4. QED
  BY <1>1, <1>2, <1>3 DEF IInv, TypeInv

\* GetObject, SyncHolders, SyncEpoch, SyncFails, collectOne.
LEMMA PrepareKeeps ==
  ASSUME EpochsAssumed, IInv,
         GetObject \/ SyncHolders \/ SyncEpoch \/ SyncFails \/ collectOne
  PROVE  IInv'
<1>1. TypeInv /\ DaemonOK /\ PoolOK /\ entry \in Nodes
  BY SMTT(30) DEF IInv, TypeInv, NodesOK
<1>2. UNCHANGED <<log, verdicts, body, fetch, entry, pool>>
  BY Zenon DEF GetObject, SyncHolders, SyncEpoch, SyncFails, collectOne
<1>3. PoolOK' /\ Frontier' = Frontier
  BY <1>1, <1>2 DEF PoolOK, Frontier
<1>4. Epoch(entry) \in 0..Frontier
  BY <1>1, EpochsTyped
<1>5. CASE GetObject
  <2>1. PICK b \in routedRead(entry), kind \in TxKinds :
          d' = [Idle EXCEPT !.pc = "sync", !.tx = d.tx + 1, !.kind = kind, !.ref = b[1].version,
                            !.holders = d.holders, !.epoch = d.epoch]
    BY Zenon, <1>5 DEF GetObject, TxKinds
  <2>2. b[1].version \in Nat
    BY <1>1, ReadTyped, BodyTyped
  <2>3. d' = [pc |-> "sync", tx |-> d.tx + 1, kind |-> kind, ref |-> b[1].version,
              holders |-> d.holders, epoch |-> d.epoch, obj |-> <<>>, sigs |-> {}, failed |-> 0,
              asked |-> {}, tries |-> 0]
    BY Zenon, <2>1 DEF Idle
  <2>4. d' = [f \in Fields |-> d'[f]]
    BY ZenonT(30), <2>3 DEF Fields
  <2>5. /\ d'.pc = "sync" /\ d'.tx = d.tx + 1 /\ d'.kind \in TxKinds /\ d'.ref \in Nat
        /\ d'.holders = d.holders /\ d'.epoch = d.epoch
    BY <2>2, <2>3
  <2>6. DaemonOK'
    BY <1>1, <1>3, <2>4, <2>5 DEF DaemonOK
  <2>7. QED
    BY SMTT(30), <1>2, <1>3, <2>6, DaemonFrame
<1>6. CASE SyncHolders
  <2>1. DaemonOK'
    BY Zenon, <1>1, <1>3, <1>4, <1>6 DEF SyncHolders, DaemonOK, Fields
  <2>2. QED
    BY <1>2, <1>3, <2>1, DaemonFrame
<1>7. CASE SyncEpoch
  <2>1. DaemonOK'
    BY Zenon, <1>1, <1>3, <1>4, <1>7 DEF SyncEpoch, DaemonOK, Fields
  <2>2. QED
    BY <1>2, <1>3, <2>1, DaemonFrame
<1>8. CASE SyncFails
  <2>1. DaemonOK'
    BY Zenon, <1>1, <1>3, <1>8 DEF SyncFails, DaemonOK, Fields
  <2>2. QED
    BY <1>2, <1>3, <2>1, DaemonFrame
<1>9. CASE collectOne
  <2>1. PICK b \in routedRead(entry) :
          d' = [d EXCEPT !.pc = "collect", !.obj = b, !.sigs = {}, !.failed = 0, !.asked = {}]
    BY Zenon, <1>9 DEF collectOne
  <2>2. b \in Bodies \ {<<>>}
    BY <1>1, ReadTyped
  <2>3. SignedBy({}, d.holders)
    BY SMTT(30), FS_EmptySet DEF SignedBy
  <2>4. d.pc = "fetch" /\ d'.holders = d.holders /\ d'.sigs = {} /\ d'.obj = b /\ d'.pc = "collect"
    BY ZenonT(30), <1>1, <1>9, <2>1 DEF collectOne, DaemonOK, Fields
  <2>5. DaemonOK'
    BY ZenonT(30), <1>1, <1>3, <2>1, <2>2, <2>3, <2>4 DEF DaemonOK, Fields
  <2>6. QED
    BY <1>2, <1>3, <2>5, DaemonFrame
<1>10. QED
  BY <1>5, <1>6, <1>7, <1>8, <1>9

\* The daemon back to idle, with the holders and the epoch it had.
BackToIdle == d' = [Idle EXCEPT !.tx = d.tx, !.holders = d.holders, !.epoch = d.epoch]
LEMMA IdleTyped ==
  ASSUME DaemonOK, Frontier' = Frontier, BackToIdle
  PROVE  DaemonOK'
<1>1. d' = [pc |-> "idle", tx |-> d.tx, kind |-> "", ref |-> 0, holders |-> d.holders,
            epoch |-> d.epoch, obj |-> <<>>, sigs |-> {}, failed |-> 0, asked |-> {}, tries |-> 0]
  BY Zenon DEF BackToIdle, Idle
<1>2. d' = [f \in Fields |-> d'[f]]
  BY Zenon, <1>1 DEF Fields
<1>3. d'.pc = "idle" /\ d'.tx = d.tx /\ d'.ref = 0 /\ d'.holders = d.holders /\ d'.epoch = d.epoch
  BY Zenon, <1>1
<1>4. QED
  BY <1>2, <1>3 DEF DaemonOK

\* A holder that is down or refuses: count it, resync, or give up.
LEMMA NegativeKeeps ==
  ASSUME DaemonOK, PoolOK, Frontier' = Frontier, NEW i, d.pc = "collect", Negative(i)
  PROVE  DaemonOK' /\ PoolOK'
<1>1. PoolOK'
  BY DEF Negative, PoolOK
<1>2. CASE d' = [d EXCEPT !.failed = @ + 1, !.asked = @ \cup {i}]
  <2>1. d' = [f \in Fields |-> d'[f]]
    BY Zenon, <1>2 DEF DaemonOK, Fields
  <2>2. \A f \in {"pc", "tx", "kind", "ref", "holders", "epoch", "obj", "sigs"} : d'[f] = d[f]
    BY ZenonT(30), <1>2 DEF DaemonOK, Fields
  <2>3. DaemonOK'
    BY <2>1, <2>2 DEF DaemonOK
  <2>4. QED
    BY <1>1, <2>3
<1>3. CASE d' = [d EXCEPT !.pc = "sync", !.tries = @ + 1, !.obj = <<>>, !.sigs = {},
                          !.failed = 0, !.asked = {}]
  <2>1. d' = [f \in Fields |-> d'[f]]
    BY Zenon, <1>3 DEF DaemonOK, Fields
  <2>2. d'.pc = "sync" /\ \A f \in {"tx", "kind", "ref", "holders", "epoch"} : d'[f] = d[f]
    BY <1>3 DEF DaemonOK, Fields
  <2>3. DaemonOK'
    BY <2>1, <2>2 DEF DaemonOK
  <2>4. QED
    BY <1>1, <2>3
<1>4. CASE d' = [Idle EXCEPT !.tx = d.tx, !.holders = d.holders, !.epoch = d.epoch]
  BY <1>1, <1>4, IdleTyped DEF BackToIdle
<1>5. QED
  BY <1>2, <1>3, <1>4 DEF Negative

\* A signature more: the last one of a quorum builds the attested transaction.
LEMMA PositiveKeeps ==
  ASSUME DaemonOK, PoolOK, Frontier' = Frontier, d.pc = "collect",
         NEW i \in DOMAIN Holders(d.holders), Positive(i, Holders(d.holders)[i])
  PROVE  DaemonOK' /\ PoolOK'
<1> DEFINE h == Holders(d.holders)[i]
           sigs == d.sigs \cup {[index |-> i, by |-> h]}
<1>1. SignedBy(sigs, d.holders)
  <2>1. SignedBy(d.sigs, d.holders)
    BY DEF DaemonOK
  <2>2. IsFiniteSet(sigs)
    BY Zenon, <2>1, FS_AddElement DEF SignedBy
  <2>3. QED
    BY <2>1, <2>2 DEF SignedBy
<1>2. CASE Cardinality(sigs) >= QuorumSize(Len(Holders(d.holders)))
  <2> DEFINE a == BuildATX(sigs)
  <2>1. /\ d' = [Idle EXCEPT !.tx = d.tx, !.holders = d.holders, !.epoch = d.epoch]
        /\ pool' = pool \cup {a}
    BY ZenonT(30), <1>2 DEF Positive
  <2>2. d.obj[1] \in Stored /\ d.kind \in TxKinds
    BY BodyTyped DEF DaemonOK
  <2> HIDE DEF sigs
  <2>3. /\ a.tx = d.tx /\ a.kind = d.kind /\ a.ref = d.ref /\ a.obj = d.obj[1] /\ a.sigs = sigs
        /\ a.epoch = d.epoch /\ a.collectedFrom = d.holders
    BY DEF BuildATX
  <2> HIDE DEF a
  <2>4. AtxOK(a, Frontier)
    BY <1>1, <1>2, <2>2, <2>3 DEF AtxOK, DaemonOK
  <2>5. PoolOK'
    BY <2>1, <2>4 DEF PoolOK
  <2>6. QED
    BY <2>1, <2>5, IdleTyped DEF BackToIdle
<1>3. CASE ~(Cardinality(sigs) >= QuorumSize(Len(Holders(d.holders))))
  <2>1. d' = [d EXCEPT !.sigs = sigs, !.asked = @ \cup {i}] /\ pool' = pool
    BY <1>3 DEF Positive
  <2> HIDE DEF sigs
  <2>2. d' = [f \in Fields |-> d'[f]]
    BY Zenon, <2>1 DEF DaemonOK, Fields
  <2>3. /\ \A f \in {"pc", "tx", "kind", "ref", "holders", "epoch", "obj"} : d'[f] = d[f]
        /\ d'.sigs = sigs
    BY <2>1 DEF DaemonOK, Fields
  <2>4. DaemonOK'
    BY <1>1, <2>2, <2>3 DEF DaemonOK
  <2>5. QED
    BY <2>1, <2>4 DEF PoolOK
<1>4. QED
  BY <1>2, <1>3

\* collectUntilQuorum: one holder asked, with or without an answer.
LEMMA CollectKeeps ==
  ASSUME IInv, NEW i \in DOMAIN Holders(d.holders),
         collectUntilQuorum(i) \/ attestRoundTripFails(i)
  PROVE  IInv'
<1>1. DaemonOK /\ PoolOK /\ d.pc = "collect"
  BY DEF IInv, TypeInv, collectUntilQuorum, attestRoundTripFails
<1>2. UNCHANGED <<log, verdicts, body, fetch, entry>> /\ Frontier' = Frontier
  BY DEF collectUntilQuorum, attestRoundTripFails, Frontier
<1>3. Positive(i, Holders(d.holders)[i]) \/ Negative(i)
  BY DEF collectUntilQuorum, attestRoundTripFails
<1>4. DaemonOK' /\ PoolOK'
  BY <1>1, <1>2, <1>3, PositiveKeeps, NegativeKeeps
<1>5. QED
  BY <1>2, <1>4, DaemonFrame

-----------------------------------------------------------------------------
(* The steps of the log and of the nodes.                                   *)

\* What was built in an epoch is still well formed in a later one.
LEMMA AtxLater ==
  ASSUME NEW a, NEW e \in Nat, NEW f \in Nat, e <= f, AtxOK(a, e)
  PROVE  AtxOK(a, f)
BY DEF AtxOK

\* Decide: the log grows, and nothing decided before changes.
LEMMA DecideKeeps ==
  ASSUME EpochsAssumed, IInv, NEW round \in {<<>>} \cup {<<a>> : a \in pool}, Decide(round)
  PROVE  IInv'
<1>1. TypeInv /\ DOMAIN log = 1..Len(log) /\ Len(log) \in Nat
  BY DEF IInv, TypeInv, LogOK
<1>2. /\ Len(log) < MaxRound /\ log' = Append(log, round) /\ pool' \subseteq pool
      /\ UNCHANGED <<verdicts, body, sig, fetch, entry, d>>
  BY DEF Decide
<1>3. /\ DOMAIN log' = 1..Len(log) + 1 /\ Len(log') = Len(log) + 1
      /\ log'[Len(log) + 1] = round
      /\ \A r \in 1..Len(log) : log'[r] = log[r]
  BY <1>1, <1>2
<1>4. Frontier \in Nat /\ Frontier' \in Nat /\ Frontier <= Frontier'
  <2>1. EpochLength \in Nat \ {0} /\ Len(log') \in Nat /\ Len(log) <= Len(log')
    BY <1>1, <1>3 DEF EpochsAssumed
  <2>2. Frontier \in Nat /\ Frontier' \in Nat
    BY <1>1, <2>1, DivBounds DEF Frontier
  <2>3. Frontier <= Frontier'
    BY SMTT(30), <1>1, <2>1, DivMonotone DEF Frontier
  <2>4. QED
    BY <2>2, <2>3
<1>5. EpochAt(Len(log) + 1) = Frontier
  BY <1>1 DEF EpochAt, Frontier
<1>6. LogOK'
  <2>1. Len(log') \in 0..MaxRound
    BY <1>1, <1>2, <1>3 DEF EpochsAssumed
  <2>2. ASSUME NEW r \in 1..Len(log'), log'[r] # <<>>
        PROVE  log'[r] = <<log'[r][1]>> /\ AtxOK(log'[r][1], EpochAt(r))
    <3>1. CASE r \in 1..Len(log)
      BY <1>1, <1>3, <2>2, <3>1 DEF TypeInv, LogOK
    <3>2. CASE r = Len(log) + 1
      <4>1. PICK a \in pool : round = <<a>>
        BY <1>3, <2>2, <3>2
      <4>2. AtxOK(a, Frontier)
        BY <1>1 DEF TypeInv, PoolOK
      <4>3. QED
        BY <1>3, <1>5, <3>2, <4>1, <4>2
    <3>3. QED
      BY SMTT(30), <1>1, <1>3, <2>2, <3>1, <3>2
  <2>3. QED
    BY <1>3, <2>1, <2>2 DEF LogOK
<1>7. PoolOK'
  BY <1>1, <1>2, <1>4, AtxLater DEF TypeInv, PoolOK
<1>8. DaemonOK'
  BY <1>1, <1>2, <1>4 DEF TypeInv, DaemonOK
<1>9. NodesOK'
  BY <1>1, <1>2, <1>3 DEF TypeInv, NodesOK, applied
<1>10. Determined'
  <2> SUFFICES ASSUME NEW n \in Nodes, NEW r \in 1..applied(n)
               PROVE  verdicts[n][r] = Judged(log'[r], verdicts[n], r)
    BY Zenon, <1>2 DEF Determined, applied
  <2>1. r \in 1..Len(log)
    BY <1>1 DEF TypeInv, NodesOK, applied
  <2>2. verdicts[n][r] = Judged(log[r], verdicts[n], r)
    BY DEF IInv, Determined
  <2>3. QED
    BY SMTT(30), <1>3, <2>1, <2>2
<1>11. HolderCurrent'
  BY Zenon, <1>2 DEF IInv, HolderCurrent, AlwaysHolder, Epoch, applied, tracker
<1>12. QED
  BY SMTT(30), <1>6, <1>7, <1>8, <1>9, <1>10, <1>11 DEF IInv, TypeInv

\* A verdict depends on the verdicts before it only.
LEMMA JudgedByPrefix ==
  ASSUME NEW round, NEW r \in Nat, NEW vs, NEW ws, \A i \in 1..(r - 1) : vs[i] = ws[i]
  PROVE  Judged(round, vs, r) = Judged(round, ws, r)
<1>1. {i \in 1..(r - 1) : vs[i] = "ok"} = {i \in 1..(r - 1) : ws[i] = "ok"}
  OBVIOUS
<1>2. OkBefore(vs, r) = OkBefore(ws, r)
  BY ZenonT(30), <1>1 DEF OkBefore
<1>3. QED
  BY <1>2 DEF Judged

\* What a node makes of its next round is what the round and its verdicts determine: its
\* epoch is the round's own, its tracker counts its own verdicts.
LEMMA ExecuteIsJudged ==
  ASSUME EpochsAssumed, TypeInv, NEW n \in Nodes
  PROVE  executeTx(n, applied(n) + 1)
           = Judged(log[applied(n) + 1], verdicts[n], applied(n) + 1)
<1> DEFINE r == applied(n) + 1
<1>1. applied(n) \in Nat
  BY EpochsTyped
<1>2. EpochAt(r) = Epoch(n)
  BY <1>1 DEF EpochAt, Epoch
<1>3. OkBefore(verdicts[n], r) = tracker(n)
  <2>1. r - 1 = applied(n)
    BY <1>1
  <2>2. QED
    BY <2>1 DEF OkBefore, tracker
<1> HIDE DEF r
<1>4. \A a : resolveHolders(n, a, r) = Resolves(a, r)
  BY <1>2 DEF resolveHolders, Resolves, HoldersForEpoch, HolderSetKnown
<1>5. executeTx(n, r) = Judged(log[r], verdicts[n], r)
  BY <1>3, <1>4 DEF executeTx, Judged
<1>6. QED
  BY <1>5 DEF r

\* The tracker counts one more transaction when one more is executed.
Executed(vs) == Cardinality({i \in 1..Len(vs) : vs[i] = "ok"})
LEMMA TrackerCounts ==
  ASSUME NEW vs \in Seq(Verdicts), NEW v \in Verdicts
  PROVE  /\ Executed(vs) \in Nat
         /\ Executed(Append(vs, v)) = IF v = "ok" THEN Executed(vs) + 1 ELSE Executed(vs)
<1> DEFINE ws == Append(vs, v)
           A == {i \in 1..Len(vs) : vs[i] = "ok"}
           B == {i \in 1..Len(ws) : ws[i] = "ok"}
<1>1. /\ Len(ws) = Len(vs) + 1 /\ ws[Len(vs) + 1] = v
      /\ \A i \in 1..Len(vs) : ws[i] = vs[i]
      /\ Len(vs) \in Nat
  OBVIOUS
<1>2. B = IF v = "ok" THEN A \cup {Len(vs) + 1} ELSE A
  BY <1>1
<1>3. IsFiniteSet(A) /\ Len(vs) + 1 \notin A
  <2>1. IsFiniteSet(1..Len(vs))
    BY <1>1, FS_Interval
  <2>2. QED
    BY <1>1, <2>1, FS_Subset
<1>4. Cardinality(A \cup {Len(vs) + 1}) = Cardinality(A) + 1 /\ Cardinality(A) \in Nat
  BY Zenon, <1>3, FS_AddElement, FS_CardinalityType
<1>5. QED
  BY Zenon, <1>2, <1>4 DEF Executed

\* Commit, the part every node shares: the verdict.
LEMMA CommitJudges ==
  ASSUME EpochsAssumed, IInv, NEW n \in Nodes, Commit(n)
  PROVE  /\ LogOK' /\ PoolOK' /\ DaemonOK'
         /\ verdicts' = [verdicts EXCEPT ![n] = Append(@, executeTx(n, applied(n) + 1))]
         /\ executeTx(n, applied(n) + 1) \in Verdicts
         /\ verdicts' \in [Nodes -> Seq(Verdicts)]
         /\ applied(n)' = applied(n) + 1
         /\ \A m \in Nodes \ {n} : applied(m)' = applied(m)
         /\ applied(n) + 1 \in 1..Len(log)
         /\ Determined'
<1> DEFINE r == applied(n) + 1
           v == executeTx(n, r)
<1>1. TypeInv /\ LogOK /\ PoolOK /\ DaemonOK /\ NodesOK
  BY DEF IInv, TypeInv
<1>2. /\ r <= Len(log) /\ UNCHANGED <<log, entry, d, pool>>
      /\ verdicts' = [verdicts EXCEPT ![n] = Append(@, v)]
  BY DEF Commit
<1>3. applied(n) \in Nat /\ r \in 1..Len(log)
  BY SMTT(30), <1>1, <1>2, EpochsTyped DEF LogOK
<1>4. LogOK' /\ PoolOK' /\ DaemonOK'
  BY <1>1, <1>2 DEF LogOK, PoolOK, DaemonOK, Frontier
<1>5. v = Judged(log[r], verdicts[n], r)
  BY <1>1, ExecuteIsJudged
<1>6. v \in Verdicts
  BY DEF executeTx, Verdicts
<1> HIDE DEF v
<1>7. verdicts[n] \in Seq(Verdicts) /\ verdicts'[n] = Append(verdicts[n], v)
  BY <1>1, <1>2 DEF NodesOK
<1>8. verdicts' \in [Nodes -> Seq(Verdicts)]
  BY <1>1, <1>2, <1>6 DEF NodesOK
<1>9. applied(n)' = applied(n) + 1 /\ \A m \in Nodes \ {n} : verdicts'[m] = verdicts[m]
  BY SMTT(30), <1>1, <1>2, <1>6, <1>7 DEF NodesOK, applied
<1>10. /\ \A i \in 1..applied(n) : verdicts'[n][i] = verdicts[n][i]
       /\ verdicts'[n][applied(n) + 1] = v
  BY <1>6, <1>7 DEF applied
<1>11. Determined'
  <2> SUFFICES ASSUME NEW m \in Nodes, NEW i \in 1..applied(m)'
               PROVE  verdicts'[m][i] = Judged(log[i], verdicts'[m], i)
    BY ZenonT(30), <1>2 DEF Determined
  <2>1. CASE m # n
    BY <1>9, <2>1 DEF IInv, Determined, applied
  <2>2. CASE m = n
    <3>1. i \in Nat /\ i <= r
      BY <1>3, <1>9, <2>2
    <3>2. \A j \in 1..(i - 1) : verdicts'[n][j] = verdicts[n][j]
      BY <1>3, <1>10, <3>1
    <3>3. Judged(log[i], verdicts'[n], i) = Judged(log[i], verdicts[n], i)
      BY <3>1, <3>2, JudgedByPrefix
    <3>4. verdicts'[n][i] = Judged(log[i], verdicts[n], i)
      <4>1. CASE i = r
        BY SMTT(30), <1>5, <1>10, <4>1
      <4>2. CASE i # r
        BY <1>3, <1>10, <3>1, <4>2 DEF IInv, Determined
      <4>3. QED
        BY <4>1, <4>2
    <3>5. QED
      BY <2>2, <3>3, <3>4
  <2>3. QED
    BY <2>1, <2>2
<1>12. \A m \in Nodes \ {n} : applied(m)' = applied(m)
  BY <1>9 DEF applied
<1>13. QED
  BY <1>2, <1>3, <1>4, <1>6, <1>8, <1>9, <1>11, <1>12 DEF v

\* The two bodies a commit may store are at the declared version plus one.
LEMMA StoredTyped ==
  ASSUME NEW a, NEW e \in Nat, AtxOK(a, e), NEW b \in Stored
  PROVE  /\ applyUpdatedObjects(a) \in Stored /\ ReparentObject(b, a) \in Stored
         /\ applyUpdatedObjects(a).version = a.ref + 1
         /\ ReparentObject(b, a).version = a.ref + 1
<1>1. a.ref + 1 \in Nat /\ a.tx \in Nat /\ a.obj.owner \in Nat
  BY SMTT(30) DEF AtxOK, Stored
<1>2. applyUpdatedObjects(a) \in Stored /\ applyUpdatedObjects(a).version = a.ref + 1
  BY <1>1 DEF applyUpdatedObjects, Stored
<1>3. ReparentObject(b, a) \in Stored /\ ReparentObject(b, a).version = a.ref + 1
  BY Zenon, <1>1 DEF ReparentObject, Stored
<1>4. QED
  BY <1>2, <1>3

\* A transaction found in order declares the version the tracker has.
LEMMA OkDeclaresTracked ==
  ASSUME LogOK, NEW n \in Nodes, NEW r \in 1..Len(log), executeTx(n, r) = "ok"
  PROVE  AtxOK(log[r][1], EpochAt(r)) /\ log[r][1].ref = tracker(n)
<1>1. log[r] # <<>> /\ log[r][1].ref = tracker(n)
  BY DEF executeTx
<1>2. QED
  BY <1>1 DEF LogOK

\* Commit: what it stores is well formed, and current at a node that always held.
LEMMA CommitKeeps ==
  ASSUME EpochsAssumed, IInv, NEW n \in Nodes, Commit(n)
  PROVE  IInv'
<1> DEFINE r == applied(n) + 1
           v == executeTx(n, r)
           a == log[r][1]
           runs == v = "ok" /\ a.kind = "set_object" /\ buildIsHolder(n, Epoch(n))
           moves == v = "ok" /\ a.kind = "reparent" /\ body[n] # <<>>
<1>1. TypeInv /\ LogOK /\ NodesOK /\ HolderCurrent
  BY DEF IInv, TypeInv
<1>2. /\ LogOK' /\ PoolOK' /\ DaemonOK' /\ Determined'
      /\ verdicts' = [verdicts EXCEPT ![n] = Append(@, v)]
      /\ v \in Verdicts
      /\ verdicts' \in [Nodes -> Seq(Verdicts)]
      /\ applied(n)' = applied(n) + 1
      /\ \A m \in Nodes \ {n} : applied(m)' = applied(m)
      /\ r \in 1..Len(log)
  BY CommitJudges
<1>3. /\ UNCHANGED <<log, entry, d, pool>>
      /\ body' = IF runs THEN [body EXCEPT ![n] = <<applyUpdatedObjects(a)>>]
                 ELSE IF moves THEN [body EXCEPT ![n] = <<ReparentObject(@[1], a)>>]
                 ELSE body
      /\ fetch' = IF r % EpochLength = 0 THEN [fetch EXCEPT ![n].pc = "scan"] ELSE fetch
  BY DEF Commit
<1>4. applied(n) \in Nat /\ EpochAt(r) \in Nat /\ EpochAt(r) = Epoch(n)
  <2>1. applied(n) \in Nat
    BY <1>1, EpochsTyped
  <2>2. EpochAt(r) \in Nat
    BY <2>1, CommitEpoch
  <2>3. EpochAt(r) = Epoch(n)
    BY SMTT(30), <2>1 DEF EpochAt, Epoch
  <2>4. QED
    BY <2>1, <2>2, <2>3
<1>5. v = "ok" => AtxOK(a, EpochAt(r)) /\ a.ref = tracker(n)
  BY <1>1, <1>2, OkDeclaresTracked
<1>6. body[n] \in Bodies
  BY SMTT(30), <1>1 DEF NodesOK
<1> HIDE DEF v, a, r
<1>7. /\ body' \in [Nodes -> Bodies]
      /\ \A m \in Nodes \ {n} : body'[m] = body[m]
      /\ runs \/ moves => body'[n] # <<>> /\ body'[n][1].version = a.ref + 1
      /\ ~runs /\ ~moves => body' = body
  <2>1. CASE runs
    <3>1. applyUpdatedObjects(a) \in Stored /\ applyUpdatedObjects(a).version = a.ref + 1
      <4>1. [version |-> 0, content |-> 0, owner |-> 0] \in Stored
        BY DEF Stored
      <4>2. QED
        BY SMTT(30), <1>4, <1>5, <2>1, <4>1, StoredTyped
    <3>2. body' = [body EXCEPT ![n] = <<applyUpdatedObjects(a)>>]
      BY <1>3, <2>1
    <3>3. <<applyUpdatedObjects(a)>> \in Bodies
      BY <3>1 DEF Bodies
    <3>4. QED
      BY SMTT(30), <1>1, <2>1, <3>1, <3>2, <3>3 DEF NodesOK
  <2>2. CASE ~runs /\ moves
    <3>1. body[n][1] \in Stored
      BY SMTT(30), <1>6, <2>2, BodyTyped
    <3>2. ReparentObject(body[n][1], a) \in Stored /\ ReparentObject(body[n][1], a).version = a.ref + 1
      BY SMTT(30), <1>4, <1>5, <2>2, <3>1, StoredTyped
    <3>3. body' = [body EXCEPT ![n] = <<ReparentObject(body[n][1], a)>>]
      BY SMTT(30), <1>1, <1>3, <2>2 DEF NodesOK
    <3>4. <<ReparentObject(body[n][1], a)>> \in Bodies
      BY <3>2 DEF Bodies
    <3>5. QED
      BY SMTT(30), <1>1, <2>2, <3>2, <3>3, <3>4 DEF NodesOK
  <2>3. CASE ~runs /\ ~moves
    BY <1>1, <1>3, <2>3 DEF NodesOK
  <2>4. QED
    BY SMTT(30), <2>1, <2>2, <2>3
<1>8. /\ fetch' \in [Nodes -> [pc : {"none", "scan", "want", "store"}, got : Bodies]]
      /\ \A m \in Nodes \ {n} : fetch'[m] = fetch[m]
      /\ fetch'[n].pc \in {"scan", fetch[n].pc}
  BY ZenonT(30), <1>1, <1>3 DEF NodesOK
<1>9. NodesOK'
  <2>1. applied(n)' <= Len(log') /\ \A m \in Nodes \ {n} : applied(m)' <= Len(log')
    BY <1>1, <1>2, <1>3, <1>4 DEF NodesOK, LogOK, r
  <2>2. QED
    BY <1>1, <1>2, <1>3, <1>7, <1>8, <2>1 DEF NodesOK
<1>10. HolderCurrent'
  <2> SUFFICES ASSUME NEW m \in Nodes, AlwaysHolder(m)'
               PROVE  /\ body'[m] # <<>> /\ body'[m][1].version = tracker(m)'
                      /\ fetch'[m].pc \in {"none", "scan"}
    BY DEF HolderCurrent
  <2>1. CASE m # n
    <3>1. /\ verdicts'[m] = verdicts[m] /\ body'[m] = body[m] /\ fetch'[m] = fetch[m]
      <4>1. verdicts'[m] = verdicts[m]
        BY SMTT(30), <1>1, <1>2, <2>1 DEF NodesOK
      <4>2. body'[m] = body[m]
        BY <1>7, <2>1
      <4>3. fetch'[m] = fetch[m]
        BY <1>8, <2>1
      <4>4. QED
        BY <4>1, <4>2, <4>3
    <3>2. AlwaysHolder(m) /\ tracker(m)' = tracker(m)
      BY <3>1 DEF AlwaysHolder, Epoch, applied, tracker
    <3>3. QED
      BY <1>1, <3>1, <3>2 DEF HolderCurrent
  <2>2. CASE m = n
    <3>1. AlwaysHolder(n) /\ buildIsHolder(n, Epoch(n))
      <4>1. Epoch(n) \in Nat /\ Epoch(n)' \in Nat /\ Epoch(n) <= Epoch(n)'
        <5>1. EpochLength \in Nat \ {0} /\ applied(n)' \in Nat /\ applied(n) <= applied(n)'
          BY <1>2, <1>4 DEF EpochsAssumed
        <5>2. Epoch(n) \in Nat /\ Epoch(n)' \in Nat
          BY <1>4, <5>1, DivBounds DEF Epoch
        <5>3. Epoch(n) <= Epoch(n)'
          BY <1>4, <5>1, DivMonotone DEF Epoch
        <5>4. QED
          BY <5>2, <5>3
      <4>2. \A e \in 0..Epoch(n)' : buildIsHolder(n, e)
        BY <2>2 DEF AlwaysHolder
      <4>3. QED
        BY <4>1, <4>2 DEF AlwaysHolder
    <3>2. /\ body[n] # <<>> /\ body[n][1].version = tracker(n)
          /\ fetch[n].pc \in {"none", "scan"}
      BY <1>1, <3>1 DEF HolderCurrent
    <3>3. tracker(n) \in Nat /\ tracker(n)' = IF v = "ok" THEN tracker(n) + 1 ELSE tracker(n)
      <4>1. verdicts[n] \in Seq(Verdicts) /\ verdicts'[n] = Append(verdicts[n], v)
        BY <1>1, <1>2 DEF NodesOK
      <4>2. tracker(n) = Executed(verdicts[n]) /\ tracker(n)' = Executed(verdicts'[n])
        BY SMTT(30) DEF tracker, applied, Executed
      <4>3. QED
        BY SMTT(30), <1>2, <4>1, <4>2, TrackerCounts
    <3>4. CASE v = "ok"
      <4>1. a.kind \in {"set_object", "reparent"} /\ a.ref = tracker(n)
        BY SMTT(30), <1>5, <3>4 DEF AtxOK, TxKinds
      <4>2. runs \/ moves
        BY SMTT(30), <3>1, <3>2, <3>4, <4>1
      <4>3. body'[n] # <<>> /\ body'[n][1].version = a.ref + 1
        BY Zenon, <1>7, <4>2
      <4>4. a.ref + 1 = tracker(n)'
        BY Zenon, <3>3, <3>4, <4>1
      <4>5. fetch'[n].pc \in {"none", "scan"}
        BY Zenon, <1>8, <3>2
      <4>6. QED
        BY Zenon, <2>2, <4>3, <4>4, <4>5
    <3>5. CASE v # "ok"
      BY SMTT(30), <1>7, <1>8, <2>2, <3>2, <3>3, <3>5
    <3>6. QED
      BY <3>4, <3>5
  <2>3. QED
    BY <2>1, <2>2
<1>11. QED
  BY <1>2, <1>9, <1>10 DEF IInv, TypeInv

\* A fetch moves on and keeps what it read.
LEMMA FetchMoves ==
  ASSUME NEW n \in Nodes, NEW p, fetch' = [fetch EXCEPT ![n].pc = p], NodesOK
  PROVE  fetch' = [fetch EXCEPT ![n] = [pc |-> p, got |-> fetch[n].got]]
<1> DEFINE F == [pc : {"none", "scan", "want", "store"}, got : Bodies]
<1>1. fetch \in [Nodes -> F] /\ fetch[n] \in F
  BY DEF NodesOK
<1>2. [fetch[n] EXCEPT !.pc = p] = [pc |-> p, got |-> fetch[n].got]
  BY <1>1
<1>3. fetch' = [fetch EXCEPT ![n] = [fetch[n] EXCEPT !.pc = p]]
  BY <1>1
<1>4. QED
  BY ZenonT(30), <1>2, <1>3

\* The background fetch after a transition: it stores a body only at a node that was not
\* always a holder.
LEMMA FetchKeeps ==
  ASSUME EpochsAssumed, IInv, NEW n \in Nodes,
         scanObjectsForEpoch(n) \/ FetchAnswered(n) \/ FetchFails(n) \/ SetObject(n)
  PROVE  IInv'
<1>1. TypeInv /\ LogOK /\ PoolOK /\ DaemonOK /\ NodesOK /\ Determined /\ HolderCurrent
  BY DEF IInv, TypeInv
<1>2. UNCHANGED <<log, verdicts, entry, d, pool>>
  BY DEF scanObjectsForEpoch, FetchAnswered, FetchFails, SetObject
<1>3. LogOK' /\ PoolOK' /\ DaemonOK' /\ Determined'
  BY <1>1, <1>2 DEF LogOK, PoolOK, DaemonOK, Frontier, Determined, applied
<1>4. fetch[n] \in [pc : {"none", "scan", "want", "store"}, got : Bodies]
  BY SMTT(30), <1>1 DEF NodesOK
<1>5. PICK p \in {"none", "want", "store"}, got \in Bodies :
        /\ fetch' = [fetch EXCEPT ![n] = [pc |-> p, got |-> got]]
        /\ p # "none" => fetch[n].pc = "want" \/ ~buildIsHolder(n, Epoch(n)) \/ body[n] = <<>>
  <2>1. CASE scanObjectsForEpoch(n)
    <3>1. PICK p \in {"none", "want"} :
            /\ fetch' = [fetch EXCEPT ![n].pc = p]
            /\ p = "want" => body[n] = <<>>
      BY Zenon, <2>1 DEF scanObjectsForEpoch
    <3>2. fetch' = [fetch EXCEPT ![n] = [pc |-> p, got |-> fetch[n].got]]
      BY Zenon, <1>1, <3>1, FetchMoves
    <3>3. QED
      BY Zenon, <1>4, <3>1, <3>2
  <2>2. CASE FetchAnswered(n)
    BY Zenon, <1>1, <2>2, ReadTyped DEF FetchAnswered
  <2>3. CASE FetchFails(n)
    <3>1. fetch' = [fetch EXCEPT ![n] = [pc |-> "none", got |-> fetch[n].got]]
      BY Zenon, <1>1, <2>3, FetchMoves DEF FetchFails
    <3>2. QED
      BY Zenon, <1>4, <3>1
  <2>4. CASE SetObject(n)
    <3>1. fetch' = [fetch EXCEPT ![n] = [pc |-> "none", got |-> <<>>]]
      BY Zenon, <2>4 DEF SetObject
    <3>2. <<>> \in Bodies
      BY DEF Bodies
    <3>3. QED
      BY ZenonT(30), <3>1, <3>2
  <2>5. QED
    BY Zenon, <2>1, <2>2, <2>3, <2>4
<1>6. /\ body' \in [Nodes -> Bodies]
      /\ \/ body' = body
         \/ fetch[n].pc = "store" /\ \A m \in Nodes \ {n} : body'[m] = body[m]
  <2>1. CASE SetObject(n)
    BY Zenon, <1>1, <1>4, <2>1 DEF SetObject, NodesOK
  <2>2. CASE body' = body
    BY <1>1, <2>2 DEF NodesOK
  <2>3. QED
    BY Zenon, <2>1, <2>2 DEF scanObjectsForEpoch, FetchAnswered, FetchFails
<1>7. NodesOK'
  <2>1. fetch' \in [Nodes -> [pc : {"none", "scan", "want", "store"}, got : Bodies]]
    BY SMTT(30), <1>1, <1>5 DEF NodesOK
  <2>2. QED
    BY SMTT(30), <1>1, <1>2, <1>6, <2>1 DEF NodesOK, applied
<1>8. HolderCurrent'
  <2> SUFFICES ASSUME NEW m \in Nodes, AlwaysHolder(m)'
               PROVE  /\ body'[m] # <<>> /\ body'[m][1].version = tracker(m)'
                      /\ fetch'[m].pc \in {"none", "scan"}
    BY DEF HolderCurrent
  <2>1. AlwaysHolder(m) /\ tracker(m)' = tracker(m)
    BY SMTT(30), <1>2 DEF AlwaysHolder, Epoch, applied, tracker
  <2>2. /\ body[m] # <<>> /\ body[m][1].version = tracker(m) /\ fetch[m].pc \in {"none", "scan"}
    BY <1>1, <2>1 DEF HolderCurrent
  <2>3. CASE m # n
    <3>1. body'[m] = body[m] /\ fetch'[m] = fetch[m]
      BY ZenonT(30), <1>1, <1>5, <1>6, <2>3 DEF NodesOK
    <3>2. QED
      BY SMTT(30), <2>1, <2>2, <3>1
  <2>4. CASE m = n
    <3>1. buildIsHolder(n, Epoch(n))
      <4>1. Epoch(n) \in 0..Epoch(n)
        BY SMTT(30), <1>1, EpochsTyped
      <4>2. QED
        BY <2>1, <2>4, <4>1 DEF AlwaysHolder
    <3>2. body' = body /\ fetch'[n].pc = "none"
      BY SMTT(30), <1>1, <1>5, <1>6, <2>2, <2>4, <3>1 DEF NodesOK
    <3>3. QED
      BY <2>1, <2>2, <2>4, <3>2
  <2>5. QED
    BY SMTT(30), <2>3, <2>4
<1>9. QED
  BY <1>3, <1>7, <1>8 DEF IInv, TypeInv

-----------------------------------------------------------------------------
(* The theorems.                                                            *)

\* The first state: nothing decided, and the holders of the first epoch store the object.
LEMMA InitKeeps == ASSUME EpochsAssumed, Init PROVE IInv
<1>1. Len(log) = 0 /\ DOMAIN log = {} /\ MaxRound \in Nat
  BY DEF Init, EpochsAssumed
<1>2. Frontier = 0
  BY <1>1, DivBounds DEF Frontier, EpochsAssumed
<1>3. LogOK /\ PoolOK
  BY <1>1 DEF Init, LogOK, PoolOK
<1>4. DaemonOK
  <2>1. d = [f \in Fields |-> d[f]]
    BY ZenonT(30) DEF Init, Idle, Fields
  <2>2. d.pc = "idle" /\ d.tx = 0 /\ d.ref = 0 /\ d.holders = 0 /\ d.epoch = 0
    BY ZenonT(30) DEF Init, Idle
  <2>3. QED
    BY SMTT(30), <1>2, <2>1, <2>2 DEF DaemonOK
<1>5. \A n \in Nodes : applied(n) = 0 /\ verdicts[n] = <<>>
  BY DEF Init, applied
<1>6. <<[version |-> 0, content |-> 0, owner |-> 0]>> \in Bodies /\ <<>> \in Bodies
  BY Zenon DEF Bodies, Stored
<1>7. NodesOK
  BY <1>1, <1>5, <1>6 DEF Init, NodesOK, EpochsAssumed
<1>8. Determined
  BY <1>5 DEF Determined
<1>9. HolderCurrent
  <2> SUFFICES ASSUME NEW n \in Nodes, AlwaysHolder(n)
               PROVE  /\ body[n] # <<>> /\ body[n][1].version = tracker(n)
                      /\ fetch[n].pc \in {"none", "scan"}
    BY DEF HolderCurrent
  <2>1. Epoch(n) = 0
    BY <1>5, DivBounds DEF Epoch, EpochsAssumed
  <2>2. buildIsHolder(n, 0)
    BY <2>1 DEF AlwaysHolder
  <2>3. tracker(n) = 0
    <3>1. {r \in 1..applied(n) : verdicts[n][r] = "ok"} = {}
      BY SMTT(30), <1>5
    <3>2. QED
      BY <3>1, FS_EmptySet DEF tracker
  <2>4. QED
    BY <2>2, <2>3 DEF Init
<1>10. QED
  BY SMTT(30), <1>3, <1>4, <1>7, <1>8, <1>9 DEF IInv, TypeInv

\* Every step of the client, the log and the nodes keeps the inductive invariant.
LEMMA NextKeeps == ASSUME EpochsAssumed, IInv, [Next]_avars PROVE IInv'
<1>1. CASE GetObject \/ SyncHolders \/ SyncEpoch \/ SyncFails \/ collectOne
  BY <1>1, PrepareKeeps
<1>2. ASSUME NEW i \in DOMAIN Holders(d.holders), collectUntilQuorum(i) \/ attestRoundTripFails(i)
      PROVE  IInv'
  BY <1>2, CollectKeeps
<1>3. ASSUME NEW round \in {<<>>} \cup {<<a>> : a \in pool}, Decide(round) PROVE IInv'
  BY <1>3, DecideKeeps
<1>4. ASSUME NEW n \in Nodes, Commit(n) PROVE IInv'
  BY <1>4, CommitKeeps
<1>5. ASSUME NEW n \in Nodes,
             scanObjectsForEpoch(n) \/ FetchAnswered(n) \/ FetchFails(n) \/ SetObject(n)
      PROVE  IInv'
  BY <1>5, FetchKeeps
<1>6. CASE Done \/ UNCHANGED avars
  <2>1. UNCHANGED <<log, verdicts, body, fetch, entry, d, pool>>
    BY <1>6 DEF Done, avars
  <2>2. DaemonOK' /\ PoolOK'
    BY <2>1 DEF IInv, TypeInv, DaemonOK, PoolOK, Frontier
  <2>3. QED
    BY <2>1, <2>2, DaemonFrame
<1>7. QED
  BY SMTT(30), <1>1, <1>2, <1>3, <1>4, <1>5, <1>6 DEF Next

\* The inductive invariant holds of every behaviour.
THEOREM InvariantHolds == ASSUME EpochsAssumed PROVE Spec => []IInv
<1>1. Init => IInv
  BY InitKeeps
<1>2. IInv /\ [Next]_avars => IInv'
  BY NextKeeps
<1>3. QED
  BY <1>1, <1>2, PTL DEF Spec

\* Verdicts that the log determines are the same at every node, by the first round where
\* two nodes would differ.
LEMMA DeterminedAgree == ASSUME TypeInv, Determined PROVE VerdictsAgree
<1> SUFFICES ASSUME NEW m \in Nodes, NEW n \in Nodes
             PROVE  \A r \in 1..applied(m) \cap 1..applied(n) : verdicts[m][r] = verdicts[n][r]
  BY DEF VerdictsAgree
<1> DEFINE D == {r \in 1..applied(m) \cap 1..applied(n) : verdicts[m][r] # verdicts[n][r]}
<1>1. /\ verdicts[m] \in Seq(Verdicts) /\ verdicts[n] \in Seq(Verdicts)
      /\ applied(m) \in Nat /\ applied(n) \in Nat
  BY DEF TypeInv, NodesOK, applied
<1>2. D = {}
  <2> SUFFICES ASSUME D # {} PROVE FALSE
    OBVIOUS
  <2>1. D \in SUBSET Nat
    BY <1>1
  <2> HIDE DEF D
  <2>2. PICK r \in D : \A q \in D : r <= q
    BY <2>1, LeastNat
  <2>3. r \in 1..applied(m) /\ r \in 1..applied(n) /\ verdicts[m][r] # verdicts[n][r]
    BY SMTT(30), <1>1, <2>2 DEF D
  <2>4. \A i \in 1..(r - 1) : verdicts[m][i] = verdicts[n][i]
    BY SMTT(30), <1>1, <2>2, <2>3 DEF D
  <2>5. Judged(log[r], verdicts[m], r) = Judged(log[r], verdicts[n], r)
    BY <2>3, <2>4, JudgedByPrefix
  <2>6. QED
    BY <2>3, <2>5 DEF Determined
<1>3. QED
  BY <1>2

\* A proof from the holders of its own epoch, refused, is past its grace: its epoch is at
\* most the round's, the round's own and the one before are resolved, and a window no
\* longer than an epoch is over where neither applies.
LEMMA RefusedPastGrace ==
  ASSUME EpochsAssumed, GraceRounds <= EpochLength + 1,
         NEW r \in Nat \ {0}, NEW a, AtxOK(a, EpochAt(r)), ~Resolves(a, r)
  PROVE  r > (a.epoch + 1) * EpochLength + GraceRounds - 1
<1> DEFINE L == EpochLength
           ce == EpochAt(r)
<1>1. L \in Nat \ {0} /\ GraceRounds \in Nat /\ GraceRounds <= L + 1
  BY DEF EpochsAssumed
<1>2. commitEpochForRound(r) = ce /\ ce \in Nat
  BY CommitEpoch
<1>3. ce * L <= r - 1
  BY <1>1, DivBounds DEF EpochAt
<1>4. a.epoch \in Nat /\ a.epoch <= ce
  BY <1>2 DEF AtxOK
<1>5. ~(a.epoch = ce)
  BY <1>2 DEF Resolves, HolderSetKnown
<1>6. a.epoch = ce - 1 => ~withinGrace(r)
  BY <1>2, <1>4 DEF Resolves, HolderSetKnown
<1> HIDE DEF L, ce
<1>7. ce * L \in Nat
  BY <1>1, <1>2
<1>8. CASE a.epoch = ce - 1
  <2>1. ~(r >= ce * L /\ r - ce * L < GraceRounds)
    BY <1>2, <1>6, <1>8 DEF withinGrace, L
  <2>2. r >= ce * L + GraceRounds
    BY SMTT(30), <1>1, <1>3, <1>7, <2>1
  <2>3. a.epoch + 1 = ce
    BY <1>2, <1>4, <1>8
  <2>4. QED
    BY SMTT(30), <1>1, <1>7, <2>2, <2>3 DEF L
<1>9. CASE a.epoch + 2 <= ce
  <2>1. (a.epoch + 2) * L <= ce * L
    BY SMTT(30), <1>1, <1>2, <1>4, <1>9
  <2>2. (a.epoch + 2) * L = (a.epoch + 1) * L + L /\ (a.epoch + 1) * L \in Nat
    BY <1>1, <1>4
  <2>3. r > (a.epoch + 1) * L + GraceRounds - 1
    BY SMTT(30), <1>1, <1>3, <1>7, <2>1, <2>2
  <2>4. QED
    BY <2>3 DEF L
<1>10. QED
  BY SMTT(30), <1>2, <1>4, <1>5, <1>8, <1>9

\* Nodes that have applied the same rounds came to the same verdicts, whenever each of
\* them got there and whatever it stores (executeTx, resolveHolders).
THEOREM VerdictsAgreeHolds == ASSUME EpochsAssumed PROVE Spec => []VerdictsAgree
<1>1. IInv => VerdictsAgree
  BY DeterminedAgree DEF IInv
<1>2. QED
  BY <1>1, InvariantHolds, PTL

\* A proof collected from the holders of the epoch it is stamped with is refused only past
\* its grace, for every quorum of signers and every transition between collection and
\* commit; the grace window is at most an epoch and a round long (50 rounds against 1000
\* in the defaults; resolveHolders, prepareSingleProof).
THEOREM FreshProofAcceptedHolds ==
  ASSUME EpochsAssumed, GraceRounds <= EpochLength + 1
  PROVE  Spec => []FreshProofAccepted
<1>1. IInv => FreshProofAccepted
  <2> SUFFICES ASSUME IInv, NEW n \in Nodes, NEW r \in 1..applied(n),
                      verdicts[n][r] = "proof",
                      log[r][1].collectedFrom = log[r][1].epoch
               PROVE  r > (log[r][1].epoch + 1) * EpochLength + GraceRounds - 1
    BY SMTT(30) DEF FreshProofAccepted
  <2> DEFINE a == log[r][1]
  <2>1. TypeInv /\ r \in 1..Len(log) /\ r \in Nat \ {0}
    <3>1. TypeInv /\ Len(log) \in Nat /\ applied(n) <= Len(log)
      BY Zenon, LogTyped DEF IInv, TypeInv, NodesOK
    <3>2. applied(n) \in Nat
      BY Zenon, <3>1, EpochsTyped
    <3>3. QED
      BY <3>1, <3>2
  <2>2. Judged(log[r], verdicts[n], r) = "proof"
    BY DEF IInv, Determined
  <2>3. log[r] # <<>> /\ (~Resolves(a, r) \/ ~prepareSingleProof(a))
    BY SMTT(30), <2>2 DEF Judged
  <2>4. AtxOK(a, EpochAt(r))
    BY <2>1, <2>3 DEF TypeInv, LogOK
  <2>5. EpochAt(r) \in 0..LastEpoch
    <3>1. EpochLength \in Nat \ {0} /\ MaxRound \in Nat /\ r - 1 \in Nat /\ r - 1 <= MaxRound
      BY <2>1 DEF EpochsAssumed, TypeInv, LogOK
    <3>2. EpochAt(r) \in Nat
      BY <3>1, DivBounds DEF EpochAt
    <3>3. EpochAt(r) <= LastEpoch
      BY <3>1, DivMonotone DEF EpochAt, LastEpoch
    <3>4. QED
      BY SMTT(30), <3>2, <3>3, LastEpochTyped
  <2>6. prepareSingleProof(a)
    BY SMTT(30), <2>4, <2>5, QuorumPasses
  <2>7. QED
    BY SMTT(30), <2>1, <2>3, <2>4, <2>6, RefusedPastGrace
<1>2. QED
  BY <1>1, InvariantHolds, PTL

\* A node that was a holder in every epoch so far stores the object at exactly the version
\* the tracker has for it, updates and reparents alike (applyUpdatedObjects,
\* ReparentObject, scanObjectsForEpoch).
THEOREM HolderKeepsUpHolds == ASSUME EpochsAssumed PROVE Spec => []HolderKeepsUp
<1>1. IInv => HolderKeepsUp
  BY DEF IInv, HolderCurrent, AlwaysHolder, HolderKeepsUp
<1>2. QED
  BY <1>1, InvariantHolds, PTL

=============================================================================
