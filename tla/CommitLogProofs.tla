-------------------------- MODULE CommitLogProofs --------------------------
(***************************************************************************)
(* The commit path implements the promised order, for every DAG, every     *)
(* decision on its rounds, every arrival order and any number of crashes.  *)
(* Then what the accumulators of an epoch hold until the first crash.      *)
(* The accumulators are sums: what SumFunctionOnSet computes on a finite   *)
(* set, whatever the order in which it picks the elements, comes first.    *)
(***************************************************************************)
EXTENDS CommitProperties, FiniteSetTheorems, TLAPS

\* Every non-empty set of natural numbers has a least element.
LEMMA LeastNat ==
  ASSUME NEW T \in SUBSET Nat, T # {}
  PROVE  \E x \in T : \A y \in T : x <= y
<1>1. PICK x \in T : \A y \in T : ~(<<y, x>> \in OpToRel(<, Nat))
  BY Zenon, NatLessThanWellFounded, WFMin
<1>2. \A y \in T : ~(y < x)
  BY Zenon, <1>1 DEF OpToRel
<1>3. QED
  BY <1>2

\* Every non-empty set of finite sets has a member of least cardinality.
LEMMA LeastSet ==
  ASSUME NEW T, T # {}, \A s \in T : IsFiniteSet(s)
  PROVE  \E s \in T : \A t \in T : Cardinality(s) <= Cardinality(t)
<1> DEFINE sizes == {Cardinality(s) : s \in T}
<1>1. sizes \in SUBSET Nat /\ sizes # {}
  BY FS_CardinalityType
<1>2. PICK n \in sizes : \A m \in sizes : n <= m
  <2> HIDE DEF sizes
  <2>1. QED
    BY Zenon, <1>1, LeastNat
<1>3. QED
  BY <1>2

-----------------------------------------------------------------------------
(* The sum of a function over a set *)

Pick(s) == CHOOSE x \in s : TRUE

\* The sum over s, from the sums f over smaller sets.
SumStep(f, g, s) == IF s = {} THEN 0 ELSE g[Pick(s)] + f[s \ {Pick(s)}]

\* f is the sum of g over every set of D, and over every subset of S.
SumsOver(f, g, D) == f = [s \in D |-> SumStep(f, g, s)]
SumsOf(f, g, S) == SumsOver(f, g, SUBSET S)

\* Taking the picked element away leaves a smaller subset.
LEMMA PickSmaller ==
  ASSUME NEW S, IsFiniteSet(S), NEW s \in SUBSET S, s # {}
  PROVE  /\ Pick(s) \in s
         /\ s \ {Pick(s)} \in SUBSET S
         /\ Cardinality(s \ {Pick(s)}) = Cardinality(s) - 1
         /\ Cardinality(s) \in Nat
<1>1. Pick(s) \in s
  BY DEF Pick
<1>2. IsFiniteSet(s)
  BY FS_Subset
<1>3. QED
  BY <1>1, <1>2, FS_RemoveElement, FS_CardinalityType

UpTo(S, n) == {t \in SUBSET S : Cardinality(t) <= n}

\* There are sums over the subsets of at most n elements.
LEMMA SumsUpTo ==
  ASSUME NEW S, IsFiniteSet(S), NEW g, NEW n \in Nat
  PROVE  \E f : SumsOver(f, g, UpTo(S, n))
<1> USE DEF UpTo, SumsOver
<1> DEFINE D(k) == UpTo(S, k)
           Has(k) == \E f : f = [s \in D(k) |-> SumStep(f, g, s)]
           Missing == {k \in Nat : ~Has(k)}
<1> SUFFICES ASSUME Missing # {} PROVE FALSE
  BY Zenon
<1>1. PICK k \in Missing : \A j \in Missing : k <= j
  <2>1. Missing \in SUBSET Nat
    OBVIOUS
  <2>2. QED
    BY Zenon, <2>1, LeastNat
<1>2. \E f : \A s \in D(k) : s # {} => \A h : (h = [t \in D(k) |-> SumStep(f, g, t)]) =>
                                          h[s \ {Pick(s)}] = f[s \ {Pick(s)}]
  <2>1. CASE k = 0
    <3>1. \A s \in D(k) : s = {}
      BY <2>1, FS_Subset, FS_EmptySet, FS_CardinalityType
    <3>2. QED
      BY <3>1
  <2>2. CASE k # 0
    <3>1. k - 1 \in Nat /\ Has(k - 1)
      <4>1. k \in Nat /\ k - 1 \in Nat
        BY <2>2
      <4>2. k - 1 \notin Missing
        <5> HIDE DEF Missing
        <5>1. QED
          BY <1>1, <4>1
      <4> HIDE DEF Has
      <4>3. QED
        BY <4>1, <4>2
    <3>2. PICK f : f = [s \in D(k - 1) |-> SumStep(f, g, s)]
      BY Zenon, <3>1
    <3>3. ASSUME NEW s \in D(k), s # {}, NEW h, h = [t \in D(k) |-> SumStep(f, g, t)]
          PROVE  h[s \ {Pick(s)}] = f[s \ {Pick(s)}]
      <4> DEFINE t == s \ {Pick(s)}
      <4>1. t \in SUBSET S /\ Cardinality(t) <= k - 1 /\ Cardinality(t) \in Int
        BY <1>1, <3>3, PickSmaller
      <4>2. t \in D(k - 1) /\ t \in D(k)
        BY <1>1, <4>1
      <4> HIDE DEF t, UpTo
      <4>3. f[t] = SumStep(f, g, t)
        BY <3>2, <4>2
      <4>4. h[t] = SumStep(f, g, t)
        BY <3>3, <4>2
      <4>5. QED
        BY <4>3, <4>4 DEF t
    <3>4. QED
      BY Zenon, <3>3
  <2>3. QED
    BY Zenon, <2>1, <2>2
<1>3. PICK f : \A s \in D(k) : s # {} => \A h : (h = [t \in D(k) |-> SumStep(f, g, t)]) =>
                                          h[s \ {Pick(s)}] = f[s \ {Pick(s)}]
  BY Zenon, <1>2
<1> DEFINE h == [s \in D(k) |-> SumStep(f, g, s)]
<1>4. \A s \in D(k) : SumStep(h, g, s) = SumStep(f, g, s)
  <2> HIDE DEF UpTo
  <2>1. \A s \in D(k) : s # {} => h[s \ {Pick(s)}] = f[s \ {Pick(s)}]
    BY <1>3
  <2> HIDE DEF h
  <2>2. QED
    BY <2>1 DEF SumStep
<1>5. h = [s \in D(k) |-> SumStep(h, g, s)]
  <2> HIDE DEF UpTo
  <2>1. h = [s \in D(k) |-> SumStep(f, g, s)]
    OBVIOUS
  <2> HIDE DEF h
  <2>2. QED
    BY <1>4, <2>1
<1>6. Has(k)
  <2> HIDE DEF h, UpTo
  <2>1. QED
    BY <1>5
<1>7. QED
  BY Zenon, <1>1, <1>6

\* There are sums over the subsets of a finite set, and SumFunctionOnSet is the one
\* over the whole of it.
LEMMA SumsExist ==
  ASSUME NEW S, IsFiniteSet(S), NEW g
  PROVE  \E f : SumsOf(f, g, S) /\ SumFunctionOnSet(g, S) = f[S]
<1> DEFINE F == CHOOSE f : f = [s \in SUBSET S |->
                  IF s = {} THEN 0
                  ELSE g[CHOOSE x \in s : TRUE] + f[s \ {CHOOSE x \in s : TRUE}]]
<1>1. \E f : SumsOf(f, g, S)
  <2>1. PICK n \in Nat : n = Cardinality(S)
    BY FS_CardinalityType
  <2>2. UpTo(S, n) = SUBSET S
    BY <2>1, FS_Subset DEF UpTo
  <2>3. PICK f : SumsOver(f, g, UpTo(S, n))
    BY SumsUpTo
  <2>4. QED
    BY Zenon, <2>2, <2>3 DEF SumsOf
<1>2. SumsOf(F, g, S)
  BY Zenon, <1>1 DEF SumsOf, SumsOver, SumStep, Pick
<1>3. SumFunctionOnSet(g, S) = F[S]
  BY Zenon DEF SumFunctionOnSet, FoldFunctionOnSet, MapThenFoldSet
<1>4. QED
  BY Zenon, <1>2, <1>3

\* What the sums over the subsets of S are, one by one.
LEMMA SumsValues ==
  ASSUME NEW S, NEW f, NEW g, SumsOf(f, g, S)
  PROVE  /\ f[{}] = 0
         /\ \A s \in SUBSET S : s # {} => f[s] = g[Pick(s)] + f[s \ {Pick(s)}]
<1>1. \A s \in SUBSET S : f[s] = SumStep(f, g, s)
  BY DEF SumsOf, SumsOver
<1>2. QED
  BY <1>1 DEF SumStep

Agree(g, h, T) == \A x \in T : g[x] = h[x]

\* Two functions that agree on T have the same sums over its subsets.
LEMMA SumsSame ==
  ASSUME NEW S, NEW T \in SUBSET S, IsFiniteSet(S),
         NEW f, NEW g, SumsOf(f, g, S), NEW e, NEW h, SumsOf(e, h, T),
         Agree(g, h, T), NEW s \in SUBSET T
  PROVE  f[s] = e[s]
<1> DEFINE Differ == {t \in SUBSET T : f[t] # e[t]}
<1> SUFFICES ASSUME Differ # {} PROVE FALSE
  OBVIOUS
<1>1. IsFiniteSet(T) /\ \A t \in Differ : IsFiniteSet(t)
  BY FS_Subset
<1>2. PICK t \in Differ : \A u \in Differ : Cardinality(t) <= Cardinality(u)
  <2> HIDE DEF Differ
  <2>1. QED
    BY <1>1, LeastSet
<1>3. t \in SUBSET T /\ t \in SUBSET S /\ t # {}
  BY Zenon, <1>2, SumsValues
<1>4. PICK x, u : x = Pick(t) /\ u = t \ {Pick(t)}
  BY Zenon
<1>5. x \in T /\ u \in SUBSET T /\ ~(Cardinality(t) <= Cardinality(u))
  <2>1. Cardinality(u) = Cardinality(t) - 1 /\ Cardinality(t) \in Nat /\ x \in t
    BY <1>1, <1>3, <1>4, PickSmaller
  <2>2. QED
    BY <1>3, <1>4, <2>1
<1>6. f[u] = e[u]
  BY <1>2, <1>5
<1>7. f[t] = g[x] + f[u] /\ e[t] = h[x] + e[u]
  <2>1. f[t] = g[x] + f[u]
    BY SMTT(30), <1>3, <1>4, SumsValues
  <2>2. e[t] = h[x] + e[u]
    <3>1. e[t] = SumStep(e, h, t)
      BY <1>3 DEF SumsOf, SumsOver
    <3>2. QED
      BY <1>3, <1>4, <3>1 DEF SumStep
  <2>3. QED
    BY <2>1, <2>2
<1>8. QED
  BY <1>2, <1>5, <1>6, <1>7 DEF Agree

\* Sums of integers are integers.
LEMMA SumsTyped ==
  ASSUME NEW S, IsFiniteSet(S), NEW f, NEW g, SumsOf(f, g, S), \A x \in S : g[x] \in Int,
         NEW s \in SUBSET S
  PROVE  f[s] \in Int
<1> DEFINE Bad == {t \in SUBSET S : f[t] \notin Int}
<1> SUFFICES ASSUME Bad # {} PROVE FALSE
  BY Zenon
<1>1. \A t \in Bad : IsFiniteSet(t)
  BY FS_Subset
<1>2. PICK t \in Bad : \A u \in Bad : Cardinality(t) <= Cardinality(u)
  <2> HIDE DEF Bad
  <2>1. QED
    BY <1>1, LeastSet
<1>3. t \in SUBSET S /\ t # {}
  <2>1. f[{}] = 0
    BY SumsValues
  <2>2. QED
    BY SMTT(30), <1>2, <2>1
<1>4. PICK x, u : x = Pick(t) /\ u = t \ {Pick(t)}
  BY Zenon
<1>5. x \in S /\ u \in SUBSET S /\ ~(Cardinality(t) <= Cardinality(u))
  <2>1. Cardinality(u) = Cardinality(t) - 1 /\ Cardinality(t) \in Nat /\ x \in t
    BY <1>3, <1>4, PickSmaller
  <2>2. QED
    BY <1>3, <1>4, <2>1
<1>6. f[u] \in Int
  BY <1>2, <1>5
<1>7. f[t] = g[x] + f[u]
  BY <1>3, <1>4, SumsValues
<1>8. QED
  BY <1>2, <1>5, <1>6, <1>7

\* Any element may be taken out first.
LEMMA SumsAnyOrder ==
  ASSUME NEW S, IsFiniteSet(S), NEW f, NEW g, SumsOf(f, g, S), \A x \in S : g[x] \in Int,
         NEW s \in SUBSET S, NEW y \in s
  PROVE  f[s] = g[y] + f[s \ {y}]
<1> DEFINE Bad == {t \in SUBSET S : \E z \in t : f[t] # g[z] + f[t \ {z}]}
<1> SUFFICES ASSUME Bad # {} PROVE FALSE
  BY Zenon
<1>1. \A t \in Bad : IsFiniteSet(t)
  BY FS_Subset
<1>2. PICK t \in Bad : \A u \in Bad : Cardinality(t) <= Cardinality(u)
  <2> HIDE DEF Bad
  <2>1. QED
    BY <1>1, LeastSet
<1>3. PICK z \in t : f[t] # g[z] + f[t \ {z}]
  BY <1>2
<1>4. t \in SUBSET S /\ t # {}
  BY <1>2, <1>3
<1>5. PICK x : x = Pick(t)
  OBVIOUS
<1>6. x \in t /\ f[t] = g[x] + f[t \ {x}]
  <2>1. x \in t
    BY Zenon, <1>4, <1>5, PickSmaller
  <2>2. f[t] = g[x] + f[t \ {x}]
    BY <1>4, <1>5, SumsValues
  <2>3. QED
    BY <2>1, <2>2
<1>7. x # z
  BY Zenon, <1>3, <1>6
<1>8. PICK u, w, r : u = t \ {x} /\ w = t \ {z} /\ r = t \ {x, z}
  BY Zenon
<1>9. /\ u \in SUBSET S /\ w \in SUBSET S /\ r \in SUBSET S
      /\ z \in u /\ x \in w /\ r = u \ {z} /\ r = w \ {x}
  BY <1>3, <1>4, <1>6, <1>7, <1>8
<1>10. ~(Cardinality(t) <= Cardinality(u)) /\ ~(Cardinality(t) <= Cardinality(w))
  <2>1. IsFiniteSet(t)
    BY <1>1
  <2>2. Cardinality(t) \in Nat
    BY <2>1, FS_CardinalityType
  <2>3. Cardinality(u) = Cardinality(t) - 1 /\ Cardinality(w) = Cardinality(t) - 1
    BY Zenon, <1>3, <1>6, <1>8, <2>1, FS_RemoveElement
  <2>4. QED
    BY <2>2, <2>3
<1>11. u \notin Bad /\ w \notin Bad
  BY <1>2, <1>10
<1>12. f[u] = g[z] + f[r] /\ f[w] = g[x] + f[r]
  BY Zenon, <1>9, <1>11
<1>13. f[r] \in Int /\ g[x] \in Int /\ g[z] \in Int
  BY <1>3, <1>4, <1>6, <1>9, SumsTyped
<1>14. QED
  BY <1>3, <1>6, <1>8, <1>12, <1>13

-----------------------------------------------------------------------------
(* SumFunctionOnSet *)

\* The sum over no element.
LEMMA SumEmpty ==
  ASSUME NEW g
  PROVE  SumFunctionOnSet(g, {}) = 0
<1>1. PICK f : SumsOf(f, g, {}) /\ SumFunctionOnSet(g, {}) = f[{}]
  BY SumsExist, FS_EmptySet
<1>2. QED
  BY <1>1, SumsValues

\* The sum over a finite set is any element's value and the sum over the others.
LEMMA SumTakes ==
  ASSUME NEW S, IsFiniteSet(S), NEW g, \A x \in S : g[x] \in Int, NEW y \in S
  PROVE  /\ SumFunctionOnSet(g, S) = g[y] + SumFunctionOnSet(g, S \ {y})
         /\ SumFunctionOnSet(g, S) \in Int
         /\ SumFunctionOnSet(g, S \ {y}) \in Int
<1>1. PICK f : SumsOf(f, g, S) /\ SumFunctionOnSet(g, S) = f[S]
  BY SumsExist
<1> DEFINE T == S \ {y}
<1>2. IsFiniteSet(T) /\ T \in SUBSET S
  BY FS_RemoveElement
<1>3. PICK e : SumsOf(e, g, T) /\ SumFunctionOnSet(g, T) = e[T]
  BY <1>2, SumsExist
<1>4. f[T] = e[T]
  <2> HIDE DEF T
  <2>1. Agree(g, g, T)
    BY DEF Agree
  <2>2. QED
    BY <1>1, <1>2, <1>3, <2>1, SumsSame
<1>5. f[S] = g[y] + f[T] /\ f[S] \in Int /\ f[T] \in Int
  <2>1. S \in SUBSET S
    OBVIOUS
  <2>2. f[S] = g[y] + f[S \ {y}]
    BY <1>1, <2>1, SumsAnyOrder
  <2>3. f[S] \in Int /\ f[S \ {y}] \in Int
    BY <1>1, <1>2, <2>1, SumsTyped
  <2>4. QED
    BY <2>2, <2>3
<1>6. QED
  BY <1>1, <1>3, <1>4, <1>5

\* The sum depends on the values over the set only.
LEMMA SumAgrees ==
  ASSUME NEW S, IsFiniteSet(S), NEW g, NEW h, \A x \in S : g[x] = h[x]
  PROVE  SumFunctionOnSet(g, S) = SumFunctionOnSet(h, S)
<1>1. PICK f : SumsOf(f, g, S) /\ SumFunctionOnSet(g, S) = f[S]
  BY SumsExist
<1>2. PICK e : SumsOf(e, h, S) /\ SumFunctionOnSet(h, S) = e[S]
  BY SumsExist
<1>3. S \in SUBSET S /\ Agree(g, h, S)
  BY DEF Agree
<1>4. f[S] = e[S]
  BY <1>1, <1>2, <1>3, SumsSame
<1>5. QED
  BY <1>1, <1>2, <1>4

\* The sum of integers is an integer.
LEMMA SumTyped ==
  ASSUME NEW S, IsFiniteSet(S), NEW g, \A x \in S : g[x] \in Int
  PROVE  SumFunctionOnSet(g, S) \in Int
<1>1. PICK f : SumsOf(f, g, S) /\ SumFunctionOnSet(g, S) = f[S]
  BY SumsExist
<1>2. QED
  BY <1>1, SumsTyped

\* Changing one value changes the sum by as much.
LEMMA SumChanges ==
  ASSUME NEW S, IsFiniteSet(S), NEW g, NEW h, \A x \in S : g[x] \in Int, NEW y \in S,
         h[y] \in Int, \A x \in S \ {y} : h[x] = g[x]
  PROVE  SumFunctionOnSet(h, S) = SumFunctionOnSet(g, S) + h[y] - g[y]
<1>1. SumFunctionOnSet(g, S) = g[y] + SumFunctionOnSet(g, S \ {y})
  BY SumTakes
<1>2. SumFunctionOnSet(h, S) = h[y] + SumFunctionOnSet(h, S \ {y})
  <2>1. \A x \in S : h[x] \in Int
    OBVIOUS
  <2>2. QED
    BY <2>1, SumTakes
<1>3. SumFunctionOnSet(h, S \ {y}) = SumFunctionOnSet(g, S \ {y})
  <2>1. IsFiniteSet(S \ {y})
    BY FS_RemoveElement
  <2>2. QED
    BY <2>1, SumAgrees
<1>4. SumFunctionOnSet(g, S \ {y}) \in Int /\ g[y] \in Int
  BY SumTakes
<1>5. QED
  BY <1>1, <1>2, <1>3, <1>4

\* The sum of nothing but zeros.
LEMMA SumZero ==
  ASSUME NEW S, IsFiniteSet(S), NEW g, \A x \in S : g[x] = 0
  PROVE  SumFunctionOnSet(g, S) = 0
<1>1. PICK f : SumsOf(f, g, S) /\ SumFunctionOnSet(g, S) = f[S]
  BY SumsExist
<1> DEFINE Bad == {t \in SUBSET S : f[t] # 0}
<1> SUFFICES ASSUME Bad # {} PROVE FALSE
  BY <1>1
<1>2. \A t \in Bad : IsFiniteSet(t)
  BY FS_Subset
<1>3. PICK t \in Bad : \A u \in Bad : Cardinality(t) <= Cardinality(u)
  <2> HIDE DEF Bad
  <2>1. QED
    BY <1>2, LeastSet
<1>4. t \in SUBSET S /\ t # {}
  <2>1. f[{}] = 0
    BY <1>1, SumsValues
  <2>2. QED
    BY <1>3, <2>1
<1>5. PICK x, u : x = Pick(t) /\ u = t \ {Pick(t)}
  BY Zenon
<1>6. x \in S /\ u \in SUBSET S /\ ~(Cardinality(t) <= Cardinality(u))
  <2>1. Cardinality(u) = Cardinality(t) - 1 /\ Cardinality(t) \in Nat /\ x \in t
    BY <1>4, <1>5, PickSmaller
  <2>2. QED
    BY <1>4, <1>5, <2>1
<1>7. f[u] = 0
  BY <1>3, <1>6
<1>8. f[t] = g[x] + f[u]
  BY <1>1, <1>4, <1>5, SumsValues
<1>9. QED
  BY <1>3, <1>6, <1>7, <1>8

-----------------------------------------------------------------------------
(* The commit path *)

\* Every non-empty set of vertices has a vertex that precedes the others in the
\* order of causalBatch, and First picks it.
LEMMA FirstPrecedes ==
  ASSUME NEW d \in Dags, NEW B \in SUBSET d.vertices, B # {}
  PROVE  First(B) \in B /\ \A w \in B \ {First(B)} : Precedes(First(B), w)
<1>0. /\ \A v \in B : v.round \in Nat /\ v.hash \in Nat
      /\ \A v, w \in B : v.round = w.round /\ v.hash = w.hash => v = w
  BY DagsAssumption
<1>1. PICK r \in {v.round : v \in B} : \A y \in {v.round : v \in B} : r <= y
  <2>1. {v.round : v \in B} \in SUBSET Nat /\ {v.round : v \in B} # {}
    BY <1>0
  <2>2. QED
    BY Zenon, <2>1, LeastNat
<1> DEFINE R == {v \in B : v.round = r}
<1>2. PICK h \in {v.hash : v \in R} : \A y \in {v.hash : v \in R} : h <= y
  <2>1. {v.hash : v \in R} \in SUBSET Nat /\ {v.hash : v \in R} # {}
    BY <1>0, <1>1
  <2>2. QED
    BY Zenon, <2>1, LeastNat
<1>3. PICK v \in R : v.hash = h
  BY <1>2
<1>4. ASSUME NEW w \in B \ {v} PROVE Precedes(v, w)
  <2>1. v \in B /\ v.round = r /\ r \in Nat /\ h \in Nat
    BY <1>0, <1>1, <1>2, <1>3
  <2>2. w.round \in Nat /\ w.hash \in Nat /\ r <= w.round
    BY <1>0, <1>1
  <2>3. CASE w.round = r
    <3>1. h <= w.hash
      BY <1>2, <2>3
    <3>2. w.hash # h
      BY <1>0, <1>3, <2>1, <2>3
    <3>3. QED
      BY <1>3, <2>1, <2>2, <2>3, <3>1, <3>2 DEF Precedes
  <2>4. CASE w.round # r
    BY <2>1, <2>2, <2>4 DEF Precedes
  <2>5. QED
    BY <2>3, <2>4
<1>5. QED
  BY <1>3, <1>4 DEF First

\* The least set that holds a and is closed under parents is the causal history
\* of a; it lies in every closed set that holds a.
LEMMA PastExists ==
  ASSUME NEW d \in Dags, NEW a \in d.vertices
  PROVE  \E P \in SUBSET d.vertices :
           /\ IsPast(d, a, P)
           /\ \A Q \in SUBSET d.vertices :
                a \in Q /\ (\A v \in Q : d.parents[v] \subseteq Q) => P \subseteq Q
<1> DEFINE Closed(Q) == a \in Q /\ \A v \in Q : d.parents[v] \subseteq Q
           P == {v \in d.vertices : \A Q \in SUBSET d.vertices : Closed(Q) => v \in Q}
<1>1. \A v \in d.vertices : d.parents[v] \subseteq d.vertices
  BY DagsAssumption
<1>2. a \in P
  OBVIOUS
<1>3. \A v \in P : d.parents[v] \subseteq P
  BY <1>1
<1>4. ASSUME NEW v \in P \ {a} PROVE \E w \in P : v \in d.parents[w]
  <2>1. SUFFICES ASSUME \A w \in P : v \notin d.parents[w] PROVE FALSE
    OBVIOUS
  <2>2. P \ {v} \in SUBSET d.vertices
    OBVIOUS
  <2>3. Closed(P \ {v})
    <3> HIDE DEF P
    <3> QED BY <1>2, <1>3, <1>4, <2>1
  <2>4. QED
    BY Zenon, <2>2, <2>3
<1>5. \A Q \in SUBSET d.vertices : Closed(Q) => P \subseteq Q
  OBVIOUS
<1>6. P \in SUBSET d.vertices
  OBVIOUS
<1>7. IsPast(d, a, P)
  <2> HIDE DEF P
  <2> QED BY <1>2, <1>3, <1>4, <1>6 DEF IsPast
<1>8. QED
  <2> HIDE DEF P
  <2> QED BY <1>5, <1>6, <1>7

\* Nothing precedes the first round, so a node that never joined from a snapshot
\* bounds its walks by the committed flags alone.
LEMMA BoundsAreFlags ==
  ASSUME dag \in Dags, floor = -1
  PROVE  \A v \in dag.vertices : Bounds(v) <=> v \in committed
BY DagsAssumption DEF Bounds

\* What the walk of collectCausal collects is the history of the anchor without the
\* flagged vertices, if the flags are causally closed.
LEMMA BatchIsHistory ==
  ASSUME dag \in Dags, floor = -1, stored \subseteq dag.vertices,
         committed \subseteq dag.vertices, CommittedClosed,
         NEW a \in dag.vertices, NEW B \in SUBSET {v \in stored : ~Bounds(v)},
         IsBatch(a, B)
  PROVE  \E P \in SUBSET dag.vertices : IsPast(dag, a, P) /\ B = P \ committed
<1>1. PICK P \in SUBSET dag.vertices :
        /\ IsPast(dag, a, P)
        /\ \A Q \in SUBSET dag.vertices :
             a \in Q /\ (\A v \in Q : dag.parents[v] \subseteq Q) => P \subseteq Q
  BY PastExists
<1>2. B \in SUBSET dag.vertices /\ \A v \in B : v \notin committed
  BY BoundsAreFlags
<1>3. \A v \in dag.vertices : dag.parents[v] \subseteq dag.vertices
  BY DagsAssumption
<1>4. P \ committed \subseteq B
  <2>1. B \cup committed \in SUBSET dag.vertices
    BY <1>2
  <2>2. a \in B \cup committed
    BY BoundsAreFlags DEF IsBatch
  <2>3. ASSUME NEW v \in B, NEW x \in dag.parents[v] PROVE x \in B \cup committed
    BY <1>2, <1>3, BoundsAreFlags DEF IsBatch
  <2>4. \A v \in committed : dag.parents[v] \subseteq committed
    BY DEF CommittedClosed
  <2>5. QED
    BY Zenon, <1>1, <2>1, <2>2, <2>3, <2>4
<1>5. B \subseteq P
  <2>1. SUFFICES ASSUME B \ P # {} PROVE FALSE
    OBVIOUS
  <2>2. /\ MaxRound \in Nat
        /\ \A v \in dag.vertices : v.round \in 0..MaxRound
        /\ \A v \in dag.vertices : \A x \in dag.parents[v] : x.round + 1 = v.round
    BY DagsAssumption
  <2> DEFINE T == {MaxRound - v.round : v \in B \ P}
  <2>3. T \in SUBSET Nat /\ T # {}
    BY <1>2, <2>1, <2>2
  <2>4. PICK n \in T : \A m \in T : n <= m
    BY Zenon, <2>3, LeastNat
  <2>5. PICK v \in B \ P : n = MaxRound - v.round
    BY <2>4
  <2>6. v # a
    BY <1>1 DEF IsPast
  <2>7. PICK w \in B : v \in dag.parents[w]
    BY <2>5, <2>6 DEF IsBatch
  <2>8. w \in P
    <3>1. SUFFICES ASSUME w \notin P PROVE FALSE
      OBVIOUS
    <3>2. MaxRound - v.round <= MaxRound - w.round
      BY <2>4, <2>5, <3>1
    <3>3. v.round + 1 = w.round /\ v.round \in 0..MaxRound /\ w.round \in 0..MaxRound
      BY <1>2, <2>2, <2>7
    <3>4. QED
      BY <2>2, <3>2, <3>3
  <2>9. QED
    BY <1>1, <2>5, <2>7, <2>8 DEF IsPast
<1>6. B = P \ committed
  BY <1>2, <1>4, <1>5
<1>7. QED
  BY <1>1, <1>6

-----------------------------------------------------------------------------
(* The inductive invariant *)

\* The accumulators are records; the proof needs no more of their types.
Shaped(m) == m = [k \in {"cursor", "epoch", "fees", "live", "produced"} |-> m[k]]

\* The cursor in memory is ahead by the round whose write is outstanding.
CursorsAgree ==
  /\ Shaped(mem) /\ Shaped(disk)
  /\ disk.cursor \in Nat
  /\ mem.cursor = IF job = "save" THEN disk.cursor + 1 ELSE disk.cursor
  /\ job # "idle" => disk.cursor <= MaxRound

Known ==
  /\ dag \in Dags
  /\ floor = -1
  /\ stored \subseteq dag.vertices
  /\ committed \subseteq dag.vertices
  /\ job \in {"idle", "apply", "execute", "flag", "save"}

\* What is left of the batch is what the history of the anchor has unflagged; the
\* round is saved once nothing is.
BatchLeft ==
  /\ job \in {"execute", "flag"} => batch # {}
  /\ job \in {"apply", "execute", "flag"} =>
       \/ dag.anchor[disk.cursor] = Skip /\ batch = {}
       \/ /\ dag.anchor[disk.cursor] # Skip
          /\ \E P \in SUBSET dag.vertices : /\ IsPast(dag, dag.anchor[disk.cursor], P)
                                            /\ batch = P \ committed
  /\ job = "save" =>
       \/ dag.anchor[disk.cursor] = Skip
       \/ /\ dag.anchor[disk.cursor] # Skip
          /\ \E P \in SUBSET committed : IsPast(dag, dag.anchor[disk.cursor], P)

IInv == Known /\ CursorsAgree /\ BatchLeft /\ CommittedClosed

\* The settlement of an epoch leaves the cursor alone.
LEMMA SettledShaped ==
  ASSUME NEW m, Shaped(m)
  PROVE  Shaped(SettleDeferredEpoch(m)) /\ SettleDeferredEpoch(m).cursor = m.cursor
BY Zenon DEF SettleDeferredEpoch, Shaped

\* The commit path starts in the invariant.
LEMMA InitIInv == Init => IInv
<1> SUFFICES ASSUME Init PROVE IInv
  OBVIOUS
<1>1. Shaped(Fresh) /\ Fresh.cursor = 0
  BY DEF Shaped, Fresh
<1>2. QED
  BY <1>1, DagsAssumption DEF Init, IInv, Known, CursorsAgree, BatchLeft, CommittedClosed

\* commitNextRound starts a batch that is the unflagged history of the anchor.
LEMMA CommitNextRoundIInv == IInv /\ CommitNextRound => IInv'
<1> SUFFICES ASSUME IInv, CommitNextRound PROVE IInv'
  OBVIOUS
<1> USE DEF IInv
<1>1. Known'
  BY DEF Known, CommitNextRound
<1>2. CommittedClosed'
  BY DEF CommittedClosed, CommitNextRound
<1>3. disk.cursor \in 0..MaxRound /\ mem.cursor = disk.cursor /\ UNCHANGED <<mem, disk>>
  BY DagsAssumption DEF CommitNextRound, Finished, CursorsAgree
<1>4. CursorsAgree'
  BY <1>3 DEF CursorsAgree, CommitNextRound, Shaped
<1>5. BatchLeft'
  <2>1. job' = "apply" /\ UNCHANGED <<dag, committed>>
    BY DEF CommitNextRound
  <2>2. dag.anchor[disk.cursor] \in dag.vertices \cup {Skip} /\ Skip \notin dag.vertices
    BY <1>3, DagsAssumption DEF Known
  <2>3. CASE dag.anchor[disk.cursor] = Skip
    BY <1>3, <2>1, <2>3 DEF BatchLeft, CommitNextRound, Skips
  <2>4. CASE dag.anchor[disk.cursor] # Skip
    <3>1. PICK B \in SUBSET {v \in stored : ~Bounds(v)} :
            IsBatch(dag.anchor[disk.cursor], B) /\ batch' = B
      BY <1>3, <2>4 DEF CommitNextRound, Skips
    <3>2. \E P \in SUBSET dag.vertices : /\ IsPast(dag, dag.anchor[disk.cursor], P)
                                         /\ B = P \ committed
      BY <2>2, <2>4, <3>1, BatchIsHistory DEF Known
    <3>3. QED
      BY <1>3, <2>1, <2>4, <3>1, <3>2 DEF BatchLeft
  <2>5. QED
    BY <2>3, <2>4
<1>6. QED
  BY <1>1, <1>2, <1>4, <1>5

\* applyBatch and executeTx touch neither flags nor batch.
LEMMA ApplyIInv == IInv /\ (ApplyVertex \/ ExecuteTx) => IInv'
<1> SUFFICES ASSUME IInv, ApplyVertex \/ ExecuteTx PROVE IInv'
  OBVIOUS
<1> USE DEF IInv
<1>1. /\ job \in {"apply", "execute"} /\ job' \in {"execute", "flag"} /\ batch # {}
      /\ UNCHANGED <<dag, stored, floor, committed, disk, batch>>
  BY DEF ApplyVertex, ExecuteTx, BatchLeft
<1>2. Shaped(mem') /\ mem'.cursor = mem.cursor
  BY DEF ApplyVertex, ExecuteTx, CursorsAgree, Shaped
<1>3. Known'
  BY <1>1 DEF Known
<1>4. CommittedClosed'
  BY <1>1 DEF CommittedClosed
<1>5. CursorsAgree'
  BY <1>1, <1>2 DEF CursorsAgree
<1>6. BatchLeft'
  BY <1>1 DEF BatchLeft
<1>7. QED
  BY <1>3, <1>4, <1>5, <1>6

\* markVertexCommitted flags the first vertex of the batch: its parents are in the
\* history of the anchor and lie in lower rounds, so they are flagged already.
LEMMA FlagIInv ==
  ASSUME IInv, FlagVertex
  PROVE  /\ IInv'
         /\ UNCHANGED <<dag, disk>> /\ disk.cursor <= MaxRound
         /\ dag.anchor[disk.cursor] # Skip
         /\ \E P \in SUBSET dag.vertices :
              /\ IsPast(dag, dag.anchor[disk.cursor], P)
              /\ ~P \subseteq committed
              /\ committed' = committed \cup {First(P \ committed)}
<1> USE DEF IInv
<1> DEFINE v == First(batch)
<1>1. /\ job = "flag" /\ job' = "apply" /\ batch # {}
      /\ committed' = committed \cup {v} /\ batch' = batch \ {v}
      /\ UNCHANGED <<dag, stored, floor, disk>>
  BY DEF FlagVertex, BatchLeft
<1>2. dag.anchor[disk.cursor] # Skip
  BY <1>1 DEF BatchLeft
<1>3. PICK P \in SUBSET dag.vertices :
        IsPast(dag, dag.anchor[disk.cursor], P) /\ batch = P \ committed
  BY <1>1 DEF BatchLeft
<1>4. v \in batch /\ \A w \in batch \ {v} : Precedes(v, w)
  BY <1>1, <1>3, FirstPrecedes DEF Known
<1> HIDE DEF v
<1>5. Known'
  BY <1>1, <1>3, <1>4 DEF Known
<1>6. dag.parents[v] \subseteq committed
  <2>1. SUFFICES ASSUME NEW x \in dag.parents[v], x \notin committed PROVE FALSE
    OBVIOUS
  <2>2. x \in P /\ v \in P
    BY <1>3, <1>4 DEF IsPast
  <2>3. x.round \in Nat /\ v.round \in Nat /\ x.round + 1 = v.round
    BY <2>2, DagsAssumption DEF Known
  <2>4. x \in batch \ {v}
    BY <1>3, <2>1, <2>2, <2>3
  <2>5. QED
    BY <1>4, <2>3, <2>4 DEF Precedes
<1>7. CommittedClosed'
  BY <1>1, <1>6 DEF CommittedClosed
<1>8. Shaped(mem') /\ mem'.cursor = mem.cursor
  BY SMTT(30) DEF FlagVertex, CursorsAgree, Shaped
<1>9. CursorsAgree'
  BY <1>1, <1>8 DEF CursorsAgree
<1>10. BatchLeft'
  <2>1. batch' = P \ committed'
    BY <1>1, <1>3
  <2>2. QED
    BY <1>1, <1>2, <1>3, <2>1 DEF BatchLeft
<1>11. disk.cursor <= MaxRound
  BY <1>1 DEF CursorsAgree
<1>12. ~P \subseteq committed /\ committed' = committed \cup {First(P \ committed)}
  BY <1>1, <1>3 DEF v
<1>13. QED
  BY <1>1, <1>2, <1>3, <1>5, <1>7, <1>9, <1>10, <1>11, <1>12

\* advanceCommitCursor runs once the whole history of the anchor is flagged.
LEMMA AdvanceIInv == IInv /\ AdvanceCommitCursor => IInv'
<1> SUFFICES ASSUME IInv, AdvanceCommitCursor PROVE IInv'
  OBVIOUS
<1> USE DEF IInv
<1>1. /\ job = "apply" /\ job' = "save" /\ batch = {}
      /\ UNCHANGED <<dag, stored, floor, committed, disk, batch>>
  BY DEF AdvanceCommitCursor
<1>2. Shaped(mem') /\ mem'.cursor = mem.cursor + 1
  <2>1. Shaped(mem)
    BY DEF CursorsAgree
  <2>2. CASE EpochBoundary(mem.cursor)
    <3>1. PICK m : m = SettleDeferredEpoch(mem)
      OBVIOUS
    <3>2. Shaped(m) /\ m.cursor = mem.cursor
      BY <2>1, <3>1, SettledShaped
    <3>3. mem' = [m EXCEPT !.cursor = @ + 1, !.epoch = @ + 1]
      BY <2>2, <3>1 DEF AdvanceCommitCursor
    <3>4. QED
      BY Zenon, <3>2, <3>3 DEF Shaped
  <2>3. CASE ~EpochBoundary(mem.cursor)
    BY <2>1, <2>3 DEF AdvanceCommitCursor, Shaped
  <2>4. QED
    BY <2>2, <2>3
<1>3. Known'
  BY <1>1 DEF Known
<1>4. CommittedClosed'
  BY <1>1 DEF CommittedClosed
<1>5. CursorsAgree'
  BY <1>1, <1>2 DEF CursorsAgree
<1>6. BatchLeft'
  <2>1. CASE dag.anchor[disk.cursor] = Skip
    BY <1>1, <2>1 DEF BatchLeft
  <2>2. CASE dag.anchor[disk.cursor] # Skip
    <3>1. PICK P \in SUBSET dag.vertices :
            IsPast(dag, dag.anchor[disk.cursor], P) /\ batch = P \ committed
      BY <1>1, <2>2 DEF BatchLeft
    <3>2. P \in SUBSET committed
      BY SMTT(30), <1>1, <3>1
    <3>3. QED
      BY <1>1, <2>2, <3>1, <3>2 DEF BatchLeft
  <2>3. QED
    BY <2>1, <2>2
<1>7. QED
  BY <1>3, <1>4, <1>5, <1>6

\* The cursor batch closes a round whose history is flagged.
LEMMA SaveIInv ==
  ASSUME IInv, SaveCommitCursor
  PROVE  /\ IInv'
         /\ UNCHANGED <<dag, committed>> /\ disk.cursor <= MaxRound
         /\ disk'.cursor = disk.cursor + 1
         /\ \/ dag.anchor[disk.cursor] = Skip
            \/ \E P \in SUBSET committed : IsPast(dag, dag.anchor[disk.cursor], P)
<1> USE DEF IInv
<1>1. /\ job = "save" /\ job' = "idle" /\ disk' = mem /\ mem' = mem
      /\ UNCHANGED <<dag, stored, floor, committed>>
  BY DEF SaveCommitCursor
<1>2. Known' /\ CommittedClosed'
  BY <1>1 DEF Known, CommittedClosed
<1>3. CursorsAgree' /\ disk'.cursor = disk.cursor + 1 /\ disk.cursor <= MaxRound
  BY <1>1 DEF CursorsAgree, Shaped
<1>4. BatchLeft'
  BY <1>1 DEF BatchLeft
<1>5. QED
  BY <1>1, <1>2, <1>3, <1>4 DEF BatchLeft

\* A crash falls back to the cursor on disk and forgets the batch, which
\* commitNextRound collects again.
LEMMA CrashIInv == IInv /\ Crash => IInv'
<1> SUFFICES ASSUME IInv, Crash PROVE IInv'
  OBVIOUS
<1> USE DEF IInv
<1>1. job' = "idle" /\ mem' = disk /\ UNCHANGED <<dag, stored, floor, committed, disk>>
  BY DEF Crash, Restored
<1>2. Known' /\ CommittedClosed'
  BY <1>1 DEF Known, CommittedClosed
<1>3. CursorsAgree'
  BY <1>1 DEF CursorsAgree, Shaped
<1>4. BatchLeft'
  BY <1>1 DEF BatchLeft
<1>5. QED
  BY <1>2, <1>3, <1>4

\* Arrivals only grow the store.
LEMMA ArrivalIInv ==
  ASSUME IInv, NEW v \in dag.vertices, Receive(v) \/ Fetch(v)
  PROVE  IInv'
<1> USE DEF IInv
<1>1. /\ stored' = stored \cup {v}
      /\ UNCHANGED <<dag, floor, committed, mem, disk, batch, job>>
  BY DEF Receive, Fetch
<1>2. Known' /\ CommittedClosed'
  BY <1>1 DEF Known, CommittedClosed
<1>3. CursorsAgree'
  BY <1>1 DEF CursorsAgree, Shaped
<1>4. BatchLeft'
  BY <1>1 DEF BatchLeft
<1>5. QED
  BY <1>2, <1>3, <1>4

\* A stuttering step keeps the invariant.
LEMMA StutterIInv == IInv /\ UNCHANGED vars => IInv'
<1> SUFFICES ASSUME IInv, UNCHANGED vars PROVE IInv'
  OBVIOUS
<1> USE DEF IInv, vars
<1>1. Known' /\ CommittedClosed'
  BY DEF Known, CommittedClosed
<1>2. CursorsAgree'
  BY DEF CursorsAgree, Shaped
<1>3. BatchLeft'
  BY DEF BatchLeft
<1>4. QED
  BY <1>1, <1>2, <1>3

\* IInv is inductive.
LEMMA NextIInv == IInv /\ [Next]_vars => IInv'
<1> SUFFICES ASSUME IInv, [Next]_vars PROVE IInv'
  OBVIOUS
<1>1. CASE \E v \in dag.vertices : Receive(v) \/ Fetch(v)
  BY <1>1, ArrivalIInv
<1>2. CASE CommitNextRound
  BY <1>2, CommitNextRoundIInv
<1>3. CASE ApplyVertex \/ ExecuteTx
  BY <1>3, ApplyIInv
<1>4. CASE FlagVertex
  BY <1>4, FlagIInv
<1>5. CASE AdvanceCommitCursor
  BY <1>5, AdvanceIInv
<1>6. CASE SaveCommitCursor
  BY <1>6, SaveIInv
<1>7. CASE Crash
  BY <1>7, CrashIInv
<1>8. CASE UNCHANGED vars
  BY <1>8, StutterIInv
<1>9. QED
  BY <1>1, <1>2, <1>3, <1>4, <1>5, <1>6, <1>7, <1>8 DEF Next, Commits

\* The invariant holds throughout.
THEOREM InvariantHolds == Spec => []IInv
BY InitIInv, NextIInv, PTL DEF Spec

\* Flags are causally closed, wherever a crash falls: a walk of collectCausal that
\* stops at a flagged vertex leaves nothing unapplied behind it.
THEOREM CommittedClosedHolds == Spec => []CommittedClosed
BY InvariantHolds, PTL DEF IInv

-----------------------------------------------------------------------------
(* The refinement *)

\* The two modules speak of the same first vertex and of the same history.
LEMMA SameOrder ==
  /\ \A B : Order!First(B) = First(B)
  /\ \A d, a, P : Order!IsPast(d, a, P) <=> IsPast(d, a, P)
<1>1. \A B : Order!First(B) = First(B)
  BY Zenon DEF Order!First, First, Order!Precedes, Precedes
<1>2. \A d, a, P : Order!IsPast(d, a, P) <=> IsPast(d, a, P)
  BY Zenon DEF Order!IsPast, IsPast
<1>3. QED
  BY <1>1, <1>2

\* markVertexCommitted folds the next vertex, the cursor batch concludes a round,
\* and every other step of the node leaves the promised state as it is.
LEMMA StepRefines == IInv /\ [Next]_vars => [Order!OrderNext]_(Order!orderVars)
<1> SUFFICES ASSUME IInv, [Next]_vars PROVE [Order!OrderNext]_(Order!orderVars)
  OBVIOUS
<1>1. CASE FlagVertex
  <2>1. PICK P \in SUBSET dag.vertices :
          /\ IsPast(dag, dag.anchor[disk.cursor], P)
          /\ ~P \subseteq committed
          /\ committed' = committed \cup {First(P \ committed)}
    BY SMTT(30), <1>1, FlagIInv
  <2>2. Order!Fold(P)
    BY <1>1, <2>1, FlagIInv, SameOrder DEF Order!Fold
  <2>3. QED
    BY <1>1, <2>2, FlagIInv DEF Order!OrderNext
<1>2. CASE SaveCommitCursor
  <2>1. Order!Conclude
    BY <1>2, SaveIInv, SameOrder DEF Order!Conclude
  <2>2. QED
    BY <1>2, <2>1, SaveIInv DEF Order!OrderNext
<1>3. CASE ~FlagVertex /\ ~SaveCommitCursor
  <2>1. UNCHANGED <<dag, committed, disk>>
    BY <1>3 DEF Next, Commits, vars, Receive, Fetch, CommitNextRound, ApplyVertex,
                ExecuteTx, AdvanceCommitCursor, Crash
  <2>2. QED
    BY <2>1 DEF Order!orderVars
<1>4. QED
  BY <1>1, <1>2, <1>3

\* Every node folds the same vertices in the same order: the commit path, with its
\* batches, its crashes and its late arrivals, implements CommitOrder ("every node
\* commits the identical ordered log", checkCommits).
THEOREM CommitsInOrderHolds == Spec => CommitsInOrder
<1>1. Init => Order!OrderInit
  BY DEF Init, Fresh, Order!OrderInit
<1>2. IInv /\ [Next]_vars => [Order!OrderNext]_(Order!orderVars)
  BY StepRefines
<1>3. QED
  BY <1>1, <1>2, InvariantHolds, PTL DEF Spec, CommitsInOrder, Order!OrderSpec

-----------------------------------------------------------------------------
(* The commit-once guard *)

\* Everything applied is recorded, nothing is applied twice, and a transaction about
\* to execute is recorded and not applied.
OnceInv ==
  /\ Len(applied) \in Nat /\ DOMAIN applied = 1..Len(applied)
  /\ \A i \in DOMAIN applied : applied[i] \in claimed
  /\ job = "execute" => /\ dag.tx[First(batch)] \in claimed
                        /\ \A i \in DOMAIN applied : applied[i] # dag.tx[First(batch)]
  /\ TxAppliedOnce

\* Every step keeps the records ahead of the effects.
LEMMA NextOnce == OnceInv /\ [Next]_vars => OnceInv'
<1> SUFFICES ASSUME OnceInv, [Next]_vars PROVE OnceInv'
  OBVIOUS
<1>1. CASE ApplyVertex
  <2> DEFINE t == dag.tx[First(batch)]
  <2>1. /\ claimed' = IF t = NoTx THEN claimed ELSE claimed \cup {t}
        /\ job' = IF Claims(t) THEN "execute" ELSE "flag"
        /\ UNCHANGED <<dag, applied, batch>>
    BY <1>1 DEF ApplyVertex
  <2>2. t' = t
    BY <2>1
  <2> HIDE DEF t
  <2>3. (job = "execute" => t \in claimed /\ \A i \in DOMAIN applied : applied[i] # t)'
    BY <2>1, <2>2 DEF OnceInv, Claims
  <2>4. QED
    BY <2>1, <2>3 DEF OnceInv, TxAppliedOnce, t
<1>2. CASE ExecuteTx
  <2> DEFINE t == dag.tx[First(batch)]
  <2>1. job = "execute" /\ applied' = Append(applied, t) /\ job' = "flag" /\ UNCHANGED claimed
    BY <1>2 DEF ExecuteTx
  <2>2. t \in claimed /\ \A i \in DOMAIN applied : applied[i] # t
    BY <2>1 DEF OnceInv
  <2> HIDE DEF t
  <2>3. /\ Len(applied') = Len(applied) + 1 /\ DOMAIN applied' = 1..Len(applied) + 1
        /\ \A i \in 1..Len(applied) : applied'[i] = applied[i]
        /\ applied'[Len(applied) + 1] = t
    BY <2>1 DEF OnceInv
  <2>4. \A i \in DOMAIN applied' : i \in DOMAIN applied \/ i = Len(applied) + 1
    BY <2>3 DEF OnceInv
  <2>5. \A i \in DOMAIN applied' : applied'[i] \in claimed
    BY <2>2, <2>3, <2>4 DEF OnceInv
  <2>6. TxAppliedOnce'
    BY SMTT(30), <2>2, <2>3, <2>4 DEF OnceInv, TxAppliedOnce
  <2>7. QED
    BY <2>1, <2>3, <2>5, <2>6 DEF OnceInv
<1>3. CASE \E v \in dag.vertices : Receive(v) \/ Fetch(v)
  BY <1>3 DEF OnceInv, TxAppliedOnce, Receive, Fetch
<1>4. CASE CommitNextRound \/ FlagVertex \/ AdvanceCommitCursor \/ SaveCommitCursor \/ Crash
  <2>1. job' # "execute" /\ UNCHANGED <<applied, claimed>>
    BY <1>4 DEF CommitNextRound, FlagVertex, AdvanceCommitCursor, SaveCommitCursor, Crash
  <2>2. QED
    BY <2>1 DEF OnceInv, TxAppliedOnce
<1>5. CASE UNCHANGED vars
  BY <1>5 DEF OnceInv, TxAppliedOnce, vars
<1>6. QED
  BY SMTT(30), <1>1, <1>2, <1>3, <1>4, <1>5 DEF Next, Commits

\* No transaction takes effect twice, however many vertices carry it, in however many
\* batches, and wherever crashes fall (the commit-once record of executeTx, written
\* before the effects).
THEOREM TxAppliedOnceHolds == Spec => []TxAppliedOnce
<1>1. Init => OnceInv
  BY DEF Init, OnceInv, TxAppliedOnce
<1>2. OnceInv => TxAppliedOnce
  BY DEF OnceInv
<1>3. QED
  BY <1>1, <1>2, NextOnce, PTL DEF Spec

-----------------------------------------------------------------------------
(* Liveness buckets *)

\* No producer signs two vertices of one round.
OneVertexEach ==
  \A d \in Dags : \A v, w \in d.vertices :
    v.producer = w.producer /\ v.round = w.round => v = w

\* The vertices whose liveness is credited: the flagged ones and the one at hand.
Counted == committed \cup IF job \in {"execute", "flag"} THEN {First(batch)} ELSE {}

\* The rounds of epoch e that producer q has a vertex of C in.
Worked(e, q, C) == {r \in Rounds : EpochOf(r) = e /\ \E v \in C : v.round = r /\ v.producer = q}

\* Until a crash, the buckets of the epochs not settled count the credited rounds.
LiveInv ==
  /\ crashes \in Nat
  /\ crashes = 0 =>
       /\ mem.live \in [Epochs -> [Producers -> Nat]]
       /\ mem.epoch \in Nat
       /\ job \in {"apply", "execute", "flag"} =>
            credited \subseteq {<<w.producer, w.round>> : w \in Counted}
       /\ \A e \in Epochs, q \in Producers : e + 1 >= mem.epoch =>
            mem.live[e][q] = Cardinality(Worked(e, q, Counted))

\* A set of rounds is finite.
LEMMA WorkedFinite ==
  ASSUME NEW e, NEW q, NEW C
  PROVE  IsFiniteSet(Worked(e, q, C)) /\ Cardinality(Worked(e, q, C)) \in Nat
<1>1. IsFiniteSet(Rounds)
  <2>1. 0 \in Int /\ MaxRound \in Int
    BY DagsAssumption
  <2>2. IsFiniteSet(0..MaxRound)
    BY Zenon, <2>1, FS_Interval
  <2>3. QED
    BY Zenon, <2>2 DEF Rounds
<1>2. Worked(e, q, C) \subseteq Rounds
  BY DEF Worked
<1>3. QED
  BY SMTT(30), <1>1, <1>2, FS_Subset, FS_CardinalityType

\* A round's epoch has a bucket.
LEMMA EpochOfRound ==
  ASSUME NEW r \in Rounds
  PROVE  EpochOf(r) \in Epochs
<1>1. r \in Nat /\ r <= MaxRound /\ MaxRound \in Nat /\ EpochLength \in Nat
  BY DagsAssumption, CommitAssumption DEF Rounds
<1>2. CASE EpochLength = 0
  BY <1>1, <1>2 DEF EpochOf, Epochs
<1>3. CASE EpochLength # 0
  <2>1. r \div EpochLength \in Nat /\ r \div EpochLength <= r
    BY <1>1, <1>3
  <2>2. r > 0 /\ r % EpochLength = 0 => r \div EpochLength >= 1
    BY SMTT(30), <1>1, <1>3
  <2>3. QED
    BY <1>1, <1>3, <2>1, <2>2 DEF EpochOf, Epochs
<1>4. QED
  BY <1>2, <1>3

\* creditLiveness credits a round once: its vertex was credited neither in an earlier
\* batch nor in this one.
LEMMA ApplyCredits ==
  ASSUME OneVertexEach, IInv, LiveInv, ApplyVertex
  PROVE  LiveInv'
<1> DEFINE v == First(batch)
<1>1. /\ job = "apply" /\ batch # {} /\ job' \in {"execute", "flag"}
      /\ mem' = [mem EXCEPT !.live = CreditLiveness(v)]
      /\ credited' = credited \cup {<<v.producer, v.round>>}
      /\ UNCHANGED <<dag, committed, batch, crashes>>
  BY DEF ApplyVertex
<1>2. PICK P \in SUBSET dag.vertices : batch = P \ committed
  BY <1>1 DEF IInv, BatchLeft
<1>3. v \in batch
  BY <1>1, <1>2, FirstPrecedes DEF IInv, Known
<1>4. v \in dag.vertices /\ v \notin committed /\ committed \subseteq dag.vertices /\ dag \in Dags
  BY <1>2, <1>3 DEF IInv, Known
<1>5. v.round \in Rounds /\ v.producer \in Producers
  BY <1>4, DagsAssumption, CommitAssumption DEF Rounds
<1>6. v' = v
  BY <1>1
<1> HIDE DEF v
<1>7. Counted = committed /\ Counted' = committed \cup {v}
  BY <1>1, <1>6 DEF Counted, v
<1>8. \A w \in committed : ~(w.producer = v.producer /\ w.round = v.round)
  BY <1>4 DEF OneVertexEach
<1>9. SUFFICES ASSUME crashes = 0
               PROVE  /\ mem'.live \in [Epochs -> [Producers -> Nat]]
                      /\ mem'.epoch \in Nat
                      /\ credited' \subseteq {<<w.producer, w.round>> : w \in Counted'}
                      /\ \A e \in Epochs, q \in Producers : e + 1 >= mem'.epoch =>
                           mem'.live[e][q] = Cardinality(Worked(e, q, Counted'))
  BY <1>1 DEF LiveInv
<1>10. <<v.producer, v.round>> \notin credited
  BY SMTT(30), <1>1, <1>7, <1>8, <1>9 DEF LiveInv
<1> DEFINE k == EpochOf(v.round)
<1>11. /\ mem'.epoch = mem.epoch
       /\ mem'.live = [mem.live EXCEPT ![k][v.producer] = @ + 1]
  <2>1. CreditLiveness(v) = [mem.live EXCEPT ![k][v.producer] = @ + 1]
    BY <1>10 DEF CreditLiveness
  <2>2. Shaped(mem)
    BY DEF IInv, CursorsAgree
  <2> DEFINE l == CreditLiveness(v)
  <2>3. mem' = [mem EXCEPT !.live = l]
    BY <1>1
  <2> HIDE DEF l
  <2>4. mem'.epoch = mem.epoch /\ mem'.live = l
    BY <2>2, <2>3 DEF Shaped
  <2>5. QED
    BY <2>1, <2>4 DEF l
<1>12. k \in Epochs
  BY <1>5, EpochOfRound
<1>13. mem.live \in [Epochs -> [Producers -> Nat]] /\ mem.epoch \in Nat
  BY <1>9 DEF LiveInv
<1>14. mem'.live \in [Epochs -> [Producers -> Nat]]
  <2> HIDE DEF k
  <2>1. mem.live[k] \in [Producers -> Nat]
    BY <1>12, <1>13
  <2>2. [mem.live[k] EXCEPT ![v.producer] = @ + 1] \in [Producers -> Nat]
    BY <1>5, <2>1
  <2>3. QED
    BY <1>11, <1>12, <1>13, <2>2
<1>15. ASSUME NEW e \in Epochs, NEW q \in Producers, e + 1 >= mem.epoch
       PROVE  mem'.live[e][q] = Cardinality(Worked(e, q, committed \cup {v}))
  <2>1. mem.live[e][q] = Cardinality(Worked(e, q, committed))
    BY <1>7, <1>9, <1>15 DEF LiveInv
  <2>2. CASE e = k /\ q = v.producer
    <3>1. Worked(e, q, committed \cup {v}) = Worked(e, q, committed) \cup {v.round}
      BY <1>5, <2>2 DEF Worked
    <3>2. v.round \notin Worked(e, q, committed)
      BY <1>8, <2>2 DEF Worked
    <3>3. Cardinality(Worked(e, q, committed \cup {v})) = Cardinality(Worked(e, q, committed)) + 1
      BY ZenonT(30), <3>1, <3>2, WorkedFinite, FS_AddElement
    <3> HIDE DEF k
    <3>4. mem'.live[e][q] = mem.live[e][q] + 1
      <4>1. mem.live[e] \in [Producers -> Nat]
        BY <1>13
      <4>2. mem'.live[e] = [mem.live[e] EXCEPT ![q] = @ + 1]
        BY <1>11, <1>12, <1>13, <2>2
      <4>3. QED
        BY <4>1, <4>2
    <3>5. QED
      BY <2>1, <3>3, <3>4
  <2>3. CASE ~(e = k /\ q = v.producer)
    <3>1. Worked(e, q, committed \cup {v}) = Worked(e, q, committed)
      BY <2>3 DEF Worked
    <3> HIDE DEF k
    <3>2. mem'.live[e][q] = mem.live[e][q]
      BY <1>5, <1>11, <1>12, <1>13, <2>3
    <3>3. QED
      BY <2>1, <3>1, <3>2
  <2>4. QED
    BY <2>2, <2>3
<1>16. credited' \subseteq {<<w.producer, w.round>> : w \in Counted'}
  BY <1>1, <1>7, <1>9 DEF LiveInv
<1>17. QED
  BY Zenon, <1>7, <1>11, <1>13, <1>14, <1>15, <1>16

\* settleDeferredEpoch empties a bucket that the turn of the epoch leaves settled.
LEMMA AdvanceCredits ==
  ASSUME IInv, LiveInv, AdvanceCommitCursor
  PROVE  LiveInv'
<1>1. job = "apply" /\ job' = "save" /\ UNCHANGED <<committed, crashes>>
  BY DEF AdvanceCommitCursor
<1>2. Counted = committed /\ Counted' = committed /\ Shaped(mem)
  BY <1>1 DEF Counted, IInv, CursorsAgree
<1>3. SUFFICES ASSUME crashes = 0
               PROVE  /\ mem'.live \in [Epochs -> [Producers -> Nat]]
                      /\ mem'.epoch \in Nat
                      /\ \A e \in Epochs, q \in Producers : e + 1 >= mem'.epoch =>
                           mem'.live[e][q] = Cardinality(Worked(e, q, committed))
  BY <1>1, <1>2 DEF LiveInv
<1>4. /\ mem.live \in [Epochs -> [Producers -> Nat]] /\ mem.epoch \in Nat
      /\ \A e \in Epochs, q \in Producers : e + 1 >= mem.epoch =>
           mem.live[e][q] = Cardinality(Worked(e, q, committed))
  BY <1>2, <1>3 DEF LiveInv
<1>5. CASE ~EpochBoundary(mem.cursor)
  <2>1. mem' = [mem EXCEPT !.cursor = @ + 1]
    BY <1>5 DEF AdvanceCommitCursor
  <2>2. mem'.live = mem.live /\ mem'.epoch = mem.epoch
    BY <1>2, <2>1 DEF Shaped
  <2>3. QED
    BY <1>4, <2>2
<1>6. CASE EpochBoundary(mem.cursor)
  <2>1. PICK m : m = SettleDeferredEpoch(mem)
    OBVIOUS
  <2>2. mem' = [m EXCEPT !.cursor = @ + 1, !.epoch = @ + 1]
    BY <1>6, <2>1 DEF AdvanceCommitCursor
  <2>3. Shaped(m)
    BY <1>2, <2>1, SettledShaped
  <2>4. mem'.live = m.live /\ mem'.epoch = m.epoch + 1
    BY Zenon, <2>2, <2>3 DEF Shaped
  <2>5. m.epoch = mem.epoch
    BY Zenon, <1>2, <2>1 DEF SettleDeferredEpoch, Shaped
  <2>6. m.live = IF mem.epoch = 0 THEN mem.live
                 ELSE [mem.live EXCEPT ![mem.epoch - 1] = [q \in Producers |-> 0]]
    BY Zenon, <1>2, <2>1 DEF SettleDeferredEpoch, Shaped
  <2>7. m.live \in [Epochs -> [Producers -> Nat]]
    <3>1. [q \in Producers |-> 0] \in [Producers -> Nat]
      OBVIOUS
    <3>2. CASE mem.epoch = 0
      BY SMTT(30), <1>4, <2>6, <3>2
    <3>3. CASE mem.epoch # 0
      <4>1. PICK z \in [Producers -> Nat] : z = [q \in Producers |-> 0]
        BY ZenonT(30), <3>1
      <4>2. m.live = [mem.live EXCEPT ![mem.epoch - 1] = z]
        BY <2>6, <3>3, <4>1
      <4>3. QED
        BY Zenon, <1>4, <4>2
    <3>4. QED
      BY <3>2, <3>3
  <2>8. ASSUME NEW e \in Epochs, e + 1 >= mem.epoch + 1 PROVE m.live[e] = mem.live[e]
    <3>1. e # mem.epoch - 1 /\ e + 1 >= mem.epoch
      BY <1>4, <2>8, DagsAssumption DEF Epochs
    <3>2. QED
      BY SMTT(30), <1>4, <2>6, <3>1
  <2>9. ASSUME NEW e \in Epochs, NEW q \in Producers, e + 1 >= mem'.epoch
        PROVE  mem'.live[e][q] = Cardinality(Worked(e, q, committed))
    <3>1. e + 1 >= mem.epoch + 1 /\ e + 1 >= mem.epoch
      BY SMTT(30), <1>4, <2>4, <2>5, <2>9, DagsAssumption DEF Epochs
    <3>2. QED
      BY SMTT(30), <1>4, <2>4, <2>8, <3>1
  <2>10. QED
    BY <1>4, <2>4, <2>5, <2>7, <2>9
<1>7. QED
  BY <1>5, <1>6

\* Every step keeps the buckets.
LEMMA NextLive ==
  ASSUME OneVertexEach, IInv, LiveInv, [Next]_vars
  PROVE  LiveInv'
<1>1. CASE ApplyVertex
  BY <1>1, ApplyCredits
<1>2. CASE AdvanceCommitCursor
  BY <1>2, AdvanceCredits
<1>3. CASE Crash
  <2>1. crashes' = crashes + 1
    BY <1>3 DEF Crash
  <2>2. QED
    BY <2>1 DEF LiveInv
<1>4. CASE ExecuteTx
  <2>1. /\ job = "execute" /\ job' = "flag"
        /\ UNCHANGED <<dag, committed, batch, credited, crashes>>
    BY <1>4 DEF ExecuteTx
  <2>2. mem'.live = mem.live /\ mem'.epoch = mem.epoch
    BY <1>4 DEF ExecuteTx, IInv, CursorsAgree, Shaped
  <2>3. Counted' = Counted
    BY <2>1 DEF Counted
  <2>4. QED
    BY <2>1, <2>2, <2>3 DEF LiveInv
<1>5. CASE FlagVertex
  <2>1. /\ job = "flag" /\ job' = "apply" /\ committed' = committed \cup {First(batch)}
        /\ UNCHANGED <<credited, crashes>>
    BY <1>5 DEF FlagVertex
  <2>2. mem'.live = mem.live /\ mem'.epoch = mem.epoch
    <3> DEFINE s == mem.produced \cup {First(batch).producer}
    <3>1. Shaped(mem) /\ mem' = [mem EXCEPT !.produced = s]
      BY <1>5 DEF FlagVertex, IInv, CursorsAgree
    <3> HIDE DEF s
    <3>2. QED
      BY <3>1 DEF Shaped
  <2>3. Counted' = Counted
    BY <2>1 DEF Counted
  <2>4. QED
    BY <2>1, <2>2, <2>3 DEF LiveInv
<1>6. CASE CommitNextRound
  <2>1. /\ job = "idle" /\ job' = "apply" /\ credited' = {}
        /\ UNCHANGED <<committed, mem, crashes>>
    BY <1>6 DEF CommitNextRound
  <2>2. Counted' = Counted
    BY <2>1 DEF Counted
  <2>3. QED
    BY <2>1, <2>2 DEF LiveInv
<1>7. CASE SaveCommitCursor
  <2>1. job = "save" /\ job' = "idle" /\ UNCHANGED <<committed, mem, crashes>>
    BY <1>7 DEF SaveCommitCursor
  <2>2. Counted' = Counted
    BY <2>1 DEF Counted
  <2>3. QED
    BY <2>1, <2>2 DEF LiveInv
<1>8. CASE (\E v \in dag.vertices : Receive(v) \/ Fetch(v)) \/ UNCHANGED vars
  <2>1. UNCHANGED <<committed, mem, batch, credited, job, crashes>>
    BY <1>8 DEF Receive, Fetch, vars
  <2>2. Counted' = Counted
    BY <2>1 DEF Counted
  <2>3. QED
    BY SMTT(30), <2>1, <2>2 DEF LiveInv
<1>9. QED
  BY <1>1, <1>2, <1>3, <1>4, <1>5, <1>6, <1>7, <1>8 DEF Next, Commits

\* Where no producer signs two vertices of one round, and until a crash, the bucket of
\* an epoch not yet settled counts, for every producer, the rounds of that epoch it
\* has a committed vertex in, whatever the batches and the boundaries that fall among
\* them (creditLiveness, commitEpochForRound, settleDeferredEpoch).
THEOREM LivenessExactHolds == ASSUME OneVertexEach PROVE Spec => []LivenessExact
<1>1. Init => LiveInv
  <2> SUFFICES ASSUME Init PROVE LiveInv
    OBVIOUS
  <2>1. committed = {} /\ job = "idle" /\ crashes = 0 /\ mem = Fresh
    BY DEF Init
  <2>2. Counted = {}
    BY <2>1 DEF Counted
  <2>3. \A e, q : Worked(e, q, {}) = {}
    BY DEF Worked
  <2>4. Cardinality({}) = 0
    BY FS_EmptySet
  <2>5. /\ mem.epoch = 0
        /\ mem.live = [e \in Epochs |-> [q \in Producers |-> 0]]
    BY <2>1 DEF Fresh
  <2>6. QED
    BY <2>1, <2>2, <2>3, <2>4, <2>5 DEF LiveInv
<1>2. IInv /\ LiveInv /\ [Next]_vars => LiveInv'
  BY NextLive
<1>3. LiveInv => LivenessExact
  <2>1. SUFFICES ASSUME LiveInv, job = "idle", crashes = 0, NEW e \in Epochs, NEW q \in Producers,
                        e + 1 >= mem.epoch
                 PROVE  mem.live[e][q] = Cardinality(Worked(e, q, committed))
    BY DEF LivenessExact, Worked
  <2>2. Counted = committed
    BY <2>1 DEF Counted
  <2>3. QED
    BY <2>1, <2>2 DEF LiveInv
<1>4. QED
  BY <1>1, <1>2, <1>3, InvariantHolds, PTL DEF Spec

-----------------------------------------------------------------------------
(* Fee pools *)

Paid == [i \in DOMAIN paid |-> paid[i].amount]

Payment == [epoch : Int, amount : Nat]

\* Until a crash, in the middle of a batch too, the pools and what was paid out of
\* them are the fees of all that was applied.
FeesInv ==
  /\ crashes \in Nat
  /\ crashes = 0 =>
       /\ mem.fees \in [Epochs -> Nat] /\ mem.epoch \in Nat /\ mem.epoch <= mem.cursor
       /\ paid \in Seq(Payment)
       /\ Len(applied) \in Nat
       /\ SumFunctionOnSet(mem.fees, Epochs) + SumFunctionOnSet(Paid, DOMAIN paid) = Len(applied)

\* There are finitely many epochs.
LEMMA EpochsFinite == IsFiniteSet(Epochs)
<1>1. 0 \in Int /\ MaxRound + 1 \in Int
  BY DagsAssumption
<1>2. IsFiniteSet(0..(MaxRound + 1))
  BY Zenon, <1>1, FS_Interval
<1>3. QED
  BY Zenon, <1>2 DEF Epochs

\* What is paid out is a number.
LEMMA PaidTyped ==
  ASSUME paid \in Seq(Payment)
  PROVE  /\ IsFiniteSet(DOMAIN paid) /\ \A i \in DOMAIN paid : Paid[i] \in Int
         /\ SumFunctionOnSet(Paid, DOMAIN paid) \in Int
<1>1. DOMAIN paid = 1..Len(paid) /\ Len(paid) \in Nat
  OBVIOUS
<1>2. IsFiniteSet(DOMAIN paid)
  BY <1>1, FS_Interval
<1>3. ASSUME NEW i \in DOMAIN paid PROVE Paid[i] \in Int
  <2>1. paid[i] \in Payment
    BY <1>1
  <2>2. paid[i].amount \in Int
    BY <2>1 DEF Payment
  <2>3. QED
    BY <2>2 DEF Paid
<1>4. QED
  BY <1>2, <1>3, SumTyped

\* A payout adds its amount to what was paid.
LEMMA PaidAppends ==
  ASSUME paid \in Seq(Payment), NEW x \in Payment, paid' = Append(paid, x)
  PROVE  /\ paid' \in Seq(Payment)
         /\ SumFunctionOnSet(Paid', DOMAIN paid') = SumFunctionOnSet(Paid, DOMAIN paid) + x.amount
<1> DEFINE n == Len(paid) + 1
           D == DOMAIN paid
<1>1. paid' \in Seq(Payment) /\ n \in Nat /\ DOMAIN paid' = D \cup {n} /\ n \notin D
  OBVIOUS
<1>2. paid'[n] = x /\ \A i \in D : paid'[i] = paid[i]
  OBVIOUS
<1>3. Paid'[n] = x.amount /\ \A i \in D : Paid'[i] = Paid[i]
  BY <1>1, <1>2 DEF Paid
<1>4. IsFiniteSet(DOMAIN paid') /\ \A i \in DOMAIN paid' : Paid'[i] \in Int
  <2>1. IsFiniteSet(DOMAIN paid')
    BY <1>1, PaidTyped, FS_AddElement
  <2>2. \A i \in D : Paid'[i] \in Int
    BY <1>3, PaidTyped
  <2>3. Paid'[n] \in Int
    BY <1>3 DEF Payment
  <2>4. QED
    BY <1>1, <2>1, <2>2, <2>3
<1>5. D = DOMAIN paid' \ {n} /\ n \in DOMAIN paid'
  BY ZenonT(30), <1>1
<1>6. PICK g, h, E : g = Paid /\ h = Paid' /\ E = DOMAIN paid'
  OBVIOUS
<1> HIDE DEF n, D
<1>7. SumFunctionOnSet(h, E) = h[n] + SumFunctionOnSet(h, E \ {n})
  BY <1>4, <1>5, <1>6, SumTakes
<1>8. SumFunctionOnSet(h, D) = SumFunctionOnSet(g, D)
  <2>1. IsFiniteSet(D) /\ \A i \in D : h[i] = g[i]
    BY <1>3, <1>6, PaidTyped DEF D
  <2>2. QED
    BY <2>1, SumAgrees
<1>9. SumFunctionOnSet(g, D) \in Int /\ x.amount \in Int
  BY <1>6, PaidTyped DEF D, Payment
<1>10. SumFunctionOnSet(h, E) = SumFunctionOnSet(g, D) + x.amount
  <2>1. E \ {n} = D /\ h[n] = x.amount
    BY <1>3, <1>5, <1>6
  <2>2. SumFunctionOnSet(h, E) = h[n] + SumFunctionOnSet(h, D)
    BY Zenon, <1>7, <2>1
  <2>3. QED
    BY <1>8, <1>9, <2>1, <2>2
<1>11. QED
  BY <1>1, <1>6, <1>10 DEF D

\* executeTx puts the fee of a transaction into one pool.
LEMMA ExecuteFees ==
  ASSUME IInv, FeesInv, ExecuteTx
  PROVE  FeesInv'
<1> DEFINE v == First(batch)
           e == EpochOf(v.round)
<1>1. /\ applied' = Append(applied, dag.tx[v])
      /\ mem' = [mem EXCEPT !.fees[e] = @ + 1]
      /\ UNCHANGED <<paid, crashes>>
  BY DEF ExecuteTx
<1>2. SUFFICES ASSUME crashes = 0
               PROVE  /\ mem'.fees \in [Epochs -> Nat]
                      /\ mem'.epoch \in Nat /\ mem'.epoch <= mem'.cursor
                      /\ Len(applied') \in Nat
                      /\ SumFunctionOnSet(mem'.fees, Epochs) + SumFunctionOnSet(Paid, DOMAIN paid)
                           = Len(applied')
  BY <1>1 DEF FeesInv, Paid
<1>3. /\ mem.fees \in [Epochs -> Nat] /\ mem.epoch \in Nat /\ mem.epoch <= mem.cursor
      /\ paid \in Seq(Payment) /\ Len(applied) \in Nat
      /\ SumFunctionOnSet(mem.fees, Epochs) + SumFunctionOnSet(Paid, DOMAIN paid) = Len(applied)
  BY <1>2 DEF FeesInv
<1>4. e \in Epochs
  <2>1. batch # {} /\ dag \in Dags
    BY DEF ExecuteTx, IInv, BatchLeft, Known
  <2>2. PICK P \in SUBSET dag.vertices : batch = P \ committed
    BY Zenon, <2>1 DEF ExecuteTx, IInv, BatchLeft
  <2>3. v \in batch
    BY <2>1, <2>2, FirstPrecedes
  <2>4. v.round \in Rounds
    BY <2>1, <2>2, <2>3, DagsAssumption DEF Rounds
  <2>5. QED
    BY <2>4, EpochOfRound
<1>5. PICK f : f = [mem.fees EXCEPT ![e] = @ + 1]
  BY Zenon
<1>6. mem'.fees = f /\ mem'.epoch = mem.epoch /\ mem'.cursor = mem.cursor
  <2>1. Shaped(mem)
    BY DEF IInv, CursorsAgree
  <2>2. QED
    BY Zenon, <1>1, <1>5, <2>1 DEF Shaped
<1> HIDE DEF e, v
<1>7. f \in [Epochs -> Nat] /\ f[e] = mem.fees[e] + 1 /\ \A x \in Epochs \ {e} : f[x] = mem.fees[x]
  BY <1>3, <1>4, <1>5
<1>8. PICK g : g = mem.fees
  OBVIOUS
<1>9. SumFunctionOnSet(f, Epochs) = SumFunctionOnSet(g, Epochs) + 1
  <2>1. \A x \in Epochs : g[x] \in Int
    BY <1>3, <1>8
  <2>2. SumFunctionOnSet(f, Epochs) = SumFunctionOnSet(g, Epochs) + f[e] - g[e]
    BY SMTT(30), <1>4, <1>7, <1>8, <2>1, EpochsFinite, SumChanges
  <2>3. SumFunctionOnSet(g, Epochs) \in Int
    BY <2>1, EpochsFinite, SumTyped
  <2>4. QED
    BY <1>4, <1>7, <1>8, <2>1, <2>2, <2>3
<1>10. SumFunctionOnSet(g, Epochs) \in Int /\ SumFunctionOnSet(Paid, DOMAIN paid) \in Int
  <2>1. \A x \in Epochs : g[x] \in Int
    BY <1>3, <1>8
  <2>2. QED
    BY <1>3, <2>1, EpochsFinite, SumTyped, PaidTyped
<1>11. Len(applied') = Len(applied) + 1
  BY <1>1, <1>3
<1>12. QED
  BY <1>3, <1>6, <1>7, <1>8, <1>9, <1>10, <1>11

\* settleDeferredEpoch pays the pool of the epoch that closed one boundary ago out, or
\* moves it to the open epoch: nothing is lost at a boundary.
LEMMA AdvanceFees ==
  ASSUME IInv, FeesInv, AdvanceCommitCursor
  PROVE  FeesInv'
<1>1. job = "apply" /\ UNCHANGED <<applied, crashes>>
  BY DEF AdvanceCommitCursor
<1>2. Shaped(mem) /\ mem.cursor \in Nat /\ mem.cursor <= MaxRound /\ MaxRound \in Nat
  BY <1>1, DagsAssumption DEF IInv, CursorsAgree
<1>3. SUFFICES ASSUME crashes = 0
               PROVE  /\ mem'.fees \in [Epochs -> Nat]
                      /\ mem'.epoch \in Nat /\ mem'.epoch <= mem'.cursor
                      /\ paid' \in Seq(Payment)
                      /\ SumFunctionOnSet(mem'.fees, Epochs) + SumFunctionOnSet(Paid', DOMAIN paid')
                           = Len(applied)
  BY <1>1 DEF FeesInv
<1>4. /\ mem.fees \in [Epochs -> Nat] /\ mem.epoch \in Nat /\ mem.epoch <= mem.cursor
      /\ paid \in Seq(Payment) /\ Len(applied) \in Nat
      /\ SumFunctionOnSet(mem.fees, Epochs) + SumFunctionOnSet(Paid, DOMAIN paid) = Len(applied)
  BY <1>3 DEF FeesInv
<1>5. CASE ~EpochBoundary(mem.cursor)
  <2>1. mem' = [mem EXCEPT !.cursor = @ + 1] /\ paid' = paid
    BY <1>5 DEF AdvanceCommitCursor
  <2>2. mem'.fees = mem.fees /\ mem'.epoch = mem.epoch /\ mem'.cursor = mem.cursor + 1
    BY <1>2, <2>1 DEF Shaped
  <2>3. Paid' = Paid
    BY <2>1 DEF Paid
  <2>4. QED
    BY <1>2, <1>4, <2>1, <2>2, <2>3
<1>6. CASE EpochBoundary(mem.cursor)
  <2>1. PICK m : m = SettleDeferredEpoch(mem)
    OBVIOUS
  <2>2. mem' = [m EXCEPT !.cursor = @ + 1, !.epoch = @ + 1] /\ paid' = paid \o Payout(mem)
    BY <1>6, <2>1 DEF AdvanceCommitCursor
  <2>3. Shaped(m) /\ m.cursor = mem.cursor
    BY <1>2, <2>1, SettledShaped
  <2>4. mem'.fees = m.fees /\ mem'.epoch = m.epoch + 1 /\ mem'.cursor = m.cursor + 1
    BY Zenon, <2>2, <2>3 DEF Shaped
  <2>5. m.epoch = mem.epoch
    BY Zenon, <1>2, <2>1 DEF SettleDeferredEpoch, Shaped
  <2>6. CASE mem.epoch = 0
    <3>1. m = mem /\ Payout(mem) = <<>>
      BY <2>1, <2>6 DEF SettleDeferredEpoch, Payout
    <3>2. paid' = paid
      BY <1>4, <2>2, <3>1
    <3>3. Paid' = Paid
      BY <3>2 DEF Paid
    <3>4. QED
      BY <1>2, <1>4, <2>3, <2>4, <3>1, <3>2, <3>3
  <2>7. CASE mem.epoch # 0
    <3>1. PICK e, o, g, f, k :
            /\ e = mem.epoch - 1 /\ o = mem.epoch /\ g = mem.fees /\ f = m.fees
            /\ k = IF Distributable(mem, e) THEN g[o] ELSE g[o] + g[e]
      OBVIOUS
    <3>2. f = [g EXCEPT ![e] = 0, ![o] = k]
      <4>1. m.fees = [mem.fees EXCEPT ![mem.epoch - 1] = 0,
                                      ![mem.epoch] = IF Distributable(mem, mem.epoch - 1) THEN @
                                                     ELSE @ + mem.fees[mem.epoch - 1]]
        BY Zenon, <1>2, <2>1, <2>7 DEF SettleDeferredEpoch, Shaped
      <4>2. mem.epoch # mem.epoch - 1
        BY <1>4
      <4>3. QED
        BY <1>4, <3>1, <4>1, <4>2
    <3>3. e \in Int /\ e \in Epochs /\ o \in Epochs /\ e # o
      <4>1. /\ mem.epoch - 1 \in Int /\ mem.epoch - 1 # mem.epoch
            /\ mem.epoch - 1 \in Epochs /\ mem.epoch \in Epochs
        BY SMTT(30), <1>2, <1>4, <2>7 DEF Epochs
      <4>2. QED
        BY <3>1, <4>1
    <3>4. g \in [Epochs -> Nat] /\ k \in Nat
      BY <1>4, <3>1, <3>3
    <3>5. PICK h : h = [g EXCEPT ![e] = 0]
      BY Zenon
    <3>6. /\ h \in [Epochs -> Nat] /\ h[e] = 0 /\ \A x \in Epochs \ {e} : h[x] = g[x]
          /\ f \in [Epochs -> Nat] /\ f[o] = k /\ \A x \in Epochs \ {o} : f[x] = h[x]
      BY <3>2, <3>3, <3>4, <3>5
    <3>7. SumFunctionOnSet(f, Epochs) = SumFunctionOnSet(g, Epochs) - g[e] + k - g[o]
      <4>1. /\ \A x \in Epochs : g[x] \in Int
            /\ \A x \in Epochs : h[x] \in Int
        BY <3>4, <3>6
      <4>2. SumFunctionOnSet(h, Epochs) = SumFunctionOnSet(g, Epochs) + h[e] - g[e]
        <5>1. e \in Epochs /\ h[e] \in Int /\ \A x \in Epochs \ {e} : h[x] = g[x]
          BY SMTT(30), <3>3, <3>6, <4>1
        <5>2. QED
          BY SMTT(30), <4>1, <5>1, EpochsFinite, SumChanges
      <4>3. SumFunctionOnSet(f, Epochs) = SumFunctionOnSet(h, Epochs) + f[o] - h[o]
        <5>1. o \in Epochs /\ f[o] \in Int /\ \A x \in Epochs \ {o} : f[x] = h[x]
          BY <3>3, <3>4, <3>6
        <5>2. QED
          BY <4>1, <5>1, EpochsFinite, SumChanges
      <4>4. SumFunctionOnSet(g, Epochs) \in Int
        BY <4>1, EpochsFinite, SumTyped
      <4>5. h[o] = g[o] /\ h[e] = 0 /\ f[o] = k /\ g[o] \in Int /\ g[e] \in Int
        BY SMTT(30), <3>3, <3>6, <4>1
      <4>6. QED
        BY <3>4, <4>2, <4>3, <4>4, <4>5
    <3>8. SumFunctionOnSet(g, Epochs) \in Int /\ SumFunctionOnSet(Paid, DOMAIN paid) \in Int
      <4>1. \A x \in Epochs : g[x] \in Int
        BY <3>4
      <4>2. QED
        BY <1>4, <4>1, EpochsFinite, SumTyped, PaidTyped
    <3>9. g[e] \in Nat /\ g[o] \in Nat
      BY SMTT(30), <3>3, <3>4
    <3>10. CASE Distributable(mem, e) /\ g[e] # 0
      <4>1. Payout(mem) = <<[epoch |-> e, amount |-> g[e]]>>
        BY <2>7, <3>1, <3>10 DEF Payout
      <4>2. PICK x \in Payment : x = [epoch |-> e, amount |-> g[e]]
        BY ZenonT(30), <3>3, <3>9 DEF Payment
      <4>3. paid' = Append(paid, x) /\ x.amount = g[e]
        BY <1>4, <2>2, <4>1, <4>2
      <4>4. /\ paid' \in Seq(Payment)
            /\ SumFunctionOnSet(Paid', DOMAIN paid')
                 = SumFunctionOnSet(Paid, DOMAIN paid) + g[e]
        BY <1>4, <4>3, PaidAppends
      <4>5. k = g[o]
        BY <3>1, <3>10
      <4>6. SumFunctionOnSet(f, Epochs) + SumFunctionOnSet(Paid', DOMAIN paid') = Len(applied)
        <5>1. PICK a, b, c, d, x1, x2 :
                /\ a = SumFunctionOnSet(f, Epochs) /\ b = SumFunctionOnSet(g, Epochs)
                /\ c = SumFunctionOnSet(Paid, DOMAIN paid)
                /\ d = SumFunctionOnSet(Paid', DOMAIN paid')
                /\ x1 = g[e] /\ x2 = g[o]
          BY Zenon
        <5>2. a = b - x1 + k - x2 /\ k = x2
          BY Zenon, <3>7, <4>5, <5>1
        <5>3. d = c + x1
          BY Zenon, <4>4, <5>1
        <5>4. b + c = Len(applied)
          BY Zenon, <1>4, <3>1, <5>1
        <5>5. b \in Int /\ c \in Int /\ x1 \in Nat /\ x2 \in Nat
          BY Zenon, <3>8, <3>9, <5>1
        <5>6. a + d = b + c
          BY SMTT(30), <5>2, <5>3, <5>5
        <5>7. QED
          BY Zenon, <5>1, <5>4, <5>6
      <4>7. QED
        BY SMTT(30), <1>2, <1>4, <2>3, <2>4, <2>5, <3>1, <3>6, <4>4, <4>6
    <3>11. CASE ~(Distributable(mem, e) /\ g[e] # 0)
      <4>1. Payout(mem) = <<>>
        BY <2>7, <3>1, <3>11 DEF Payout
      <4>2. paid' = paid
        BY <1>4, <2>2, <4>1
      <4>3. Paid' = Paid
        BY <4>2 DEF Paid
      <4>4. k = g[o] + g[e]
        BY SMTT(30), <3>1, <3>9, <3>11
      <4>5. SumFunctionOnSet(f, Epochs) + SumFunctionOnSet(Paid, DOMAIN paid) = Len(applied)
        BY SMTT(30), <1>4, <3>1, <3>7, <3>8, <3>9, <4>4
      <4>6. QED
        BY SMTT(30), <1>2, <1>4, <2>3, <2>4, <2>5, <3>1, <3>6, <4>2, <4>3, <4>5
    <3>12. QED
      BY <3>10, <3>11
  <2>8. QED
    BY <2>6, <2>7
<1>7. QED
  BY <1>5, <1>6

\* Every step keeps the fees accounted for.
LEMMA NextFees ==
  ASSUME IInv, FeesInv, [Next]_vars
  PROVE  FeesInv'
<1>1. CASE ExecuteTx
  BY <1>1, ExecuteFees
<1>2. CASE AdvanceCommitCursor
  BY <1>2, AdvanceFees
<1>3. CASE Crash
  <2>1. crashes' = crashes + 1
    BY <1>3 DEF Crash
  <2>2. QED
    BY <2>1 DEF FeesInv
<1>4. CASE ApplyVertex \/ FlagVertex
  <2>1. mem'.fees = mem.fees /\ mem'.epoch = mem.epoch /\ mem'.cursor = mem.cursor
    <3>1. Shaped(mem)
      BY DEF IInv, CursorsAgree
    <3>2. PICK l, p : mem' = [mem EXCEPT !.live = l] \/ mem' = [mem EXCEPT !.produced = p]
      BY <1>4 DEF ApplyVertex, FlagVertex
    <3>3. QED
      BY Zenon, <3>1, <3>2 DEF Shaped
  <2>2. UNCHANGED <<paid, applied, crashes>>
    BY <1>4 DEF ApplyVertex, FlagVertex
  <2>3. Paid' = Paid
    BY <2>2 DEF Paid
  <2>4. QED
    BY <2>1, <2>2, <2>3 DEF FeesInv
<1>5. CASE \/ CommitNextRound \/ SaveCommitCursor
           \/ (\E v \in dag.vertices : Receive(v) \/ Fetch(v)) \/ UNCHANGED vars
  <2>1. UNCHANGED <<mem, paid, applied, crashes>>
    BY Zenon, <1>5 DEF CommitNextRound, SaveCommitCursor, Receive, Fetch, vars
  <2>2. Paid' = Paid
    BY <2>1 DEF Paid
  <2>3. QED
    BY SMTT(30), <2>1, <2>2 DEF FeesInv
<1>6. QED
  BY <1>1, <1>2, <1>3, <1>4, <1>5 DEF Next, Commits

\* Until a crash, every fee executeTx debited is in the pool of an epoch or was paid
\* out, whatever the batches, and however the boundaries fall among them
\* (totalEpochFees, settleDeferredEpoch, distributeEpochRewards).
THEOREM FeesAccountedHolds == Spec => []FeesAccounted
<1>1. Init => FeesInv
  <2> SUFFICES ASSUME Init PROVE FeesInv
    OBVIOUS
  <2>1. paid = <<>> /\ applied = <<>> /\ crashes = 0 /\ mem = Fresh
    BY DEF Init
  <2>2. mem.fees = [e \in Epochs |-> 0] /\ mem.epoch = 0 /\ mem.cursor = 0
    BY <2>1 DEF Fresh
  <2>3. SumFunctionOnSet(Paid, DOMAIN paid) = 0
    <3>1. DOMAIN paid = {}
      BY <2>1
    <3>2. QED
      BY <3>1, SumEmpty
  <2>4. SumFunctionOnSet(mem.fees, Epochs) = 0
    <3>1. \A x \in Epochs : mem.fees[x] = 0
      BY <2>2
    <3>2. QED
      BY Zenon, <3>1, EpochsFinite, SumZero
  <2>5. QED
    BY <2>1, <2>2, <2>3, <2>4 DEF FeesInv
<1>2. IInv /\ FeesInv /\ [Next]_vars => FeesInv'
  BY NextFees
<1>3. FeesInv => FeesAccounted
  <2>1. SUFFICES ASSUME FeesInv, crashes = 0
                 PROVE  SumFunction(mem.fees) + SumFunction(Paid) = Len(applied)
    BY DEF FeesAccounted, Paid
  <2>2. DOMAIN mem.fees = Epochs /\ DOMAIN Paid = DOMAIN paid
    BY <2>1 DEF FeesInv, Paid
  <2>3. QED
    BY <2>1, <2>2 DEF FeesInv, SumFunction
<1>4. QED
  BY <1>1, <1>2, <1>3, InvariantHolds, PTL DEF Spec

=============================================================================
