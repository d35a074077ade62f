------------------------------- MODULE MCDags -------------------------------
(***************************************************************************)
(* The families of small DAGs the commit and snapshot models run over.     *)
(***************************************************************************)
EXTENDS Integers

CONSTANTS p, q, skip, transfer, none

TwoProducers == {p, q}
OneProducer == {q}
OneTx == {transfer}

V(r, h) == [round |-> r, hash |-> h, producer |-> IF h = 2 THEN q ELSE p]
Layer(r) == {V(r, 1), V(r, 2)}
Layers(n) == UNION {Layer(r) : r \in 0..n}

\* Every choice of parents in which a producer cites its own chain, and any set of
\* skipped rounds, p and q taking turns as anchor; the transaction rides in a
\* vertex of each producer. The last round has its anchor only.
Turn(r) == V(r, 2 - (r % 2))

Chained(n) ==
  LET Vs == Layers(n - 1) \cup {Turn(n)}
  IN  {[vertices |-> Vs,
        parents |-> [v \in Vs |->
                       IF v.round = 0 THEN {}
                       ELSE IF f[v] THEN Layer(v.round - 1) ELSE {V(v.round - 1, v.hash)}],
        anchor |-> [r \in 0..n |-> IF r \in s THEN skip ELSE Turn(r)],
        tx |-> [v \in Vs |-> IF v \in {V(0, 1), V(1, 2)} THEN transfer ELSE none]] :
         f \in [Vs \ Layer(0) -> BOOLEAN], s \in SUBSET (0..n)}

ThreeRounds == Chained(2)

\* Nobody cites q until round c; a vertex of q carries the transaction. The last
\* round has its anchor only.
Lagging(n, c) ==
  LET Vs == Layers(n - 1) \cup {V(n, 1)}
  IN  [vertices |-> Vs,
       parents |-> [v \in Vs |->
                      IF v.round = 0 THEN {}
                      ELSE IF v.hash = 2 \/ v.round > c THEN Layer(v.round - 1)
                      ELSE {V(v.round - 1, 1)}],
       anchor |-> [r \in 0..n |-> V(r, 1)],
       tx |-> [v \in Vs |-> IF v = V(1, 2) THEN transfer ELSE none]]

FourRounds == {Lagging(3, 0), Lagging(3, 2)}

=============================================================================
