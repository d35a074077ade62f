-------------------------- MODULE MCAnchorDecision --------------------------
(***************************************************************************)
(* TLC instances of AnchorDecision: holders 1..N of equal stake, a         *)
(* designation that rotates over them, everyone producing from genesis.    *)
(***************************************************************************)
EXTENDS AnchorDecision

\* Two thirds of an equal stake, as quorumReached tests it.
EqualStakeQuorums ==
  {S \in SUBSET Holders : 3 * Cardinality(S) >= 2 * Cardinality(Holders)}

RotatingDesignation ==
  [r \in Rounds |-> 1 + (r % Cardinality(Holders))]

\* The rotation hashes the round number, so one holder may be designated twice
\* in a row.
RepeatedDesignation ==
  [r \in Rounds |-> IF r <= 1 THEN 1 ELSE 2]

AnyHashOrder ==
  [v \in Vertex |-> 100 * v.round + 10 * v.producer + v.copy]

FromGenesis == [p \in Producers |-> 0]

AllResolvable == 0..(MaxRound + 1)

=============================================================================
