---------------------------- MODULE MCVertexDag ----------------------------
(* Instances of VertexDag: validators of equal stake, numbered.             *)
EXTENDS VertexDag

\* Two thirds of equal stakes.
EqualStakeQuorums == {S \in SUBSET Nodes : 3 * Cardinality(S) >= 2 * Cardinality(Nodes)}

=============================================================================
