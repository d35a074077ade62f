------------------------------- MODULE MCDag -------------------------------
(***************************************************************************)
(* Two networks side by side, of which one runs: three validators past     *)
(* their transition, and a chain from its genesis on with a bootstrap      *)
(* node, a joiner that anchors wrong index roots, a transaction a client   *)
(* submits to one of them, and a restart.                                  *)
(***************************************************************************)
EXTENDS MCVertexDag

VARIABLES
  network,   \* "converged" or "fresh", the network that runs
  gParents, gPayload, gStore, gQuarantined, gPending, gKnown, gPhase, gRound, gLastProduced,
  gTrusted, gTxs, gSubmitted, gNet, gJoined, gRestarts

gVars == <<gParents, gPayload, gStore, gQuarantined, gPending, gKnown, gPhase, gRound,
           gLastProduced, gTrusted, gTxs, gSubmitted, gNet, gJoined, gRestarts>>

Fresh == INSTANCE VertexDag WITH
  Nodes <- {1, 2}, Quorums <- {{1, 2}}, Liars <- {2}, Txs <- {"t"}, Genesis <- TRUE,
  MinValidators <- 1, WindowEnd <- 1, MaxRound <- 1, MaxRestarts <- 1,
  parents <- gParents, payload <- gPayload, store <- gStore, quarantined <- gQuarantined,
  pending <- gPending, known <- gKnown, phase <- gPhase, round <- gRound,
  lastProduced <- gLastProduced, trusted <- gTrusted, txs <- gTxs, submitted <- gSubmitted,
  net <- gNet, joined <- gJoined, restarts <- gRestarts

MCInit == Init /\ Fresh!Init /\ network \in {"converged", "fresh"}

MCNext ==
  \/ network = "converged" /\ Next /\ UNCHANGED <<network, gVars>>
  \/ network = "fresh" /\ Fresh!Next /\ Cardinality(gSubmitted') <= 1
     /\ UNCHANGED <<network, vars>>

MCSpec == MCInit /\ [][MCNext]_<<network, vars, gVars>>

\* From genesis on, and over a restart, which keeps the quarantine marks, no
\* producer cites a vertex it has proved wrong (referenceableParents).
FreshNeverCitesQuarantined == network = "fresh" => Fresh!NeverCitesQuarantined

\* From genesis on a submitted transaction is in the queue or in exactly one
\* vertex of its node; a restart may lose it, but never has it carried twice
\* (takePendingTxs).
FreshTxCarriedOnce == network = "fresh" => Fresh!TxCarriedOnce

=============================================================================
