------------------------------ MODULE MCAnchor ------------------------------
(***************************************************************************)
(* The two regimes of the anchor decision side by side: three holders      *)
(* under the strict rule, and two under the relaxed one with a store of    *)
(* its own.  One of the two stores grows, the other stays empty.           *)
(***************************************************************************)
EXTENDS MCAnchorDecision

VARIABLES
  regime,         \* "strict" or "relaxed", the store that grows
  early, earlyParents

Relaxed == INSTANCE AnchorDecision WITH
  Producers <- {1, 2}, Holders <- {1, 2}, Quorums <- {{1, 2}},
  Designated <- [r \in 0..MaxRound |-> 1 + (r % 2)], StrictStart <- 9,
  Converged <- FALSE, Timely <- TRUE, FirstRound <- [p \in {1, 2} |-> 0],
  stored <- early, parents <- earlyParents

MCInit == Init /\ Relaxed!Init /\ regime \in {"strict", "relaxed"}

MCNext ==
  \/ regime = "strict" /\ Next /\ UNCHANGED <<regime, early, earlyParents>>
  \/ regime = "relaxed" /\ Relaxed!Next /\ UNCHANGED <<regime, stored, parents>>

MCSpec == MCInit /\ [][MCNext]_<<stored, parents, regime, early, earlyParents>>

\* Under the relaxed rule, with timely vertices, a decided round keeps its verdict
\* however the store grows: no certificate that completes later replaces what the
\* scan has resolved (anchorStatus, resolveIndirect).
RelaxedDecisionFinal ==
  [][\A r \in Relaxed!Rounds :
       LET status == Relaxed!AnchorStatus(r, {})
       IN  status[1] \in {"commit", "skip"} => status' = status]_<<early, earlyParents>>

=============================================================================
