---------------------------- MODULE CommitOrder ----------------------------
(***************************************************************************)
(* What the commit path promises: every node folds the vertices of the DAG *)
(* into its state one by one, in the order the anchors and the batch order *)
(* dictate, whatever arrives when and whatever crashes ("every node        *)
(* commits the identical ordered log", checkCommits).                      *)
(***************************************************************************)
EXTENDS CausalDag

VARIABLES
  dag,   \* the DAG and its decisions
  done,  \* vertices folded into the state
  next   \* the round to decide next

orderVars == <<dag, done, next>>

OrderInit ==
  /\ dag \in Dags
  /\ done = {}
  /\ next = 0

\* The next vertex of the anchor's history P is folded.
Fold(P) ==
  /\ IsPast(dag, dag.anchor[next], P)
  /\ ~P \subseteq done
  /\ done' = done \cup {First(P \ done)}
  /\ UNCHANGED <<dag, next>>

\* The round is over once the history of its anchor, if any, is folded.
Conclude ==
  /\ \/ dag.anchor[next] = Skip
     \/ \E P \in SUBSET done : IsPast(dag, dag.anchor[next], P)
  /\ next' = next + 1
  /\ UNCHANGED <<dag, done>>

OrderNext ==
  /\ next <= MaxRound
  /\ \/ dag.anchor[next] # Skip /\ \E P \in SUBSET dag.vertices : Fold(P)
     \/ Conclude

OrderSpec == OrderInit /\ [][OrderNext]_orderVars

=============================================================================
