-------------------------- MODULE CommitProperties --------------------------
(***************************************************************************)
(* What the commit path of CommitLog promises: the order of CommitOrder,   *)
(* what its flags and accumulators hold, and that it gets on.              *)
(***************************************************************************)
EXTENDS CommitLog, FiniteSetsExt

Accumulators ==
  [cursor : 0..(MaxRound + 1), epoch : Epochs, fees : [Epochs -> Nat],
   live : [Epochs -> [Producers -> Nat]], produced : SUBSET Producers]

\* The store, the flags and the batch hold vertices of the DAG; the batch is
\* stored and not flagged; the cursor on disk trails the one in memory by the
\* round whose write is outstanding (advanceCommitCursor).
TypeOK ==
  /\ stored \subseteq dag.vertices /\ committed \subseteq stored
  /\ floor \in Int
  /\ mem \in Accumulators /\ disk \in Accumulators
  /\ mem.cursor = disk.cursor + IF job = "save" THEN 1 ELSE 0
  /\ claimed \subseteq Txs
  /\ batch \subseteq stored \ committed
  /\ job \in {"idle", "apply", "execute", "flag", "save"}
  /\ job \in {"idle", "save"} => batch = {}
  /\ job \in {"execute", "flag"} => batch # {}
  /\ crashes \in 0..MaxCrashes

\* The commit path implements the promised order, with flags and persisted cursor
\* as its state: neither a crash nor an arrival disturbs it.
Order == INSTANCE CommitOrder WITH done <- committed, next <- disk.cursor
CommitsInOrder == Order!OrderSpec

\* Flags are written parents first, so that a walk that stops at a flagged vertex
\* (collectCausal) leaves no unflagged ancestor behind it, wherever a crash falls.
CommittedClosed == \A v \in committed : dag.parents[v] \subseteq committed

\* The commit-once guard: no transaction takes effect twice, however many vertices
\* carry it and however often the node restarts.
TxAppliedOnce == \A i, j \in DOMAIN applied : applied[i] = applied[j] => i = j

\* Until a crash, everything executeTx debited is in an epoch pool or paid out
\* ("equals total_supply at every instant", totalEpochFees).
FeesAccounted ==
  job = "idle" /\ crashes = 0 =>
    SumFunction(mem.fees) + SumFunction([i \in DOMAIN paid |-> paid[i].amount]) = Len(applied)

\* Until a crash, liveness is per distinct round: the bucket of an epoch not yet
\* settled counts, for every producer, the rounds of that epoch it has a committed
\* vertex in (creditLiveness, commitEpochForRound, settleDeferredEpoch).
LivenessExact ==
  job = "idle" /\ crashes = 0 => \A e \in Epochs, p \in Producers : e + 1 >= mem.epoch =>
    mem.live[e][p] = Cardinality({r \in Rounds : /\ EpochOf(r) = e
                                                 /\ \E v \in committed : /\ v.round = r
                                                                         /\ v.producer = p})

-----------------------------------------------------------------------------
(* Liveness: gossip may lose any vertex; the fetcher's retries get through, and
   the round at the cursor is decided once its anchor is stored. *)

FairSpec == Spec /\ WF_vars(Commits) /\ WF_vars(\E v \in dag.vertices : Fetch(v))

\* A vertex that gets through pulls in what it rests on: once a vertex of the last
\* round above every committed anchor is stored, every round is committed.
Tip(v) ==
  /\ v.round = MaxRound
  /\ \E P \in SUBSET dag.vertices :
       IsPast(dag, v, P) /\ \A r \in Rounds : dag.anchor[r] \in P \cup {Skip}

FetchUnblocks == (\E v \in stored : Tip(v)) ~> Finished

=============================================================================
