---------------------------- MODULE SnapshotSync ----------------------------
(***************************************************************************)
(* A node joins from a snapshot of another (internal/sync/manager.go,      *)
(* consensus/regime_sync.go, store.go, cmd/node/sync.go, resume.go) and    *)
(* then commits on its own. The variables of CommitLog are the joiner's;   *)
(* the source is a second instance of CommitLog over the same DAG.         *)
(***************************************************************************)
EXTENDS CommitLog

CONSTANTS
  Window,         \* vertexHistoryRounds
  SnapshotsFrom   \* bound: first cursor of the source a snapshot is taken at

ASSUME WindowAssumption == Window \in Nat /\ SnapshotsFrom \in Nat

VARIABLES
  srcStored, srcCommitted, srcMem, srcDisk, srcClaimed, srcApplied, srcPaid,
  srcBatch, srcCredited, srcJob,
  joined,   \* the joiner runs
  covered,  \* history: the source had committed all that lies below the joiner's floor
  fresh,    \* history: the directory the joiner last joined over was empty
  adopted   \* stateAdopted marker: a restart resumes instead of joining again

srcVars == <<srcStored, srcCommitted, srcMem, srcDisk, srcClaimed, srcApplied, srcPaid,
             srcBatch, srcCredited, srcJob>>
syncVars == <<vars, srcVars, joined, covered, fresh, adopted>>

Source == INSTANCE CommitLog WITH
  stored <- srcStored, committed <- srcCommitted, mem <- srcMem, disk <- srcDisk,
  claimed <- srcClaimed, applied <- srcApplied, paid <- srcPaid, batch <- srcBatch,
  credited <- srcCredited, job <- srcJob, floor <- -1, crashes <- 0, MaxCrashes <- 0

-----------------------------------------------------------------------------

Greatest(S) == CHOOSE x \in S : \A y \in S : y <= x
Least(S) == CHOOSE x \in S : \A y \in S : x <= y

\* Mutation: the snapshot carries the raw cursor.
RawCursor(c) == c

\* lastDecidedRound
LastDecidedRound(c) == IF c = 0 THEN 0 ELSE c - 1

\* The rounds ExportConsistentCut exports.
ExportedFrom(round) == IF round > Window THEN round - Window ELSE 0

\* ExportVertices
Exported == {v \in srcStored : v.round >= ExportedFrom(Greatest({w.round : w \in srcStored}))}

\* importVertexLocked: the flag is taken with the vertex, not for one already there.
Flagged == {v \in Exported \ stored : v \in srcCommitted}

\* ImportVertices, setCommitFloorLocked: one below the lowest imported round.
RaisedFloor ==
  LET low == Least({v.round : v \in Exported})
  IN  IF low > 0 /\ low - 1 > floor THEN low - 1 ELSE floor

\* createSnapshot under the commit lock, then requestAndApplySnapshot, New with
\* WithLastCommittedRound, WithImportData and WithSyncedRegimeState. The cursor
\* reaches the disk with the next decision only; commit-once records are not part
\* of a snapshot.
Join ==
  /\ ~joined
  /\ srcJob = "idle" /\ srcStored # {} /\ srcMem.cursor >= SnapshotsFrom
  /\ joined' = TRUE
  /\ stored' = stored \cup Exported
  /\ committed' = committed \cup Flagged
  /\ floor' = RaisedFloor
  /\ covered' = (\A v \in dag.vertices : v.round <= RaisedFloor => v \in srcCommitted)
  /\ fresh' = (stored = {})
  /\ mem' = [srcMem EXCEPT !.cursor = LastDecidedRound(@) + 1]
  /\ applied' = srcApplied
  /\ paid' = srcPaid
  /\ UNCHANGED <<dag, disk, claimed, batch, credited, job, crashes, srcVars, adopted>>

\* The verification gate of performSync lets the joined node pass, while its commit
\* loop is running: MarkStateAdopted.
MarkStateAdopted ==
  /\ joined /\ ~adopted
  /\ adopted' = TRUE
  /\ UNCHANGED <<vars, srcVars, joined, covered, fresh>>

\* The joiner works on its own.
Runs ==
  /\ joined
  /\ \/ \E v \in dag.vertices : Receive(v) \/ Fetch(v)
     \/ Commits
  /\ UNCHANGED <<srcVars, joined, covered, fresh, adopted>>

\* resumesFromLocalState, HasAdoptedState
Resumes == adopted /\ disk.cursor > 0

\* The joiner's process dies; it resumes from its directory or joins again over it.
Restart ==
  /\ joined
  /\ Crash
  /\ joined' = Resumes
  /\ UNCHANGED <<srcVars, covered, fresh, adopted>>

SourceRuns ==
  /\ \/ \E v \in dag.vertices : Source!Receive(v)
     \/ Source!Commits
  /\ UNCHANGED <<stored, floor, committed, mem, disk, claimed, applied, paid, batch,
                 credited, job, crashes, joined, covered, fresh, adopted>>

SyncInit ==
  /\ Init
  /\ Source!Init
  /\ joined = FALSE /\ covered = FALSE /\ fresh = FALSE /\ adopted = FALSE

SyncNext == SourceRuns \/ Join \/ MarkStateAdopted \/ Runs \/ Restart

SyncSpec == SyncInit /\ [][SyncNext]_syncVars

-----------------------------------------------------------------------------
(* Properties *)

AboveFloor(S) == {v \in S : v.round > floor}

\* At the same cursor the joiner and its source are in the same state: the same
\* vertices folded above the floor, the same transactions applied, the same
\* accumulators for the next settlement ("every field reflects the same committed
\* frontier", ExportConsistentCut). This is so until the joiner crashes, and for a
\* snapshot whose exported window reaches down to what the source has committed.
JoinerAgrees ==
  joined /\ covered /\ crashes = 0 /\ job = "idle" /\ srcJob = "idle" /\ mem.cursor = srcMem.cursor =>
    /\ AboveFloor(committed) = AboveFloor(srcCommitted)
    /\ applied = srcApplied
    /\ mem = srcMem

\* Below a flagged vertex lies a flagged one or history under the floor, also after
\* a crash: no walk of collectCausal leaves the imported window, and none waits for
\* history below it. This is so for a joiner that started over an empty directory.
WindowClosed ==
  fresh => \A v \in committed : \A x \in dag.parents[v] : x \in committed \/ x.round <= floor

=============================================================================
