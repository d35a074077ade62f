----------------------------- MODULE Submissions ----------------------------
(***************************************************************************)
(* One node's client door: submissions and resubmissions, the faucet, and  *)
(* the status index a client polls (cmd/node/clienthandlers.go,            *)
(* txstatus.go, node.go processCommitted, pkg/client WaitForTx), over the  *)
(* order in which the mesh commits what was submitted                      *)
(* (internal/consensus/commit.go executeTx, emitTransaction).              *)
(*                                                                         *)
(* A transaction is a number; faucet splits name the version of the        *)
(* reserve coin they spend, and the client's own transaction is sponsored, *)
(* valid until the end of an epoch.  Every producer that received a        *)
(* transaction may carry a copy of it.                                     *)
(***************************************************************************)
EXTENDS Integers, Sequences, FiniteSets

CONSTANTS
  Carriers,      \* the producers, this node among them
  Self,          \* this node
  Own,           \* the client's own transaction
  validUntil,    \* the last epoch it may commit in
  EpochRounds,   \* rounds in an epoch
  Splits,        \* faucet requests, numbered in order
  Lead,          \* rounds production runs ahead of commit
  Retention,     \* rounds a status is kept (txStatusRetentionRounds)
  ChannelSize,   \* outcomes the committed channel buffers (channelBuffer)
  MaxRounds,     \* bound: rounds committed
  MaxSubmits,    \* bound: submissions of Own
  MaxRestarts    \* bound: restarts of this node

VARIABLES
  round,     \* last committed round
  carried,   \* the copies not yet committed: [tx, by]
  names,     \* split -> the reserve version it references
  asked,     \* faucet requests served
  nextVer,   \* faucetNextVersion
  reserve,   \* committed version of the reserve coin
  marked,    \* the transactions the commit-once guard knows
  executed,  \* those applied
  channel,   \* outcomes on their way to the index: [tx, ok]
  status,    \* transaction -> [state, round]
  forgotten, \* those whose entry was pruned, or lost with the process
  submits, restarts

statusVars == <<round, carried, names, asked, nextVer, reserve, marked, executed, channel,
                status, forgotten, submits, restarts>>

Txs == {Own} \cup Splits
Unknown == [state |-> "unknown", round |-> 0]

StatusInit ==
  /\ round = 0
  /\ carried = {}
  /\ names = [s \in Splits |-> 0]
  /\ asked = {}
  /\ nextVer = 0
  /\ reserve = 0
  /\ marked = {}
  /\ executed = {}
  /\ channel = <<>>
  /\ status = [t \in Txs |-> Unknown]
  /\ forgotten = {}
  /\ submits = 0
  /\ restarts = 0

-----------------------------------------------------------------------------

\* Mutant: a resubmission is recorded as pending whatever is known of it.
MarkAgain(t) == [status EXCEPT ![t] = [state |-> "pending", round |-> round + Lead]]

\* A transaction the index has no entry for becomes pending.
markPending(t) ==
  IF status[t] # Unknown THEN status
  ELSE [status EXCEPT ![t] = [state |-> "pending", round |-> round + Lead]]

\* The transaction is pooled here and gossiped; a gossip may be lost.
Pool(t) ==
  \E S \in SUBSET Carriers :
    /\ Self \in S
    /\ carried' = carried \cup {[tx |-> t, by |-> p] : p \in S}

\* The client submits its transaction, once or again.
handleSubmitTx ==
  /\ submits < MaxSubmits
  /\ submits' = submits + 1
  /\ status' = markPending(Own)
  /\ Pool(Own)
  /\ UNCHANGED <<round, names, asked, nextVer, reserve, marked, executed, channel, forgotten, restarts>>

\* The larger of the committed version and the counter.
pickReserveVersion == IF nextVer > reserve THEN nextVer ELSE reserve

\* A faucet request builds, records, pools and gossips a split of the reserve.
handleFaucet(s) ==
  /\ s \notin asked
  /\ \A r \in Splits : r < s => r \in asked
  /\ asked' = asked \cup {s}
  /\ names' = [names EXCEPT ![s] = pickReserveVersion]
  /\ nextVer' = pickReserveVersion + 1
  /\ status' = markPending(s)
  /\ Pool(s)
  /\ UNCHANGED <<round, reserve, marked, executed, channel, forgotten, submits, restarts>>

-----------------------------------------------------------------------------

\* The epoch a round commits in.
commitEpoch == IF round = 0 THEN 0 ELSE (round - 1) \div EpochRounds

\* The sponsor's deadline is tested on every copy, before the guard.
Expired(t) == t = Own /\ commitEpoch > validUntil

VersionFits(t) == t = Own \/ names[t] = reserve

\* Send on the committed channel; the commit loop waits while it is full.
emitTransaction(t, ok) ==
  /\ Len(channel) < ChannelSize
  /\ channel' = Append(channel, [tx |-> t, ok |-> ok])

\* This node's pool keeps the order of the faucet's requests; gossip streams are
\* handled by goroutines of their own, so another producer's may not.
InPoolOrder(c) ==
  c.by = Self /\ c.tx \in Splits =>
    \A s \in Splits : s < c.tx => [tx |-> s, by |-> Self] \notin carried

\* A copy commits: refused and reported when expired, skipped without a word
\* when the hash is known, refused when its version is not the committed one,
\* and applied otherwise.
executeCarried(c) ==
  /\ c \in carried
  /\ InPoolOrder(c)
  /\ carried' = carried \ {c}
  /\ IF Expired(c.tx)
     THEN /\ emitTransaction(c.tx, FALSE)
          /\ UNCHANGED <<reserve, marked, executed>>
     ELSE IF c.tx \in marked
     THEN UNCHANGED <<channel, reserve, marked, executed>>
     ELSE /\ emitTransaction(c.tx, VersionFits(c.tx))
          /\ marked' = marked \cup {c.tx}
          /\ IF VersionFits(c.tx)
             THEN /\ executed' = executed \cup {c.tx}
                  /\ reserve' = IF c.tx \in Splits THEN reserve + 1 ELSE reserve
             ELSE UNCHANGED <<executed, reserve>>
  /\ UNCHANGED <<round, names, asked, nextVer, status, forgotten, submits, restarts>>

NextRound ==
  /\ round < MaxRounds
  /\ round' = round + 1
  /\ UNCHANGED <<carried, names, asked, nextVer, reserve, marked, executed, channel,
                 status, forgotten, submits, restarts>>

\* The outcome overwrites the entry, whose round stays the smaller of the two.
markCommitted(o) ==
  [status EXCEPT ![o.tx] =
     [state |-> IF o.ok THEN "finalized" ELSE "failed",
      round |-> IF status[o.tx] # Unknown /\ @.round < round THEN @.round ELSE round]]

\* Entries older than the retention are dropped.
pruned(st) == {t \in Txs : st[t] # Unknown /\ round > Retention /\ st[t].round < round - Retention}

\* The goroutine that drains the channel: record, then prune.
processCommitted ==
  /\ channel # <<>>
  /\ channel' = Tail(channel)
  /\ LET st == markCommitted(Head(channel)) IN
     /\ status' = [t \in Txs |-> IF t \in pruned(st) THEN Unknown ELSE st[t]]
     /\ forgotten' = forgotten \cup pruned(st)
  /\ UNCHANGED <<round, carried, names, asked, nextVer, reserve, marked, executed, submits, restarts>>

\* The pool, the index, the channel and the faucet's counter are in memory.
Restart ==
  /\ restarts < MaxRestarts
  /\ restarts' = restarts + 1
  /\ carried' = {c \in carried : c.by # Self}
  /\ nextVer' = 0
  /\ channel' = <<>>
  /\ status' = [t \in Txs |-> Unknown]
  /\ forgotten' = Txs
  /\ UNCHANGED <<round, names, asked, reserve, marked, executed, submits>>

StatusDone ==
  /\ round = MaxRounds
  /\ carried = {} /\ channel = <<>>
  /\ UNCHANGED statusVars

StatusNext ==
  \/ handleSubmitTx
  \/ \E s \in Splits : handleFaucet(s)
  \/ \E c \in carried : executeCarried(c)
  \/ NextRound
  \/ processCommitted
  \/ Restart
  \/ StatusDone

StatusSpec == StatusInit /\ [][StatusNext]_statusVars

-----------------------------------------------------------------------------

\* A status of pending is never left behind by a commit: whatever the order of
\* submission, resubmission, gossip and commit, a transaction the commit path
\* has decided is shown pending only while its outcome is on its way, unless its
\* entry was pruned or lost (markPending, markCommitted).
PendingUndecided ==
  \A t \in marked \ forgotten :
    status[t].state = "pending" => \E i \in DOMAIN channel : channel[i].tx = t

=============================================================================
