------------------------------ MODULE Ledger ------------------------------
(***************************************************************************)
(* The accounts every validator keeps (internal/consensus/commit.go,       *)
(* fees.go, coins.go, stake.go, delegation.go, epoch.go, thermostat.go,    *)
(* internal/state/supply.go): fees and storage deposits of committed       *)
(* transactions, bonds, delegations, deletions, and the epoch boundary     *)
(* that mints, distributes rewards and releases departing validators.      *)
(***************************************************************************)
EXTENDS Integers, FiniteSetsExt, SequencesExt

CONSTANTS
  None,             \* no coin, no validator
  Validators,       \* pubkeys that may register, naturals: removals go by key
  Users,            \* senders and delegators, validators included
  Objects,          \* object ids, coins included
  Workloads,        \* sets of transactions that may commit, each at most once
  Genesis,          \* the seeded ledger
  Parented,         \* objects with tracked children
  MinGas, DeleteFee, StorageFee, IndexEntryFee, StorageRefundBPS,
  MinStake, CommissionBPS, MaxChurnPerEpoch,
  Thermostat,       \* low, high (per mille), floor, ceiling, step (millionths),
                    \* restake (per mille)
  MaxEpoch          \* bound: epochs

\* The payload of a transaction as the commit path reads it.
IsTx(tx) ==
  /\ tx.sender \in Users /\ tx.payer \in Users
  /\ tx.gas \in Objects \cup {None} /\ tx.maxGas \in Nat
  /\ tx.call \in {"ops", "create", "split", "merge", "register", "deregister", "bond",
                  "unbond", "delegate", "undelegate"}
  /\ tx.refs \in Seq(Objects)                    \* mutable refs, in order
  /\ tx.deletes \subseteq Objects                \* declared deletions
  /\ tx.declares \in Seq(Nat)                    \* replication of each created object
  /\ tx.makes \in Seq(Objects \X Nat)            \* what the pod creates: id, replication
  /\ tx.amount \in Nat /\ tx.validator \in Validators \cup {None}
  /\ tx.to \in Users                             \* owner of what it creates
  /\ tx.proven \in BOOLEAN                       \* the BLS key is proved possessed

VARIABLES
  ledger,  \* the accounts
  todo,    \* transactions without a commit-once record
  epoch

vars == <<ledger, todo, epoch>>

\* The buckets of fees and liveness: the epoch closed last, the open one.
Buckets == {"closed", "open"}

-----------------------------------------------------------------------------
(* Coins, stake and supply *)

Covers(s, c, amount) == s.alive[c] /\ s.balance[c] >= amount

\* strictDebit, and the covered case of deductCoinFee
Debit(s, c, amount) ==
  [s EXCEPT !.balance[c] = @ - amount, !.coinsTotal = @ - amount]

\* creditCoin on a coin that is there
Credit(s, c, amount) ==
  [s EXCEPT !.balance[c] = @ + amount, !.coinsTotal = @ + amount]

CanCredit(s, c) == c # None /\ s.alive[c]

\* EffectiveStake, totalBonded
EffectiveStake(s, v) == s.self[v] + s.delegated[v]
TotalBonded(s) == MapThenSumSet(LAMBDA v : EffectiveStake(s, v), s.members)

\* StorageDeposit and computeStorageDeposit: a replication of 0 is all validators.
StorageDeposit(s, rep) ==
  LET n == Cardinality(s.members)
  IN  IF n = 0 THEN 0
      ELSE ((IF rep = 0 THEN n ELSE rep) * StorageFee) \div n + IndexEntryFee

-----------------------------------------------------------------------------
(* Fees *)

\* calculateTxFeeSplit, consumed part: flat for declared operations, maximal gas
\* if every validator executes, nothing for a call that touches no object.
Consumed(tx) ==
  IF tx.call = "ops" THEN MinGas + Cardinality(tx.deletes) * DeleteFee
  ELSE IF tx.declares # <<>> \/ tx.refs # <<>> THEN tx.maxGas
  ELSE 0

\* ... and storage part
Storage(s, tx) ==
  FoldLeft(LAMBDA sum, rep : sum + StorageDeposit(s, rep), 0, tx.declares)

Pool(s, b, amount) == [s EXCEPT !.fees[b] = @ + amount]

\* validateGasCoin, and the minimum of gas
GasCoinValid(s, tx) ==
  tx.maxGas >= MinGas /\ s.alive[tx.gas] /\ s.owner[tx.gas] = tx.payer

\* deductFees: the accounts after it, the storage withheld, whether to proceed. A
\* coin that does not cover the fee is drained into the pool.
DeductFees(s, tx, b) ==
  LET storage == Storage(s, tx)
      fee == Consumed(tx) + storage
      out(t, w, ok) == [s |-> t, withheld |-> w, proceed |-> ok]
  IN  IF tx.gas = None THEN out(s, 0, tx.call \in {"register", "deregister"})
      ELSE IF ~GasCoinValid(s, tx) THEN out(s, 0, FALSE)
      ELSE IF Covers(s, tx.gas, fee)
           THEN out(Pool(Debit(s, tx.gas, fee), b, Consumed(tx)), storage, TRUE)
      ELSE LET taken == s.balance[tx.gas]
           IN  out(Pool(Debit(s, tx.gas, taken), b, taken), 0, FALSE)

\* poolUnlockedStorage
PoolUnlockedStorage(s, b, withheld) == Pool(s, b, withheld)

-----------------------------------------------------------------------------
(* Deletions *)

\* settleDeletion: part of the deposit goes to the gas coin, the rest is burned; no
\* coin, and all of it is burned.
SettleDeletion(s, o, gas) ==
  LET deposit == s.deposit[o]
      refund == (deposit * StorageRefundBPS) \div 10000
      t == [s EXCEPT !.deposit[o] = 0]
  IN  IF CanCredit(s, gas) /\ StorageRefundBPS > 0
      THEN Credit([t EXCEPT !.supply = @ - (deposit - refund)], gas, refund)
      ELSE [t EXCEPT !.supply = @ - deposit]

\* settleDeclaredDeletions: declared and referenced objects, in the order of the refs
SettleDeclaredDeletions(s, tx) ==
  FoldLeft(LAMBDA t, o : IF o \in tx.deletes THEN SettleDeletion(t, o, tx.gas) ELSE t,
           s, tx.refs)

DropBody(s, O) == [s EXCEPT !.alive = [o \in Objects |-> @[o] /\ o \notin O]]

\* commitDeclaredOps with deletions: all of them or none, applied in every node's
\* tracker and bodies. The deposit that was withheld is pooled.
CommitDeclaredOps(s, tx, b, withheld) ==
  LET ok == \A o \in tx.deletes : /\ o \in ToSet(tx.refs)
                                  /\ s.owner[o] = tx.sender /\ o \notin Parented
  IN  PoolUnlockedStorage(
        IF ok THEN DropBody(SettleDeclaredDeletions(s, tx), tx.deletes) ELSE s,
        b, withheld)

-----------------------------------------------------------------------------
(* Stake *)

\* validateMutableRefOwnership
OwnsMutableRefs(s, tx) == \A o \in ToSet(tx.refs) : s.alive[o] /\ s.owner[o] = tx.sender

\* handleRegisterValidator: an unproved key fails the transaction (executeTx). The
\* reward coin is the gas coin.
Register(s, tx) ==
  [s EXCEPT !.members = @ \cup {tx.sender},
            !.reward[tx.sender] = IF tx.gas = None THEN @ ELSE tx.gas]

\* handleBond
Bond(s, tx) ==
  LET coin == Head(tx.refs)
      stake == s.self[tx.sender] + tx.amount
  IN  IF tx.sender \in s.members /\ stake >= MinStake /\ Covers(s, coin, tx.amount)
      THEN [Debit(s, coin, tx.amount) EXCEPT !.self[tx.sender] = stake]
      ELSE s

\* handleUnbond: down to nothing, or to no less than the minimum
Unbond(s, tx) ==
  LET rest == s.self[tx.sender] - tx.amount
  IN  IF tx.sender \in s.members /\ rest >= 0 /\ (rest = 0 \/ rest >= MinStake)
      THEN [Credit(s, Head(tx.refs), tx.amount) EXCEPT !.self[tx.sender] = rest]
      ELSE s

\* handleDelegate: the position of the pair is written, the total is raised.
Delegate(s, tx) ==
  LET v == tx.validator
      coin == Head(tx.refs)
  IN  IF v \in s.members /\ Covers(s, coin, tx.amount)
      THEN [Debit(s, coin, tx.amount) EXCEPT !.position[tx.sender][v] = tx.amount,
                                             !.delegated[v] = @ + tx.amount]
      ELSE s

\* handleUndelegate: SubDelegated floors at 0, and needs the validator in the set.
Undelegate(s, tx) ==
  LET v == tx.validator
      amount == s.position[tx.sender][v]
  IN  IF amount > 0
      THEN [Credit(s, Head(tx.refs), amount) EXCEPT
              !.position[tx.sender][v] = 0,
              !.delegated[v] = IF @ < amount THEN 0 ELSE @ - amount]
      ELSE s

\* The system handlers of executeTx: at most one of them matches.
HandleSystem(s, tx) ==
  CASE tx.call = "register"   -> Register(s, tx)
    [] tx.call = "deregister" -> [s EXCEPT !.pending = @ \cup {tx.sender}]
    [] tx.call = "bond"       -> Bond(s, tx)
    [] tx.call = "unbond"     -> Unbond(s, tx)
    [] tx.call = "delegate"   -> Delegate(s, tx)
    [] tx.call = "undelegate" -> Undelegate(s, tx)
    [] OTHER                  -> s

-----------------------------------------------------------------------------
(* The pod, and the whole of executeTx *)

\* Execute fails: the call runs out of balance, or creates more than it declared.
PodFails(s, tx) ==
  \/ tx.call = "split" /\ s.balance[Head(tx.refs)] < tx.amount
  \/ Len(tx.makes) > Len(tx.declares)

\* The balances split and merge write.
Rebalance(s, tx) ==
  CASE tx.call = "split" ->
         [s.balance EXCEPT ![Head(tx.refs)] = @ - tx.amount, ![Head(tx.makes)[1]] = tx.amount]
    [] tx.call = "merge" ->
         [s.balance EXCEPT ![tx.refs[1]] = @ + s.balance[tx.refs[2]], ![tx.refs[2]] = 0]
    [] OTHER -> s.balance

\* applyCreatedObjects on one object: a deposit only if a coin paid.
ApplyCreated(s, tx, made) ==
  [s EXCEPT !.alive[made[1]] = TRUE, !.owner[made[1]] = tx.to,
            !.deposit[made[1]] = IF tx.gas = None THEN 0 ELSE StorageDeposit(s, made[2])]

\* processOutput: objects updated, created, deleted
ProcessOutput(s, tx) ==
  DropBody(FoldLeft(LAMBDA t, made : ApplyCreated(t, tx, made),
                    [s EXCEPT !.balance = Rebalance(s, tx)], tx.makes),
           {o \in tx.deletes : s.owner[o] = tx.sender})

\* executeTx after the version check, in its order of early returns. Storage that
\* was withheld is pooled by a failed pod and by declared operations only.
ExecuteTx(s, tx, b) ==
  LET d == DeductFees(s, tx, b)
      h == HandleSystem(d.s, tx)
      t == SettleDeclaredDeletions(h, tx)
  IN  IF ~d.proceed THEN d.s
      ELSE IF tx.call = "ops" THEN CommitDeclaredOps(d.s, tx, b, d.withheld)
      ELSE IF ~OwnsMutableRefs(d.s, tx) THEN d.s
      ELSE IF tx.call = "register" /\ ~tx.proven THEN d.s
      ELSE IF \E o \in tx.deletes \cap ToSet(tx.refs) : o \in Parented THEN h
      ELSE IF PodFails(t, tx) THEN PoolUnlockedStorage(t, b, d.withheld)
      ELSE ProcessOutput(t, tx)

-----------------------------------------------------------------------------
(* Rewards *)

\* adjustRate, clampRate
AdjustRate(rate, ratio) ==
  LET T == Thermostat
      stepped == IF ratio < T.low THEN rate + T.step
                 ELSE IF ratio > T.high THEN (IF T.step > rate THEN 0 ELSE rate - T.step)
                 ELSE rate
  IN  IF stepped < T.floor THEN T.floor
      ELSE IF stepped > T.ceiling THEN T.ceiling ELSE stepped

\* rewardWeight, totalRewardWeight
RewardWeight(s, v) == EffectiveStake(s, v) * s.live["closed"][v]
TotalRewardWeight(s) == MapThenSumSet(LAMBDA v : RewardWeight(s, v), s.members)

\* runThermostat, on the supply before the mint: it always moves the rate, and mints
\* only if the closed epoch has weight.
RunThermostat(s) ==
  LET rate == AdjustRate(s.rate, IF s.supply = 0 THEN 0
                                 ELSE (TotalBonded(s) * 1000) \div s.supply)
  IN  [s EXCEPT !.rate = rate,
                !.supply = IF TotalRewardWeight(s) > 0 THEN @ + (rate * @) \div 1000000
                           ELSE @]

\* What the delegators of v hold: a validator without any keeps its whole share.
Positions(s, v) == MapThenSumSet(LAMBDA u : s.position[u][v], Users)

\* splitValidatorReward: what is left of share for the delegators of v, after the
\* part of its own stake and its commission
DelegatorPool(self, positions, share) ==
  LET portion == share - (share * self) \div (self + positions)
  IN  portion - (portion * CommissionBPS) \div 10000

\* splitProRata
ProRata(s, v, pool, positions) ==
  [u \in Users |-> (pool * s.position[u][v]) \div positions]

DelegatorCuts(s, v, share, positions) ==
  IF positions = 0 THEN [u \in Users |-> 0]
  ELSE ProRata(s, v, DelegatorPool(s.self[v], positions, share), positions)

\* A distribution under way is [s, left]: the accounts, and what is not yet credited.
\* The delegators' cuts compound into their positions.
Compound(acc, v, cuts, total) ==
  [s |-> [acc.s EXCEPT
            !.position = [u \in Users |-> [@[u] EXCEPT ![v] = @ + cuts[u]]],
            !.delegated[v] = @ + total],
   left |-> acc.left - total]

\* The validator's own part is restaked, all of it if it has no reward coin ...
Restake(acc, v, amount) ==
  [s |-> [acc.s EXCEPT !.self[v] = @ + amount], left |-> acc.left - amount]

RestakePart(s, v, own) ==
  IF s.reward[v] = None THEN own ELSE (own * Thermostat.restake) \div 1000

\* ... and the rest credited to that coin; a coin that is gone leaves it in the pool.
CreditLiquid(acc, coin, amount) ==
  IF CanCredit(acc.s, coin)
  THEN [s |-> Credit(acc.s, coin, amount), left |-> acc.left - amount]
  ELSE acc

CreditOwn(acc, v, own, restake) ==
  CreditLiquid(Restake(acc, v, restake), acc.s.reward[v], own - restake)

PaySplit(acc, v, share, cuts, total) ==
  CreditOwn(Compound(acc, v, cuts, total), v, share - total,
            RestakePart(acc.s, v, share - total))

PayCuts(acc, v, share, cuts) ==
  PaySplit(acc, v, share, cuts, MapThenSumSet(LAMBDA u : cuts[u], Users))

\* creditShare on validator v
CreditShare(acc, v, share) ==
  PayCuts(acc, v, share, DelegatorCuts(acc.s, v, share, Positions(acc.s, v)))

\* pickRemainderRecipient: the greatest weight, the lower key on a tie
RemainderRecipient(s) ==
  CHOOSE v \in s.members : \A w \in s.members :
    \/ RewardWeight(s, v) > RewardWeight(s, w)
    \/ RewardWeight(s, v) = RewardWeight(s, w) /\ v <= w

\* The shares of a pool, by the weights before any of them is paid.
PayShares(s, pool, weight) ==
  FoldLeft(LAMBDA acc, v : CreditShare(acc, v, (pool * RewardWeight(s, v)) \div weight),
           [s |-> s, left |-> pool], SetToSeq(s.members))

\* Mutation: what the divisions leave is forgotten.
ForgetsRemainder(s, pool) ==
  IF pool = 0 \/ TotalRewardWeight(s) = 0 THEN [s |-> s, left |-> pool]
  ELSE [PayShares(s, pool, TotalRewardWeight(s)) EXCEPT !.left = 0]

PayRemainder(acc, v) == CreditLiquid(acc, acc.s.reward[v], acc.left)

\* distributeEpochRewards: the remainder goes to the first by weight. What nobody
\* could be credited is left.
Distribute(s, pool) ==
  IF pool = 0 \/ TotalRewardWeight(s) = 0 THEN [s |-> s, left |-> pool]
  ELSE PayRemainder(PayShares(s, pool, TotalRewardWeight(s)), RemainderRecipient(s))

NoProduction == [v \in Validators |-> 0]

\* settleDeferredEpoch of s, m being the accounts after the thermostat: the mint and
\* the fees of the closed epoch are shared out, and the open one carries the rest.
CarryOver(d) == Pool(d.s, "open", d.left)

SettleMinted(s, m) == CarryOver(Distribute(m, s.fees["closed"] + m.supply - s.supply))

\* The buckets move on: the epoch that was open is now the closed one.
Advance(s) ==
  [s EXCEPT !.fees = [closed |-> s.fees["open"], open |-> 0],
            !.live = [closed |-> s.live["open"], open |-> NoProduction]]

SettleDeferredEpoch(s) ==
  Advance(IF epoch = 0 THEN s ELSE SettleMinted(s, RunThermostat(s)))

-----------------------------------------------------------------------------
(* Departures *)

\* One pending validator may leave: its delegators have left, and its bond has a coin
\* to return to (hasBondedDelegations, returnDeregisteredStake).
MayLeave(s, v) ==
  v \in s.members => s.delegated[v] = 0 /\ (s.self[v] = 0 \/ CanCredit(s, s.reward[v]))

Leave(s, v) ==
  LET t == IF v \in s.members /\ s.self[v] > 0 THEN Credit(s, s.reward[v], s.self[v]) ELSE s
  IN  [t EXCEPT !.members = @ \ {v}, !.pending = @ \ {v}, !.self[v] = 0, !.reward[v] = None]

\* applyPendingRemovals: by key, up to the churn limit, the others wait.
ApplyPendingRemovals(s) ==
  LET step(acc, v) == IF (MaxChurnPerEpoch > 0 /\ acc.n >= MaxChurnPerEpoch) \/ ~MayLeave(acc.s, v)
                      THEN acc
                      ELSE [s |-> Leave(acc.s, v), n |-> acc.n + 1]
  IN  FoldLeft(step, [s |-> s, n |-> 0], SetToSortSeq(s.pending, <)).s

-----------------------------------------------------------------------------
(* The specification *)

Init ==
  /\ ledger = Genesis
  /\ todo \in Workloads
  /\ epoch = 0

\* A vertex of producer v commits with one transaction: liveness, the commit-once
\* record, and the rest of executeTx (a transaction refused before the fees moves no
\* value). The round of the vertex may be of the epoch just closed.
CommitVertex(v, tx, b) ==
  /\ b = "closed" => epoch > 0
  /\ todo' = todo \ {tx}
  /\ ledger' = ExecuteTx([ledger EXCEPT !.live[b][v] = @ + 1], tx, b)
  /\ UNCHANGED epoch

\* transitionEpoch, as far as it moves value
TransitionEpoch ==
  /\ epoch < MaxEpoch
  /\ ledger' = ApplyPendingRemovals(SettleDeferredEpoch(ledger))
  /\ epoch' = epoch + 1
  /\ UNCHANGED todo

Next ==
  \/ \E v \in ledger.members, tx \in todo, b \in Buckets : CommitVertex(v, tx, b)
  \/ TransitionEpoch

Spec == Init /\ [][Next]_vars

-----------------------------------------------------------------------------
(* Properties *)

\* No account is ever overdrawn: the code subtracts unsigned integers, unchecked after
\* the guards of the handlers.
TypeOK ==
  /\ ledger.balance \in [Objects -> Nat] /\ ledger.deposit \in [Objects -> Nat]
  /\ ledger.alive \in [Objects -> BOOLEAN] /\ ledger.owner \in [Objects -> Users]
  /\ ledger.members \subseteq Validators /\ ledger.pending \subseteq Users
  /\ ledger.self \in [Validators -> Nat] /\ ledger.delegated \in [Validators -> Nat]
  /\ ledger.position \in [Users -> [Validators -> Nat]]
  /\ ledger.reward \in [Validators -> Objects \cup {None}]
  /\ ledger.fees \in [Buckets -> Nat] /\ ledger.live \in [Buckets -> [Validators -> Nat]]
  /\ {ledger.coinsTotal, ledger.supply, ledger.rate} \subseteq Nat
  /\ \A tx \in todo : IsTx(tx)
  /\ epoch \in 0..MaxEpoch

InFlight == ledger.fees["closed"] + ledger.fees["open"]

Deposits == MapThenSumSet(LAMBDA o : ledger.deposit[o], Objects)

Coins == MapThenSumSet(LAMBDA o : IF ledger.alive[o] THEN ledger.balance[o] ELSE 0, Objects)

\* The supply counter accounts for every token: coins, bonds, storage deposits and
\* fees in flight (the identity of totalEpochFees and of the fingerprint); and the
\* counter of all coins, which other code writes than the balances, is the sum of the
\* balances there are (CoinsTotal).
SupplyIdentity ==
  /\ ledger.coinsTotal = Coins
  /\ ledger.coinsTotal + TotalBonded(ledger) + Deposits + InFlight = ledger.supply

=============================================================================
