---------------------------- MODULE MCExecution ----------------------------
(***************************************************************************)
(* What committed transactions do, under four loads of which one runs:     *)
(* objects that move, with a crash; names over four epochs; coins, fees    *)
(* and storage over two; bonds, delegations and rewards over four.         *)
(***************************************************************************)
EXTENDS DeclaredOps

CONSTANTS
    Validators, Users, AccountObjects, Workloads, Genesis, Thermostat   \* of Ledger

VARIABLES
    load,      \* "moves", "names", "fees" or "stakes"
    ledger, todo, ledgerEpoch

MCKeys == {"k1", "k2", "zero"}
MCObjects == {"a", "b", "c", "d", "e"}
MCNames == {"n", "m.n"}
MCNamespace == [n \in MCNames |-> IF n = "m.n" THEN "n" ELSE None]
MCRooted == [o \in {"a", "b", "c"} |-> IF o = "c" THEN "k2" ELSE "k1"]

Op(kind, o, p, n, term) == [kind |-> kind, obj |-> o, target |-> p, name |-> n, term |-> term]
Move(o, p) == Op("reparent", o, p, "n", 0)
Delete(o) == Op("delete", o, "zero", "n", 0)
Name(kind, n, o, p, term) == Op(kind, o, p, n, term)

List(sender, refs, ops) ==
    [sender |-> sender, refs |-> refs, ops |-> ops, deletes |-> None, creates |-> None,
     under |-> sender, via |-> {}]
Pod(sender, refs, deleted, created, p, reached) ==
    [sender |-> sender, refs |-> refs, ops |-> <<>>, deletes |-> deleted,
     creates |-> created, under |-> p, via |-> reached]

\* Objects nest, swap places, change hands and go, by both channels.
MoveTxs ==
    {List("k1", {"a"}, <<Move("a", "b")>>),
     List("k1", {"b"}, <<Move("b", "a")>>),
     List("k1", {"a", "b"}, <<Move("a", "k2"), Delete("b")>>),
     List("k1", {"b", "d"}, <<Move("d", "b"), Move("b", "d")>>),
     List("k2", {"c"}, <<Move("c", "a")>>),
     List("k2", {"c", "a"}, <<Move("a", "c"), Move("c", "k1")>>),
     List("k1", {"d"}, <<Delete("d")>>),
     List("k1", {"d", "a"}, <<Delete("d"), Delete("a")>>),
     Pod("k1", {"b"}, None, "d", "a", {}),
     Pod("k1", {"a"}, "a", None, "k1", {})}

\* A namespace and a name under it, leased, renewed, repointed, handed over,
\* released and lost to the sweep.
NameTxs ==
    {List("k1", {}, <<Name("register", "n", "a", "k1", 1),
                      Name("register", "m.n", "b", "k1", 2)>>),
     List("k1", {}, <<Name("renew", "n", "a", "k1", 1)>>),
     List("k1", {}, <<Name("renew", "m.n", "a", "k1", 2),
                      Name("update", "m.n", "a", "k1", 0)>>),
     List("k1", {}, <<Name("release", "n", "a", "k1", 0),
                      Name("register", "n", "b", "k1", 2)>>),
     List("k1", {}, <<Name("transfer", "n", "b", "k2", 0)>>),
     List("k2", {}, <<Name("register", "n", "c", "k2", 2),
                      Name("update", "m.n", "c", "k2", 0)>>),
     List("k2", {"c"}, <<Name("release", "n", "c", "k2", 0), Delete("c")>>),
     List("k1", {"a"}, <<Delete("a")>>),
     Pod("k2", {}, None, "e", "a", {"n"})}

AllTxs == MoveTxs \cup NameTxs

MaxNameTxs == 6   \* bound: transactions of a run of the name load

-----------------------------------------------------------------------------
(* Accounts                                                                 *)

MCValidators == {1, 2}
MCUsers == {1, 2, 3}
MCAccountObjects == {"c1", "c2", "c3", "c4", "o1", "o2"}

NoObject == [o \in MCAccountObjects |-> FALSE]
Zero(S) == [x \in S |-> 0]
NoProducer == [v \in MCValidators |-> 0]

\* Validator 1 with its bond and its reserve coin.
Founded ==
  [balance |-> [Zero(MCAccountObjects) EXCEPT !["c1"] = 20],
   alive |-> [NoObject EXCEPT !["c1"] = TRUE], owner |-> [o \in MCAccountObjects |-> 1],
   deposit |-> Zero(MCAccountObjects), coinsTotal |-> 20, supply |-> 26,
   members |-> {1}, pending |-> {}, self |-> [v \in MCValidators |-> IF v = 1 THEN 6 ELSE 0],
   delegated |-> Zero(MCValidators), reward |-> [v \in MCValidators |-> IF v = 1 THEN "c1" ELSE None],
   position |-> [u \in MCUsers |-> Zero(MCValidators)],
   fees |-> [closed |-> 0, open |-> 0], live |-> [closed |-> NoProducer, open |-> NoProducer],
   rate |-> 0]

\* ... later, when 2 and 3 hold a coin each.
Spread ==
  [Founded EXCEPT !.alive = [o \in MCAccountObjects |-> o \in {"c1", "c2", "c3"}],
                  !.owner = [@ EXCEPT !["c2"] = 2, !["c3"] = 3],
                  !.balance = [@ EXCEPT !["c2"] = 12, !["c3"] = 9],
                  !.coinsTotal = 41, !.supply = 47]

Call(u, gas, name, refs) ==
  [sender |-> u, payer |-> u, gas |-> gas, maxGas |-> 1, call |-> name, refs |-> refs,
   deletes |-> {}, declares |-> <<>>, makes |-> <<>>, amount |-> 0, validator |-> None,
   to |-> u, proven |-> TRUE]

Split(u, from, new, amount, to) ==
  [Call(u, from, "split", <<from>>) EXCEPT !.declares = <<0>>, !.makes = <<<<new, 0>>>>,
                                           !.amount = amount, !.to = to]
Create(u, gas, o, rep) ==
  [Call(u, gas, "create", <<>>) EXCEPT !.declares = <<rep>>, !.makes = <<<<o, rep>>>>]
DeleteOp(u, gas, o) == [Call(u, gas, "ops", <<o>>) EXCEPT !.deletes = {o}]
DeleteCall(u, payer, gas, o) ==
  [Call(u, gas, "create", <<o>>) EXCEPT !.deletes = {o}, !.payer = payer]
Stake(u, name, coin, v, amount) ==
  [Call(u, coin, name, <<coin>>) EXCEPT !.validator = v, !.amount = amount]

\* Validator 2 joins with a reward coin, bonds, is delegated to, and leaves.
StakeTxs ==
  {Call(2, "c2", "register", <<>>),
   Stake(2, "bond", "c2", None, 4), Stake(2, "unbond", "c2", None, 4),
   Stake(3, "delegate", "c3", 2, 4), Stake(3, "undelegate", "c3", 2, 0),
   Call(2, "c2", "deregister", <<>>)}

\* Validator 2 joins without a coin: its rewards become its bond.
EarnTxs ==
  {[Call(2, None, "register", <<>>) EXCEPT !.declares = <<0>>, !.makes = <<<<"o1", 0>>>>],
   Stake(3, "delegate", "c3", 2, 4), Stake(3, "undelegate", "c3", 2, 0),
   Call(2, "c2", "deregister", <<>>), Call(2, "c2", "register", <<>>)}

\* A coin is split and merged, an object created and deleted by either channel; one
\* split fails, and one creation is not covered.
FeeTxs ==
  {Split(1, "c1", "c4", 6, 1), Split(1, "c1", "o2", 90, 1),
   Call(1, "c1", "merge", <<"c1", "c4">>),
   Create(3, "c3", "o1", 1), [Create(3, "c3", "o2", 1) EXCEPT !.maxGas = 9],
   DeleteOp(3, "c3", "o1"), DeleteCall(3, 1, "c1", "o1")}

MCWorkloads == {StakeTxs, EarnTxs, FeeTxs}

ThermostatOn == [low |-> 250, high |-> 350, floor |-> 0, ceiling |-> 200000, step |-> 60000,
                 restake |-> 500]

accountVars == <<ledger, todo, ledgerEpoch>>
Accounts == INSTANCE Ledger WITH
    Objects <- AccountObjects, Parented <- {},
    MinGas <- 1, DeleteFee <- 1, StorageFee <- 2, IndexEntryFee <- 1, StorageRefundBPS <- 5000,
    MinStake <- 3, CommissionBPS <- 5000, MaxChurnPerEpoch <- 1, epoch <- ledgerEpoch

-----------------------------------------------------------------------------

MCInit ==
    /\ Init
    /\ \/ load \in {"moves", "names"} /\ ledger = None /\ todo = {} /\ ledgerEpoch = 0
       \/ /\ Accounts!Init
          /\ load = IF todo = FeeTxs THEN "fees" ELSE "stakes"

MCNext ==
    \/ /\ load = "moves" /\ Next
       /\ done' \subseteq MoveTxs /\ epoch' = 0
       /\ UNCHANGED <<load, accountVars>>
    \/ /\ load = "names" /\ Next
       /\ done' \subseteq NameTxs /\ Cardinality(done') <= MaxNameTxs /\ crashes' = 0
       /\ UNCHANGED <<load, accountVars>>
    \/ load = "fees" /\ Accounts!Next /\ ledgerEpoch' <= 1 /\ UNCHANGED <<load, vars>>
    \/ load = "stakes" /\ Accounts!Next /\ UNCHANGED <<load, vars>>

MCSpec == MCInit /\ [][MCNext]_<<vars, load, accountVars>>

\* The supply counter accounts for every token: coins, bonds, storage deposits and
\* fees in flight, and the counter of coins is the sum of the coins (the identity
\* of totalEpochFees and of the fingerprint).
SupplyIdentity == load \in {"fees", "stakes"} => Accounts!SupplyIdentity

=============================================================================
