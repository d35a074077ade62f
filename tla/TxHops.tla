------------------------------- MODULE TxHops -------------------------------
(***************************************************************************)
(* One transaction from the wallet that signs it to the pod that runs it.  *)
(* On the way its table is rebuilt, field by field, by the daemon or the   *)
(* ingress node that wraps it, by the producer of a vertex, by every node  *)
(* that recomputes the vertex body, by the executor; and its canonical     *)
(* body is derived again at ingress and at commit, to be hashed and held   *)
(* against the signatures.                                                 *)
(*                                                                         *)
(* A table is a function on the fields it writes.  A byte string of the    *)
(* expected length is <<x>>; a vector nobody wrote reads as <<>>.  A hash  *)
(* is the value it is taken of.                                            *)
(***************************************************************************)
EXTENDS Naturals, Sequences, SequencesExt

CONSTANTS
  Sender, Sponsor, Stranger,   \* wallets
  Singletons, Replicated,      \* the objects of the wallets, by replication
  Pod                          \* the system pod

VARIABLES
  given,     \* the values the wallet was asked to put in the transaction
  signers,   \* the sender, and for a sponsored transaction the wallet that submits it
  body,      \* the transaction, or the attested transaction, where it is now
  held,      \* the replicated objects as their holders store them
  at,        \* where it is
  cause      \* why it was refused
vars == <<given, signers, body, held, at, cause>>

-----------------------------------------------------------------------------
(* Tables.                                                                  *)

clientMaxGas == 1000
maxObjectRefs == 40
maxDeclaredOps == maxObjectRefs
zeroPod == "zero"
noID == ""

Given == [sender |-> <<>>, pod |-> <<zeroPod>>, function_name |-> "", args |-> <<>>,
          created_objects_replication |-> <<>>, max_gas |-> 0, gas_coin |-> <<>>,
          fee_payer |-> <<>>, valid_until |-> 0, mutable_refs |-> <<>>, read_refs |-> <<>>,
          deleted_objects |-> <<>>, operations |-> <<>>]
Unwritten == [hash |-> <<>>, signature |-> <<>>, sponsor_signature |-> <<>>]
             @@ [Given EXCEPT !.pod = <<>>]
ObjectRef == [id |-> noID, version |-> 0, domain |-> ""]
Object == [id |-> noID, version |-> 0, owner |-> noID, replication |-> 0, content |-> "",
           fees |-> 0, parent_kind |-> 0]
NoParentKind == DOMAIN Object \ {"parent_kind"}
DeclaredOp == [kind |-> 0, object_id |-> noID, target_kind |-> 0, target |-> noID,
               name |-> "", term_epochs |-> 0]

\* A table written from the values of a record: the fields in always, and those that
\* differ from what an unwritten field reads as.
Write(r, unwritten, always) == Restrict(r, {f \in DOMAIN r : f \in always \/ r[f] # unwritten[f]})
Read(t, unwritten) == [f \in DOMAIN unwritten |-> IF f \in DOMAIN t THEN t[f] ELSE unwritten[f]]
Each(s, Op(_)) == [i \in DOMAIN s |-> Op(s[i])]

buildSingleObjectRef(r) == Write(r, ObjectRef, {})
buildSingleDeclaredOp(o) == Write(o, DeclaredOp, {})
extractRef(t) == Read(t, ObjectRef)
ExtractOperation(t) == Read(t, DeclaredOp)
WithTables(v) == [v EXCEPT !.mutable_refs = Each(@, buildSingleObjectRef),
                           !.read_refs = Each(@, buildSingleObjectRef),
                           !.operations = Each(@, buildSingleDeclaredOp)]

\* The canonical unsigned body, the only definition of what is hashed.
BuildUnsignedTxBytes(v) ==
  Write(WithTables(v), Unwritten, {"sender", "pod", "function_name", "args"})
\* The stored table: the same fields under the same rule, the hash and the signatures.
BuildTxTable(v, hash, sig, sponsorSig) ==
  Write(WithTables(v) @@ [hash |-> hash, signature |-> sig, sponsor_signature |-> sponsorSig],
        Unwritten, {"sender", "pod", "function_name", "args", "hash", "signature"})

Values(t) == LET v == Read(t, Unwritten) IN
  [[f \in DOMAIN Given |-> v[f]] EXCEPT
     !.pod = IF @ = <<>> THEN <<zeroPod>> ELSE @,
     !.mutable_refs = Each(@, extractRef), !.read_refs = Each(@, extractRef),
     !.operations = Each(@, ExtractOperation)]

RebuildObjectRef(t) == Write(Read(t, ObjectRef), ObjectRef, {})
\* A rebuild that lists the fields by hand and forgets the newest.
RebuildForgetful(t) ==
  LET v == Read(t, Unwritten) IN
  Write([v EXCEPT !.mutable_refs = Each(@, RebuildObjectRef),
                  !.read_refs = Each(@, RebuildObjectRef), !.operations = <<>>],
        Unwritten, {"hash", "sender", "signature", "pod", "function_name", "args"})
RebuildTxInBuilder(t) ==
  LET v == Read(t, Unwritten) IN
  Write([v EXCEPT !.mutable_refs = Each(@, RebuildObjectRef),
                  !.read_refs = Each(@, RebuildObjectRef),
                  !.operations = Each(Each(@, ExtractOperation), buildSingleDeclaredOp)],
        Unwritten, {"hash", "sender", "signature", "pod", "function_name", "args"})

Sign(key, hash) == <<[by |-> key, over |-> hash]>>
Verify(key, hash, sig) == sig = <<[by |-> key, over |-> hash]>>

-----------------------------------------------------------------------------
(* Checks.                                                                  *)

txHasPodCall(t) == Read(t, Unwritten).function_name # "" \/ Values(t).pod # <<zeroPod>>
ValidateShape(t) ==
  LET v == Read(t, Unwritten) IN
  v.operations # <<>> =>
    /\ ~txHasPodCall(t)
    /\ v.created_objects_replication = <<>>
    /\ Len(v.operations) <= maxDeclaredOps
validateFieldSizes(t) ==
  LET v == Read(t, Unwritten) IN \A f \in {"hash", "sender", "signature", "pod"} : Len(v[f]) = 1
validateIntent(t) == LET v == Read(t, Unwritten) IN v.function_name # "" \/ v.operations # <<>>
validateObjectRefs(t) ==
  LET refs == Values(t).mutable_refs \o Values(t).read_refs
      byDomain == SelectSeq(refs, LAMBDA r : r.domain # "")
      byID == SelectSeq(refs, LAMBDA r : r.domain = "")
  IN /\ Len(refs) <= maxObjectRefs
     /\ IsInjective(Each(byDomain, LAMBDA r : r.domain))
     /\ \A i \in DOMAIN byID : byID[i].id # noID
     /\ IsInjective(Each(byID, LAMBDA r : r.id))
validateHash(t) == Read(t, Unwritten).hash = <<BuildUnsignedTxBytes(Values(t))>>
validateSignature(t) == LET v == Read(t, Unwritten) IN Verify(v.sender, v.hash, v.signature)
ValidateTx(t) ==
  /\ validateFieldSizes(t) /\ ValidateShape(t) /\ validateIntent(t)
  /\ validateObjectRefs(t) /\ validateHash(t) /\ validateSignature(t)

isSponsored(t) == Len(Read(t, Unwritten).fee_payer) = 1
verifyTxAuthenticity(t) ==
  LET v == Read(t, Unwritten)
      hash == <<BuildUnsignedTxBytes(Values(t))>>
  IN /\ hash = v.hash
     /\ Len(v.sender) = 1
     /\ Verify(v.sender, hash, v.signature)
     /\ isSponsored(t) => Verify(v.fee_payer, hash, v.sponsor_signature)

-----------------------------------------------------------------------------
(* What wallets and nodes ask for.                                          *)

buildMutableRef(o) == <<[ObjectRef EXCEPT !.id = o, !.version = held[o].version]>>
Args(name) == <<name>>
reparentOpKind == 0
deleteOpKind == 1
domainOpKinds == [register |-> 2, renew |-> 3, update |-> 4, transfer |-> 5, delete |-> 6]
keyRootKind == 0
objectParentKind == 1

Call(name, args, createdReps, refs, gasCoin) ==
  [Given EXCEPT !.sender = <<Sender>>, !.pod = <<Pod>>, !.function_name = name, !.args = args,
                !.created_objects_replication = createdReps, !.mutable_refs = refs,
                !.max_gas = IF gasCoin = <<>> THEN 0 ELSE clientMaxGas, !.gas_coin = gasCoin]
buildOpsTx(refs, gasCoin, op) ==
  [Given EXCEPT !.sender = <<Sender>>, !.max_gas = clientMaxGas, !.gas_coin = <<gasCoin>>,
                !.mutable_refs = refs, !.operations = <<op>>]
reparentOpFor(o, kind, target) ==
  [DeclaredOp EXCEPT !.kind = reparentOpKind, !.object_id = o, !.target_kind = kind, !.target = target]

CoinCalls ==
  {Call("split", Args("split"), <<0>>, buildMutableRef(c), <<c>>) : c \in Singletons}
  \cup {Call(f, Args(f), <<>>, buildMutableRef(c), <<c>>) :
          f \in {"bond", "unbond", "delegate", "undelegate"}, c \in Singletons}
Merge ==
  {Call("merge", <<>>, <<>>, buildMutableRef(cs[1]) \o buildMutableRef(cs[2]), <<cs[1]>>) :
     cs \in {s \in Singletons \X Singletons : s[1] # s[2]}}
CreateObject ==
  {Call("create_object", Args("create"), <<r>>, <<>>, <<c>>) : r \in {0, 2}, c \in Singletons}
SetObject ==
  {Call("set_object", Args("set"), <<>>, buildMutableRef(o), <<c>>) :
     o \in Replicated, c \in Singletons}
\* The gasless pair: a candidate pays with nothing and creates its reward object.
RegisterValidator == {Call("register_validator", Args("register"), <<0>>, <<>>, <<>>)}
DeregisterValidator == {Call("deregister_validator", <<>>, <<>>, <<>>, <<>>)}
Transfer == {buildOpsTx(buildMutableRef(c), c, reparentOpFor(c, keyRootKind, Stranger)) : c \in Singletons}
ObjectOps ==
  {buildOpsTx(buildMutableRef(o), c, op) : c \in Singletons, o \in Replicated,
     op \in UNION {{reparentOpFor(x, keyRootKind, Stranger), reparentOpFor(x, objectParentKind, "parent"),
                    [DeclaredOp EXCEPT !.kind = deleteOpKind, !.object_id = x]} : x \in Replicated}}
\* Naming an object puts no reference to it in the transaction.
DomainOps ==
  LET Op(kind, o, target, term) ==
        [DeclaredOp EXCEPT !.kind = domainOpKinds[kind], !.name = "name", !.object_id = o,
                           !.target = target, !.term_epochs = term]
  IN {buildOpsTx(<<>>, c, op) : c \in Singletons,
        op \in {Op("renew", noID, noID, 1), Op("transfer", noID, Stranger, 0), Op("delete", noID, noID, 0)}
               \cup {Op("register", o, noID, 1) : o \in Replicated}
               \cup {Op("update", o, noID, 0) : o \in Replicated}}
\* A sponsored operation is any of these, or a call that reads what a name leads to.
SponsoredOps ==
  {[v EXCEPT !.max_gas = clientMaxGas, !.gas_coin = <<"sponsor coin">>, !.fee_payer = <<Sponsor>>,
             !.valid_until = 9] :
     v \in SetObject \cup ObjectOps \cup DomainOps
           \cup {[w EXCEPT !.read_refs = <<[ObjectRef EXCEPT !.domain = "name"]>>] : w \in CoinCalls}}
\* SponsoredOp lets its caller ask for a call and for operations in one transaction.
Mixed == {[v EXCEPT !.pod = <<Pod>>, !.function_name = "set_object"] :
            v \in {w \in SponsoredOps : w.operations # <<>>}}
BuildSplitTx == {Call("split", Args("split"), <<0>>, buildMutableRef(c), <<c>>) : c \in Singletons}

Stored(o, replication, kind) ==
  Write([id |-> o, version |-> 3, owner |-> Sender, replication |-> replication,
         content |-> "content", fees |-> 7, parent_kind |-> kind], Object, NoParentKind)

Init ==
  /\ held \in {[o \in Singletons \cup Replicated |->
                  IF o \in Singletons THEN Stored(o, 0, 0) ELSE Stored(o, 2, k)] : k \in {0, 1}}
  /\ given \in CoinCalls \cup Merge \cup CreateObject \cup SetObject \cup RegisterValidator
               \cup DeregisterValidator \cup Transfer \cup ObjectOps \cup DomainOps \cup SponsoredOps
               \cup Mixed
  /\ signers = <<>> /\ body = <<>> /\ at = "wallet" /\ cause = "none"

-----------------------------------------------------------------------------
(* The wallet, the daemon.                                                  *)

Refuse(why) == at' = "refused" /\ cause' = why /\ UNCHANGED <<given, signers, body, held>>
Move(to, b) == at' = to /\ body' = b /\ UNCHANGED <<given, held, cause>>
attested(t, objects) == [tx |-> t, objects |-> objects]

Signed(v, by) == LET hash == <<BuildUnsignedTxBytes(v)>> IN BuildTxTable(v, hash, Sign(by, hash), <<>>)

buildSignedTx ==
  /\ at = "wallet" /\ given.fee_payer = <<>>
  /\ signers' = <<Sender>>
  /\ Move("daemon", Signed(given, <<Sender>>))

\* A faucet's split never leaves the node: it is wrapped as it is signed.
handleFaucet ==
  /\ at = "wallet" /\ given \in BuildSplitTx
  /\ signers' = <<Sender>>
  /\ Move("gossip", attested(Signed(given, <<Sender>>), <<>>))

\* The sender signs the body that names the sponsor, and hands over its signature only.
SignSponsoredOp ==
  /\ at = "wallet" /\ given.fee_payer # <<>>
  /\ signers' = <<Sender>>
  /\ Move("handover", Sign(<<Sender>>, <<BuildUnsignedTxBytes(given)>>))

\* Whoever submits names itself as fee payer, and signs the body that results.
SubmitSponsored(w) ==
  LET v == [given EXCEPT !.fee_payer = <<w>>]
      hash == <<BuildUnsignedTxBytes(v)>>
  IN /\ at = "handover"
     /\ signers' = <<Sender, w>>
     /\ Move("daemon", BuildTxTable(v, hash, body, Sign(<<w>>, hash)))

RefIDs(t) == LET refs == Values(t).mutable_refs \o Values(t).read_refs IN
             SelectSeq(Each(refs, LAMBDA r : r.id), LAMBDA o : o # noID)
replicatedRefs(t) == SelectSeq(RefIDs(t), LAMBDA o : held[o].replication # 0)

\* The daemon copies an object without its parent kind, which no attestation covers.
daemonRebuildObject(o) == Restrict(o, NoParentKind)

SubmitTransaction ==
  /\ at = "daemon" /\ UNCHANGED signers
  /\ \/ replicatedRefs(body) = <<>> /\ Move("node", body)
     \/ /\ replicatedRefs(body) # <<>>
        /\ Move("node", attested(RebuildTxInBuilder(body),
                          Each(replicatedRefs(body), LAMBDA o : daemonRebuildObject(held[o]))))

\* No node answers for a referenced object, or too few of its holders sign.
SubmitFails ==
  /\ at = "daemon"
  /\ \/ RefIDs(body) # <<>> /\ Refuse("fetch")
     \/ replicatedRefs(body) # <<>> /\ Refuse("quorum")

-----------------------------------------------------------------------------
(* The nodes.                                                               *)

IsRaw(b) == "tx" \notin DOMAIN b
innerTx(b) == Len(Read(b.tx, Unwritten).hash) = 1 /\ ValidateShape(b.tx)
WrapInATX(t) == attested(RebuildTxInBuilder(t), <<>>)
referencesOnlySingletons(t, known) ==
  \A i \in DOMAIN RefIDs(t) : RefIDs(t)[i] \in known /\ held[RefIDs(t)[i]].replication = 0

ingestVerdict(b, known) ==
  CASE ~IsRaw(b) -> IF innerTx(b) THEN "none" ELSE "shape"
    [] ~ValidateTx(b) -> "invalid"
    [] ~referencesOnlySingletons(b, known) -> "unknown object"
    [] OTHER -> "none"
\* A node that is behind does not know every object yet.
ingestSubmission(known) ==
  /\ at = "node"
  /\ IF ingestVerdict(body, known) = "none"
     THEN Move("gossip", IF IsRaw(body) THEN WrapInATX(body) ELSE body) /\ UNCHANGED signers
     ELSE Refuse(ingestVerdict(body, known))

ingestGossipedTx ==
  /\ at = "gossip"
  /\ IF innerTx(body) THEN Move("pending", body) /\ UNCHANGED signers ELSE Refuse("shape")

rebuildObject(o) == Write(Read(o, Object), Object, NoParentKind)
rebuildAttestedTx(b) == attested(RebuildTxInBuilder(b.tx), Each(b.objects, rebuildObject))

\* The producer rebuilds what it carries; the body hash it signs is of the rebuilt table.
buildTxVector == at = "pending" /\ Move("vertex", rebuildAttestedTx(body)) /\ UNCHANGED signers
\* A receiver rebuilds the table again to recompute that hash.
rebuildTxVector ==
  /\ at = "vertex"
  /\ IF rebuildAttestedTx(body) = body THEN Move("committed", body) /\ UNCHANGED signers
     ELSE Refuse("body hash")

\* The commit's authenticity and shape gates.
executeTx ==
  /\ at = "committed"
  /\ IF ~verifyTxAuthenticity(body.tx) THEN Refuse("authenticity")
     ELSE IF ~ValidateShape(body.tx) THEN Refuse("shape")
     ELSE Move(IF Read(body.tx, Unwritten).operations # <<>> THEN "settled" ELSE "executor", body)
          /\ UNCHANGED signers

resolveMutableObjects(t, objects) ==
  LET missing == SelectSeq(Each(Values(t).mutable_refs, LAMBDA r : r.id),
                           LAMBDA o : o # noID /\ \A i \in DOMAIN objects : objects[i].id # o)
  IN objects \o Each(missing, LAMBDA o : held[o])

\* An executor that hands the pod only what the transaction carried.
CarriedOnly(t, objects) == attested(RebuildTxInBuilder(t), Each(objects, daemonRebuildObject))
serializeInput(t, objects) ==
  attested(RebuildTxInBuilder(t), Each(resolveMutableObjects(t, objects), daemonRebuildObject))
Execute ==
  /\ at = "executor"
  /\ LET b == rebuildAttestedTx(body) IN Move("executed", serializeInput(b.tx, b.objects))
  /\ UNCHANGED signers

Done == at \in {"refused", "settled", "executed"} /\ UNCHANGED vars

Next ==
  \/ buildSignedTx \/ handleFaucet \/ SignSponsoredOp \/ (\E w \in {Sponsor, Stranger} : SubmitSponsored(w))
  \/ SubmitTransaction \/ SubmitFails
  \/ (\E known \in SUBSET (Singletons \cup Replicated) : ingestSubmission(known))
  \/ ingestGossipedTx \/ buildTxVector \/ rebuildTxVector \/ executeTx \/ Execute \/ Done
Spec == Init /\ [][Next]_vars

-----------------------------------------------------------------------------
\* A transaction built by the client library is refused only because the client could not
\* gather what it needed, because the ingress node did not know an object yet, because it
\* asks for a call and for declared operations at once, or because another wallet than the
\* named sponsor submitted it: never because one of the rebuilds on its way changed a
\* field, which would fail the hash, the signature, the shape or the vertex body hash.
HonestNeverRefused ==
  at = "refused" =>
    \/ cause \in {"fetch", "quorum", "unknown object"}
    \/ cause \in {"invalid", "shape"} /\ given \in Mixed
    \/ cause \in {"invalid", "authenticity"} /\ signers = <<Sender, Stranger>>

\* What runs is what was signed: the transaction the pod reads, or whose declared
\* operations settle, has exactly the values its sender put in; the pod is given the body
\* of every object it may change, as its holders store it; and neither an operation
\* submitted by another wallet than the sponsor its sender named, nor one that mixes a
\* call with declared operations, ever runs, whichever of the two ways in it takes.
ExecutedAsSigned ==
  /\ at \in {"settled", "executed"} =>
       /\ Values(body.tx) = given /\ given \notin Mixed
       /\ signers = IF given.fee_payer = <<>> THEN <<Sender>> ELSE <<Sender, Sponsor>>
  /\ at = "executed" =>
       \A i \in DOMAIN given.mutable_refs :
         \E j \in DOMAIN body.objects :
           \A f \in NoParentKind : body.objects[j][f] = held[given.mutable_refs[i].id][f]
=============================================================================
