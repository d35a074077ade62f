-------------------------------- MODULE Wire --------------------------------
(***************************************************************************)
(* One message from the code that builds it to the code that reads it: the *)
(* length-prefixed frame on a QUIC stream that may end at any byte, the    *)
(* dispatch of a request by its first byte, the decoder.  A record of the  *)
(* data directory or of a snapshot skips the stream.  The sender may be a  *)
(* node of an older version, whose record ends earlier.                    *)
(***************************************************************************)
EXTENDS Codecs

CONSTANT Sizes     \* how many elements the lists and byte strings of a message have

Requests == [
  SubmitTx |-> SubmitTx, GetObject |-> GetObject, GetValidators |-> GetValidators,
  Status |-> Status, Health |-> Health, Faucet |-> Faucet, DomainResolve |-> DomainResolve,
  GetTxStatus |-> GetTxStatus, GetVertex |-> GetVertex, GetVertexRange |-> GetVertexRange,
  StateFingerprint |-> StateFingerprint, TestControl |-> TestControl,
  GetIndexAnchor |-> GetIndexAnchor, ListChildren |-> ListChildren,
  GetAncestors |-> GetAncestors, GetValidatorTree |-> GetValidatorTree,
  Attest |-> AttestRequest, Snapshot |-> SnapshotRequest]
Gossip == [GossipTx |-> GossipTx, Vertex |-> Vertex]
Replies == [
  SubmitTxResp |-> SubmitTxResp, GetObjectResp |-> GetObjectResp,
  GetValidatorsResp |-> GetValidatorsResp, StatusResp |-> StatusResp, HealthResp |-> HealthResp,
  FaucetResp |-> FaucetResp, DomainResolveResp |-> DomainResolveResp,
  GetTxStatusResp |-> GetTxStatusResp, GetVertexResp |-> GetVertexResp,
  GetVertexRangeResp |-> GetVertexRangeResp, StateFingerprintResp |-> StateFingerprintResp,
  TestControlResp |-> TestControlResp, GetIndexAnchorResp |-> GetIndexAnchorResp,
  ListChildrenResp |-> ListChildrenResp, GetAncestorsResp |-> GetAncestorsResp,
  GetValidatorTreeResp |-> GetValidatorTreeResp,
  AttestPositive |-> AttestPositive, AttestNegative |-> AttestNegative]
Records == [
  Proof |-> Proof, DomainLeaf |-> DomainLeaf, ParentLeaf |-> ParentLeaf,
  ValidatorLeaf |-> ValidatorLeaf, FaultRecord |-> FaultRecord, DomainValue |-> DomainValue,
  TrackerValue |-> TrackerValue, DelegationContent |-> DelegationContent,
  HolderSnapshot |-> HolderSnapshot, LiveValidators |-> LiveValidators,
  SnapshotValidators |-> SnapshotValidators, MemberSet |-> MemberSet, HashList |-> HashList,
  EpochFees |-> EpochFees, PerEpochCounters |-> PerEpochCounters, RegimeState |-> RegimeState,
  RegisterValidatorArgs |-> RegisterValidatorArgs, DelegateArgs |-> DelegateArgs,
  StakeArgs |-> StakeArgs]
CodecOf == Requests @@ Gossip @@ Replies @@ Records
Kinds == DOMAIN CodecOf

VARIABLES
  kind, size,   \* the message: a format, and the size of its lists and byte strings
  full,         \* the bytes of its encoding
  sent,         \* the bytes its sender writes: all, or fewer when it is an older node
  arrived,      \* the bytes of the frame that reach the other end
  phase,        \* "built", "sent", "read", "handled", or "dropped" with an error
  handler,      \* the handler the receiver picked
  got           \* what its decoder returned
vars == <<kind, size, full, sent, arrived, phase, handler, got>>

Message(k, n) == Sample(CodecOf[k].enc, n, <<>>)
Whole(k, n) == Encode(CodecOf[k].enc, Message(k, n))
Payload == Cut(Whole(kind, size), sent)
lengthPrefixSize == 4
\* Where a buffer may end: at every field, and one byte into every field.
Ends(b) == {Size(SubSeq(b, 1, i - 1)) : i \in DOMAIN b}
           \cup {Size(SubSeq(b, 1, i - 1)) + 1 : i \in {j \in DOMAIN b : b[j].w > 1}}

Init ==
  /\ kind \in Kinds /\ size \in Sizes
  /\ full = Size(Whole(kind, size)) /\ sent = full
  /\ arrived = 0 /\ phase = "built" /\ handler = "" /\ got = Start(<<>>)

\* The sender is an older node, or the record an older one left: it ends at byte n.
\* A FlatBuffer grows inside, never at its end.
Older(n) ==
  /\ phase = "built" /\ sent = full /\ kind \notin {"Vertex", "Snapshot"}
  /\ sent' = n
  /\ UNCHANGED <<kind, size, full, arrived, phase, handler, got>>

\* writeMessage: the length, then the payload.  The connection carries the first n
\* bytes of the two; all of them when it does not fail.
WriteMessage(n) ==
  /\ phase = "built" /\ kind \notin DOMAIN Records
  /\ n = lengthPrefixSize + sent \/ sent = full
  /\ arrived' = n /\ phase' = "sent"
  /\ UNCHANGED <<kind, size, full, sent, handler, got>>

\* readMessage: io.ReadFull on the length and on as many bytes as it says.
WholeFrame == arrived >= lengthPrefixSize /\ arrived - lengthPrefixSize >= sent
ReadMessage ==
  /\ phase = "sent"
  /\ phase' = IF WholeFrame THEN "read" ELSE "dropped"
  /\ UNCHANGED <<kind, size, full, sent, arrived, handler, got>>
-----------------------------------------------------------------------------
(* Dispatch.                                                                *)

\* A tag byte of the client protocol and the request it belongs to.
clientRequestTags == {CodecOf[k].enc[1].of : k \in DOMAIN Requests \ {"Attest", "Snapshot"}}
ClientHandler(tag) == CHOOSE k \in DOMAIN Requests \ {"Attest", "Snapshot"} :
                        CodecOf[k].enc[1].of = tag
IsAttestationRequest(b) == Size(b) >= 1 /\ b[1].v = 1
IsClientMessage(b) == Size(b) >= 1 /\ b[1].v \in clientRequestTags
\* The heuristic reads any eight bytes as a FlatBuffer and wants a request number; on
\* bytes that are none it may find one.
IsSnapshotRequest(b) == Size(b) >= 8
\* Mutant: the heuristic asked before the exact tags.
SnapshotFirst(b) ==
  IF IsAttestationRequest(b) THEN "Attest"
  ELSE IF IsSnapshotRequest(b) THEN "Snapshot"
       ELSE IF IsClientMessage(b) THEN ClientHandler(b[1].v) ELSE "none"
HandlerOf(b) ==
  IF IsAttestationRequest(b) THEN "Attest"
  ELSE IF IsClientMessage(b) THEN ClientHandler(b[1].v)
       ELSE IF IsSnapshotRequest(b) THEN "Snapshot" ELSE "none"
\* A message without an answer: a gossiped transaction is tagged, a vertex is not.
GossipHandler(b) == IF Size(b) >= 1 /\ b[1].v = \h12 THEN "GossipTx" ELSE "Vertex"

Dispatch(h) ==
  /\ handler' = h
  /\ phase' = IF h = "none" THEN "dropped" ELSE "handled"
  /\ got' = IF h = "none" THEN got ELSE Decode(CodecOf[h].dec, Start(Payload))
  /\ UNCHANGED <<kind, size, full, sent, arrived>>

OnRequest == phase = "read" /\ kind \in DOMAIN Requests /\ Dispatch(HandlerOf(Payload))
OnMessage == phase = "read" /\ kind \in DOMAIN Gossip /\ Dispatch(GossipHandler(Payload))
\* The requester waits on the stream of its own request: it knows what it asked for.
OnReply == phase = "read" /\ kind \in DOMAIN Replies /\ Dispatch(kind)
LoadRecord == phase = "built" /\ kind \in DOMAIN Records /\ Dispatch(kind)

Done == phase \in {"handled", "dropped"} /\ UNCHANGED vars

Next ==
  \/ phase = "built" /\ \E n \in Ends(Payload) : Older(n)
  \/ phase = "built" /\ \E n \in (0..3) \cup {lengthPrefixSize + e : e \in Ends(Payload) \cup {sent}} :
       WriteMessage(n)
  \/ ReadMessage \/ OnRequest \/ OnMessage \/ OnReply \/ LoadRecord
  \/ Done
Spec == Init /\ [][Next]_vars

-----------------------------------------------------------------------------
(* Properties.                                                              *)

Returned == phase = "handled" /\ ~Failed(got)
Current == sent = full

\* Between nodes of one version a message is read as it was built, by the handler it
\* was meant for, or not at all: whatever byte the connection breaks at, whatever the
\* sizes of its lists, and although a snapshot request has no tag and its first byte
\* lies among the client tags.
DeliveredWhole ==
  phase = "handled" /\ Current => handler = kind /\ Returned /\ got.got = Message(kind, size)

\* What a decoder may return of a shorter record: the fields from the start, each as it
\* was written, the last list or the trailing text cut, and for a truncated
\* length-prefixed record an empty one.
LenientLists == {"GetVertexRangeResp", "GetIndexAnchorResp", "HolderSnapshot", "LiveValidators",
                 "SnapshotValidators"}
Emptying == {"MemberSet", "HashList", "EpochFees", "PerEpochCounters", "RegimeState"}
IsRest(i) == CodecOf[kind].enc[i].t = "rest"
FieldSound(i, v, w) ==
  \/ v = w
  \/ IsRest(i) /\ (v.len = 0 \/ (v.len <= w.len /\ v.of = w.of))
  \/ kind \in LenientLists /\ ~IsRest(i) /\ CodecOf[kind].enc[i].t \in {"list", "many"} /\ IsPrefix(v, w)
  \/ kind \in Emptying /\ CodecOf[kind].enc[i].t \in {"list", "sub"}
       /\ (v = <<>> \/ v = SubSeq(w, 1, Len(v)) \/ v[1][2] = SubSeq(w[1][2], 1, Len(v[1][2])))
Within(g, m) == /\ Len(g) <= Len(m)
                /\ \A i \in DOMAIN g : g[i][1] = m[i][1] /\ FieldSound(i, g[i][2], m[i][2])

\* Reading a record that ends early never runs past its end and never takes one field
\* for another: the decoder refuses it, or returns the fields that are there.  Proofs,
\* child lists, ancestor walks and validator trees are returned whole or refused.
ShortReadSound ==
  phase = "handled" /\ handler = kind =>
    got.st \notin {"panic", "misread"} /\ (Returned => Within(got.got, Message(kind, size)))
=============================================================================
