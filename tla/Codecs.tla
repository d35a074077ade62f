------------------------------- MODULE Codecs -------------------------------
(***************************************************************************)
(* The record formats of the node, its clients and its data directory: for *)
(* each, what the encoder writes and what the decoder reads, taken         *)
(* separately from the two Go functions.                                   *)
(***************************************************************************)
EXTENDS Layouts

Codec(enc, dec) == [enc |-> enc, dec |-> dec]
\* A message without a body: its request decoder reads nothing beyond the tag.
Bare(x) == Codec(<<Tag(x)>>, <<Need(1), Tag(x)>>)

-----------------------------------------------------------------------------
(* Client requests and their answers (internal/network/messages.go).        *)

GossipTx == Codec(<<Tag(\h12), Rest("body")>>, <<Need(1), Tag(\h12), Rest("body")>>)
SubmitTx == Codec(<<Tag(\h04), Rest("body")>>, <<Need(1), Tag(\h04), Rest("body")>>)
SubmitTxResp == Codec(<<Tag(\h11), Blob("hash", 2), Rest("err")>>,
                      <<Need(3), Tag(\h11), StrictBlob("hash", 2), Rest("err")>>)
GetObject == Codec(<<Tag(\h05), Fix("id", 32), Fix("localOnly", 1)>>,
                   <<Need(33), Tag(\h05), Fix("id", 32), Until(1), Fix("localOnly", 1)>>)
GetObjectResp == Codec(<<Tag(\h06), Fix("found", 1), Rest("data")>>,
                       <<Need(2), Tag(\h06), Fix("found", 1), Rest("data")>>)
GetValidators == Bare(\h07)
GetValidatorsResp ==
  LET entry == <<Fix("pubkey", 32), Fix("bls", 48), Blob("addr", 2)>>
  IN  Codec(<<Tag(\h08), Fix("epoch", 8), List("validators", 4, entry)>>,
            <<Need(13), Tag(\h08), Fix("epoch", 8),
              List("validators", 4,
                   <<Need(82), Fix("pubkey", 32), Fix("bls", 48), StrictBlob("addr", 2)>>)>>)
Status == Bare(\h09)
\* The status answer grew three times; a decoder accepts the answer of an older node.
StatusResp ==
  LET first == <<Fix("round", 8), Fix("epochLength", 8), Fix("epoch", 8)>>
      second == <<Fix("lastCommitted", 8), Fix("validators", 4), Fix("epochHolders", 4),
                  Fix("systemPod", 32)>>
      third == <<Fix("totalTx", 8), Fix("tps", 4), Fix("peers", 4)>>
      fourth == <<Fix("strictStart", 8), Fix("latched", 1)>>
  IN  Codec(<<Tag(\h0A)>> \o first \o second \o third \o fourth,
            <<Need(25), Tag(\h0A)>> \o first \o <<Until(48)>> \o second
            \o <<Until(16)>> \o third \o <<Until(9)>> \o fourth)
Health == Bare(\h0B)
HealthResp == Codec(<<Tag(\h0C), Fix("ok", 1)>>, <<Need(2), Tag(\h0C), Fix("ok", 1)>>)
Faucet == Codec(<<Tag(\h0D), Fix("pubkey", 32), Fix("amount", 8)>>,
                <<Need(41), Tag(\h0D), Fix("pubkey", 32), Fix("amount", 8)>>)
\* The hash is checked together with the length byte of the coin behind it.
FaucetResp == Codec(<<Tag(\h0E), Blob("hash", 1), Blob("coin", 1), Rest("err")>>,
                    <<Need(2), Tag(\h0E), StrictBlob("hash", 1), Need(1), StrictBlob("coin", 1),
                      Rest("err")>>)
GetTxStatus == Codec(<<Tag(\h13), Fix("hash", 32)>>, <<Need(33), Tag(\h13), Fix("hash", 32)>>)
GetTxStatusResp == Codec(<<Tag(\h14), Fix("status", 1), Fix("reason", 1)>>,
                         <<Need(3), Tag(\h14), Fix("status", 1), Fix("reason", 1)>>)
GetVertex == Codec(<<Tag(\h15), Fix("hash", 32)>>, <<Need(33), Tag(\h15), Fix("hash", 32)>>)
GetVertexResp == Codec(<<Tag(\h16), Fix("found", 1), Rest("data")>>,
                       <<Need(2), Tag(\h16), Fix("found", 1), Rest("data")>>)
GetVertexRange == Codec(<<Tag(\h1B), Fix("from", 8), Fix("to", 8)>>,
                        <<Need(17), Tag(\h1B), Fix("from", 8), Fix("to", 8)>>)
\* Mutant: a decoder of vertex ranges that trusts the lengths of the peer.
TrustingVertexRangeResp ==
  Codec(<<Tag(\h1C), List("vertices", 4, <<Blob("vertex", 4)>>)>>,
        <<Need(5), Tag(\h1C), List("vertices", 4, <<Blob("vertex", 4)>>)>>)
GetVertexRangeResp ==
  Codec(<<Tag(\h1C), List("vertices", 4, <<Blob("vertex", 4)>>)>>,
        <<Need(5), Tag(\h1C), List("vertices", 4, <<LaxBlob("vertex", 4)>>)>>)

-----------------------------------------------------------------------------
(* Proved index queries (provedanchor.go, indexqueries.go, validatortree.go). *)

ProvedAnchor == <<Fix("anchored", 1), Fix("frontier", 8), Fix("indexRoot", 32),
                  Fix("domainRoot", 32), Fix("parentRoot", 32), Fix("childrenRoot", 32),
                  Fix("validatorRoot", 32)>>
GetIndexAnchor == Bare(\h1D)
GetIndexAnchorResp ==
  LET fixed == <<Fix("found", 1), Fix("frontier", 8), Fix("indexRoot", 32), Fix("epoch", 8)>>
  IN  Codec(<<Tag(\h1E)>> \o fixed \o <<List("headers", 4, <<Fix("record", 184)>>)>>,
            <<Need(54), Tag(\h1E)>> \o fixed
            \o <<List("headers", 4, <<Until(184), Fix("record", 184)>>)>>)
DomainResolve == Codec(<<Tag(\h0F), Rest("name")>>, <<Need(1), Tag(\h0F), Rest("name")>>)
DomainResolveResp ==
  LET fixed == ProvedAnchor \o <<Fix("found", 1), Fix("id", 32)>>
  IN  Codec(<<Tag(\h10)>> \o fixed \o <<Blob("leaf", 4), Blob("proof", 4)>>,
            <<Need(203), Tag(\h10)>> \o fixed \o <<StrictBlob("leaf", 4), StrictBlob("proof", 4)>>)
ListChildren == Codec(<<Tag(\h1F), Fix("parent", 32)>>, <<Need(33), Tag(\h1F), Fix("parent", 32)>>)
\* All the child identifiers or an error: count * 32 is checked before the first is read.
ListChildrenResp ==
  LET fixed == ProvedAnchor \o <<Fix("found", 1), Fix("subtreeRoot", 32)>>
  IN  Codec(<<Tag(\h20)>> \o fixed \o <<Blob("proof", 4), List("children", 4, <<Fix("child", 32)>>)>>,
            <<Need(203), Tag(\h20)>> \o fixed
            \o <<StrictBlob("proof", 4), Need(4),
                 List("children", 4, <<Need(32), Fix("child", 32)>>)>>)
GetAncestors == Codec(<<Tag(\h21), Fix("object", 32)>>, <<Need(33), Tag(\h21), Fix("object", 32)>>)
GetAncestorsResp ==
  Codec(<<Tag(\h22)>> \o ProvedAnchor
        \o <<List("edges", 4, <<Fix("child", 32), Blob("leaf", 4), Blob("proof", 4)>>)>>,
        <<Need(174), Tag(\h22)>> \o ProvedAnchor
        \o <<List("edges", 4, <<Need(32), Fix("child", 32), StrictBlob("leaf", 4),
                                StrictBlob("proof", 4)>>)>>)
GetValidatorTree == Codec(<<Tag(\h23), Fix("epoch", 8)>>, <<Need(9), Tag(\h23), Fix("epoch", 8)>>)
GetValidatorTreeResp ==
  LET fixed == ProvedAnchor \o <<Fix("found", 1), Fix("epoch", 8)>>
  IN  Codec(<<Tag(\h24)>> \o fixed \o <<List("leaves", 4, <<Blob("leaf", 4)>>)>>,
            <<Need(183), Tag(\h24)>> \o fixed \o <<List("leaves", 4, <<StrictBlob("leaf", 4)>>)>>)

-----------------------------------------------------------------------------
(* Test hooks, attestations, snapshot requests.                             *)

StateFingerprint == Bare(\h17)
StateFingerprintResp ==
  LET fixed == <<Fix("round", 8), Fix("checksum", 32), Fix("supply", 8), Fix("coins", 8),
                 Fix("bonded", 8), Fix("deposits", 8), Fix("fees", 8)>>
  IN  Codec(<<Tag(\h18)>> \o fixed \o <<Rest("err")>>,
            <<Need(81), Tag(\h18)>> \o fixed \o <<Rest("err")>>)
TestControl == Codec(<<Tag(\h19), Fix("op", 1), List("peers", 4, <<Fix("peer", 32)>>)>>,
                     <<Need(6), Tag(\h19), Fix("op", 1),
                       List("peers", 4, <<Need(32), Fix("peer", 32)>>)>>)
TestControlResp == Codec(<<Tag(\h1A), Rest("err")>>, <<Need(1), Tag(\h1A), Rest("err")>>)
AttestRequest == Codec(<<Tag(1), Fix("object", 32), Fix("version", 8)>>,
                       <<Need(41), Tag(1), Fix("object", 32), Fix("version", 8)>>)
AttestPositive == Codec(<<Tag(2), Fix("hash", 32), Fix("signature", 96)>>,
                        <<Need(129), Tag(2), Fix("hash", 32), Fix("signature", 96)>>)
AttestNegative == Codec(<<Tag(3), Fix("reason", 1)>>, <<Need(2), Tag(3), Fix("reason", 1)>>)
\* Untagged FlatBuffers: what the code looks at is their first byte, the low byte of
\* the offset of the root table.  The library writes the rest.
SnapshotRequest == Codec(<<Tag(\h0C), Fix("vtable", 11), Fix("requestId", 8)>>,
                         <<Need(8), Tag(\h0C), Fix("vtable", 11), Fix("requestId", 8)>>)
Vertex == LET all == <<Tag(\h20), Fix("vtable", 31), Rest("table")>> IN Codec(all, <<Need(8)>> \o all)

-----------------------------------------------------------------------------
(* Values of the index trees, the data directory and a sync snapshot.       *)

Proof == Codec(<<List("siblings", 4, <<Fix("sibling", 32)>>), Blob("leaf", 4)>>,
               <<Need(4), List("siblings", 4, <<Need(32), Fix("sibling", 32)>>),
                 StrictBlob("leaf", 4), Exactly(0)>>)
DomainLeaf ==
  Codec(<<Blob("name", 4), Fix("id", 32), Fix("owner", 32), Fix("expiry", 8)>>,
        <<Need(4), StrictBlob("name", 4), Exactly(72), Fix("id", 32), Fix("owner", 32),
          Fix("expiry", 8)>>)
ParentLeaf == LET all == <<Fix("child", 32), Fix("kind", 1), Fix("parent", 32)>>
              IN  Codec(all, <<Exactly(65)>> \o all)
ValidatorLeaf == LET all == <<Fix("pubkey", 32), Fix("stake", 8), Fix("bls", 48), Fix("status", 1)>>
                 IN  Codec(all, <<Exactly(89)>> \o all)
VertexHeader == <<Fix("producer", 32), Fix("round", 8), Fix("epoch", 8), Fix("frontier", 8),
                  Fix("indexRoot", 32), Fix("bodyHash", 32)>>
FaultRecord == LET all == VertexHeader \o <<Fix("signature", 64), Fix("computed", 32)>>
               IN  Codec(all, <<Exactly(216)>> \o all)
\* A value of the legacy length is a name without owner and lease.
DomainValue == Codec(<<Fix("id", 32), Fix("owner", 32), Fix("expiry", 8)>>,
                     <<Need(32), Fix("id", 32), Until(1), Exactly(40), Fix("owner", 32),
                       Fix("expiry", 8)>>)
TrackerValue ==
  Codec(<<Fix("version", 8), Fix("replication", 2), Fix("fees", 8), Fix("parentKind", 1),
          Fix("parent", 32), Fix("childCount", 4)>>,
        <<Need(10), Fix("version", 8), Fix("replication", 2), Until(8), Fix("fees", 8), Until(37),
          Fix("parentKind", 1), Fix("parent", 32), Fix("childCount", 4)>>)
DelegationContent == Codec(<<Fix("validator", 32), Fix("amount", 8)>>,
                           <<Exactly(40), Fix("validator", 32), Fix("amount", 8)>>)

ValidatorRecord == <<Fix("pubkey", 32), Fix("bls", 48), Fix("self", 8), Fix("delegated", 8),
                     Fix("jailed", 1), Blob("addr", 2)>>
DecodeValidatorRecord == <<Until(99), Fix("pubkey", 32), Fix("bls", 48), Fix("self", 8),
                           Fix("delegated", 8), Fix("jailed", 1), LaxBlob("addr", 2)>>
HolderSnapshot == Codec(<<List("holders", 4, ValidatorRecord)>>,
                        <<Until(4), List("holders", 4, DecodeValidatorRecord)>>)
LiveValidators ==
  Codec(<<List("validators", 4, ValidatorRecord \o <<Fix("rewardCoin", 32)>>)>>,
        <<Until(4), List("validators", 4,
                         DecodeValidatorRecord \o <<Until(32), Fix("rewardCoin", 32)>>)>>)
\* The validator list of a snapshot has no count; its lengths are little-endian.
SnapshotValidators ==
  LET stake == <<Fix("self", 8), Fix("delegated", 8), Fix("jailed", 1)>>
  IN  Codec(<<Many("validators", <<Fix("pubkey", 32), Blob("addr", 2), Fix("bls", 48)>> \o stake
                                 \o <<Fix("rewardCoin", 32)>>)>>,
            <<Many("validators",
                   <<Until(32), Fix("pubkey", 32), LaxBlob("addr", 2), Until(48), Fix("bls", 48),
                     Until(17)>> \o stake \o <<Until(32), Fix("rewardCoin", 32)>>)>>)
MemberSet == Codec(<<List("members", 4, <<Fix("member", 32)>>)>>,
                   <<Counted("members", 4, <<Fix("member", 32)>>, 32)>>)
HashList == Codec(<<List("hashes", 4, <<Fix("hash", 32)>>)>>,
                  <<Counted("hashes", 4, <<Fix("hash", 32)>>, 32)>>)
EpochFees == LET all == <<Fix("epoch", 8), Fix("fees", 8)>>
             IN  Codec(<<List("pools", 4, all)>>, <<Counted("pools", 4, all, 16)>>)
CounterSet == LET all == <<Fix("key", 32), Fix("count", 8)>>
              IN  Codec(<<List("counters", 4, all)>>, <<Counted("counters", 4, all, 40)>>)
PerEpochCounters ==
  Codec(<<List("epochs", 4, <<Fix("epoch", 8), Sub("set", CounterSet.enc)>>)>>,
        <<Until(4), List("epochs", 4, <<OrNone(8), Fix("epoch", 8), Sub("set", CounterSet.dec),
                                        NonEmpty>>)>>)
EpochAccumulators(c) ==
  <<Sub("fees", IF c = "enc" THEN EpochFees.enc ELSE EpochFees.dec),
    Sub("produced", IF c = "enc" THEN PerEpochCounters.enc ELSE PerEpochCounters.dec),
    Sub("additions", IF c = "enc" THEN HashList.enc ELSE HashList.dec),
    Sub("removals", IF c = "enc" THEN MemberSet.enc ELSE MemberSet.dec)>>
RegimeState ==
  LET fixed == <<Fix("currentEpoch", 8), Fix("latched", 1), Fix("strictStart", 8)>>
      holders(of) == <<Sub("epochHolders", of), Sub("prevHolders", of), Sub("nextHolders", of)>>
      members(of) == <<Sub("produced", of), Sub("eligible", of), Sub("prevEligible", of),
                       Sub("nextEligible", of), Sub("committed", of)>>
  IN  Codec(fixed \o holders(HolderSnapshot.enc) \o members(MemberSet.enc) \o EpochAccumulators("enc"),
            <<OrNone(17)>> \o fixed \o holders(HolderSnapshot.dec) \o members(MemberSet.dec)
            \o EpochAccumulators("dec"))

-----------------------------------------------------------------------------
(* Arguments of system-pod functions.                                       *)

RegisterValidatorArgs ==
  Codec(<<Blob("quic", 4), Blob("bls", 4), Blob("pop", 4), Blob("rewardCoin", 4)>>,
        <<LaxBlob("quic", 4), LaxBlob("bls", 4), LaxBlob("pop", 4), LaxBlob("rewardCoin", 4)>>)
DelegateArgs == Codec(<<Fix("validator", 32), Fix("amount", 8)>>,
                      <<Need(40), Fix("validator", 32), Fix("amount", 8)>>)
StakeArgs == Codec(<<Fix("amount", 8)>>, <<Need(8), Fix("amount", 8)>>)
=============================================================================
