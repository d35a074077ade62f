------------------------------- MODULE MCNode -------------------------------
(***************************************************************************)
(* What surrounds consensus, one service at a time: the attestation of a   *)
(* replicated object, the relay of a payload, the admission of clients,    *)
(* the status a client is told, a message on the wire, and a transaction   *)
(* on its way from a wallet to execution.  The services share no state, so *)
(* each runs while the others rest in their first state.                   *)
(***************************************************************************)
EXTENDS Attestation, Relay, Gate, Submissions

VARIABLES
  service,   \* "attest", "relay", "gate", "status", "wire" or "hops"
  message, size, full, sent, arrived, phase, handler, got,
  given, signers, tx, held, at, cause

wireVars == <<message, size, full, sent, arrived, phase, handler, got>>
hopsVars == <<given, signers, tx, held, at, cause>>

Wire == INSTANCE Wire WITH Sizes <- 0..2, kind <- message
Hops == INSTANCE TxHops WITH
  Sender <- "sender", Sponsor <- "sponsor", Stranger <- "stranger",
  Singletons <- {"coin", "reserve"}, Replicated <- {"doc"}, Pod <- "system", body <- tx

\* Three nodes of which two hold the object; the set changes at each epoch, and a node
\* that lost the object holds it again.
MCRanking == <<<<"a", "b", "c">>, <<"c", "b", "a">>, <<"a", "b", "c">>, <<"a", "b", "c">>>>

\* A service that has more than one first state is in this one while it rests.
Off == "off"
RelayRests == kind = "tx"
GateRests == \A s \in Streams : bytes[s] = 1
WireRests == /\ message = Off /\ size = Off /\ full = Off /\ sent = Off /\ arrived = Off
             /\ phase = Off /\ handler = Off /\ got = Off
HopsRests == given = Off /\ signers = Off /\ tx = Off /\ held = Off /\ at = Off /\ cause = Off

MCInit ==
  /\ service \in {"attest", "relay", "gate", "status", "wire", "hops"}
  /\ Init /\ RelayInit /\ GateInit /\ StatusInit
  /\ service = "relay" \/ RelayRests
  /\ service = "gate" \/ GateRests
  /\ IF service = "wire" THEN Wire!Init ELSE WireRests
  /\ IF service = "hops" THEN Hops!Init ELSE HopsRests

MCNext ==
  \/ /\ service = "attest" /\ Next
     /\ UNCHANGED <<service, relayVars, gateVars, statusVars, wireVars, hopsVars>>
  \/ /\ service = "relay" /\ RelayNext
     /\ UNCHANGED <<service, avars, gateVars, statusVars, wireVars, hopsVars>>
  \/ /\ service = "gate" /\ GateNext
     /\ UNCHANGED <<service, avars, relayVars, statusVars, wireVars, hopsVars>>
  \/ /\ service = "status" /\ StatusNext
     /\ UNCHANGED <<service, avars, relayVars, gateVars, wireVars, hopsVars>>
  \/ /\ service = "wire" /\ Wire!Next
     /\ UNCHANGED <<service, avars, relayVars, gateVars, statusVars, hopsVars>>
  \/ /\ service = "hops" /\ Hops!Next
     /\ UNCHANGED <<service, avars, relayVars, gateVars, statusVars, wireVars>>

MCSpec ==
  MCInit /\ [][MCNext]_<<service, avars, relayVars, gateVars, statusVars, wireVars, hopsVars>>

-----------------------------------------------------------------------------
(* The properties of the four that are extended are those of their modules. *)

\* Between nodes of one version a message is read as it was built, by the handler it
\* was meant for, or not at all (writeMessage, readMessage, setupRequestHandlers).
DeliveredWhole == service = "wire" => Wire!DeliveredWhole

\* A record that ends early is refused, or read as the fields that are there: no decoder
\* runs past the end or takes one field for another (the Decode functions).
ShortReadSound == service = "wire" => Wire!ShortReadSound

\* No rebuild on the way of a transaction the client library built changes a field, so
\* nothing on its way refuses it for its hash, signature, shape or vertex body
\* (RebuildTxInBuilder, ValidateTx, verifyTxAuthenticity, computeBodyHash).
HonestNeverRefused == service = "hops" => Hops!HonestNeverRefused

\* What runs is what was signed, with the bodies of its objects as their holders store
\* them, whichever of the two ways in it took (executeTx, serializeInput).
ExecutedAsSigned == service = "hops" => Hops!ExecutedAsSigned

=============================================================================
