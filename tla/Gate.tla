-------------------------------- MODULE Gate --------------------------------
(***************************************************************************)
(* The ingress gate of anonymous client connections                        *)
(* (internal/network/clientconn.go): per source address, how many          *)
(* connections and request streams are open, how many request bytes are    *)
(* being processed, and a token bucket.  Addresses are accounted apart, so *)
(* one address is modelled.  Each stream is served by a goroutine of its   *)
(* own, which may outlive the connection it came on.                       *)
(***************************************************************************)
EXTENDS Integers, FiniteSets, FiniteSetsExt

CONSTANTS
  Clients,               \* connections that may be opened
  Streams,               \* request streams that may be opened
  ByteSizes,             \* sizes of requests
  maxClientConnsPerIP,
  maxClientStreamsPerIP,
  maxClientPendingBytesPerIP,
  clientRateBurst

VARIABLES
  scope,    \* the address's counters, or NoScope
  conn,     \* connection -> "new", "open" or "closed"
  stream,   \* stream -> "new", "reading", "serving" or "done"
  bytes     \* stream -> the size of its request

gateVars == <<scope, conn, stream, bytes>>

NoScope == [conns |-> 0, streams |-> 0, pendingBytes |-> 0, tokens |-> 0 - 1]
Absent == scope = NoScope

GateInit ==
  /\ scope = NoScope
  /\ conn = [c \in Clients |-> "new"]
  /\ stream = [s \in Streams |-> "new"]
  /\ bytes \in [Streams -> ByteSizes]

\* The scope of the address, created with a full bucket.
scopeFor == IF Absent THEN [NoScope EXCEPT !.tokens = clientRateBurst] ELSE scope

-----------------------------------------------------------------------------

Open == {c \in Clients : conn[c] = "open"}
Serving == {s \in Streams : stream[s] = "serving"}

\* A connection is refused when the address has its share, and counted.
admitConn(c) ==
  /\ conn[c] = "new"
  /\ IF scopeFor.conns >= maxClientConnsPerIP
     THEN /\ scope' = scopeFor
          /\ conn' = [conn EXCEPT ![c] = "closed"]
     ELSE /\ scope' = [scopeFor EXCEPT !.conns = @ + 1]
          /\ conn' = [conn EXCEPT ![c] = "open"]
  /\ UNCHANGED <<stream, bytes>>

\* Mutant: the scope goes with its last connection.
ReleaseScope(c) ==
  /\ conn[c] = "open"
  /\ conn' = [conn EXCEPT ![c] = "closed"]
  /\ scope' = IF Absent THEN scope
              ELSE IF scope.conns <= 1 THEN NoScope
              ELSE [scope EXCEPT !.conns = @ - 1]
  /\ UNCHANGED <<stream, bytes>>

\* The connection ends, idle or closed by the client; the scope goes when
\* nothing of it is in use.
releaseConn(c) ==
  /\ conn[c] = "open"
  /\ conn' = [conn EXCEPT ![c] = "closed"]
  /\ scope' = IF Absent THEN scope
              ELSE IF scope.conns <= 1 /\ scope.streams <= 0 /\ scope.pendingBytes <= 0
              THEN NoScope
              ELSE [scope EXCEPT !.conns = @ - 1]
  /\ UNCHANGED <<stream, bytes>>

\* A stream is accepted on an open connection; its request is then read.
AcceptStream(s) ==
  /\ stream[s] = "new"
  /\ Open # {}
  /\ stream' = [stream EXCEPT ![s] = "reading"]
  /\ UNCHANGED <<scope, conn, bytes>>

\* The request does not arrive whole.
ReadFails(s) ==
  /\ stream[s] = "reading"
  /\ stream' = [stream EXCEPT ![s] = "done"]
  /\ UNCHANGED <<scope, conn, bytes>>

\* The three caps, each tested before any of the request is processed.
RoomFor(s, sc) ==
  /\ sc.streams < maxClientStreamsPerIP
  /\ sc.pendingBytes + bytes[s] <= maxClientPendingBytesPerIP
  /\ sc.tokens >= 1

\* The whole request is read: it is admitted and served, or dropped; the scope
\* exists from here on even when its connection is already gone.
admitStream(s) ==
  /\ stream[s] = "reading"
  /\ IF RoomFor(s, scopeFor)
     THEN /\ scope' = [scopeFor EXCEPT !.streams = @ + 1,
                                       !.pendingBytes = @ + bytes[s],
                                       !.tokens = @ - 1]
          /\ stream' = [stream EXCEPT ![s] = "serving"]
     ELSE /\ scope' = scopeFor
          /\ stream' = [stream EXCEPT ![s] = "done"]
  /\ UNCHANGED <<conn, bytes>>

\* The handler has answered, or failed.
releaseStream(s) ==
  /\ stream[s] = "serving"
  /\ stream' = [stream EXCEPT ![s] = "done"]
  /\ scope' = IF Absent THEN scope
              ELSE [scope EXCEPT !.streams = @ - 1,
                                 !.pendingBytes = IF @ < bytes[s] THEN 0 ELSE @ - bytes[s]]
  /\ UNCHANGED <<conn, bytes>>

\* Time refills the bucket up to the burst.
Refill ==
  /\ ~Absent
  /\ scope.tokens < clientRateBurst
  /\ scope' = [scope EXCEPT !.tokens = @ + 1]
  /\ UNCHANGED <<conn, stream, bytes>>

GateDone ==
  /\ \A s \in Streams : stream[s] \in {"new", "done"}
  /\ \A c \in Clients : conn[c] = "closed"
  /\ UNCHANGED gateVars

GateNext ==
  \/ \E c \in Clients : admitConn(c) \/ releaseConn(c)
  \/ \E s \in Streams : AcceptStream(s) \/ ReadFails(s) \/ admitStream(s) \/ releaseStream(s)
  \/ Refill
  \/ GateDone

GateSpec == GateInit /\ [][GateNext]_gateVars

-----------------------------------------------------------------------------

\* The counters are those of what is really open, although scopes are dropped
\* and created again while streams outlive their connections: a client is never
\* refused for streams that have ended, nor served beyond what was counted
\* (releaseConn, admitStream, releaseStream).
CountsExact ==
  /\ scope.conns = Cardinality(Open)
  /\ scope.streams = Cardinality(Serving)
  /\ scope.pendingBytes = SumFunctionOnSet(bytes, Serving)

=============================================================================
