------------------------------- MODULE Relay --------------------------------
(***************************************************************************)
(* Gossip between mesh peers: sending (internal/network/peer.go Send,      *)
(* node.go Broadcast and Gossip), the blocklist and the duplicate filter   *)
(* every received message passes (peer.go handleUniStream, dedup.go), and  *)
(* the handlers that forward what they accept (cmd/node/handlers.go).      *)
(*                                                                         *)
(* One payload travels: a tagged transaction, forwarded every time it is   *)
(* handled, or a vertex, forwarded on first sight.  Time is counted in     *)
(* ticks; a copy in flight and a Check under way last at most MaxDelay,    *)
(* well under the filter's window.                                         *)
(***************************************************************************)
EXTENDS Integers, FiniteSets

CONSTANTS
  Peers,     \* the nodes of a full mesh
  Origin,    \* the node the payload enters at
  Ttl,       \* the filter's window (defaultDedupTTL)
  Fanout,    \* peers a forward reaches
  MaxDelay,  \* bound: ticks a copy or a Check may take
  MaxTime,   \* bound: ticks
  MaxSends,  \* bound: times the origin announces the payload
  MaxBlocks  \* bound: partitions set

VARIABLES
  kind,      \* "tx" or "vertex"
  clock,
  flying,    \* the copies on the wire: [from, to, sent]
  checks,    \* the Checks past their first look-up: [at, from, now]
  seen,      \* node -> time its filter recorded the payload, or Never
  added,    \* the nodes whose AddVertex has the vertex
  handled,   \* node -> stamp of its last call of the message handler, or Never
  spacing,   \* least distance between the stamps of two calls at one node
  filtered,  \* the nodes whose filter has dropped a copy
  blocked,   \* node -> keys on its blocklist
  sends, blocks

relayVars == <<kind, clock, flying, checks, seen, added, handled, spacing, filtered,
               blocked, sends, blocks>>

Never == 0 - Ttl

RelayInit ==
  /\ kind \in {"tx", "vertex"}
  /\ clock = 0
  /\ flying = {}
  /\ checks = {}
  /\ seen = [n \in Peers |-> Never]
  /\ added = {}
  /\ handled = [n \in Peers |-> Never]
  /\ spacing = Ttl
  /\ filtered = {}
  /\ blocked = [n \in Peers |-> {}]
  /\ sends = 0
  /\ blocks = 0

-----------------------------------------------------------------------------

\* A send to a blocked peer is dropped in silence.
Send(n, to) == {[from |-> n, to |-> p, sent |-> clock] : p \in to \ blocked[n]}

\* Gossip picks its targets at random among the peers, all of them when the
\* fanout covers them.
selectRandomPeers(n, k) ==
  LET others == Peers \ {n} IN
  IF k >= Cardinality(others) THEN {others}
  ELSE {S \in SUBSET others : Cardinality(S) = k}

\* The origin broadcasts: a submitted transaction once, its own frontier vertex
\* at every liveness tick.
Broadcast ==
  /\ sends < (IF kind = "tx" THEN 1 ELSE MaxSends)
  /\ sends' = sends + 1
  /\ flying' = flying \cup Send(Origin, Peers \ {Origin})
  /\ added' = added \cup {Origin}
  /\ UNCHANGED <<kind, clock, checks, seen, handled, spacing, filtered, blocked, blocks>>

\* A send that fails or times out loses its copy.
SendFails(c) ==
  /\ c \in flying
  /\ flying' = flying \ {c}
  /\ UNCHANGED <<kind, clock, checks, seen, added, handled, spacing, filtered, blocked, sends, blocks>>

Fresh(n, now) == seen[n] # Never /\ now - seen[n] < Ttl

\* Mutant: the filter is consulted before the blocklist.
FilterThenBlock(c) ==
  /\ c \in flying
  /\ flying' = flying \ {c}
  /\ IF Fresh(c.to, clock)
     THEN /\ filtered' = filtered \cup {c.to}
          /\ UNCHANGED <<checks, seen>>
     ELSE IF c.from \in blocked[c.to]
     THEN /\ seen' = [seen EXCEPT ![c.to] = clock]
          /\ UNCHANGED <<checks, filtered>>
     ELSE /\ checks' = checks \cup {[at |-> c.to, from |-> c.from, now |-> clock]}
          /\ UNCHANGED <<filtered, seen>>
  /\ UNCHANGED <<kind, clock, added, handled, spacing, blocked, sends, blocks>>

\* The message is whole: dropped when its sender is blocked, before the filter
\* can record it; then the filter's look-up under the read lock.
handleUniStream(c) ==
  /\ c \in flying
  /\ flying' = flying \ {c}
  /\ IF c.from \in blocked[c.to]
     THEN UNCHANGED <<checks, filtered>>
     ELSE IF Fresh(c.to, clock)
     THEN /\ filtered' = filtered \cup {c.to}
          /\ UNCHANGED checks
     ELSE /\ checks' = checks \cup {[at |-> c.to, from |-> c.from, now |-> clock]}
          /\ UNCHANGED filtered
  /\ UNCHANGED <<kind, clock, seen, added, handled, spacing, blocked, sends, blocks>>

\* A transaction is pooled and forwarded whenever it is handled; a vertex is
\* forwarded when AddVertex takes it.
handleGossipMessage(n) ==
  /\ IF kind = "tx" \/ n \notin added
     THEN \E to \in selectRandomPeers(n, Fanout) : flying' = flying \cup Send(n, to)
     ELSE UNCHANGED flying
  /\ added' = added \cup {n}

\* The payload is recorded under the stamp read when the Check began, and handed
\* to the handler.
Record(k) ==
  /\ seen' = [seen EXCEPT ![k.at] = k.now]
  /\ handled' = [handled EXCEPT ![k.at] = k.now]
  /\ spacing' = LET apart == k.now - handled[k.at]
                IN  IF handled[k.at] # Never /\ apart < spacing THEN apart ELSE spacing
  /\ handleGossipMessage(k.at)
  /\ UNCHANGED filtered

\* Mutant: no second look-up under the write lock.
CheckOnce(k) ==
  /\ k \in checks
  /\ checks' = checks \ {k}
  /\ Record(k)
  /\ UNCHANGED <<kind, clock, blocked, sends, blocks>>

\* The second look-up, under the write lock.
Check(k) ==
  /\ k \in checks
  /\ checks' = checks \ {k}
  /\ IF Fresh(k.at, k.now)
     THEN /\ filtered' = filtered \cup {k.at}
          /\ UNCHANGED <<flying, seen, added, handled, spacing>>
     ELSE Record(k)
  /\ UNCHANGED <<kind, clock, blocked, sends, blocks>>

\* The cleanup goroutine forgets what is past the window.
cleanup(n) ==
  /\ seen[n] # Never
  /\ clock - seen[n] >= Ttl
  /\ seen' = [seen EXCEPT ![n] = Never]
  /\ UNCHANGED <<kind, clock, flying, checks, added, handled, spacing, filtered, blocked, sends, blocks>>

\* SetBlocklist partitions a node from some peers, ClearBlocklist heals it.
SetBlocklist(n, S) ==
  /\ blocks < MaxBlocks
  /\ blocks' = blocks + 1
  /\ blocked' = [blocked EXCEPT ![n] = S]
  /\ UNCHANGED <<kind, clock, flying, checks, seen, added, handled, spacing, filtered, sends>>

ClearBlocklist(n) ==
  /\ blocked[n] # {}
  /\ blocked' = [blocked EXCEPT ![n] = {}]
  /\ UNCHANGED <<kind, clock, flying, checks, seen, added, handled, spacing, filtered, sends, blocks>>

Tick ==
  /\ clock < MaxTime
  /\ \A c \in flying : clock - c.sent < MaxDelay
  /\ \A k \in checks : clock - k.now < MaxDelay
  /\ clock' = clock + 1
  /\ UNCHANGED <<kind, flying, checks, seen, added, handled, spacing, filtered, blocked, sends, blocks>>

RelayDone ==
  /\ clock = MaxTime
  /\ flying = {} /\ checks = {}
  /\ UNCHANGED relayVars

RelayNext ==
  \/ Broadcast
  \/ \E c \in flying : SendFails(c) \/ handleUniStream(c)
  \/ \E k \in checks : Check(k)
  \/ \E n \in Peers : cleanup(n) \/ ClearBlocklist(n)
  \/ \E n \in Peers \ {Origin} : SetBlocklist(n, {Origin})
  \/ Tick
  \/ RelayDone

RelaySpec == RelayInit /\ [][RelayNext]_relayVars

-----------------------------------------------------------------------------

\* A copy is filtered only at a node that has handled the payload: what arrives
\* during a partition does not make the filter swallow the same message when it
\* is announced again after the partition heals (handleUniStream, Dedup.Check).
FilteredWasHandled == \A n \in filtered : handled[n] # Never

\* Copies that race each other through the filter reach the handler once: two
\* calls of the handler with one payload are a window apart, less the time a
\* Check may take while cleanup expires the entry behind it (Dedup.Check,
\* cleanup).
HandledApart == spacing >= Ttl - MaxDelay

=============================================================================
