-------------------------------- MODULE Mesh --------------------------------
(***************************************************************************)
(* The peer map of the QUIC mesh (internal/network/node.go, peer.go) and   *)
(* the dialers that fill it (cmd/node/handlers.go, cmd/node/sync.go),      *)
(* between two nodes.  The map holds one entry per remote key and every    *)
(* key is treated apart, so a pair of nodes shows what any mesh does.      *)
(*                                                                         *)
(* Both ends dial each other, so several connections may join the pair at  *)
(* once: the newest set up replaces the entry, and the older ones keep     *)
(* receiving outside the map.  A connection is a number; either end learns *)
(* of its death by itself, when its receive loop fails.                    *)
(***************************************************************************)
EXTENDS Naturals, FiniteSets

CONSTANTS
  Pair,        \* the two nodes
  Joiners,     \* those started with a bootstrap address to dial
  MaxRetries,  \* attempts connectToValidator makes (maxRetries)
  MaxConns,    \* bound: connections open, or not yet forgotten by both ends
  MaxDrops,    \* bound: connections lost by the network
  MaxStops     \* bound: nodes stopped

VARIABLES
  running,    \* the nodes whose process is up
  live,       \* the connections still open on the wire
  accepting,  \* node -> connections its acceptLoop handed to handleIncoming
  peer,       \* node -> the connections whose Peer is not closed
  peers,      \* node -> the connection its map names, 0 when it has no entry
  knownAddrs, \* the nodes that remember the other's address
  waiting,    \* node -> reconnectPeer loops in their delay
  dialing,    \* node -> reconnectPeer loops inside Connect
  attempts,   \* node -> attempts connectToValidator has left
  added,      \* the nodes told of the other's registration
  drops, stops

vars == <<running, live, accepting, peer, peers, knownAddrs, waiting,
          dialing, attempts, added, drops, stops>>

Conns == 1..MaxConns
Other(n) == CHOOSE m \in Pair : m # n

Init ==
  /\ running = Pair \ Joiners
  /\ live = {}
  /\ accepting = [n \in Pair |-> {}]
  /\ peer = [n \in Pair |-> {}]
  /\ peers = [n \in Pair |-> 0]
  /\ knownAddrs = {}
  /\ waiting = [n \in Pair |-> 0]
  /\ dialing = [n \in Pair |-> 0]
  /\ attempts = [n \in Pair |-> 0]
  /\ added = {}
  /\ drops = 0
  /\ stops = 0

-----------------------------------------------------------------------------

\* A Peer for the connection takes the entry of its key, whatever was there.
setupPeer(n, c) ==
  /\ peer' = [peer EXCEPT ![n] = @ \cup {c}]
  /\ peers' = [peers EXCEPT ![n] = c]
  /\ knownAddrs' = knownAddrs \cup {n}

\* A connection both ends have forgotten leaves its number to a later one.
Unused == Conns \ UNION {live \cup accepting[n] \cup peer[n] : n \in Pair}

\* The handshake completes at both ends; the dialer sets its Peer up at once,
\* the listener when its own goroutine runs.
Connect(n) ==
  /\ Other(n) \in running
  /\ Unused # {}
  /\ LET c == CHOOSE i \in Unused : \A j \in Unused : i <= j
     IN  /\ live' = live \cup {c}
         /\ accepting' = [accepting EXCEPT ![Other(n)] = @ \cup {c}]
         /\ setupPeer(n, c)

\* The process of a joiner starts by dialing its bootstrap, and exits when the
\* dial fails; a genesis node only listens.
Start(n) ==
  /\ n \notin running
  /\ running' = running \cup {n}
  /\ IF n \in Joiners
     THEN Connect(n)
     ELSE UNCHANGED <<live, accepting, peer, peers, knownAddrs>>
  /\ UNCHANGED <<waiting, dialing, attempts, added, drops, stops>>

\* An accepted connection joins the mesh even if it has died meanwhile.
handleIncoming(n, c) ==
  /\ n \in running
  /\ c \in accepting[n]
  /\ accepting' = [accepting EXCEPT ![n] = @ \ {c}]
  /\ setupPeer(n, c)
  /\ UNCHANGED <<running, live, waiting, dialing, attempts, added, drops, stops>>

\* The receive loop of a dead connection deletes the entry of its key, be it
\* its own or a newer one, and schedules a reconnection.
handlePeerDisconnect(n, c) ==
  /\ n \in running
  /\ c \in peer[n]
  /\ c \notin live
  /\ peer' = [peer EXCEPT ![n] = @ \ {c}]
  /\ peers' = [peers EXCEPT ![n] = 0]
  /\ waiting' = [waiting EXCEPT ![n] = @ + 1]
  /\ UNCHANGED <<running, live, accepting, knownAddrs, dialing, attempts, added, drops, stops>>

\* The delay is over: the loop ends when the address is gone or the key is back
\* in the map, and dials otherwise.
reconnectPeer(n) ==
  /\ waiting[n] > 0
  /\ waiting' = [waiting EXCEPT ![n] = @ - 1]
  /\ dialing' = IF n \in knownAddrs /\ peers[n] = 0
                THEN [dialing EXCEPT ![n] = @ + 1] ELSE dialing
  /\ UNCHANGED <<running, live, accepting, peer, peers, knownAddrs, attempts, added, drops, stops>>

\* The dial succeeds and the loop ends, although the key may be back by now.
Reconnected(n) ==
  /\ dialing[n] > 0
  /\ Connect(n)
  /\ dialing' = [dialing EXCEPT ![n] = @ - 1]
  /\ UNCHANGED <<running, waiting, attempts, added, drops, stops>>

\* Mutant: the loop ends at its first failed dial.
GiveUp(n) ==
  /\ dialing[n] > 0
  /\ dialing' = [dialing EXCEPT ![n] = @ - 1]
  /\ UNCHANGED <<running, live, accepting, peer, peers, knownAddrs, waiting, attempts, added, drops, stops>>

\* The dial fails, whatever the reason, and the loop waits twice as long.
ReconnectFails(n) ==
  /\ dialing[n] > 0
  /\ dialing' = [dialing EXCEPT ![n] = @ - 1]
  /\ waiting' = [waiting EXCEPT ![n] = @ + 1]
  /\ UNCHANGED <<running, live, accepting, peer, peers, knownAddrs, attempts, added, drops, stops>>

\* The commit of the other's registration calls the OnValidatorAdded callback.
OnValidatorAdded(n) ==
  /\ n \in running \ added
  /\ added' = added \cup {n}
  /\ attempts' = [attempts EXCEPT ![n] = MaxRetries]
  /\ UNCHANGED <<running, live, accepting, peer, peers, knownAddrs, waiting, dialing, drops, stops>>

\* One attempt: nothing more to do when the peer is in the map; a dial that
\* succeeds ends the loop and one that fails uses the attempt up.
connectToValidator(n) ==
  /\ attempts[n] > 0
  /\ \/ /\ peers[n] # 0
        /\ attempts' = [attempts EXCEPT ![n] = 0]
        /\ UNCHANGED <<live, accepting, peer, peers, knownAddrs>>
     \/ /\ peers[n] = 0
        /\ Connect(n)
        /\ attempts' = [attempts EXCEPT ![n] = 0]
     \/ /\ peers[n] = 0
        /\ attempts' = [attempts EXCEPT ![n] = @ - 1]
        /\ UNCHANGED <<live, accepting, peer, peers, knownAddrs>>
  /\ UNCHANGED <<running, waiting, dialing, added, drops, stops>>

\* The network loses a connection.
Drop(c) ==
  /\ c \in live
  /\ drops < MaxDrops
  /\ drops' = drops + 1
  /\ live' = live \ {c}
  /\ UNCHANGED <<running, accepting, peer, peers, knownAddrs, waiting, dialing, attempts, added, stops>>

\* The node stops: the transport takes every connection with it, the context
\* ends every loop, and the maps are gone with the process.
Close(n) ==
  /\ n \in running
  /\ stops < MaxStops
  /\ stops' = stops + 1
  /\ running' = running \ {n}
  /\ live' = {}
  /\ accepting' = [accepting EXCEPT ![n] = {}]
  /\ peer' = [peer EXCEPT ![n] = {}]
  /\ peers' = [peers EXCEPT ![n] = 0]
  /\ knownAddrs' = knownAddrs \ {n}
  /\ waiting' = [waiting EXCEPT ![n] = 0]
  /\ dialing' = [dialing EXCEPT ![n] = 0]
  /\ attempts' = [attempts EXCEPT ![n] = 0]
  /\ UNCHANGED <<added, drops>>

\* Both nodes are up and no loop is at work: they wait for streams.
Quiet ==
  /\ \A n \in Pair : n \in running /\ waiting[n] + dialing[n] = 0
  /\ UNCHANGED vars

Next ==
  \/ Quiet
  \/ \E n \in Pair :
       \/ Start(n)
       \/ \E c \in Conns : handleIncoming(n, c) \/ handlePeerDisconnect(n, c)
       \/ reconnectPeer(n)
       \/ Reconnected(n)
       \/ ReconnectFails(n)
       \/ OnValidatorAdded(n)
       \/ connectToValidator(n)
       \/ Close(n)
  \/ \E c \in Conns : Drop(c)

Spec == Init /\ [][Next]_vars

\* Goroutines run, and an operator restarts what stopped; a dial is retried for
\* ever, so of the attempts one eventually gets through.
Fairness ==
  \A n \in Pair :
    /\ WF_vars(Start(n))
    /\ WF_vars(\E c \in Conns : handleIncoming(n, c))
    /\ WF_vars(\E c \in Conns : handlePeerDisconnect(n, c))
    /\ WF_vars(reconnectPeer(n))
    /\ SF_vars(Reconnected(n))
    /\ WF_vars(connectToValidator(n))

FairSpec == Spec /\ Fairness

-----------------------------------------------------------------------------

\* The entry names an open connection.
Joined(n) == peers[n] \in live \cap peer[n]

\* Once the network stops losing connections and the nodes stay up, each keeps
\* an entry for the other that names an open connection, whatever crossing
\* dials, late accepts and late disconnects came before.
MeshHeals == <>[](\A n \in Pair : n \in running /\ Joined(n))

=============================================================================
