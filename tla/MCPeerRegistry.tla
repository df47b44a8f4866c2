---------------------------- MODULE MCPeerRegistry ----------------------------
(***************************************************************************)
(* The peers of a publisher, model-checked.  A behaviour is one of two     *)
(* kinds, as the manager is set: with data channels, where messages come   *)
(* over a socket and a channel and libdatachannel offers by itself; or     *)
(* without, where a new socket still overlaps the old one.                 *)
(***************************************************************************)
EXTENDS PeerRegistry, TLC

VARIABLE channels  \* enableDataChannel_

MCSocketMessages == 2

\* A bound: a stop takes the place of the last message.
StopBound == messages' = MaxMessages => publishing'

SocketsOnly ==
  INSTANCE PeerRegistry WITH Sockets <- Handlers, AutoOffer <- FALSE,
                             MaxMessages <- MCSocketMessages

MCInit == channels \in BOOLEAN /\ Init

MCNext ==
  /\ UNCHANGED channels
  /\ \/ channels /\ Next /\ StopBound
     \/ ~ channels /\ SocketsOnly!Next

MCSpec == MCInit /\ [][MCNext]_<<channels, vars>>

Symmetry ==
  Permutations(Sockets) \cup Permutations(Handlers \ Sockets)
    \cup Permutations(Uuids) \cup Permutations(Sessions)
===============================================================================
