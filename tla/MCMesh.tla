------------------------------- MODULE MCMesh -------------------------------
(***************************************************************************)
(* Instances of PeerGossip, Peerings, ProvisionStream and of the peer keys *)
(* of FleetView for TLC. The four share no state and do not call each      *)
(* other, so a behaviour moves one of them, chosen at the start, and       *)
(* leaves the others as they began; the fairness of a part is that of its  *)
(* module, for behaviours that move it.                                    *)
(***************************************************************************)
EXTENDS PeerGossip, Peerings, ProvisionStream, FleetView

VARIABLE part

(* A mesh on its first day that may lose an announcement, or a running one, *)
(* any of it just redeployed, and one more redeployment or loss to come.    *)
MCInit ==
    /\ part \in {"gossip", "peerings", "stream", "keys"}
    /\ GossipInit /\ PeeringsInit /\ StreamInit /\ FleetInit
    /\ IF \A m, n \in L2s : row[m][n] = Unknown THEN restarts = MaxRestarts /\ lost = 0
       ELSE restarts + lost = 1
    /\ part # "gossip" => Converged /\ lost = 0

MCNext ==
    /\ UNCHANGED part
    /\ \/ /\ part = "gossip" /\ GossipNext
          /\ UNCHANGED <<peeringVars, streamVars, fleetVars>>
       \/ /\ part = "peerings" /\ PeeringsNext
          /\ UNCHANGED <<gossipVars, streamVars, fleetVars>>
       \/ /\ part = "stream" /\ StreamNext
          /\ UNCHANGED <<gossipVars, peeringVars, fleetVars>>
       \/ /\ part = "keys" /\ KeyNext
          /\ UNCHANGED <<gossipVars, peeringVars, streamVars>>

(* GossipFairness, PeeringsFairness, StreamFairness, FleetFairness.         *)
MCFairness ==
    /\ WF_gossipVars(part = "gossip" /\ Joins)
    /\ \A n \in L2s :
          /\ WF_gossipVars(part = "gossip" /\ FetchesSignatures(n))
          /\ \A m \in L2s \ {n} : WF_gossipVars(part = "gossip" /\ Rehello(m, n))
    /\ WF_gossipVars(part = "gossip" /\ \E x \in flight : Announce(x))
    /\ WF_peeringVars(part = "peerings" /\ (AnnounceSelf \/ Pulling))
    /\ WF_peeringVars(part = "peerings" /\ DirectoryUp)
    /\ WF_streamVars(part = "stream" /\ (OpenStream \/ Poll \/ Wake))
    /\ WF_fleetVars(part = "keys" /\ PeerKeyFound)
    /\ WF_fleetVars(part = "keys" /\ BackoffEnds)

MCSpec == MCInit /\ [][MCNext]_<<part, gossipVars, peeringVars, streamVars, fleetVars>> /\ MCFairness

(* PeersConverge and its siblings, each of its own part.                    *)
GossipConverges == part = "gossip" => PeersConverge
StreamAlwaysCloses == part = "stream" => StreamCloses
KeyAlwaysComesBack == part = "keys" => KeyComesBack
=============================================================================
