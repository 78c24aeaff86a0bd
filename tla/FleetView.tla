----------------------------- MODULE FleetView -----------------------------
(***************************************************************************)
(* What one L2 shows of the whole fleet (network.py): the signature cache  *)
(* behind /dsn/resolve, filled by a background loop and by requests that   *)
(* find it empty or stale; the topology cache; and the peer keys read from *)
(* the parameter store, with their backing off after a failure.            *)
(*                                                                         *)
(* A fan-out to the fleet takes a while, at most FanOut, and several may   *)
(* be under way at once; what it brings is as old as its start.            *)
(***************************************************************************)
EXTENDS Naturals

CONSTANTS
    Fetches,    \* fan-outs under way at once
    FanOut,     \* the longest a fan-out takes; each of its calls has a timeout
    Stale,      \* DSN_CACHE_STALE_SECS
    TopologyTtl, \* TOPOLOGY_CACHE_TTL_SECONDS
    MaxTime,    \* bound: the clock
    MaxOutages  \* bound: outages of the parameter store

(* Calls of ten seconds at most, against the three minutes of a hit.        *)
ASSUME FleetAssumption ==
    {FanOut, Stale, TopologyTtl, MaxTime, MaxOutages} \subseteq Nat /\ FanOut <= Stale

VARIABLES
    time,
    cached,     \* _signature_cache: start of the fan-out it holds, when filled, empty or not
    topology,   \* _TOPOLOGY_CACHE: start of its fan-out, expires_at
    fetch,      \* fan-outs under way: for whom, since when
    shown,      \* the last answer: which view, how old
    peerKey,    \* _PEER_KEY_CACHE of an Enterprise: "" or "known"
    backoff,    \* _PEER_KEY_FAIL_AT is recent
    ssm,        \* the parameter store
    outages

fleetVars == <<time, cached, topology, fetch, shown, peerKey, backoff, ssm, outages>>
viewVars == <<time, cached, topology, fetch, shown>>
keyVars == <<peerKey, backoff, ssm, outages>>

NoFetch == [for |-> "none", since |-> 0]

FleetInit ==
    /\ time = 0
    /\ cached = [since |-> 0, filled |-> 0, any |-> FALSE]
    /\ topology = [since |-> 0, expires |-> 0]
    /\ fetch = [f \in Fetches |-> NoFetch]
    /\ shown = [view |-> "none", age |-> 0]
    /\ peerKey = "" /\ backoff = FALSE /\ ssm = "up" /\ outages = 0

Show(view, since) == shown' = [view |-> view, age |-> time - since]
StartFetch(f, whom) == fetch[f] = NoFetch /\ fetch' = [fetch EXCEPT ![f] = [for |-> whom, since |-> time]]

(* _signature_cache_loop: one refill after another; one that raises leaves  *)
(* the cache as it is.                                                      *)
LoopRefill(f) ==
    /\ StartFetch(f, "loop")
    /\ UNCHANGED <<time, cached, topology, shown, keyVars>>

\* Mutant: any cache that is not empty is a hit.
HitNonEmpty == cached.any

(* /dsn/resolve reads the cache under its lock; a hit is not empty and not  *)
(* too long filled; a miss refills it.                                      *)
CacheHit == cached.any /\ time - cached.filled <= Stale
Resolve(f) ==
    /\ IF CacheHit THEN Show("dsn", cached.since) /\ UNCHANGED fetch
       ELSE StartFetch(f, "request") /\ UNCHANGED shown
    /\ UNCHANGED <<time, cached, topology, keyVars>>

(* _refill_signature_cache clears and fills under the lock: the snapshots   *)
(* are of one fan-out, perhaps of none that answered, whichever ends last.  *)
RefillEnds(f, any) ==
    /\ fetch[f].for \in {"loop", "request"}
    /\ cached' = [since |-> fetch[f].since, filled |-> time, any |-> any]
    /\ fetch' = [fetch EXCEPT ![f] = IF fetch[f].for = "request" THEN [for |-> "reread", since |-> fetch[f].since]
                                        ELSE NoFetch]
    /\ UNCHANGED <<time, topology, shown, keyVars>>

RefillRaises(f) ==
    /\ fetch[f].for \in {"loop", "request"}
    /\ fetch' = [fetch EXCEPT ![f] = NoFetch]
    /\ UNCHANGED <<time, cached, topology, shown, keyVars>>

(* The request takes the lock again and answers with what it finds, which   *)
(* another refill may have replaced.                                        *)
ResolveAfterRefill(f) ==
    /\ fetch[f].for = "reread"
    /\ Show("dsn", cached.since)
    /\ fetch' = [fetch EXCEPT ![f] = NoFetch]
    /\ UNCHANGED <<time, cached, topology, keyVars>>

(* /topology: served while it has not expired, otherwise built anew; its    *)
(* expiry counts from before the fan-out.                                   *)
Topology(f) ==
    /\ IF topology.expires > time THEN Show("topology", topology.since) /\ UNCHANGED fetch
       ELSE StartFetch(f, "topology") /\ UNCHANGED shown
    /\ UNCHANGED <<time, cached, topology, keyVars>>

TopologyBuilt(f) ==
    /\ fetch[f].for = "topology"
    /\ topology' = [since |-> fetch[f].since, expires |-> fetch[f].since + TopologyTtl]
    /\ Show("topology", fetch[f].since)
    /\ fetch' = [fetch EXCEPT ![f] = NoFetch]
    /\ UNCHANGED <<time, cached, keyVars>>

FleetTick ==
    /\ time < MaxTime
    /\ \A f \in Fetches : fetch[f] # NoFetch => time - fetch[f].since < FanOut
    /\ time' = time + 1
    /\ UNCHANGED <<cached, topology, fetch, shown, keyVars>>

-----------------------------------------------------------------------------
(* _peer_key_for, once per L2 of a fan-out: a key found is kept for ever, a *)
(* failure keeps the next ones from trying for a while.                     *)
PeerKeyFound ==
    /\ peerKey = "" /\ ~backoff /\ ssm = "up"
    /\ peerKey' = "known"
    /\ UNCHANGED <<viewVars, backoff, ssm, outages>>

\* Mutant: the failure is cached like a key, as it once was.
PeerKeyForgotten ==
    /\ peerKey = "" /\ ~backoff /\ ssm = "down"
    /\ peerKey' = "failed"
    /\ UNCHANGED <<viewVars, backoff, ssm, outages>>

PeerKeyFails ==
    /\ peerKey = "" /\ ~backoff /\ ssm = "down"
    /\ backoff' = TRUE
    /\ UNCHANGED <<viewVars, peerKey, ssm, outages>>

BackoffEnds ==
    /\ backoff
    /\ backoff' = FALSE
    /\ UNCHANGED <<viewVars, peerKey, ssm, outages>>

StoreFails ==
    /\ ssm = "up" /\ outages < MaxOutages
    /\ ssm' = "down" /\ outages' = outages + 1
    /\ UNCHANGED <<viewVars, peerKey, backoff>>

StoreRecovers ==
    /\ ssm = "down"
    /\ ssm' = "up"
    /\ UNCHANGED <<viewVars, peerKey, backoff, outages>>

ViewNext ==
    \/ \E f \in Fetches : \/ LoopRefill(f) \/ Resolve(f) \/ ResolveAfterRefill(f)
                          \/ RefillRaises(f) \/ \E any \in BOOLEAN : RefillEnds(f, any)
                          \/ Topology(f) \/ TopologyBuilt(f)
    \/ FleetTick
KeyNext == PeerKeyFound \/ PeerKeyFails \/ BackoffEnds \/ StoreFails \/ StoreRecovers
FleetNext == ViewNext \/ KeyNext

(* Every refill asks for the key again, and the back-off is 30 seconds.      *)
FleetFairness ==
    WF_fleetVars(PeerKeyFound) /\ WF_fleetVars(BackoffEnds)

FleetSpec == FleetInit /\ [][FleetNext]_fleetVars /\ FleetFairness

(* What is shown of the fleet has a bounded age, however slow refills       *)
(* overtake each other: a hit counts from the end of a fan-out, so one      *)
(* fan-out more than the limit; the topology never outlives its own.        *)
ShownIsFresh ==
    /\ shown.view = "dsn" => shown.age <= Stale + FanOut
    /\ shown.view = "topology" => shown.age <= TopologyTtl \/ shown.age <= FanOut

(* A peer key that could not be read is read in the end, once the store     *)
(* stays up: no failure darkens an Enterprise until the next restart.       *)
KeyComesBack == <>[](ssm = "up") => <>(peerKey = "known")
=============================================================================
