----------------------------- MODULE MeshProofs -----------------------------
(***************************************************************************)
(* Proofs about the L2s of a mesh: what one tells those who ask it         *)
(* (FleetView, Presence, Federation, Lookup, joined as Answers does), and  *)
(* how it learns of the others (PeerGossip, Peerings) and tells of a new   *)
(* one (ProvisionStream). Each has an inductive invariant of its own.      *)
(***************************************************************************)
EXTENDS Answers, PeerGossip, Peerings, ProvisionStream,
        FiniteSetTheorems, SequenceTheorems, WellFoundedInduction, TLAPS

(* FleetView. What a fan-out brought is no older, at its end, than FanOut;  *)
(* a request that reads the cache again waited for one that ended since.    *)
FetchRecord == [for : {"none", "loop", "request", "reread", "topology"}, since : Nat]

FleetTypeOK ==
    /\ time \in Nat
    /\ cached \in [since : Nat, filled : Nat, any : BOOLEAN]
    /\ topology \in [since : Nat, expires : Nat]
    /\ fetch \in [Fetches -> FetchRecord]
    /\ shown \in [view : {"none", "dsn", "topology"}, age : Nat]

FetchInTime(f) ==
    fetch[f].for # "none" => fetch[f].since <= time /\ time <= fetch[f].since + FanOut

CacheInTime ==
    cached.since <= cached.filled /\ cached.filled <= time /\ cached.filled <= cached.since + FanOut

FleetInv ==
    /\ FleetTypeOK
    /\ \A f \in Fetches : FetchInTime(f)
    /\ CacheInTime
    /\ \A f \in Fetches : fetch[f].for = "reread" => fetch[f].since <= cached.filled
    /\ topology.expires <= topology.since + TopologyTtl /\ topology.since <= time
    /\ ShownIsFresh

LEMMA FleetInitially == FleetInit => FleetInv
  <1> SUFFICES ASSUME FleetInit PROVE FleetInv
    OBVIOUS
  <1>1. /\ fetch \in [Fetches -> FetchRecord] /\ \A f \in Fetches : fetch[f].for = "none"
    BY DEF FleetInit, NoFetch, FetchRecord
  <1>2. /\ time = 0 /\ cached = [since |-> 0, filled |-> 0, any |-> FALSE]
        /\ topology = [since |-> 0, expires |-> 0] /\ shown = [view |-> "none", age |-> 0]
    BY DEF FleetInit
  <1>3. FleetTypeOK
    BY <1>1, <1>2 DEF FleetTypeOK
  <1>4. CacheInTime /\ ShownIsFresh
    BY <1>2, FleetAssumption DEF CacheInTime, ShownIsFresh
  <1>5. topology.expires <= topology.since + TopologyTtl /\ topology.since <= time
    BY <1>2, FleetAssumption
  <1> QED BY <1>1, <1>3, <1>4, <1>5 DEF FleetInv, FetchInTime

LEMMA FleetNextStep ==
    ASSUME FleetInv, [FleetNext]_fleetVars
    PROVE  FleetInv'
  <1> USE FleetAssumption
  <1>0. /\ time \in Nat /\ Stale \in Nat /\ FanOut \in Nat /\ TopologyTtl \in Nat /\ FanOut <= Stale
        /\ cached \in [since : Nat, filled : Nat, any : BOOLEAN]
        /\ topology \in [since : Nat, expires : Nat]
        /\ fetch \in [Fetches -> FetchRecord]
        /\ shown \in [view : {"none", "dsn", "topology"}, age : Nat]
        /\ cached.since \in Nat /\ cached.filled \in Nat
        /\ topology.since \in Nat /\ topology.expires \in Nat
        /\ \A f \in Fetches : fetch[f].since \in Nat /\ FetchInTime(f)
        /\ CacheInTime /\ ShownIsFresh
        /\ topology.expires <= topology.since + TopologyTtl /\ topology.since <= time
        /\ \A f \in Fetches : fetch[f].for = "reread" => fetch[f].since <= cached.filled
    BY DEF FleetInv, FleetTypeOK, FetchRecord
  <1>1. ASSUME NEW f \in Fetches, NEW whom \in {"loop", "request", "topology"}, StartFetch(f, whom),
               UNCHANGED <<time, cached, topology, shown>>
        PROVE  FleetInv'
    <2> DEFINE n == [for |-> whom, since |-> time]
    <2>1. n \in FetchRecord /\ n.for = whom /\ n.since = time
      BY <1>0 DEF FetchRecord
    <2>2. fetch' = [fetch EXCEPT ![f] = n]
      BY <1>1 DEF StartFetch
    <2> HIDE DEF n
    <2>3. fetch' \in [Fetches -> FetchRecord] /\ fetch'[f] = n /\ \A g \in Fetches \ {f} : fetch'[g] = fetch[g]
      BY <1>0, <2>1, <2>2
    <2>4. FleetTypeOK'
      BY <1>0, <1>1, <2>3 DEF FleetTypeOK
    <2>5. \A g \in Fetches : FetchInTime(g)' /\ (fetch'[g].for = "reread" => fetch'[g].since <= cached'.filled)
      BY <1>0, <1>1, <2>1, <2>3 DEF FetchInTime
    <2> QED BY <1>0, <1>1, <2>4, <2>5 DEF FleetInv, CacheInTime, ShownIsFresh
  \* A fan-out that is over, whatever it leaves in the caches.
  <1>2. ASSUME NEW f \in Fetches, fetch' = [fetch EXCEPT ![f] = NoFetch], time' = time, CacheInTime',
               FleetTypeOK', ShownIsFresh', cached'.filled >= cached.filled,
               topology'.expires <= topology'.since + TopologyTtl /\ topology'.since <= time
        PROVE  FleetInv'
    <2>1. fetch'[f].for = "none" /\ \A g \in Fetches \ {f} : fetch'[g] = fetch[g]
      BY <1>0, <1>2 DEF NoFetch
    <2>2. cached'.filled \in Nat
      BY <1>2 DEF FleetTypeOK
    <2>3. \A g \in Fetches : FetchInTime(g)' /\ (fetch'[g].for = "reread" => fetch'[g].since <= cached'.filled)
      BY <1>0, <1>2, <2>1, <2>2 DEF FetchInTime
    <2> QED BY <1>2, <2>3 DEF FleetInv
  <1>3. NoFetch \in FetchRecord
    BY DEF NoFetch, FetchRecord
  <1>4. ASSUME NEW f \in Fetches, LoopRefill(f) PROVE FleetInv'
    BY <1>1, <1>4 DEF LoopRefill
  \* Something is shown, of an age that is in its bounds.
  <1>5. ASSUME NEW view \in {"dsn", "topology"}, NEW since \in Nat, since <= time, Show(view, since),
               view = "dsn" => time <= since + Stale + FanOut,
               view = "topology" => time <= since + TopologyTtl \/ time <= since + FanOut
        PROVE  shown' \in [view : {"none", "dsn", "topology"}, age : Nat] /\ ShownIsFresh'
    <2>1. shown' = [view |-> view, age |-> time - since] /\ time - since \in Nat
      BY <1>0, <1>5 DEF Show
    <2>2. shown'.view = view /\ shown'.age = time - since
      BY <2>1
    <2>3. shown' \in [view : {"none", "dsn", "topology"}, age : Nat]
      BY <2>1
    <2>4. ShownIsFresh'
      BY <1>0, <1>5, <2>2 DEF ShownIsFresh
    <2> QED BY <2>3, <2>4
  <1>6. ASSUME NEW f \in Fetches, Resolve(f) PROVE FleetInv'
    <2>1. CASE CacheHit
      <3>1. Show("dsn", cached.since) /\ UNCHANGED <<time, cached, topology, fetch>>
        BY <1>6, <2>1 DEF Resolve
      <3>2. cached.since <= time /\ time <= cached.since + Stale + FanOut
        BY <1>0, <2>1 DEF CacheHit, CacheInTime
      <3>3. shown' \in [view : {"none", "dsn", "topology"}, age : Nat] /\ ShownIsFresh'
        BY <1>0, <1>5, <3>1, <3>2
      <3> QED BY <1>0, <3>1, <3>3 DEF FleetInv, FleetTypeOK, FetchInTime, CacheInTime
    <2>2. CASE ~CacheHit
      BY <1>1, <1>6, <2>2 DEF Resolve
    <2> QED BY <2>1, <2>2
  <1>7. ASSUME NEW f \in Fetches, NEW any \in BOOLEAN, RefillEnds(f, any) PROVE FleetInv'
    <2> DEFINE c == [since |-> fetch[f].since, filled |-> time, any |-> any]
               m == [for |-> "reread", since |-> fetch[f].since]
    <2>1. /\ cached' = c /\ UNCHANGED <<time, topology, shown>> /\ fetch[f].for \in {"loop", "request"}
          /\ fetch' = [fetch EXCEPT ![f] = m] \/ fetch' = [fetch EXCEPT ![f] = NoFetch]
      BY <1>7 DEF RefillEnds
    <2>2. c \in [since : Nat, filled : Nat, any : BOOLEAN] /\ c.since = fetch[f].since /\ c.filled = time
      BY <1>0
    <2>3. m \in FetchRecord /\ m.for = "reread" /\ m.since = fetch[f].since
      BY <1>0 DEF FetchRecord
    <2> HIDE DEF c, m
    <2>4. CacheInTime' /\ cached'.filled >= cached.filled /\ ShownIsFresh'
      BY <1>0, <2>1, <2>2 DEF CacheInTime, FetchInTime, ShownIsFresh
    <2>5. FleetTypeOK'
      BY <1>0, <1>3, <2>1, <2>2, <2>3 DEF FleetTypeOK
    <2>6. CASE fetch' = [fetch EXCEPT ![f] = NoFetch]
      BY <1>0, <1>2, <2>1, <2>4, <2>5, <2>6
    <2>7. CASE fetch' = [fetch EXCEPT ![f] = m]
      <3>1. fetch'[f] = m /\ \A g \in Fetches \ {f} : fetch'[g] = fetch[g]
        BY <1>0, <2>7
      <3>2. \A g \in Fetches : FetchInTime(g)'
        BY <1>0, <2>1, <2>3, <3>1 DEF FetchInTime
      <3>3. \A g \in Fetches : fetch'[g].for = "reread" => fetch'[g].since <= cached'.filled
        BY <1>0, <2>1, <2>2, <2>3, <3>1 DEF FetchInTime, CacheInTime
      <3> QED BY <1>0, <2>1, <2>4, <2>5, <3>2, <3>3 DEF FleetInv
    <2> QED BY <2>1, <2>6, <2>7
  <1>8. ASSUME NEW f \in Fetches, RefillRaises(f) PROVE FleetInv'
    <2>1. fetch' = [fetch EXCEPT ![f] = NoFetch] /\ UNCHANGED <<time, cached, topology, shown>>
      BY <1>8 DEF RefillRaises
    <2>2. FleetTypeOK' /\ CacheInTime' /\ ShownIsFresh'
      BY <1>0, <1>3, <2>1 DEF FleetTypeOK, CacheInTime, ShownIsFresh
    <2>3. /\ topology'.expires <= topology'.since + TopologyTtl /\ topology'.since <= time
          /\ cached'.filled >= cached.filled /\ time' = time
      BY <1>0, <2>1
    <2> QED BY <1>2, <2>1, <2>2, <2>3
  <1>9. ASSUME NEW f \in Fetches, ResolveAfterRefill(f) PROVE FleetInv'
    <2>1. /\ fetch' = [fetch EXCEPT ![f] = NoFetch] /\ UNCHANGED <<time, cached, topology>>
          /\ fetch[f].for = "reread" /\ Show("dsn", cached.since)
      BY <1>9 DEF ResolveAfterRefill
    <2>2. cached.since <= time /\ time <= cached.since + Stale + FanOut
      BY <1>0, <2>1 DEF FetchInTime, CacheInTime
    <2>3. shown' \in [view : {"none", "dsn", "topology"}, age : Nat] /\ ShownIsFresh'
      BY <1>0, <1>5, <2>1, <2>2
    <2>4. FleetTypeOK' /\ CacheInTime'
      BY <1>0, <1>3, <2>1, <2>3 DEF FleetTypeOK, CacheInTime
    <2>5. /\ topology'.expires <= topology'.since + TopologyTtl /\ topology'.since <= time
          /\ cached'.filled >= cached.filled /\ time' = time
      BY <1>0, <2>1
    <2>6. ShownIsFresh'
      BY <2>3
    <2> QED BY <1>2, <2>1, <2>4, <2>5, <2>6
  <1>10. ASSUME NEW f \in Fetches, Topology(f) PROVE FleetInv'
    <2>1. CASE topology.expires > time
      <3>1. Show("topology", topology.since) /\ UNCHANGED <<time, cached, topology, fetch>>
        BY <1>10, <2>1 DEF Topology
      <3>2. topology.since <= time /\ time <= topology.since + TopologyTtl
        BY <1>0, <2>1
      <3>3. shown' \in [view : {"none", "dsn", "topology"}, age : Nat] /\ ShownIsFresh'
        BY <1>0, <1>5, <3>1, <3>2
      <3> QED BY <1>0, <3>1, <3>3 DEF FleetInv, FleetTypeOK, FetchInTime, CacheInTime
    <2>2. CASE ~(topology.expires > time)
      BY <1>1, <1>10, <2>2 DEF Topology
    <2> QED BY <2>1, <2>2
  <1>11. ASSUME NEW f \in Fetches, TopologyBuilt(f) PROVE FleetInv'
    <2> DEFINE c == [since |-> fetch[f].since, expires |-> fetch[f].since + TopologyTtl]
    <2>1. /\ fetch' = [fetch EXCEPT ![f] = NoFetch] /\ UNCHANGED <<time, cached>> /\ topology' = c
          /\ fetch[f].for = "topology" /\ Show("topology", fetch[f].since)
      BY <1>11 DEF TopologyBuilt
    <2>2. c \in [since : Nat, expires : Nat] /\ c.since = fetch[f].since
          /\ c.expires = fetch[f].since + TopologyTtl
      BY <1>0
    <2> HIDE DEF c
    <2>3. fetch[f].since <= time /\ time <= fetch[f].since + FanOut
      BY <1>0, <2>1 DEF FetchInTime
    <2>4. shown' \in [view : {"none", "dsn", "topology"}, age : Nat] /\ ShownIsFresh'
      BY <1>0, <1>5, <2>1, <2>3
    <2>5. FleetTypeOK' /\ CacheInTime'
      BY <1>0, <1>3, <2>1, <2>2, <2>4 DEF FleetTypeOK, CacheInTime
    <2>6. /\ topology'.expires <= topology'.since + TopologyTtl /\ topology'.since <= time
          /\ cached'.filled >= cached.filled /\ time' = time
      BY <1>0, <2>1, <2>2, <2>3
    <2>7. ShownIsFresh'
      BY <2>4
    <2> QED BY <1>2, <2>1, <2>5, <2>6, <2>7
  <1>12. CASE FleetTick
    <2>1. UNCHANGED <<cached, topology, fetch, shown>> /\ time' = time + 1
      BY <1>12 DEF FleetTick
    <2>2. \A f \in Fetches : fetch[f].for # "none" => time - fetch[f].since < FanOut
      BY <1>12 DEF FleetTick, NoFetch
    <2>3. \A f \in Fetches : FetchInTime(f)'
      BY <1>0, <2>1, <2>2 DEF FetchInTime
    <2> QED BY <1>0, <2>1, <2>3 DEF FleetInv, FleetTypeOK, CacheInTime, ShownIsFresh
  <1>13. CASE KeyNext \/ UNCHANGED fleetVars
    <2>1. UNCHANGED viewVars
      BY <1>13 DEF KeyNext, PeerKeyFound, PeerKeyFails, BackoffEnds, StoreFails, StoreRecovers,
                   viewVars, fleetVars
    <2> QED BY <1>0, <2>1 DEF viewVars, FleetInv, FleetTypeOK, FetchInTime, CacheInTime, ShownIsFresh
  <1> QED BY <1>4, <1>6, <1>7, <1>8, <1>9, <1>10, <1>11, <1>12, <1>13 DEF FleetNext, ViewNext

\* However refills overlap and whichever ends last, what the cache holds was at
\* most one fan-out old when it was filled, and no request rereads an older one.
THEOREM FleetCorrect == FleetSpec => []FleetInv
  BY FleetInitially, FleetNextStep, PTL DEF FleetSpec

-----------------------------------------------------------------------------
(* Presence. The row is that of a stored heartbeat, and of no other stored *)
(* one had its sender the answer before it was sent: what a heartbeat knew *)
(* to be answered was, and a row is taken over only by one stored later.   *)
Senders == Tenants \cup {CHOOSE t \in Tenants : TRUE}

BeatRecord == [pc : {"idle", "upsert", "stored", "failed"}, of : Senders, at : Nat,
               discoverable : BOOLEAN, after : SUBSET Beats]
AskRecord == [pc : {"idle", "list", "answered"}, enterprise : {t.enterprise : t \in Tenants} \cup {""},
              group : {t.group : t \in Tenants} \cup {""}, since : Nat, got : Beats \cup {NoBeat},
              after : SUBSET Beats]

PresenceTypeOK ==
    /\ minute \in Nat
    /\ beat \in [Beats -> BeatRecord]
    /\ seat \in [by : Beats \cup {NoBeat}, discoverable : BOOLEAN]
    /\ asking \in AskRecord

Stored(b) == beat[b].pc = "stored"

SeatIsLast ==
    IF seat.by = NoBeat THEN \A b \in Beats : ~Stored(b)
    ELSE /\ Stored(seat.by) /\ seat.discoverable = beat[seat.by].discoverable
         /\ \A c \in Beats : Stored(c) => ~Supersedes(c, seat.by)

PresenceInv ==
    /\ PresenceTypeOK
    /\ \A b \in Beats : beat[b].after \subseteq Answered
    /\ asking.after \subseteq Answered
    /\ asking.got # NoBeat => Stored(asking.got)
    /\ SeatIsLast
    /\ LastWordShown

LEMMA PresenceInitially == PresenceInit => PresenceInv
  <1> SUFFICES ASSUME PresenceInit PROVE PresenceInv
    OBVIOUS
  <1> DEFINE n == [pc |-> "idle", of |-> CHOOSE t \in Tenants : TRUE, at |-> 0,
                   discoverable |-> FALSE, after |-> {}]
             a == [pc |-> "idle", enterprise |-> "", group |-> "", since |-> 0, got |-> NoBeat, after |-> {}]
  <1>1. n \in BeatRecord /\ n.pc = "idle" /\ n.after = {}
    BY DEF BeatRecord, Senders
  <1>2. a \in AskRecord /\ a.pc = "idle" /\ a.got = NoBeat /\ a.after = {}
    BY DEF AskRecord
  <1>3. /\ minute = 0 /\ asking = a /\ seat = [by |-> NoBeat, discoverable |-> FALSE]
        /\ beat = [b \in Beats |-> n]
    BY DEF PresenceInit
  <1> HIDE DEF n, a
  <1>4. beat \in [Beats -> BeatRecord] /\ \A b \in Beats : beat[b] = n
    BY <1>1, <1>3
  <1>5. PresenceTypeOK
    BY <1>2, <1>3, <1>4 DEF PresenceTypeOK
  <1>6. SeatIsLast
    BY <1>1, <1>3, <1>4 DEF SeatIsLast, Stored
  <1> QED BY <1>1, <1>2, <1>3, <1>4, <1>5, <1>6 DEF PresenceInv, LastWordShown

\* What a reader was told of answered heartbeats stands, whatever comes later.
LEMMA TellingStands ==
    ASSUME PresenceInv, asking' = asking,
           \A b \in Answered : beat'[b] = beat[b],
           \A b \in Beats : Stored(b) => Stored(b)'
    PROVE  /\ asking'.after \subseteq Answered' /\ LastWordShown'
           /\ (asking'.got # NoBeat => Stored(asking.got)')
  <1>1. /\ asking.after \subseteq Answered /\ Answered \subseteq Answered'
        /\ \A b \in Beats : Stored(b) => b \in Answered /\ Stored(b)'
    BY DEF PresenceInv, Answered, Stored
  <1>2. asking \in AskRecord
    BY DEF PresenceInv, PresenceTypeOK
  <1>3. asking.got # NoBeat => asking.got \in Beats /\ asking.got \in Answered
    BY <1>1, <1>2 DEF PresenceInv, AskRecord
  <1>4. \A b \in Answered : (Asked(b) <=> Asked(b)') /\ (beat'[b].pc = "stored" <=> beat[b].pc = "stored")
                            /\ \A c : Supersedes(b, c) <=> Supersedes(b, c)'
    BY DEF Asked, Supersedes
  <1>5. LastWordShown'
    <2> SUFFICES ASSUME asking.pc = "answered"
                 PROVE  /\ asking.got # NoBeat =>
                              /\ Asked(asking.got)'
                              /\ \A c \in asking.after : beat'[c].pc = "stored" => ~Supersedes(c, asking.got)'
                        /\ \A b \in asking.after :
                              beat'[b].pc = "stored" /\ Asked(b)' /\ asking.got = NoBeat =>
                                 \E c \in Beats \ {b} : beat'[c].pc = "stored" /\ ~Supersedes(b, c)'
      BY DEF LastWordShown
    <2>1. LastWordShown
      BY DEF PresenceInv
    <2>2. ASSUME asking.got # NoBeat
          PROVE  /\ Asked(asking.got)'
                 /\ \A c \in asking.after : beat'[c].pc = "stored" => ~Supersedes(c, asking.got)'
      BY <1>1, <1>3, <1>4, <2>1, <2>2 DEF LastWordShown
    <2>3. ASSUME NEW b \in asking.after, beat'[b].pc = "stored", Asked(b)', asking.got = NoBeat
          PROVE  \E c \in Beats \ {b} : beat'[c].pc = "stored" /\ ~Supersedes(b, c)'
      BY <1>1, <1>4, <2>1, <2>3 DEF LastWordShown, Stored
    <2> QED BY <2>2, <2>3
  <1> QED BY <1>1, <1>3, <1>5 DEF PresenceInv

LEMMA Since ==
    ASSUME NEW m \in Nat, NEW w \in Nat
    PROVE  (IF m < w THEN 0 ELSE m - w) \in Nat
  <1>1. CASE m < w
    BY <1>1
  <1>2. CASE m >= w
    BY <1>2
  <1> QED BY <1>1, <1>2

LEMMA PresenceNextStep ==
    ASSUME PresenceInv, [PresenceNext]_presenceVars
    PROVE  PresenceInv'
  <1> USE PresenceAssumption
  <1>0. /\ minute \in Nat /\ Window \in Nat /\ NoBeat \notin Beats
        /\ beat \in [Beats -> BeatRecord] /\ asking \in AskRecord
        /\ seat \in [by : Beats \cup {NoBeat}, discoverable : BOOLEAN]
        /\ \A b \in Beats : beat[b] \in BeatRecord /\ beat[b].after \subseteq Answered
        /\ Answered \subseteq Beats /\ SeatIsLast
        /\ seat.by # NoBeat => seat.by \in Beats
    BY DEF PresenceInv, PresenceTypeOK, Answered, NoBeat
  <1>1. ASSUME NEW b \in Beats, NEW t \in Tenants, NEW d \in BOOLEAN, Heartbeat(b, t, d) PROVE PresenceInv'
    <2> DEFINE n == [pc |-> "upsert", of |-> t, at |-> minute, discoverable |-> d, after |-> Answered]
    <2>1. n \in BeatRecord /\ n.pc = "upsert" /\ n.after = Answered
      BY <1>0 DEF BeatRecord, Senders
    <2>2. beat' = [beat EXCEPT ![b] = n] /\ UNCHANGED <<minute, seat, asking>> /\ beat[b].pc = "idle"
      BY <1>1 DEF Heartbeat
    <2> HIDE DEF n
    <2>3. /\ beat' \in [Beats -> BeatRecord] /\ beat'[b] = n
          /\ \A c \in Beats \ {b} : beat'[c] = beat[c]
      BY <1>0, <2>1, <2>2
    <2>4. b \notin Answered /\ Answered' = Answered
      BY <2>1, <2>2, <2>3 DEF Answered
    <2>5. /\ \A c \in Answered : beat'[c] = beat[c]
          /\ \A c \in Beats : Stored(c) <=> Stored(c)'
      BY <1>0, <2>1, <2>2, <2>3, <2>4 DEF Stored
    <2>6. PresenceTypeOK'
      BY <1>0, <2>2, <2>3 DEF PresenceTypeOK
    <2>7. \A c \in Beats : beat'[c].after \subseteq Answered'
      BY <1>0, <2>1, <2>3, <2>4
    <2>8. SeatIsLast'
      <3>1. CASE seat.by = NoBeat
        BY <1>0, <2>2, <2>5, <3>1 DEF SeatIsLast
      <3>2. CASE seat.by # NoBeat
        <4>1. seat.by \in Beats /\ Stored(seat.by) /\ seat.by # b /\ b \notin Answered
          BY <1>0, <2>2, <2>4, <3>2 DEF SeatIsLast, Stored
        <4>2. \A c \in Beats : Stored(c)' => c # b /\ Stored(c) /\ beat'[c] = beat[c]
          BY <2>2, <2>3, <2>5 DEF Stored
        <4> QED BY <1>0, <2>2, <2>3, <2>5, <3>2, <4>1, <4>2 DEF SeatIsLast, Supersedes
      <3> QED BY <3>1, <3>2
    <2>9. /\ asking'.after \subseteq Answered' /\ LastWordShown'
          /\ (asking'.got # NoBeat => Stored(asking.got)')
      BY <2>2, <2>5, TellingStands
    <2> QED BY <2>6, <2>7, <2>8, <2>9 DEF PresenceInv
  <1>2. ASSUME NEW b \in Beats, NEW pc \in {"stored", "failed"}, beat[b].pc = "upsert",
               beat' = [beat EXCEPT ![b].pc = pc], UNCHANGED <<minute, asking>>,
               IF pc = "stored" THEN seat' = SeatOf(b) ELSE seat' = seat
        PROVE  PresenceInv'
    <2>1. PICK n \in BeatRecord : /\ beat' = [beat EXCEPT ![b] = n] /\ n.pc = pc /\ n.of = beat[b].of
                                  /\ n.at = beat[b].at /\ n.discoverable = beat[b].discoverable
                                  /\ n.after = beat[b].after
      <3>1. PICK w \in BeatRecord : w = beat[b]
        BY <1>0
      <3>2. beat' = [beat EXCEPT ![b] = [w EXCEPT !.pc = pc]]
        BY <1>0, <1>2, <3>1
      <3>3. LET m == [w EXCEPT !.pc = pc] IN
            /\ m \in BeatRecord /\ m.pc = pc /\ m.of = w.of /\ m.at = w.at
            /\ m.discoverable = w.discoverable /\ m.after = w.after
        BY DEF BeatRecord
      <3> QED BY <3>1, <3>2, <3>3
    <2>2. /\ beat' \in [Beats -> BeatRecord] /\ beat'[b] = n
          /\ \A c \in Beats \ {b} : beat'[c] = beat[c]
      BY <1>0, <2>1
    <2>3. b \notin Answered /\ Answered' = Answered \cup {b}
      BY <1>2, <2>1, <2>2 DEF Answered
    <2>4. \A c \in Beats : beat'[c].after = beat[c].after /\ beat'[c].discoverable = beat[c].discoverable
      BY <2>1, <2>2
    <2>5. \A c \in Beats : Stored(c) => c # b /\ Stored(c)'
      BY <1>2, <2>2 DEF Stored
    <2>6. PresenceTypeOK'
      <3>1. CASE pc = "stored"
        <4>1. beat[b].discoverable \in BOOLEAN /\ seat' = [by |-> b, discoverable |-> beat[b].discoverable]
          BY <1>0, <1>2, <3>1 DEF SeatOf, BeatRecord
        <4> QED BY <1>0, <1>2, <2>2, <4>1 DEF PresenceTypeOK
      <3>2. CASE pc # "stored"
        BY <1>0, <1>2, <2>2, <3>2 DEF PresenceTypeOK
      <3> QED BY <3>1, <3>2
    <2>7. \A c \in Beats : beat'[c].after \subseteq Answered'
      BY <1>0, <2>3, <2>4
    <2>8. SeatIsLast'
      <3>1. CASE pc = "stored"
        <4>1. seat'.by = b /\ seat'.discoverable = beat[b].discoverable /\ b # NoBeat
          BY <1>0, <1>2, <3>1 DEF SeatOf
        <4>2. Stored(b)'
          BY <2>1, <2>2, <3>1 DEF Stored
        <4>3. \A c \in Beats : b \notin beat'[c].after
          BY <1>0, <2>3, <2>4
        <4>4. seat'.discoverable = beat'[b].discoverable
          BY <2>4, <4>1
        <4> QED BY <4>1, <4>2, <4>3, <4>4 DEF SeatIsLast, Supersedes
      <3>2. CASE pc = "failed"
        <4>1. seat' = seat /\ \A c \in Beats : Stored(c) <=> Stored(c)'
          BY <1>2, <2>1, <2>2, <2>5, <3>2 DEF Stored
        <4>2. CASE seat.by = NoBeat
          BY <1>0, <4>1, <4>2 DEF SeatIsLast
        <4>3. CASE seat.by # NoBeat
          <5>1. /\ seat.by \in Beats /\ Stored(seat.by) /\ seat.discoverable = beat[seat.by].discoverable
                /\ \A c \in Beats : Stored(c) => ~Supersedes(c, seat.by)
            BY <1>0, <4>3 DEF SeatIsLast
          <5> QED BY <2>4, <4>1, <4>3, <5>1 DEF SeatIsLast, Supersedes
        <4> QED BY <4>2, <4>3
      <3> QED BY <3>1, <3>2
    <2>9. /\ asking'.after \subseteq Answered' /\ LastWordShown'
          /\ (asking'.got # NoBeat => Stored(asking.got)')
      BY <1>0, <1>2, <2>2, <2>3, <2>5, TellingStands
    <2> QED BY <2>6, <2>7, <2>8, <2>9 DEF PresenceInv
  <1>3. ASSUME NEW b \in Beats, UpsertPeer(b) PROVE PresenceInv'
    BY <1>2, <1>3 DEF UpsertPeer
  <1>4. ASSUME NEW b \in Beats, HeartbeatFails(b) PROVE PresenceInv'
    BY <1>2, <1>4 DEF HeartbeatFails
  <1>5. ASSUME NEW e \in {t.enterprise : t \in Tenants}, NEW g \in {t.group : t \in Tenants} \cup {""},
               LookAround(e, g)
        PROVE  PresenceInv'
    <2> DEFINE s == IF minute < Window THEN 0 ELSE minute - Window
               a == [pc |-> "list", enterprise |-> e, group |-> g, since |-> s, got |-> NoBeat, after |-> Answered]
    <2>1. s \in Nat
      BY <1>0, Since
    <2>2. asking' = a /\ UNCHANGED <<minute, beat, seat>>
      BY <1>5 DEF LookAround
    <2> HIDE DEF s
    <2>3. a \in AskRecord /\ a.pc = "list" /\ a.got = NoBeat /\ a.after = Answered
      BY <1>0, <2>1 DEF AskRecord
    <2> HIDE DEF a
    <2> QED BY <1>0, <2>2, <2>3 DEF PresenceInv, PresenceTypeOK, Answered, Stored, SeatIsLast, Supersedes,
                                    LastWordShown
  <1>6. CASE ListPeers
    <2>0. PICK got : got = IF Active THEN seat.by ELSE NoBeat
      OBVIOUS
    <2>1. /\ asking.pc = "list" /\ UNCHANGED <<minute, beat, seat>>
          /\ asking' = [asking EXCEPT !.pc = "answered", !.got = got]
      BY <1>6, <2>0 DEF ListPeers
    <2>2. got \in Beats \cup {NoBeat}
      BY <1>0, <2>0
    <2>3. got # NoBeat => Active /\ got = seat.by
      BY <2>0
    <2>4. got = NoBeat => ~Active
      BY <2>0 DEF Active
    <2>5. /\ asking' \in AskRecord /\ asking'.pc = "answered" /\ asking'.got = got
          /\ asking'.after = asking.after /\ asking'.enterprise = asking.enterprise
          /\ asking'.group = asking.group /\ asking'.since = asking.since
      BY <1>0, <2>1, <2>2 DEF AskRecord
    <2>6. Answered' = Answered /\ \A b : Stored(b)' = Stored(b)
      BY <2>1 DEF Answered, Stored
    <2>7. got # NoBeat => seat.by \in Beats /\ Asked(got) /\ Stored(got)
                          /\ \A c \in Beats : Stored(c) => ~Supersedes(c, got)
      BY <1>0, <2>3 DEF Active, Asked, SeatIsLast
    <2>8. \A b \in Beats : Stored(b) /\ Asked(b) /\ got = NoBeat =>
             \E c \in Beats \ {b} : Stored(c) /\ ~Supersedes(b, c)
      <3> SUFFICES ASSUME NEW b \in Beats, Stored(b), Asked(b), got = NoBeat
                   PROVE  \E c \in Beats \ {b} : Stored(c) /\ ~Supersedes(b, c)
        OBVIOUS
      <3>1. /\ seat.by # NoBeat /\ seat.by \in Beats /\ Stored(seat.by)
            /\ seat.discoverable = beat[seat.by].discoverable /\ ~Supersedes(b, seat.by)
        BY <1>0 DEF SeatIsLast
      <3>2. seat.by # b
        BY <2>4, <3>1 DEF Active, Asked
      <3> QED BY <3>1, <3>2
    <2>9. \A b : (Asked(b) <=> Asked(b)') /\ \A c : Supersedes(b, c) <=> Supersedes(b, c)'
      BY <2>1, <2>5 DEF Asked, Supersedes
    <2>10. asking.after \subseteq Answered
      BY DEF PresenceInv
    <2>11. LastWordShown'
      <3>1. /\ got # NoBeat => Asked(got)' /\ \A c \in asking.after : Stored(c)' => ~Supersedes(c, got)'
            /\ \A b \in asking.after : Stored(b)' /\ Asked(b)' /\ got = NoBeat =>
                  \E c \in Beats \ {b} : Stored(c)' /\ ~Supersedes(b, c)'
        BY <1>0, <2>6, <2>7, <2>8, <2>9, <2>10
      <3> QED BY <2>5, <3>1 DEF LastWordShown, Stored
    <2>12. PresenceTypeOK' /\ SeatIsLast'
      BY <1>0, <2>1, <2>5 DEF PresenceTypeOK, SeatIsLast, Stored, Supersedes
    <2>13. asking'.got # NoBeat => Stored(asking.got)'
      BY <2>5, <2>6, <2>7
    <2> QED BY <1>0, <2>1, <2>5, <2>6, <2>10, <2>11, <2>12, <2>13 DEF PresenceInv
  <1>7. CASE MinutePasses \/ UNCHANGED presenceVars
    <2>1. UNCHANGED <<beat, seat, asking>> /\ minute' \in Nat
      BY <1>0, <1>7 DEF MinutePasses, presenceVars
    <2> QED BY <1>0, <2>1 DEF PresenceInv, PresenceTypeOK, Answered, Stored, SeatIsLast, Supersedes,
                              LastWordShown, Asked
  <1>8. ASSUME NEW t \in Tenants, NEW g \in BOOLEAN, LookAround(t.enterprise, IF g THEN t.group ELSE "")
        PROVE  PresenceInv'
    BY <1>5, <1>8
  <1> QED BY <1>1, <1>3, <1>4, <1>6, <1>7, <1>8 DEF PresenceNext

\* Heartbeats are stored in any order and another user's takes the row over, yet
\* no stored heartbeat was sent in answer to the one whose word the row bears.
THEOREM PresenceCorrect == PresenceSpec => []PresenceInv
  BY PresenceInitially, PresenceNextStep, PTL DEF PresenceSpec

\* What an L2 shows is true of its moment: the fleet is no older than the limit and
\* one fan-out, and a persona is listed only on the last word it gave before.
THEOREM ViewsHold == FleetSpec /\ PresenceSpec => []ViewsAreTrue
  <1>1. FleetInv => ShownIsFresh
    BY DEF FleetInv
  <1>2. PresenceInv => LastWordShown
    BY DEF PresenceInv
  <1>3. ShownIsFresh /\ LastWordShown => ViewsAreTrue
    BY DEF ViewsAreTrue
  <1> QED BY <1>1, <1>2, <1>3, FleetCorrect, PresenceCorrect, PTL

-----------------------------------------------------------------------------
(* Federation. A consent that ended never comes back, so that one found     *)
(* active had not ended when the query came; its groups never change once   *)
(* it is reserved; and a query that is to be answered has its audit row.    *)
ConsentRecord == [status : {"unused", "reserved", "active", "over"},
                  of : Enterprises, from : {AnyGroup, OwnGroup}, to : {AnyGroup, OwnGroup}]
QueryRecord == [pc : {"idle", "consent", "search", "audit", "answer", "done"}, enterprise : Enterprises,
                group : Groups, consent : ConsentIds \cup {"none"},
                hits : SUBSET [unit : Units, policy : {"full_body", "summary_only"}],
                over : SUBSET ConsentIds]
SigningRecord == [pc : {"idle", "insert", "consent_signed", "consent_revoked", "done"}, consent : ConsentIds \cup {"none"}]

FederationTypeOK ==
    /\ consents \in [ConsentIds -> ConsentRecord]
    /\ query \in [Queries -> QueryRecord]
    /\ signing \in [Signatures -> SigningRecord]

Status(c) == consents[c].status

\* One request inserts the consent it has reserved.
Reserves(s) ==
    signing[s].pc = "insert" => signing[s].consent \in ConsentIds /\ Status(signing[s].consent) = "reserved"

\* y, a query or its reply, has a consent.
Covered(y) ==
    /\ y.consent \in ConsentIds /\ y.consent \notin y.over /\ Covers(y.consent, y.enterprise, y.group)
    /\ Status(y.consent) # "unused"

\* What leaves its Enterprise is a summary, under a consent.
Summarised(y) ==
    \A h \in y.hits : h.unit.enterprise # y.enterprise => y.consent # "none" /\ h.policy = "summary_only"

Permitted(y) == (y.enterprise # OwnEnterprise /\ y.hits # {} => Covered(y)) /\ Summarised(y)

\* a is an audit row that accounts for y.
Accounts(a, y) ==
    /\ a.count = Cardinality(y.hits) /\ a.consent = y.consent
    /\ (\E h \in y.hits : h.policy = "summary_only") => a.policy = "summary_only"

QueryOK(q) ==
    /\ \A c \in query[q].over : Status(c) = "over"
    /\ query[q].enterprise # OwnEnterprise /\ query[q].pc = "search" => Covered(query[q])
    /\ query[q].pc \in {"consent", "search"} => query[q].hits = {}
    /\ Permitted(query[q])
    /\ query[q].pc = "answer" => \E a \in audit : a.query = q /\ Accounts(a, query[q])

AnswerOK(x) ==
    /\ x.over \subseteq ConsentIds /\ Permitted(x)
    /\ \E a \in audit : a.query = x.query /\ Accounts(a, x)

FederationInv ==
    /\ FederationTypeOK
    /\ \A s \in Signatures : Reserves(s)
    /\ \A s, t \in Signatures : signing[s].pc = "insert" /\ signing[t].pc = "insert"
                                /\ signing[s].consent = signing[t].consent => s = t
    /\ \A q \in Queries : QueryOK(q)
    /\ \A x \in answered : AnswerOK(x)

LEMMA FederationInitially == FederationInit => FederationInv
  <1> SUFFICES ASSUME FederationInit PROVE FederationInv
    OBVIOUS
  <1>1. NoConsent \in ConsentRecord
    BY FederationAssumption DEF NoConsent, ConsentRecord
  <1>2. NoQuery \in QueryRecord /\ NoQuery.pc = "idle" /\ NoQuery.hits = {} /\ NoQuery.over = {}
    BY FederationAssumption DEF NoQuery, QueryRecord
  <1>3. NoSigning \in SigningRecord /\ NoSigning.pc = "idle"
    BY DEF NoSigning, SigningRecord
  <1> HIDE DEF NoConsent, NoQuery, NoSigning
  <1>4. /\ consents \in [ConsentIds -> ConsentRecord]
        /\ query \in [Queries -> QueryRecord] /\ \A q \in Queries : query[q] = NoQuery
        /\ signing \in [Signatures -> SigningRecord] /\ \A s \in Signatures : signing[s] = NoSigning
        /\ answered = {}
    BY <1>1, <1>2, <1>3 DEF FederationInit
  <1>5. \A q \in Queries : QueryOK(q)
    BY <1>2, <1>4 DEF QueryOK, Permitted, Summarised
  <1> QED BY <1>3, <1>4, <1>5 DEF FederationInv, FederationTypeOK, Reserves

\* A consent in use keeps its groups, one that ended stays ended: what rests on
\* them stands, for a query and for an answer.
ConsentsAge ==
    /\ consents' \in [ConsentIds -> ConsentRecord]
    /\ \A c \in ConsentIds :
          /\ Status(c) # "unused" => Status(c)' # "unused" /\ \A e, g : Covers(c, e, g) => Covers(c, e, g)'
          /\ Status(c) = "over" => Status(c)' = "over"

LEMMA CoveredStays ==
    ASSUME ConsentsAge, NEW y, Covered(y)
    PROVE  Covered(y)'
  BY DEF ConsentsAge, Covered

LEMMA ConsentsStay ==
    ASSUME FederationInv, consents' = consents
    PROVE  ConsentsAge
  BY DEF FederationInv, FederationTypeOK, ConsentsAge, Covers, Status

LEMMA AnswersStand ==
    ASSUME FederationInv, ConsentsAge, audit \subseteq audit', NEW x \in answered
    PROVE  AnswerOK(x)'
  <1>1. AnswerOK(x)
    BY DEF FederationInv
  <1>2. Permitted(x) => Permitted(x)'
    BY CoveredStays DEF Permitted, Summarised
  <1> QED BY <1>1, <1>2 DEF AnswerOK, Accounts

LEMMA QueryStands ==
    ASSUME FederationInv, ConsentsAge, audit \subseteq audit', NEW q \in Queries, query'[q] = query[q]
    PROVE  QueryOK(q)'
  <1>1. QueryOK(q) /\ query[q] \in QueryRecord
    BY DEF FederationInv, FederationTypeOK
  <1>2. PICK y \in QueryRecord : y = query[q] /\ y = query'[q]
    BY <1>1
  <1>3. (Covered(y) => Covered(y)') /\ (Permitted(y) => Permitted(y)')
    BY CoveredStays DEF Permitted, Summarised
  <1>4. y.over \subseteq ConsentIds
    BY DEF QueryRecord
  <1>5. \A c \in y.over : Status(c)' = "over"
    BY <1>1, <1>2, <1>4 DEF QueryOK, ConsentsAge
  <1>6. y.pc = "answer" => \E a \in audit' : a.query = q /\ Accounts(a, y)
    BY <1>1, <1>2 DEF QueryOK
  <1> QED BY <1>1, <1>2, <1>3, <1>5, <1>6 DEF QueryOK

\* A query moves on; the consents stay, the audit trail at most grows.
LEMMA QueryMoves ==
    ASSUME FederationInv, NEW q \in Queries, NEW n \in QueryRecord, query' = [query EXCEPT ![q] = n],
           UNCHANGED <<consents, signing>>, audit \subseteq audit',
           \A c \in n.over : Status(c) = "over",
           n.enterprise # OwnEnterprise /\ n.pc = "search" => Covered(n), Permitted(n),
           n.pc \in {"consent", "search"} => n.hits = {},
           n.pc = "answer" => \E a \in audit' : a.query = q /\ Accounts(a, n),
           \A x \in answered' : AnswerOK(x)'
    PROVE  FederationInv'
  <1>1. ConsentsAge
    BY ConsentsStay
  <1>2. /\ query' \in [Queries -> QueryRecord] /\ query'[q] = n
        /\ \A r \in Queries \ {q} : query'[r] = query[r]
    BY DEF FederationInv, FederationTypeOK
  <1>3. QueryOK(q)'
    <2>1. (Covered(n) => Covered(n)') /\ (Permitted(n) => Permitted(n)')
      BY <1>1, CoveredStays DEF Permitted, Summarised
    <2>2. \A c : Status(c)' = Status(c)
      BY DEF Status
    <2> QED BY <1>2, <2>1, <2>2 DEF QueryOK
  <1>4. \A r \in Queries : QueryOK(r)'
    BY <1>1, <1>2, <1>3, QueryStands
  <1>5. FederationTypeOK'
    BY <1>2 DEF FederationInv, FederationTypeOK
  <1>6. /\ \A s \in Signatures : Reserves(s)'
        /\ \A s, t \in Signatures : signing'[s].pc = "insert" /\ signing'[t].pc = "insert"
                                    /\ signing'[s].consent = signing'[t].consent => s = t
    BY DEF FederationInv, Reserves, Status
  <1> QED BY <1>4, <1>5, <1>6 DEF FederationInv

\* A consent is reserved, inserted, revoked or ends; the queries see no more of it
\* than that.
LEMMA ConsentMoves ==
    ASSUME FederationInv, ConsentsAge, audit \subseteq audit', UNCHANGED <<query, answered>>,
           signing' \in [Signatures -> SigningRecord],
           \A s \in Signatures : Reserves(s)',
           \A s, t \in Signatures : signing'[s].pc = "insert" /\ signing'[t].pc = "insert"
                                    /\ signing'[s].consent = signing'[t].consent => s = t
    PROVE  FederationInv'
  <1>1. \A q \in Queries : QueryOK(q)'
    BY QueryStands
  <1>2. \A x \in answered' : AnswerOK(x)'
    BY AnswersStand
  <1>3. FederationTypeOK'
    BY DEF FederationInv, FederationTypeOK, ConsentsAge
  <1> QED BY <1>1, <1>2, <1>3 DEF FederationInv

\* One row of consents takes another status, which no request has reserved.
LEMMA StatusMoves ==
    ASSUME FederationInv, NEW c \in ConsentIds, NEW st \in {"active", "over"},
           Status(c) # "unused", Status(c) = "over" => st = "over",
           consents' = [consents EXCEPT ![c].status = st]
    PROVE  ConsentsAge /\ Status(c)' = st /\ \A d \in ConsentIds \ {c} : Status(d)' = Status(d)
  <1>1. consents \in [ConsentIds -> ConsentRecord]
    BY DEF FederationInv, FederationTypeOK
  <1>2. PICK w \in ConsentRecord : w = consents[c]
    BY <1>1
  <1>3. PICK n \in ConsentRecord : consents' = [consents EXCEPT ![c] = n] /\ n.status = st
                                   /\ n.of = w.of /\ n.from = w.from /\ n.to = w.to
    <2>1. consents' = [consents EXCEPT ![c] = [w EXCEPT !.status = st]]
      BY <1>1, <1>2
    <2>2. LET m == [w EXCEPT !.status = st] IN
          m \in ConsentRecord /\ m.status = st /\ m.of = w.of /\ m.from = w.from /\ m.to = w.to
      BY DEF ConsentRecord
    <2> QED BY <2>1, <2>2
  <1>4. /\ consents' \in [ConsentIds -> ConsentRecord] /\ consents'[c] = n
        /\ \A d \in ConsentIds \ {c} : consents'[d] = consents[d]
    BY <1>1, <1>3
  <1>5. \A d \in ConsentIds : \A e, g : Covers(d, e, g) => Covers(d, e, g)'
    BY <1>2, <1>3, <1>4 DEF Covers
  <1>6. Status(c)' = st /\ \A d \in ConsentIds \ {c} : Status(d)' = Status(d)
    BY <1>3, <1>4 DEF Status
  <1> QED BY <1>4, <1>5, <1>6 DEF ConsentsAge

\* A signing request moves on.
LEMMA SigningFields ==
    ASSUME signing \in [Signatures -> SigningRecord], NEW s \in Signatures,
           NEW pc \in {"consent_signed", "done"}, signing' = [signing EXCEPT ![s].pc = pc]
    PROVE  /\ signing' \in [Signatures -> SigningRecord] /\ signing'[s].pc = pc
           /\ \A t \in Signatures \ {s} : signing'[t] = signing[t]
  <1>1. PICK w \in SigningRecord : w = signing[s]
    OBVIOUS
  <1>2. signing' = [signing EXCEPT ![s] = [w EXCEPT !.pc = pc]]
    BY <1>1
  <1>3. [w EXCEPT !.pc = pc] \in SigningRecord /\ [w EXCEPT !.pc = pc].pc = pc
    BY DEF SigningRecord
  <1> QED BY <1>2, <1>3

LEMMA FederationNextStep ==
    ASSUME FederationInv, [FederationNext]_federationVars
    PROVE  FederationInv'
  <1> USE FederationAssumption
  <1>0. /\ consents \in [ConsentIds -> ConsentRecord] /\ query \in [Queries -> QueryRecord]
        /\ signing \in [Signatures -> SigningRecord]
        /\ \A q \in Queries : query[q] \in QueryRecord /\ QueryOK(q)
        /\ \A s \in Signatures : signing[s] \in SigningRecord /\ Reserves(s)
        /\ \A s, t \in Signatures : signing[s].pc = "insert" /\ signing[t].pc = "insert"
                                    /\ signing[s].consent = signing[t].consent => s = t
        /\ \A x \in answered : AnswerOK(x)
    BY DEF FederationInv, FederationTypeOK
  <1>s. ASSUME UNCHANGED consents, audit \subseteq audit' PROVE \A x \in answered : AnswerOK(x)'
    BY <1>s, ConsentsStay, AnswersStand
  <1>1. ASSUME NEW q \in Queries, NEW e \in Enterprises, NEW g \in Groups, Arrive(q, e, g)
        PROVE  FederationInv'
    <2>0. PICK ended : ended = {c \in ConsentIds : consents[c].status = "over"}
      OBVIOUS
    <2> DEFINE pc == IF e = OwnEnterprise THEN "search" ELSE "consent"
               n == [pc |-> pc, enterprise |-> e, group |-> g, consent |-> "none", hits |-> {},
                     over |-> ended]
    <2>1. query' = [query EXCEPT ![q] = n] /\ UNCHANGED <<consents, signing, audit, answered>>
      BY <1>1, <2>0 DEF Arrive
    <2>2. /\ n \in QueryRecord /\ n.hits = {} /\ n.over = ended /\ n.enterprise = e
          /\ n.pc \in {"consent", "search"} /\ (e # OwnEnterprise => n.pc = "consent")
      BY <2>0 DEF QueryRecord
    <2> HIDE DEF n
    <2>3. \A c \in n.over : Status(c) = "over"
      BY <2>0, <2>2 DEF Status
    <2>4. Permitted(n)
      BY <2>2 DEF Permitted, Summarised
    <2> QED BY <1>s, <2>1, <2>2, <2>3, <2>4, QueryMoves
  <1>3. ASSUME NEW q \in Queries, NEW pc \in {"audit", "answer", "done"}, query' = [query EXCEPT ![q].pc = pc],
               UNCHANGED <<consents, signing>>, audit \subseteq audit',
               pc = "answer" => \E a \in audit' : a.query = q /\ Accounts(a, query[q]),
               \A x \in answered' : AnswerOK(x)'
        PROVE  FederationInv'
    <2>1. PICK w \in QueryRecord : w = query[q]
      BY <1>0
    <2>2. query' = [query EXCEPT ![q] = [w EXCEPT !.pc = pc]]
      BY <1>0, <1>3, <2>1
    <2>3. PICK n \in QueryRecord : /\ n = [w EXCEPT !.pc = pc] /\ n.pc = pc /\ n.enterprise = w.enterprise
                                   /\ n.group = w.group /\ n.over = w.over /\ n.consent = w.consent
                                   /\ n.hits = w.hits
      <3>1. [w EXCEPT !.pc = pc] \in QueryRecord
        BY DEF QueryRecord
      <3> QED BY <3>1 DEF QueryRecord
    <2>4. pc = "answer" => \E a \in audit' : a.query = q /\ Accounts(a, n)
      BY <1>3, <2>1, <2>3 DEF Accounts
    <2>5. query' = [query EXCEPT ![q] = n] /\ n.pc \notin {"consent", "search"}
      BY <2>2, <2>3
    <2>6. \A c \in n.over : Status(c) = "over"
      BY <1>0, <2>1, <2>3 DEF QueryOK
    <2>7. Permitted(n)
      <3>1. Permitted(w)
        BY <1>0, <2>1 DEF QueryOK
      <3> QED BY <2>3, <3>1 DEF Permitted, Covered, Summarised
    <2>8. n.pc = "answer" => \E a \in audit' : a.query = q /\ Accounts(a, n)
      BY <2>3, <2>4
    <2> QED BY <1>3, <2>5, <2>6, <2>7, <2>8, QueryMoves
  <1>4. ASSUME NEW q \in Queries, LookUpConsent(q) PROVE FederationInv'
    <2>0. query[q].pc = "consent" /\ UNCHANGED <<consents, signing, audit, answered>>
      BY <1>4 DEF LookUpConsent
    <2>1. CASE Found(query[q].enterprise, query[q].group) = {}
      <3>1. query' = [query EXCEPT ![q].pc = "audit"]
        BY <1>4, <2>1 DEF LookUpConsent
      <3> QED BY <1>3, <1>s, <2>0, <3>1
    <2>2. CASE Found(query[q].enterprise, query[q].group) # {}
      <3>1. PICK c \in Found(query[q].enterprise, query[q].group) : query' = [query EXCEPT ![q].pc = "search", ![q].consent = c]
        BY <1>4, <2>2 DEF LookUpConsent
      <3>2. c \in ConsentIds /\ Status(c) = "active" /\ Covers(c, query[q].enterprise, query[q].group)
        BY DEF Found, ActiveConsents, Status
      <3>3. PICK w \in QueryRecord : w = query[q]
        BY <1>0
      <3>4. query' = [query EXCEPT ![q] = [w EXCEPT !.pc = "search", !.consent = c]]
        BY <1>0, <3>1, <3>3
      <3>5. [w EXCEPT !.pc = "search", !.consent = c] \in QueryRecord
        BY <3>2 DEF QueryRecord
      <3>6. PICK n \in QueryRecord : /\ n = [w EXCEPT !.pc = "search", !.consent = c]
                                     /\ n.pc = "search" /\ n.enterprise = w.enterprise
                                     /\ n.group = w.group /\ n.over = w.over /\ n.consent = c
                                     /\ n.hits = w.hits
        BY <3>5 DEF QueryRecord
      <3>7. Covered(n)
        <4>1. \A d \in w.over : Status(d) = "over"
          BY <1>0, <3>3 DEF QueryOK
        <4> QED BY <3>2, <3>3, <3>6, <4>1 DEF Covered
      <3>8. \A d \in n.over : Status(d) = "over"
        BY <1>0, <3>3, <3>6 DEF QueryOK
      <3>9. Permitted(n)
        <4>1. n.hits = {}
          BY <1>0, <2>0, <3>3, <3>6 DEF QueryOK
        <4> QED BY <3>7, <4>1 DEF Permitted, Summarised
      <3>10. n.hits = {}
        BY <1>0, <2>0, <3>3, <3>6 DEF QueryOK
      <3> QED BY <1>s, <2>0, <3>4, <3>6, <3>7, <3>8, <3>9, <3>10, QueryMoves
    <2> QED BY <2>1, <2>2
  <1>5. ASSUME NEW q \in Queries, Search(q) PROVE FederationInv'
    <2>0. query[q].pc = "search" /\ UNCHANGED <<consents, signing, audit, answered>>
      BY <1>5 DEF Search, FewUnits
    <2>1. PICK w \in QueryRecord : w = query[q]
      BY <1>0
    <2>2. PICK first \in SUBSET Units :
             /\ \A u \in first : PolicyFor(u, query[q]) # "denied"
             /\ query' = [query EXCEPT ![q].pc = "audit",
                            ![q].hits = {[unit |-> u, policy |-> PolicyFor(u, query[q])] : u \in first}]
      BY <1>5 DEF Search, FewUnits
    <2>3. PICK hits : hits = {[unit |-> u, policy |-> PolicyFor(u, w)] : u \in first}
      OBVIOUS
    <2>4. /\ hits \in SUBSET [unit : Units, policy : {"full_body", "summary_only"}]
          /\ \A h \in hits : h.unit.enterprise # w.enterprise => w.consent # "none" /\ h.policy = "summary_only"
      <3>1. ASSUME NEW u \in first
            PROVE  /\ PolicyFor(u, w) \in {"full_body", "summary_only"}
                   /\ u.enterprise # w.enterprise => w.consent # "none" /\ PolicyFor(u, w) = "summary_only"
        BY <2>1, <2>2 DEF PolicyFor
      <3> QED BY <2>3, <3>1
    <2>6. query' = [query EXCEPT ![q] = [w EXCEPT !.pc = "audit", !.hits = hits]]
      BY <1>0, <2>1, <2>2, <2>3
    <2>7. [w EXCEPT !.pc = "audit", !.hits = hits] \in QueryRecord
      BY <2>4 DEF QueryRecord
    <2>8. PICK n \in QueryRecord : /\ n = [w EXCEPT !.pc = "audit", !.hits = hits]
                                   /\ n.pc = "audit" /\ n.enterprise = w.enterprise /\ n.group = w.group
                                   /\ n.over = w.over /\ n.consent = w.consent /\ n.hits = hits
      BY <2>7 DEF QueryRecord
    <2>9. w.enterprise # OwnEnterprise => Covered(n)
      <3>1. w.enterprise # OwnEnterprise => Covered(w)
        BY <1>0, <2>0, <2>1 DEF QueryOK
      <3> QED BY <2>8, <3>1 DEF Covered
    <2>10. \A c \in n.over : Status(c) = "over"
      BY <1>0, <2>1, <2>8 DEF QueryOK
    <2>11. Permitted(n)
      <3>1. Summarised(n)
        BY <2>4, <2>8 DEF Summarised
      <3> QED BY <2>8, <2>9, <3>1 DEF Permitted
    <2> QED BY <1>s, <2>0, <2>6, <2>8, <2>10, <2>11, QueryMoves
  <1>6. ASSUME NEW q \in Queries, AuditQuery(q) PROVE FederationInv'
    <2> DEFINE a == Record(q)
    <2>1. /\ query' = [query EXCEPT ![q].pc = "answer"] /\ audit' = audit \cup {a}
          /\ UNCHANGED <<consents, signing, answered>>
      BY <1>6 DEF AuditQuery
    <2>2. a.query = q /\ Accounts(a, query[q])
      <3>1. /\ a.query = q /\ a.policy = Applied(query[q]) /\ a.count = Cardinality(query[q].hits)
            /\ a.consent = query[q].consent
        BY DEF Record
      <3>2. ASSUME NEW h \in query[q].hits, h.policy = "summary_only" PROVE a.policy = "summary_only"
        <4>1. query[q].enterprise # OwnEnterprise => query[q].consent # "none"
          BY <1>0, <3>2, FederationAssumption DEF QueryOK, Permitted, Covered
        <4> QED BY <3>1, <3>2, <4>1 DEF Applied
      <3> QED BY <3>1, <3>2 DEF Accounts
    <2> HIDE DEF a
    <2> QED BY <1>3, <1>s, <2>1, <2>2
  <1>7. ASSUME NEW q \in Queries, QueryFails(q) PROVE FederationInv'
    BY <1>3, <1>7, <1>s DEF QueryFails
  <1>8. ASSUME NEW q \in Queries, AnswerQuery(q) PROVE FederationInv'
    <2>1. /\ query[q].pc = "answer" /\ query' = [query EXCEPT ![q].pc = "done"]
          /\ answered' = answered \cup {Reply(q)} /\ UNCHANGED <<consents, signing, audit>>
      BY <1>8 DEF AnswerQuery
    <2>2. PICK y \in QueryRecord : y = query[q]
      BY <1>0
    <2>3. PICK x : /\ x = Reply(q) /\ x.query = q /\ x.enterprise = y.enterprise /\ x.group = y.group
                   /\ x.hits = y.hits /\ x.consent = y.consent /\ x.over = y.over
      <3> DEFINE r == [query |-> q, enterprise |-> y.enterprise, group |-> y.group, hits |-> y.hits,
                       consent |-> y.consent, over |-> y.over]
      <3>1. Reply(q) = r
        BY <2>2, Zenon DEF Reply
      <3>2. /\ r.query = q /\ r.enterprise = y.enterprise /\ r.group = y.group /\ r.hits = y.hits
            /\ r.consent = y.consent /\ r.over = y.over
        OBVIOUS
      <3> HIDE DEF r
      <3> QED BY <3>1, <3>2
    <2>4. QueryOK(q) /\ y.over \subseteq ConsentIds
      BY <1>0 DEF QueryRecord
    <2>5. PICK a \in audit : a.query = q /\ Accounts(a, y)
      BY <2>1, <2>2, <2>4 DEF QueryOK
    <2>6. AnswerOK(x)
      <3>1. Permitted(x)
        <4>1. Permitted(y)
          BY <2>2, <2>4 DEF QueryOK
        <4>2. Summarised(x) /\ (Covered(y) => Covered(x))
          BY <2>3, <4>1 DEF Permitted, Summarised, Covered
        <4> QED BY <2>3, <4>1, <4>2 DEF Permitted
      <3>2. Accounts(a, x)
        BY <2>3, <2>5 DEF Accounts
      <3> QED BY <2>3, <2>4, <2>5, <3>1, <3>2 DEF AnswerOK
    <2>7. AnswerOK(x)'
      BY <2>1, <2>6 DEF AnswerOK, Permitted, Summarised, Covered, Covers, Status
    <2>8. \A z \in answered' : AnswerOK(z)'
      BY <1>s, <2>1, <2>3, <2>7
    <2> QED BY <1>3, <2>1, <2>8
  <1>9. ASSUME NEW s \in Signatures, NEW c \in ConsentIds, NEW e \in Enterprises,
               NEW from \in {AnyGroup, OwnGroup}, NEW to \in {AnyGroup, OwnGroup},
               SignBegin(s, c, e, from, to)
        PROVE  FederationInv'
    <2> DEFINE n == [status |-> "reserved", of |-> e, from |-> from, to |-> to]
               m == [pc |-> "insert", consent |-> c]
    <2>1. /\ consents' = [consents EXCEPT ![c] = n] /\ signing' = [signing EXCEPT ![s] = m]
          /\ UNCHANGED <<query, audit, answered>> /\ Status(c) = "unused"
      BY <1>9 DEF SignBegin, Status
    <2>2. n \in ConsentRecord /\ n.status = "reserved"
      BY DEF ConsentRecord
    <2>3. m \in SigningRecord /\ m.pc = "insert" /\ m.consent = c
      BY DEF SigningRecord
    <2> HIDE DEF n, m
    <2>4. /\ consents' \in [ConsentIds -> ConsentRecord] /\ Status(c)' = "reserved"
          /\ \A d \in ConsentIds \ {c} : consents'[d] = consents[d] /\ Status(d)' = Status(d)
      BY <1>0, <2>1, <2>2 DEF Status
    <2>5. ConsentsAge
      BY <2>1, <2>4 DEF ConsentsAge, Covers
    <2>6. /\ signing' \in [Signatures -> SigningRecord] /\ signing'[s] = m
          /\ \A t \in Signatures \ {s} : signing'[t] = signing[t]
      BY <1>0, <2>1, <2>3
    <2>7. \A t \in Signatures : signing[t].pc = "insert" => signing[t].consent # c
      BY <1>0, <2>1 DEF Reserves
    <2>8. \A t \in Signatures : Reserves(t)'
      BY <1>0, <2>3, <2>4, <2>6, <2>7 DEF Reserves, Status
    <2>9. \A t, u \in Signatures : signing'[t].pc = "insert" /\ signing'[u].pc = "insert"
                                   /\ signing'[t].consent = signing'[u].consent => t = u
      BY <1>0, <2>3, <2>6, <2>7
    <2> QED BY <2>1, <2>5, <2>6, <2>8, <2>9, ConsentMoves
  \* A request that does not insert, and one consent that ends or becomes active.
  <1>10. ASSUME NEW s \in Signatures, signing' \in [Signatures -> SigningRecord],
                signing'[s].pc # "insert", \A t \in Signatures \ {s} : signing'[t] = signing[t],
                ConsentsAge, audit \subseteq audit', UNCHANGED <<query, answered>>,
                \A t \in Signatures \ {s} : signing[t].pc = "insert" =>
                   Status(signing[t].consent)' = Status(signing[t].consent)
         PROVE  FederationInv'
    <2>1. \A t \in Signatures : Reserves(t)'
      <3> SUFFICES ASSUME NEW t \in Signatures, signing'[t].pc = "insert" PROVE Reserves(t)'
        BY DEF Reserves
      <3>1. t # s /\ signing'[t] = signing[t]
        BY <1>10
      <3>2. signing[t].consent \in ConsentIds /\ Status(signing[t].consent) = "reserved"
        BY <1>0, <3>1 DEF Reserves
      <3>3. PICK c \in ConsentIds : c = signing[t].consent /\ c = signing'[t].consent
        BY <3>1, <3>2
      <3>4. Status(signing[t].consent)' = "reserved"
        BY <1>10, <3>1, <3>2
      <3> QED BY <3>3, <3>4 DEF Reserves, Status
    <2>2. \A t, u \in Signatures : signing'[t].pc = "insert" /\ signing'[u].pc = "insert"
                                   /\ signing'[t].consent = signing'[u].consent => t = u
      BY <1>0, <1>10
    <2> QED BY <1>10, <2>1, <2>2, ConsentMoves
  <1>11. ASSUME NEW s \in Signatures, SignInsert(s) PROVE FederationInv'
    <2>1. PICK c \in ConsentIds : c = signing[s].consent /\ Status(c) = "reserved"
      BY <1>0, <1>11 DEF SignInsert, Reserves
    <2>2. /\ consents' = [consents EXCEPT ![c].status = "active"] /\ signing' = [signing EXCEPT ![s].pc = "consent_signed"]
          /\ UNCHANGED <<query, audit, answered>> /\ signing[s].pc = "insert"
      BY <1>11, <2>1 DEF SignInsert
    <2>3. ConsentsAge /\ \A d \in ConsentIds \ {c} : Status(d)' = Status(d)
      BY <2>1, <2>2, StatusMoves
    <2>4. /\ signing' \in [Signatures -> SigningRecord] /\ signing'[s].pc = "consent_signed"
          /\ \A t \in Signatures \ {s} : signing'[t] = signing[t]
      BY <1>0, <2>2, SigningFields
    <2>5. ASSUME NEW t \in Signatures \ {s}, signing[t].pc = "insert"
          PROVE  Status(signing[t].consent)' = Status(signing[t].consent)
      <3>1. PICK d \in ConsentIds \ {c} : d = signing[t].consent /\ d = signing'[t].consent
        BY <1>0, <2>1, <2>2, <2>4, <2>5 DEF Reserves
      <3> QED BY <2>3, <3>1 DEF Status
    <2> QED BY <1>10, <2>2, <2>3, <2>4, <2>5
  <1>12. ASSUME NEW s \in Signatures, NEW c \in ConsentIds, Revoke(s, c) PROVE FederationInv'
    <2> DEFINE m == [pc |-> "consent_revoked", consent |-> c]
    <2>1. /\ consents' = [consents EXCEPT ![c].status = "over"] /\ signing' = [signing EXCEPT ![s] = m]
          /\ UNCHANGED <<query, audit, answered>> /\ Status(c) \in {"active", "over"}
      BY <1>12 DEF Revoke, Status
    <2>2. ConsentsAge /\ \A d \in ConsentIds \ {c} : Status(d)' = Status(d)
      BY <2>1, StatusMoves
    <2>3. m \in SigningRecord /\ m.pc = "consent_revoked"
      BY DEF SigningRecord
    <2> HIDE DEF m
    <2>4. /\ signing' \in [Signatures -> SigningRecord] /\ signing'[s].pc = "consent_revoked"
          /\ \A t \in Signatures \ {s} : signing'[t] = signing[t]
      BY <1>0, <2>1, <2>3
    <2>5. ASSUME NEW t \in Signatures \ {s}, signing[t].pc = "insert"
          PROVE  Status(signing[t].consent)' = Status(signing[t].consent)
      <3>1. PICK d \in ConsentIds \ {c} : d = signing[t].consent /\ d = signing'[t].consent
        BY <1>0, <2>1, <2>4, <2>5 DEF Reserves
      <3> QED BY <2>2, <3>1 DEF Status
    <2> QED BY <1>10, <2>1, <2>2, <2>4, <2>5
  <1>13. ASSUME NEW s \in Signatures, RecordConsent(s) PROVE FederationInv'
    <2>1. /\ audit \subseteq audit' /\ signing' = [signing EXCEPT ![s].pc = "done"]
          /\ UNCHANGED <<consents, query, answered>>
      BY <1>13 DEF RecordConsent
    <2>2. /\ signing' \in [Signatures -> SigningRecord] /\ signing'[s].pc = "done"
          /\ \A t \in Signatures \ {s} : signing'[t] = signing[t]
      BY <1>0, <2>1, SigningFields
    <2>3. ConsentsAge
      BY <2>1, ConsentsStay
    <2>4. ASSUME NEW t \in Signatures \ {s} PROVE Status(signing[t].consent)' = Status(signing[t].consent)
      <3>1. signing'[t] = signing[t]
        BY <2>2
      <3> QED BY <2>1, <3>1 DEF Status
    <2> QED BY <1>10, <2>1, <2>2, <2>3, <2>4
  <1>14. ASSUME NEW c \in ConsentIds, ConsentEnds(c) PROVE FederationInv'
    <2>1. /\ consents' = [consents EXCEPT ![c].status = "over"] /\ Status(c) = "active"
          /\ UNCHANGED <<query, signing, audit, answered>>
      BY <1>14 DEF ConsentEnds, Status
    <2>2. ConsentsAge /\ \A d \in ConsentIds \ {c} : Status(d)' = Status(d)
      BY <2>1, StatusMoves
    <2>3. ASSUME NEW t \in Signatures PROVE Reserves(t)'
      <3> SUFFICES ASSUME signing'[t].pc = "insert" PROVE Reserves(t)'
        BY DEF Reserves
      <3>1. PICK d \in ConsentIds \ {c} : d = signing[t].consent /\ d = signing'[t].consent /\ Status(d) = "reserved"
        BY <1>0, <2>1 DEF Reserves
      <3> QED BY <2>2, <3>1 DEF Reserves, Status
    <2> QED BY <1>0, <2>1, <2>2, <2>3, ConsentMoves
  <1>15. CASE UNCHANGED federationVars
    <2>1. UNCHANGED <<consents, query, signing, audit, answered>>
      BY <1>15 DEF federationVars
    <2>2. \A t \in Signatures : Reserves(t)'
      BY <1>0, <2>1 DEF Reserves, Status
    <2>3. ConsentsAge
      BY <2>1, ConsentsStay
    <2> QED BY <1>0, <2>1, <2>2, <2>3, ConsentMoves
  <1> QED BY <1>1, <1>4, <1>5, <1>6, <1>7, <1>8, <1>9, <1>11, <1>12, <1>13, <1>14, <1>15 DEF FederationNext

\* Store calls interleave and fail between each other; an answer that left has its
\* audit row, and what went to another Enterprise a consent that still covers it.
THEOREM FederationCorrect == FederationSpec => []FederationInv
  BY FederationInitially, FederationNextStep, PTL DEF FederationSpec

-----------------------------------------------------------------------------
(* Lookup. A search comes back with one copy of each unit it found, and the *)
(* copies know where they were found; the rest is the ranking itself.       *)
CopyRecord == [ku : Kus, similarity : 0 .. Floor + 1, confidence : 0 .. Floor, here : BOOLEAN]
LookRecord == [pc : {"embed", "peers", "fan-out", "answered"}, asked : SUBSET Siblings, excludes : BOOLEAN]

FoundAt(hits, here) == IsFiniteSet(hits) /\ hits \subseteq CopyRecord /\ \A c \in hits : c.here = here

LookupInv ==
    /\ look \in LookRecord
    /\ FoundAt(ownHits, TRUE) /\ FoundAt(peerHits, FALSE)
    /\ \A c, d \in ownHits : c.ku = d.ku => c = d
    /\ look.pc = "embed" => ownHits = {} /\ results = {}
    /\ DegradesToLocal

LEMMA Least ==
    ASSUME NEW T, T \subseteq Nat, T # {}
    PROVE  \E n \in T : \A m \in T : n <= m
  <1> DEFINE R == {ss \in Nat \X Nat : ss[1] < ss[2]}
  <1>1. IsWellFoundedOn(R, Nat)
    BY NatLessThanWellFounded DEF OpToRel
  <1>2. \A m, n \in Nat : <<m, n>> \in R <=> m < n
    OBVIOUS
  <1> HIDE DEF R
  <1>3. \E n \in T : \A m \in T : ~ (<<m, n>> \in R)
    BY <1>1, WFMin
  <1>4. PICK n \in T : \A m \in T : ~ (<<m, n>> \in R)
    BY <1>3
  <1>5. ASSUME NEW m \in T PROVE n <= m
    <2>1. m \in Nat /\ n \in Nat
      OBVIOUS
    <2>2. ~ (m < n)
      BY <1>2, <1>4, <2>1
    <2> QED BY <2>1, <2>2
  <1> QED BY <1>5

\* What a search comes back with.
LEMMA HitsAre ==
    ASSUME NEW n \in Nat, NEW here \in BOOLEAN, NEW h \in Hits(n, here)
    PROVE  FoundAt(h, here) /\ \A c, d \in h : c.ku = d.ku => c = d
  <1>0. PICK found \in SUBSET Kus :
           \E x \in [found -> (0 .. Floor + 1) \X (0 .. Floor)] : h = {Copy(k, x[k], here) : k \in found}
    BY DEF Hits
  <1>1. PICK x \in [found -> (0 .. Floor + 1) \X (0 .. Floor)] : h = {Copy(k, x[k], here) : k \in found}
    BY <1>0
  <1>2. \A k \in found : /\ Copy(k, x[k], here) \in CopyRecord
                         /\ Copy(k, x[k], here).ku = k /\ Copy(k, x[k], here).here = here
    BY <1>1 DEF Copy, CopyRecord
  <1>3. IsFiniteSet(found)
    BY LookupAssumption, FS_Subset
  <1> DEFINE f == [k \in found |-> Copy(k, x[k], here)]
  <1>4. f \in Surjection(found, h)
    BY <1>1 DEF Surjection
  <1>5. IsFiniteSet(h)
    BY <1>3, <1>4, FS_Surjection
  <1>6. \A c \in h : \E k \in found : c = Copy(k, x[k], here)
    BY <1>1
  <1>7. h \subseteq CopyRecord /\ \A c \in h : c.here = here
    BY <1>2, <1>6
  <1>8. ASSUME NEW c \in h, NEW d \in h, c.ku = d.ku PROVE c = d
    BY <1>2, <1>6, <1>8
  <1> QED BY <1>5, <1>7, <1>8 DEF FoundAt

\* Of the copies of a unit one is the nearest.
LEMMA NearestExists ==
    ASSUME LookupInv, NEW c \in Candidates
    PROVE  Nearest(c.ku) # {}
  <1>1. Floor \in Nat /\ \A d \in Candidates : d \in CopyRecord
    BY LookupAssumption DEF LookupInv, FoundAt, Candidates
  <1>2. PICK same : same = {d \in Candidates : d.ku = c.ku}
    OBVIOUS
  <1> DEFINE Gap(d) == Floor + 1 - d.similarity
             T == {Gap(d) : d \in same}
  <1>3. \A d \in same : d.similarity \in Nat /\ d.similarity <= Floor + 1 /\ Gap(d) \in Nat
    BY <1>1, <1>2 DEF CopyRecord
  <1>4. T \subseteq Nat /\ T # {}
    BY <1>2, <1>3
  <1>5. PICK n \in T : \A m \in T : n <= m
    <2> HIDE DEF T
    <2> QED BY <1>4, Least
  <1>6. PICK d \in same : n = Gap(d)
    OBVIOUS
  <1>7. \A e \in same : Gap(d) <= Gap(e)
    BY <1>5, <1>6
  <1>8. \A e \in same : e.similarity <= d.similarity
    BY <1>1, <1>3, <1>7
  <1>9. d \in Nearest(c.ku)
    BY <1>2, <1>8 DEF Nearest
  <1> QED BY <1>9

\* The ranking: one nearest copy of each unit, a local one where it is as near, and
\* of those that pass the best.
LEMMA Ranking ==
    ASSUME LookupInv, NEW merged \in SUBSET Candidates,
           \A k \in Kus : Cardinality({c \in merged : c.ku = k}) = (IF Nearest(k) = {} THEN 0 ELSE 1),
           \A c \in merged : c \in Kept(c.ku),
           NEW passing, passing = {c \in merged : Passes(c)}, NEW top \in SUBSET passing,
           Cardinality(top) = (IF Cardinality(passing) < MaxHits THEN Cardinality(passing) ELSE MaxHits),
           \A c \in top, d \in passing \ top : d.similarity <= c.similarity
    PROVE  /\ \A c \in ownHits : Passes(c) =>
                 \/ \E r \in top : r.ku = c.ku
                 \/ Cardinality(top) = MaxHits /\ \A r \in top : r.similarity >= c.similarity
                 \/ \E r \in peerHits : r.ku = c.ku /\ r.similarity > c.similarity /\ ~Passes(r)
           /\ \A r \in top, c \in ownHits : r.ku = c.ku /\ ~r.here => r.similarity > c.similarity
  <1>1. /\ Candidates = ownHits \cup peerHits /\ IsFiniteSet(Candidates)
        /\ \A c \in Candidates : c.ku \in Kus /\ c.similarity \in Nat
        /\ (\A c \in ownHits : c.here = TRUE) /\ (\A c \in peerHits : c.here = FALSE)
    <2>1. FoundAt(ownHits, TRUE) /\ FoundAt(peerHits, FALSE)
      BY DEF LookupInv
    <2>2. Candidates = ownHits \cup peerHits /\ Candidates \subseteq CopyRecord
      BY <2>1 DEF FoundAt, Candidates
    <2>3. IsFiniteSet(Candidates)
      BY <2>1, <2>2, FS_Union DEF FoundAt
    <2>4. \A c \in CopyRecord : c.ku \in Kus /\ c.similarity \in Nat
      BY LookupAssumption DEF CopyRecord
    <2> QED BY <2>1, <2>2, <2>3, <2>4 DEF FoundAt
  <1>2. ASSUME NEW m \in merged, NEW c \in ownHits, m.ku = c.ku
        PROVE  /\ m.similarity >= c.similarity
               /\ m.similarity = c.similarity => m \in ownHits
    <2>1. m \in Nearest(m.ku) /\ (Nearest(m.ku) \cap ownHits # {} => m \in ownHits)
      BY DEF Kept
    <2>2. m.similarity >= c.similarity
      BY <1>1, <1>2, <2>1 DEF Nearest
    <2>3. m.similarity = c.similarity => c \in Nearest(m.ku)
      BY <1>1, <1>2, <2>1 DEF Nearest
    <2> QED BY <2>1, <2>2, <2>3
  <1>3. ASSUME NEW c \in ownHits, Passes(c)
        PROVE  \/ \E r \in top : r.ku = c.ku
               \/ Cardinality(top) = MaxHits /\ \A r \in top : r.similarity >= c.similarity
               \/ \E r \in peerHits : r.ku = c.ku /\ r.similarity > c.similarity /\ ~Passes(r)
    <2>1. Cardinality({d \in merged : d.ku = c.ku}) = 1
      BY <1>1, NearestExists
    <2>2. {d \in merged : d.ku = c.ku} # {}
      <3>1. PICK same : same = {d \in merged : d.ku = c.ku}
        OBVIOUS
      <3>2. Cardinality(same) = 1
        BY <2>1, <3>1
      <3>3. same # {}
        BY <3>2, FS_EmptySet
      <3> QED BY <3>1, <3>3
    <2>3. PICK m \in merged : m.ku = c.ku
      BY <2>2
    <2>4. m.similarity >= c.similarity /\ (m.similarity = c.similarity => m \in ownHits)
      BY <1>2, <2>3
    <2>5. CASE Passes(m) /\ m \in top
      BY <2>3, <2>5
    <2>6. CASE Passes(m) /\ m \notin top
      <3>1. m \in passing \ top
        BY <2>6
      <3>2. IsFiniteSet(passing)
        BY <1>1, FS_Subset
      <3>3. Cardinality(top) # Cardinality(passing)
        BY <3>1, <3>2, FS_Subset
      <3>4. Cardinality(top) = MaxHits
        BY <3>3
      <3>5. \A r \in top : r.similarity >= c.similarity
        <4> SUFFICES ASSUME NEW r \in top PROVE r.similarity >= c.similarity
          OBVIOUS
        <4>1. m.similarity <= r.similarity
          BY <3>1
        <4>2. r.similarity \in Nat /\ m.similarity \in Nat /\ c.similarity \in Nat
          BY <1>1
        <4> QED BY <2>4, <4>1, <4>2
      <3> QED BY <3>4, <3>5
    <2>7. CASE ~Passes(m)
      <3>1. m \notin ownHits
        BY <1>3, <2>3, <2>7 DEF LookupInv
      <3>2. m \in peerHits /\ m.similarity # c.similarity
        BY <1>1, <2>4, <3>1
      <3>3. m.similarity > c.similarity
        BY <1>1, <2>4, <3>2
      <3> QED BY <2>3, <2>7, <3>2, <3>3
    <2> QED BY <2>5, <2>6, <2>7
  <1>4. ASSUME NEW r \in top, NEW c \in ownHits, r.ku = c.ku, ~r.here
        PROVE  r.similarity > c.similarity
    <2>1. r \in merged /\ r \notin ownHits
      BY <1>1, <1>4
    <2>2. r.similarity >= c.similarity /\ r.similarity # c.similarity
      BY <1>2, <1>4, <2>1
    <2>3. r.similarity \in Nat /\ c.similarity \in Nat
      BY <1>1, <2>1
    <2> QED BY <2>2, <2>3
  <1> QED BY <1>3, <1>4

LEMMA LookupInitially == LookupInit => LookupInv
  <1> SUFFICES ASSUME LookupInit PROVE LookupInv
    OBVIOUS
  <1>1. look \in LookRecord /\ look.pc = "embed" /\ ownHits = {} /\ peerHits = {} /\ results = {}
    BY DEF LookupInit, LookRecord
  <1>2. FoundAt(ownHits, TRUE) /\ FoundAt(peerHits, FALSE)
    BY <1>1, FS_EmptySet DEF FoundAt
  <1> QED BY <1>1, <1>2 DEF LookupInv, DegradesToLocal

LEMMA LookupNextStep ==
    ASSUME LookupInv, [LookupNext]_lookupVars
    PROVE  LookupInv'
  <1> USE LookupAssumption
  <1>0. /\ look \in LookRecord /\ FoundAt(ownHits, TRUE) /\ FoundAt(peerHits, FALSE)
        /\ \A c, d \in ownHits : c.ku = d.ku => c = d
        /\ look.pc = "embed" => ownHits = {} /\ results = {}
        /\ MaxHits \in Nat
    BY DEF LookupInv
  <1>1. CASE EmbedFails
    <2>1. ownHits' = {} /\ results' = {} /\ peerHits' = peerHits
      BY <1>0, <1>1 DEF EmbedFails
    <2>2. look' \in LookRecord /\ look'.pc = "answered"
      BY <1>0, <1>1 DEF EmbedFails, LookRecord
    <2>3. FoundAt(ownHits, TRUE)' /\ FoundAt(peerHits, FALSE)'
      BY <1>0, <2>1, FS_EmptySet DEF FoundAt
    <2> QED BY <2>1, <2>2, <2>3 DEF LookupInv, DegradesToLocal
  <1>2. CASE SearchHere
    <2>0. \A n \in Nat : 3 * n \in Nat
      OBVIOUS
    <2>1. ownHits' \in Hits(3 * MaxHits, TRUE) /\ 3 * MaxHits \in Nat /\ peerHits' = peerHits
      BY <1>0, <1>2, <2>0 DEF SearchHere
    <2>2. PICK h \in Hits(3 * MaxHits, TRUE) : h = ownHits'
      BY <2>1
    <2>3. FoundAt(h, TRUE) /\ \A c, d \in h : c.ku = d.ku => c = d
      BY <2>1, HitsAre
    <2>4. look' \in LookRecord /\ look'.pc = "peers"
      BY <1>0, <1>2 DEF SearchHere, LookRecord
    <2>5. FoundAt(ownHits, TRUE)' /\ FoundAt(peerHits, FALSE)'
      BY <1>0, <2>1, <2>2, <2>3 DEF FoundAt
    <2> QED BY <2>2, <2>3, <2>4, <2>5 DEF LookupInv, DegradesToLocal
  \* The siblings are asked, and one answers or fails.
  <1>3. ASSUME look' \in LookRecord, look'.pc = "fan-out", ownHits' = ownHits, FoundAt(peerHits, FALSE)'
        PROVE  LookupInv'
    <2>1. FoundAt(ownHits, TRUE)'
      BY <1>0, <1>3 DEF FoundAt
    <2> QED BY <1>0, <1>3, <2>1 DEF LookupInv, DegradesToLocal
  <1>4. ASSUME NEW readable \in BOOLEAN, AskSiblings(readable) PROVE LookupInv'
    <2>1. PICK asked \in SUBSET Siblings : look' = [look EXCEPT !.pc = "fan-out", !.asked = asked]
      BY <1>4 DEF AskSiblings, Selected
    <2>2. look' \in LookRecord /\ look'.pc = "fan-out"
      BY <1>0, <2>1 DEF LookRecord
    <2>3. ownHits' = ownHits /\ FoundAt(peerHits, FALSE)'
      BY <1>0, <1>4 DEF AskSiblings, FoundAt
    <2> QED BY <1>3, <2>2, <2>3
  <1>5. ASSUME NEW p \in Siblings, look.pc = "fan-out", look' = [look EXCEPT !.asked = @ \ {p}]
        PROVE  look' \in LookRecord /\ look'.pc = "fan-out"
    BY <1>0, <1>5 DEF LookRecord
  <1>6. ASSUME NEW p \in Siblings, SiblingAnswers(p) PROVE LookupInv'
    <2>1. PICK h \in Hits(MaxHits, FALSE) : peerHits' = peerHits \cup h
      BY <1>6 DEF SiblingAnswers
    <2>2. FoundAt(h, FALSE)
      BY <1>0, HitsAre
    <2>3. FoundAt(peerHits, FALSE)'
      BY <1>0, <2>1, <2>2, FS_Union DEF FoundAt
    <2>4. look.pc = "fan-out" /\ look' = [look EXCEPT !.asked = @ \ {p}] /\ ownHits' = ownHits
      BY <1>6 DEF SiblingAnswers
    <2> QED BY <1>3, <1>5, <2>3, <2>4
  <1>7. ASSUME NEW p \in Siblings, SiblingFails(p) PROVE LookupInv'
    <2>1. /\ look.pc = "fan-out" /\ look' = [look EXCEPT !.asked = @ \ {p}]
          /\ ownHits' = ownHits /\ peerHits' = peerHits
      BY <1>7 DEF SiblingFails
    <2>2. FoundAt(peerHits, FALSE)'
      BY <1>0, <2>1 DEF FoundAt
    <2> QED BY <1>3, <1>5, <2>1, <2>2
  <1>8. CASE Rank
    <2>1. PICK merged \in SUBSET Candidates :
             /\ \A k \in Kus : Cardinality({c \in merged : c.ku = k}) = (IF Nearest(k) = {} THEN 0 ELSE 1)
             /\ \A c \in merged : c \in Kept(c.ku)
             /\ LET passing == {c \in merged : Passes(c)} IN
                \E top \in SUBSET passing :
                   /\ Cardinality(top) = (IF Cardinality(passing) < MaxHits THEN Cardinality(passing) ELSE MaxHits)
                   /\ \A c \in top, d \in passing \ top : d.similarity <= c.similarity
                   /\ results' = top
      BY <1>8 DEF Rank
    <2>2. PICK passing : passing = {c \in merged : Passes(c)}
      OBVIOUS
    <2>3. PICK top \in SUBSET passing :
             /\ Cardinality(top) = (IF Cardinality(passing) < MaxHits THEN Cardinality(passing) ELSE MaxHits)
             /\ \A c \in top, d \in passing \ top : d.similarity <= c.similarity
             /\ results' = top
      BY <2>1, <2>2
    <2>4. /\ \A c \in ownHits : Passes(c) =>
                \/ \E r \in top : r.ku = c.ku
                \/ Cardinality(top) = MaxHits /\ \A r \in top : r.similarity >= c.similarity
                \/ \E r \in peerHits : r.ku = c.ku /\ r.similarity > c.similarity /\ ~Passes(r)
          /\ \A r \in top, c \in ownHits : r.ku = c.ku /\ ~r.here => r.similarity > c.similarity
      BY <2>1, <2>2, <2>3, Ranking
    <2>5. look' \in LookRecord /\ look'.pc = "answered" /\ look'.excludes = look.excludes
      BY <1>0, <1>8 DEF Rank, LookRecord
    <2>6. ownHits' = ownHits /\ peerHits' = peerHits
      BY <1>8 DEF Rank
    <2>7. \A c : Passes(c) <=> Passes(c)'
      BY <2>5 DEF Passes
    <2>8. FoundAt(ownHits, TRUE)' /\ FoundAt(peerHits, FALSE)'
      BY <1>0, <2>6 DEF FoundAt
    <2>9. DegradesToLocal'
      BY <2>3, <2>4, <2>6, <2>7 DEF DegradesToLocal
    <2> QED BY <1>0, <2>5, <2>6, <2>8, <2>9 DEF LookupInv
  <1>9. CASE UNCHANGED lookupVars
    BY <1>9 DEF lookupVars, LookupInv, FoundAt, DegradesToLocal, Passes
  <1> QED BY <1>1, <1>2, <1>4, <1>6, <1>7, <1>8, <1>9 DEF LookupNext

\* Whichever siblings answer, refuse or never do, and whatever copies they mirror,
\* the ranking is over one nearest copy of each unit, the local one at a tie.
THEOREM LookupCorrect == LookupSpec => []LookupInv
  BY LookupInitially, LookupNextStep, PTL DEF LookupSpec

\* A query between L2s holds up on both sides: all that leaves the side that answers
\* is accounted for and permitted, and the side that asks keeps its own units.
THEOREM QueriesAccounted == FederationSpec /\ LookupSpec => []QueriesHoldUp
  <1>1. FederationInv => AnswersAccounted
    <2> SUFFICES ASSUME FederationInv, NEW x \in answered
                 PROVE  /\ \E a \in audit : a.query = x.query /\ Accounts(a, x)
                        /\ x.enterprise # OwnEnterprise /\ x.hits # {} =>
                              x.consent # "none" /\ x.consent \notin x.over
                              /\ Covers(x.consent, x.enterprise, x.group)
                        /\ Summarised(x)
      BY DEF AnswersAccounted, Accounts, Summarised
    <2>1. Permitted(x) /\ \E a \in audit : a.query = x.query /\ Accounts(a, x)
      BY DEF FederationInv, AnswerOK
    <2>2. Covered(x) => /\ x.consent # "none" /\ x.consent \notin x.over
                        /\ Covers(x.consent, x.enterprise, x.group)
      BY FederationAssumption DEF Covered
    <2> QED BY <2>1, <2>2 DEF Permitted
  <1>2. LookupInv => DegradesToLocal
    BY DEF LookupInv
  <1>3. AnswersAccounted /\ DegradesToLocal => QueriesHoldUp
    BY DEF QueriesHoldUp
  <1> QED BY <1>1, <1>2, <1>3, FederationCorrect, LookupCorrect, PTL

-----------------------------------------------------------------------------
(* PeerGossip. All that is stored, answered or announced of an L2 it has   *)
(* said of itself; and no L2 ever hears of itself, so that its own row,    *)
(* which every loop would have to pass over, is never there.               *)
PeerRow      == [era : Nat, signed : BOOLEAN]
RosterEntry  == [about : L2s, era : Nat]
Announcement == [to : L2s, about : L2s, era : Nat]

GossipTypeOK ==
    /\ era \in [L2s -> Nat \ {0}]
    /\ row \in [L2s -> [L2s -> PeerRow]]
    /\ joined \in [L2s -> BOOLEAN] /\ joined[Seed]
    /\ answer \in [L2s -> SUBSET RosterEntry]
    /\ flight \subseteq Announcement
    /\ restarts \in Nat

\* An L2 has said this of itself: an era it has had, or has now.
Said(n, e) == e > 0 /\ e <= era[n]

NothingInvented ==
    /\ \A m \in L2s : \A n \in Known(m) : n # m /\ Said(n, row[m][n].era)
    /\ \A x \in flight : x.to # x.about /\ Said(x.about, x.era)
    /\ \A n \in L2s : \A x \in answer[n] : x.about # n /\ Said(x.about, x.era)

GossipInv == GossipTypeOK /\ NothingInvented

LEMMA RowFields ==
    ASSUME NEW x \in PeerRow, NEW e \in Nat
    PROVE  /\ [x EXCEPT !.era = e] \in PeerRow
           /\ [x EXCEPT !.era = e].era = e /\ [x EXCEPT !.era = e].signed = x.signed
           /\ [x EXCEPT !.signed = TRUE] \in PeerRow /\ [x EXCEPT !.signed = TRUE].era = x.era
  <1>1. [x EXCEPT !.era = e] \in PeerRow
    BY DEF PeerRow
  <1>2. [x EXCEPT !.era = e].era = e
    BY DEF PeerRow
  <1>3. [x EXCEPT !.era = e].signed = x.signed
    BY DEF PeerRow
  <1>4. [x EXCEPT !.signed = TRUE] \in PeerRow /\ [x EXCEPT !.signed = TRUE].era = x.era
    BY DEF PeerRow
  <1> QED BY <1>1, <1>2, <1>3, <1>4

\* One row changes, to what its L2 has said.
LEMMA RowStep ==
    ASSUME GossipInv, NEW m \in L2s, NEW n \in L2s, m # n, NEW x \in PeerRow, Said(n, x.era),
           row' = [row EXCEPT ![m] = [row[m] EXCEPT ![n] = x]], era' = era
    PROVE  /\ row' \in [L2s -> [L2s -> PeerRow]]
           /\ \A p \in L2s : \A q \in Known(p)' : q # p /\ Said(q, row[p][q].era)'
  <1>1. row \in [L2s -> [L2s -> PeerRow]]
    BY DEF GossipInv, GossipTypeOK
  <1>2. /\ row' \in [L2s -> [L2s -> PeerRow]]
        /\ row'[m][n] = x
        /\ \A p, q \in L2s : p # m \/ q # n => row'[p][q] = row[p][q]
    BY <1>1
  <1>3. ASSUME NEW p \in L2s, NEW q \in L2s, row'[p][q].era > 0
        PROVE  q # p /\ Said(q, row[p][q].era)'
    <2>1. CASE p = m /\ q = n
      BY <1>2, <2>1 DEF Said
    <2>2. CASE p # m \/ q # n
      BY <1>2, <1>3, <2>2 DEF GossipInv, NothingInvented, Known, Said
    <2> QED BY <2>1, <2>2
  <1> QED BY <1>2, <1>3 DEF Known

LEMMA TouchStep ==
    ASSUME GossipInv, NEW m \in L2s, NEW n \in L2s, m # n, NEW e \in Nat, Said(n, e),
           row' = Touch(m, n, e), era' = era
    PROVE  /\ row' \in [L2s -> [L2s -> PeerRow]]
           /\ \A p \in L2s : \A q \in Known(p)' : q # p /\ Said(q, row[p][q].era)'
  <1>1. row[m][n] \in PeerRow
    BY DEF GossipInv, GossipTypeOK
  <1> DEFINE x == [row[m][n] EXCEPT !.era = e]
  <1>2. x \in PeerRow /\ x.era = e
    BY <1>1, RowFields
  <1>3. row' = [row EXCEPT ![m] = [row[m] EXCEPT ![n] = x]]
    BY DEF Touch
  <1> HIDE DEF x
  <1> QED BY <1>2, <1>3, RowStep

LEMMA KnownIsAnother ==
    ASSUME GossipInv, NEW m \in L2s, NEW n \in Known(m)
    PROVE  n \in L2s /\ n # m /\ Said(n, row[m][n].era) /\ row[m][n].era \in Nat
  <1>1. n \in L2s /\ row[m][n] \in PeerRow
    BY DEF Known, GossipInv, GossipTypeOK
  <1> QED BY <1>1 DEF GossipInv, NothingInvented, PeerRow

LEMMA HelloStep ==
    ASSUME GossipInv, NEW m \in L2s, NEW n \in L2s, m # n, Hello(m, n), era' = era
    PROVE  /\ row' \in [L2s -> [L2s -> PeerRow]] /\ flight' \subseteq Announcement
           /\ \A p \in L2s : \A q \in Known(p)' : q # p /\ Said(q, row[p][q].era)'
           /\ \A x \in flight' : x.to # x.about /\ Said(x.about, x.era)'
  <1>1. era[n] \in Nat /\ Said(n, era[n])
    BY DEF GossipInv, GossipTypeOK, Said
  <1>2. row' = Touch(m, n, era[n])
    BY DEF Hello
  <1>3. ASSUME NEW x \in flight', x \notin flight
        PROVE  x \in Announcement /\ x.to # x.about /\ Said(x.about, x.era)
    <2>1. PICK p \in Known(m) \ {n} : x = [to |-> p, about |-> n, era |-> era[n]]
      BY <1>3 DEF Hello
    <2>2. p \in L2s
      BY DEF Known
    <2> QED BY <1>1, <2>1, <2>2 DEF Announcement
  <1>4. \A x \in flight' : x \in Announcement /\ x.to # x.about /\ Said(x.about, x.era)
    BY <1>3 DEF GossipInv, GossipTypeOK, NothingInvented
  <1>5. \A x : Said(x.about, x.era) => Said(x.about, x.era)'
    BY DEF Said
  <1> QED BY <1>1, <1>2, <1>4, <1>5, TouchStep

LEMMA GossipInitially == GossipInit => GossipInv
  <1> SUFFICES ASSUME GossipInit PROVE GossipInv
    OBVIOUS
  <1>1. PICK fresh \in BOOLEAN, moved \in SUBSET (L2s \ {Seed}) :
           /\ fresh => moved = {}
           /\ era = [n \in L2s |-> IF n \in moved THEN 2 ELSE 1]
           /\ row = [m \in L2s |-> [n \in L2s |-> IF fresh \/ m = n THEN Unknown ELSE [Current(n) EXCEPT !.era = 1]]]
           /\ joined = [n \in L2s |-> n = Seed \/ ~(fresh \/ n \in moved)]
    BY DEF GossipInit
  <1>2. /\ answer = [n \in L2s |-> {}] /\ flight = {} /\ restarts \in Nat
    BY GossipAssumption DEF GossipInit
  <1>3. Unknown \in PeerRow /\ Unknown.era = 0
    BY DEF Unknown, PeerRow
  <1>4. ASSUME NEW n \in L2s
        PROVE  [Current(n) EXCEPT !.era = 1] \in PeerRow /\ [Current(n) EXCEPT !.era = 1].era = 1
    <2>1. Current(n) \in PeerRow
      BY <1>1 DEF Current, PeerRow
    <2> QED BY <2>1, RowFields
  <1>5. \A m, n \in L2s : row[m][n].era > 0 => m # n /\ row[m][n].era = 1
    BY <1>1, <1>3, <1>4
  <1>6. GossipTypeOK
    <2>1. row \in [L2s -> [L2s -> PeerRow]]
      BY <1>1, <1>3, <1>4
    <2>2. joined \in [L2s -> BOOLEAN] /\ joined[Seed]
      BY <1>1, GossipAssumption
    <2> QED BY <1>1, <1>2, <2>1, <2>2 DEF GossipTypeOK
  <1>7. NothingInvented
    BY <1>1, <1>2, <1>5 DEF NothingInvented, Known, Said
  <1> QED BY <1>6, <1>7 DEF GossipInv

LEMMA GossipStep ==
    ASSUME GossipInv, [GossipNext]_gossipVars
    PROVE  GossipInv'
  <1> USE DEF GossipInv
  <1>0. \A n, e : era' = era => (Said(n, e)' <=> Said(n, e))
    BY DEF Said
  <1>1. ASSUME NEW n \in L2s, TryBootstrap(n) PROVE GossipInv'
    <2>1. /\ era' = era /\ restarts' = restarts /\ Hello(Seed, n) /\ ~joined[n]
          /\ joined' = [joined EXCEPT ![n] = TRUE]
          /\ answer' = [answer EXCEPT ![n] = Roster(Seed, n)]
      BY <1>1 DEF TryBootstrap
    <2>2. Seed \in L2s /\ Seed # n
      BY <2>1, GossipAssumption DEF GossipTypeOK
    <2>3. \A x \in Roster(Seed, n) : x \in RosterEntry /\ x.about # n /\ Said(x.about, x.era)
      <3> SUFFICES ASSUME NEW x \in Roster(Seed, n)
                   PROVE  x \in RosterEntry /\ x.about # n /\ Said(x.about, x.era)
        OBVIOUS
      <3>1. CASE x = [about |-> Seed, era |-> era[Seed]]
        BY <2>2, <3>1 DEF RosterEntry, GossipTypeOK, Said
      <3>2. CASE \E p \in Known(Seed) \ {n} : x = [about |-> p, era |-> row[Seed][p].era]
        BY <2>2, <3>2, KnownIsAnother DEF RosterEntry
      <3> QED BY <3>1, <3>2 DEF Roster
    <2>4. /\ answer' \in [L2s -> SUBSET RosterEntry]
          /\ \A k \in L2s : \A x \in answer'[k] : x.about # k /\ Said(x.about, x.era)
      BY <2>1, <2>3 DEF GossipTypeOK, NothingInvented
    <2>5. joined' \in [L2s -> BOOLEAN] /\ joined'[Seed]
      BY <2>1, <2>2 DEF GossipTypeOK
    <2>6. GossipTypeOK'
      BY <2>1, <2>2, <2>4, <2>5, HelloStep DEF GossipTypeOK
    <2>7. NothingInvented'
      BY <1>0, <2>1, <2>2, <2>4, HelloStep DEF NothingInvented
    <2> QED BY <2>6, <2>7
  <1>2. ASSUME NEW n \in L2s, NEW x \in answer[n], ApplyAnswer(n, x) PROVE GossipInv'
    <2>1. /\ era' = era /\ restarts' = restarts /\ joined' = joined /\ flight' = flight
          /\ row' = Touch(n, x.about, x.era) /\ answer' = [answer EXCEPT ![n] = @ \ {x}]
      BY <1>2 DEF ApplyAnswer
    <2>2. x.about \in L2s /\ x.about # n /\ x.era \in Nat /\ Said(x.about, x.era)
      BY DEF GossipTypeOK, NothingInvented, RosterEntry
    <2>3. /\ answer' \in [L2s -> SUBSET RosterEntry]
          /\ \A k \in L2s : answer'[k] \subseteq answer[k]
      BY <2>1 DEF GossipTypeOK
    <2>4. GossipTypeOK'
      BY <2>1, <2>2, <2>3, TouchStep DEF GossipTypeOK
    <2>5. NothingInvented'
      BY <1>0, <2>1, <2>2, <2>3, TouchStep DEF NothingInvented
    <2> QED BY <2>4, <2>5
  <1>3. ASSUME NEW m \in L2s, NEW n \in L2s, Rehello(m, n) PROVE GossipInv'
    <2>1. /\ era' = era /\ restarts' = restarts /\ joined' = joined /\ answer' = answer
          /\ Hello(n, m) /\ n \in Known(m)
      BY <1>3 DEF Rehello, Reachable
    <2>2. n # m
      BY <2>1, KnownIsAnother
    <2>3. GossipTypeOK'
      BY <2>1, <2>2, HelloStep DEF GossipTypeOK
    <2>4. NothingInvented'
      BY <1>0, <2>1, <2>2, HelloStep DEF NothingInvented
    <2> QED BY <2>3, <2>4
  <1>4. ASSUME NEW m \in L2s, NEW n \in L2s, FetchSignature(m, n) PROVE GossipInv'
    <2>1. /\ era' = era /\ restarts' = restarts /\ joined' = joined /\ answer' = answer /\ flight' = flight
          /\ row' = [row EXCEPT ![m][n].signed = TRUE] /\ n \in Known(m)
      BY <1>4 DEF FetchSignature, Reachable
    <2> DEFINE y == [row[m][n] EXCEPT !.signed = TRUE]
    <2>2. n # m /\ row[m][n] \in PeerRow /\ Said(n, row[m][n].era)
      BY <2>1, KnownIsAnother DEF GossipTypeOK
    <2>3. y \in PeerRow /\ Said(n, y.era)
      BY <2>2, RowFields
    <2>4. row' = [row EXCEPT ![m] = [row[m] EXCEPT ![n] = y]]
      BY <2>1
    <2> HIDE DEF y
    <2>5. GossipTypeOK'
      BY <2>1, <2>2, <2>3, <2>4, RowStep DEF GossipTypeOK
    <2>6. NothingInvented'
      BY <1>0, <2>1, <2>2, <2>3, <2>4, RowStep DEF NothingInvented
    <2> QED BY <2>5, <2>6
  <1>5. ASSUME NEW x \in flight, Announce(x) PROVE GossipInv'
    <2>1. /\ era' = era /\ restarts' = restarts /\ joined' = joined /\ answer' = answer
          /\ flight' = flight \ {x} /\ row' = Touch(x.to, x.about, x.era)
      BY <1>5 DEF Announce
    <2>2. x.to \in L2s /\ x.about \in L2s /\ x.about # x.to /\ x.era \in Nat /\ Said(x.about, x.era)
      BY DEF GossipTypeOK, NothingInvented, Announcement
    <2>3. GossipTypeOK'
      BY <2>1, <2>2, TouchStep DEF GossipTypeOK
    <2>4. NothingInvented'
      BY <1>0, <2>1, <2>2, TouchStep DEF NothingInvented
    <2> QED BY <2>3, <2>4
  <1>6. ASSUME NEW x \in flight, Lose(x) PROVE GossipInv'
    BY <1>0, <1>6 DEF Lose, GossipTypeOK, NothingInvented, Known
  <1>7. ASSUME NEW n \in L2s, NEW moved \in BOOLEAN, Redeploy(n, moved) PROVE GossipInv'
    <2>1. /\ era' = [era EXCEPT ![n] = IF moved THEN @ + 1 ELSE @] /\ row' = row
          /\ joined' = [joined EXCEPT ![n] = FALSE] /\ n # Seed
          /\ answer' = [answer EXCEPT ![n] = {}] /\ flight' \subseteq flight
          /\ restarts' = restarts + 1
      BY <1>7 DEF Redeploy
    <2>2. /\ era' \in [L2s -> Nat \ {0}]
          /\ \A k \in L2s : era[k] \in Nat /\ era'[k] \in Nat /\ era[k] <= era'[k]
      BY <2>1 DEF GossipTypeOK
    <2>3. \A k \in L2s, e \in Nat : Said(k, e) => Said(k, e)'
      BY <2>2 DEF Said
    <2>4. GossipTypeOK'
      BY <2>1, <2>2 DEF GossipTypeOK
    <2>5. \A p \in L2s : \A q \in Known(p)' : q # p /\ Said(q, row[p][q].era)'
      <3> SUFFICES ASSUME NEW p \in L2s, NEW q \in Known(p)
                   PROVE  q # p /\ Said(q, row[p][q].era)'
        BY <2>1 DEF Known
      <3> QED BY <2>1, <2>3, KnownIsAnother DEF Said
    <2>6. \A x \in flight' : x.to # x.about /\ Said(x.about, x.era)'
      BY <2>1, <2>3 DEF NothingInvented, GossipTypeOK, Announcement
    <2>7. \A k \in L2s : \A x \in answer'[k] : x.about # k /\ Said(x.about, x.era)'
      BY <2>1, <2>3 DEF NothingInvented, GossipTypeOK, RosterEntry
    <2> QED BY <2>4, <2>5, <2>6, <2>7 DEF NothingInvented
  <1>8. ASSUME NEW m \in L2s, NEW n \in L2s, NEW e \in 1..era[n], PastePeer(m, n, e) PROVE GossipInv'
    <2>1. /\ era' = era /\ joined' = joined /\ answer' = answer /\ flight' = flight
          /\ row' = [row EXCEPT ![m] = [row[m] EXCEPT ![n] = [era |-> e, signed |-> TRUE]]]
          /\ m # n /\ restarts' = restarts + 1
      BY <1>8 DEF PastePeer
    <2>2. [era |-> e, signed |-> TRUE] \in PeerRow /\ Said(n, [era |-> e, signed |-> TRUE].era)
      BY DEF PeerRow, GossipTypeOK, Said
    <2>3. GossipTypeOK'
      BY <2>1, <2>2, RowStep DEF GossipTypeOK
    <2>4. NothingInvented'
      BY <1>0, <2>1, <2>2, RowStep DEF NothingInvented
    <2> QED BY <2>3, <2>4
  <1>9. CASE UNCHANGED gossipVars
    BY <1>0, <1>9 DEF gossipVars, GossipTypeOK, NothingInvented, Known
  <1> QED BY <1>1, <1>2, <1>3, <1>4, <1>5, <1>6, <1>7, <1>8, <1>9 DEF GossipNext

\* What is said of an L2 anywhere, it has said of itself: no table names an
\* endpoint or a key that its L2 never had, and no L2 ever meets itself.
THEOREM NobodyInvents == GossipSpec => []NothingInvented
  <1>1. GossipInv => NothingInvented
    BY DEF GossipInv
  <1> QED BY <1>1, GossipInitially, GossipStep, PTL DEF GossipSpec

\* All tables are up to date, and so is all that is still to be told.
Settled ==
    /\ Converged
    /\ \A x \in flight : x.era = era[x.about]
    /\ \A n \in L2s : \A x \in answer[n] : x.era = era[x.about]

StaysSettled == [][Settled /\ restarts' = restarts => Settled']_gossipVars

LEMMA CurrentRow ==
    ASSUME NEW x \in PeerRow, NEW n
    PROVE  x = Current(n) <=> x.era = era[n] /\ x.signed
  BY DEF PeerRow, Current

\* A row of a converged table that is told again, or signed again, stays.
LEMMA RowStays ==
    ASSUME GossipInv, Converged, NEW m \in L2s, NEW n \in L2s, m # n, NEW x \in PeerRow,
           x.era = era[n], x.signed, row' = [row EXCEPT ![m] = [row[m] EXCEPT ![n] = x]], era' = era
    PROVE  Converged'
  <1>1. row \in [L2s -> [L2s -> PeerRow]]
    BY DEF GossipInv, GossipTypeOK
  <1>2. x = Current(n)
    BY CurrentRow
  <1>3. \A p, q \in L2s : p # q => row'[p][q] = Current(q)
    BY <1>1, <1>2 DEF Converged
  <1> QED BY <1>3 DEF Converged, Current

LEMMA TouchStays ==
    ASSUME GossipInv, Converged, NEW m \in L2s, NEW n \in L2s, m # n,
           row' = Touch(m, n, era[n]), era' = era
    PROVE  Converged'
  <1>1. row[m][n] \in PeerRow /\ row[m][n] = Current(n) /\ era[n] \in Nat
    BY DEF GossipInv, GossipTypeOK, Converged
  <1> DEFINE x == [row[m][n] EXCEPT !.era = era[n]]
  <1>2. x \in PeerRow /\ x.era = era[n] /\ x.signed
    BY <1>1, RowFields, CurrentRow
  <1>3. row' = [row EXCEPT ![m] = [row[m] EXCEPT ![n] = x]]
    BY DEF Touch
  <1> HIDE DEF x
  <1> QED BY <1>2, <1>3, RowStays

LEMMA HelloStays ==
    ASSUME GossipInv, Settled, NEW m \in L2s, NEW n \in L2s, m # n, Hello(m, n), era' = era
    PROVE  Converged' /\ \A x \in flight' : x.era = era[x.about]
  <1>1. Converged'
    BY TouchStays DEF Hello, Settled
  <1>2. \A x \in flight' : x.era = era[x.about]
    BY DEF Hello, Settled
  <1> QED BY <1>1, <1>2

LEMMA SettledStep ==
    ASSUME GossipInv, [GossipNext]_gossipVars, Settled, restarts' = restarts
    PROVE  Settled'
  <1>1. ASSUME NEW n \in L2s, TryBootstrap(n) PROVE Settled'
    <2>1. /\ era' = era /\ Hello(Seed, n) /\ ~joined[n] /\ answer' = [answer EXCEPT ![n] = Roster(Seed, n)]
      BY <1>1 DEF TryBootstrap
    <2>2. Seed \in L2s /\ Seed # n
      BY <2>1, GossipAssumption DEF GossipInv, GossipTypeOK
    <2>3. \A x \in Roster(Seed, n) : x.era = era[x.about]
      <3> SUFFICES ASSUME NEW x \in Roster(Seed, n) PROVE x.era = era[x.about]
        OBVIOUS
      <3>1. CASE x = [about |-> Seed, era |-> era[Seed]]
        BY <3>1
      <3>2. CASE \E p \in Known(Seed) \ {n} : x = [about |-> p, era |-> row[Seed][p].era]
        <4>1. PICK p \in Known(Seed) \ {n} : x = [about |-> p, era |-> row[Seed][p].era]
          BY <3>2
        <4>2. p \in L2s /\ p # Seed
          BY <2>2, KnownIsAnother
        <4>3. row[Seed][p] = Current(p)
          BY <2>2, <4>2 DEF Settled, Converged
        <4>4. Current(p).era = era[p]
          BY DEF Current
        <4> QED BY <4>1, <4>3, <4>4
      <3> QED BY <3>1, <3>2 DEF Roster
    <2>4. \A k \in L2s : \A x \in answer'[k] : x.era = era[x.about]
      BY <2>1, <2>3 DEF GossipInv, GossipTypeOK, Settled
    <2> QED BY <2>1, <2>2, <2>4, HelloStays DEF Settled
  <1>2. ASSUME NEW n \in L2s, NEW x \in answer[n], ApplyAnswer(n, x) PROVE Settled'
    <2>1. /\ era' = era /\ flight' = flight /\ row' = Touch(n, x.about, x.era)
          /\ answer' = [answer EXCEPT ![n] = @ \ {x}]
      BY <1>2 DEF ApplyAnswer
    <2>2. x.about \in L2s /\ x.about # n /\ x.era = era[x.about]
      BY DEF GossipInv, GossipTypeOK, NothingInvented, RosterEntry, Settled
    <2>3. Converged'
      BY <2>1, <2>2, TouchStays DEF Settled
    <2>4. \A k \in L2s : answer'[k] \subseteq answer[k]
      BY <2>1 DEF GossipInv, GossipTypeOK
    <2> QED BY <2>1, <2>3, <2>4 DEF Settled
  <1>3. ASSUME NEW m \in L2s, NEW n \in L2s, Rehello(m, n) PROVE Settled'
    <2>1. era' = era /\ answer' = answer /\ Hello(n, m) /\ n \in Known(m)
      BY <1>3 DEF Rehello, Reachable
    <2> QED BY <2>1, KnownIsAnother, HelloStays DEF Settled
  <1>4. ASSUME NEW m \in L2s, NEW n \in L2s, FetchSignature(m, n) PROVE Settled'
    <2>1. /\ era' = era /\ answer' = answer /\ flight' = flight
          /\ row' = [row EXCEPT ![m][n].signed = TRUE] /\ n \in Known(m)
      BY <1>4 DEF FetchSignature, Reachable
    <2> DEFINE x == [row[m][n] EXCEPT !.signed = TRUE]
    <2>2. n # m /\ row[m][n] \in PeerRow /\ row[m][n].era = era[n]
      <3>1. n # m /\ row[m][n] = Current(n)
        BY <2>1, KnownIsAnother DEF Settled, Converged
      <3> QED BY <3>1, CurrentRow DEF GossipInv, GossipTypeOK
    <2>3. x \in PeerRow /\ x.era = era[n]
      BY <2>2, RowFields
    <2>4. x.signed
      BY <2>2 DEF PeerRow
    <2>5. row' = [row EXCEPT ![m] = [row[m] EXCEPT ![n] = x]]
      BY <2>1
    <2> HIDE DEF x
    <2>6. Converged'
      BY <2>1, <2>2, <2>3, <2>4, <2>5, RowStays DEF Settled
    <2> QED BY <2>1, <2>6 DEF Settled
  <1>5. ASSUME NEW x \in flight, Announce(x) PROVE Settled'
    <2>1. /\ era' = era /\ answer' = answer /\ flight' = flight \ {x}
          /\ row' = Touch(x.to, x.about, x.era)
      BY <1>5 DEF Announce
    <2>2. x.to \in L2s /\ x.about \in L2s /\ x.about # x.to /\ x.era = era[x.about]
      BY DEF GossipInv, GossipTypeOK, NothingInvented, Announcement, Settled
    <2>3. Converged'
      BY <2>1, <2>2, TouchStays DEF Settled
    <2> QED BY <2>1, <2>3 DEF Settled
  <1>6. ASSUME NEW x \in flight, Lose(x) PROVE Settled'
    BY <1>6 DEF Lose, Settled, Converged, Current
  <1>7. restarts' # restarts + 1
    BY DEF GossipInv, GossipTypeOK
  <1>8. CASE UNCHANGED gossipVars
    BY <1>8 DEF gossipVars, Settled, Converged, Current
  <1> QED BY <1>1, <1>2, <1>3, <1>4, <1>5, <1>6, <1>7, <1>8 DEF GossipNext, Redeploy, PastePeer

\* A mesh that has converged, with nothing stale under way, stays so: no hello,
\* poll, signature, announcement or first hello of a process that only restarted
\* sets a table back, until an L2 is redeployed or a row is pasted. (That it
\* converges is PeersConverge.)
THEOREM ConvergedStays == GossipSpec => StaysSettled
  <1>1. GossipInv /\ [GossipNext]_gossipVars => [Settled /\ restarts' = restarts => Settled']_gossipVars
    BY SettledStep
  <1> QED BY <1>1, GossipInitially, GossipStep, PTL DEF GossipSpec, StaysSettled

-----------------------------------------------------------------------------
(* Peerings. What a pull still holds may be older than the directory, never *)
(* older than the row it is written over.                                  *)
Statuses      == {"none", "active", "withdrawn"}
PeeringRecord == [status : Statuses, key : Nat]
HeldRecord    == [offer : Offers, rec : PeeringRecord]

PullTypeOK ==
    /\ record \in [Offers -> PeeringRecord]
    /\ pull \in [on : BOOLEAN, left : SUBSET HeldRecord, key : Nat]
    /\ mirror \in [Offers -> Statuses]
    /\ rootKey \in Nat

\* No status is ahead of the other: none, active, withdrawn.
NotAhead(s, t) == (s # "none" => t # "none") /\ (s = "withdrawn" => t = "withdrawn")

\* A held record is between the row it will be written to and the directory's.
HeldInOrder(x) ==
    /\ x.rec.status # "none"
    /\ NotAhead(x.rec.status, record[x.offer].status)
    /\ NotAhead(mirror[x.offer], x.rec.status)

MirrorNotAhead == \A o \in Offers : NotAhead(mirror[o], record[o].status)

PullInv ==
    /\ PullTypeOK
    /\ MirrorNotAhead
    /\ \A x \in pull.left : HeldInOrder(x)
    /\ \A x, y \in pull.left : x.offer = y.offer => x = y

\* A withdrawal that has arrived is never undone by a pull.
WithdrawnStays == [][\A o \in Offers : mirror[o] = "withdrawn" => mirror'[o] = "withdrawn"]_peeringVars

LEMMA PullInitially == PeeringsInit => PullInv
  BY DEF PeeringsInit, NoPull, PullInv, PullTypeOK, PeeringRecord, HeldRecord, Statuses, MirrorNotAhead, NotAhead

\* The directory only moves on.
LEMMA DirectoryStep ==
    ASSUME PullInv, pull' = pull, mirror' = mirror, rootKey' = rootKey, NEW o \in Offers, NEW r \in PeeringRecord,
           record' = [record EXCEPT ![o] = r], NotAhead(record[o].status, r.status)
    PROVE  PullInv'
  <1>1. record' \in [Offers -> PeeringRecord] /\ \A p \in Offers : NotAhead(record[p].status, record'[p].status)
    BY DEF PullInv, PullTypeOK, NotAhead
  <1>2. \A x \in pull.left : x.offer \in Offers
    BY DEF PullInv, PullTypeOK, HeldRecord
  <1> QED BY <1>1, <1>2 DEF PullInv, PullTypeOK, MirrorNotAhead, HeldInOrder, NotAhead

LEMMA ListStep ==
    ASSUME PullInv, PullList
    PROVE  PullInv'
  <1> DEFINE Held(o) == [offer |-> o, rec |-> record[o]]
             held == {Held(o) : o \in {o \in Offers : record[o].status # "none"}}
  <1>1. pull' = [on |-> TRUE, key |-> 0, left |-> held] /\ record' = record /\ mirror' = mirror /\ rootKey' = rootKey
    BY DEF PullList, directoryVars
  <1>2. \A o \in Offers : Held(o) \in HeldRecord
    BY DEF PullInv, PullTypeOK, HeldRecord
  <1>3. pull'.left = held /\ held \in SUBSET HeldRecord
    BY <1>1, <1>2
  <1>4. PullTypeOK'
    BY <1>1, <1>3 DEF PullInv, PullTypeOK
  <1>5. \A x \in held : x.offer \in Offers /\ x.rec = record[x.offer] /\ x = Held(x.offer) /\ x.rec.status # "none"
    OBVIOUS
  <1>6. \A x \in held : HeldInOrder(x)
    BY <1>5 DEF PullInv, MirrorNotAhead, HeldInOrder, NotAhead
  <1>7. \A x, y \in held : x.offer = y.offer => x = y
    BY <1>5
  <1> HIDE DEF held
  <1> QED BY <1>1, <1>3, <1>4, <1>6, <1>7 DEF PullInv, MirrorNotAhead, HeldInOrder

LEMMA TakeStep ==
    ASSUME PullInv, NEW x \in pull.left, TakeRecord(x)
    PROVE  PullInv' /\ \A o \in Offers : NotAhead(mirror[o], mirror'[o])
  <1>1. /\ record' = record /\ rootKey' = rootKey
        /\ pull' = [pull EXCEPT !.left = @ \ {x}, !.key = KeyFor]
        /\ mirror' = mirror \/ mirror' = [mirror EXCEPT ![x.offer] = x.rec.status]
    BY DEF TakeRecord, directoryVars, Upserted
  <1>2. x.offer \in Offers /\ x.rec \in PeeringRecord /\ x.rec.status \in Statuses /\ KeyFor \in Nat
    BY DEF PullInv, PullTypeOK, HeldRecord, PeeringRecord, KeyFor
  <1>3. pull'.left = pull.left \ {x}
    BY <1>1 DEF PullInv, PullTypeOK
  <1>4. /\ mirror' \in [Offers -> Statuses]
        /\ \A o \in Offers : mirror'[o] = mirror[o] \/ (o = x.offer /\ mirror'[o] = x.rec.status)
    BY <1>1, <1>2 DEF PullInv, PullTypeOK
  <1>5. PullTypeOK'
    BY <1>1, <1>2, <1>4 DEF PullInv, PullTypeOK
  <1>6. MirrorNotAhead' /\ \A o \in Offers : NotAhead(mirror[o], mirror'[o])
    BY <1>1, <1>4 DEF PullInv, MirrorNotAhead, HeldInOrder, NotAhead
  <1>7. ASSUME NEW y \in pull'.left PROVE HeldInOrder(y)'
    <2>1. y \in pull.left /\ y.offer \in Offers /\ y.offer # x.offer
      BY <1>3, <1>7 DEF PullInv, PullTypeOK, HeldRecord
    <2>2. mirror'[y.offer] = mirror[y.offer]
      BY <1>4, <2>1
    <2> QED BY <1>1, <2>1, <2>2 DEF PullInv, HeldInOrder
  <1> QED BY <1>3, <1>5, <1>6, <1>7 DEF PullInv

LEMMA PullStep ==
    ASSUME PullInv, [PeeringsNext]_peeringVars
    PROVE  PullInv' /\ \A o \in Offers : NotAhead(mirror[o], mirror'[o])
  <1> USE DEF directoryVars
  <1>1. ASSUME NEW o \in Offers, Accepted(o) PROVE PullInv' /\ mirror' = mirror
    <2>1. [status |-> "active", key |-> rootKey] \in PeeringRecord
      BY DEF PullInv, PullTypeOK, PeeringRecord, Statuses
    <2> QED BY <1>1, <2>1, DirectoryStep DEF Accepted, NotAhead
  <1>2. ASSUME NEW o \in Offers, Withdrawn(o) PROVE PullInv' /\ mirror' = mirror
    <2> DEFINE r == [record[o] EXCEPT !.status = "withdrawn"]
    <2>1. r \in PeeringRecord /\ r.status = "withdrawn" /\ record' = [record EXCEPT ![o] = r]
      BY <1>2 DEF Withdrawn, PullInv, PullTypeOK, PeeringRecord, Statuses
    <2> HIDE DEF r
    <2> QED BY <1>2, <2>1, DirectoryStep DEF Withdrawn, NotAhead
  <1>3. CASE KeyRotates
    BY <1>3 DEF KeyRotates, PullInv, PullTypeOK, MirrorNotAhead, HeldInOrder, NotAhead
  <1>4. CASE PullList
    BY <1>4, ListStep DEF PullList, NotAhead
  <1>5. ASSUME NEW x \in pull.left, TakeRecord(x) PROVE PullInv' /\ \A o \in Offers : NotAhead(mirror[o], mirror'[o])
    BY <1>5, TakeStep
  <1>6. CASE CycleEnds \/ L2Restarts
    <2>1. pull' = NoPull /\ record' = record /\ mirror' = mirror /\ rootKey' = rootKey
      BY <1>6 DEF CycleEnds, L2Restarts
    <2> QED BY <2>1 DEF NoPull, PullInv, PullTypeOK, MirrorNotAhead, NotAhead
  <1>7. CASE DirectoryDown \/ DirectoryUp \/ AnnounceSelf \/ PasteByHand \/ ManualExpires \/ UNCHANGED peeringVars
    <2>1. pull' = pull /\ record' = record /\ mirror' = mirror /\ rootKey' = rootKey
      BY <1>7 DEF DirectoryDown, DirectoryUp, AnnounceSelf, PasteByHand, ManualExpires, peeringVars
    <2> QED BY <2>1 DEF PullInv, PullTypeOK, MirrorNotAhead, HeldInOrder, NotAhead
  <1>8. mirror' = mirror => \A o \in Offers : NotAhead(mirror[o], mirror'[o])
    BY DEF NotAhead
  <1> QED BY <1>1, <1>2, <1>3, <1>4, <1>5, <1>6, <1>7, <1>8
          DEF PeeringsNext, KeyRotates, CycleEnds, L2Restarts, DirectoryDown, DirectoryUp,
              AnnounceSelf, PasteByHand, ManualExpires, peeringVars

\* No pulled row is ahead of the directory, though the cycle holds an old list:
\* what crosses on a peering has been accepted, and ends only where it was ended.
THEOREM MirrorFollows == PeeringsSpec => []MirrorNotAhead
  <1>1. PullInv => MirrorNotAhead
    BY DEF PullInv
  <1> QED BY <1>1, PullInitially, PullStep, PTL DEF PeeringsSpec

\* No later pull, restart, key rotation or outage brings a withdrawn peering back:
\* the list a cycle still holds is never older than the row it is written over.
THEOREM WithdrawalsStay == PeeringsSpec => WithdrawnStays
  <1>1. PullInv /\ [PeeringsNext]_peeringVars
           => [\A o \in Offers : mirror[o] = "withdrawn" => mirror'[o] = "withdrawn"]_peeringVars
    BY PullStep DEF NotAhead
  <1> QED BY <1>1, PullInitially, PullStep, PTL DEF PeeringsSpec, WithdrawnStays

-----------------------------------------------------------------------------
(* ProvisionStream. The frames sent so far, against the last row reported  *)
(* and the row of the directory.                                           *)
Jobs     == [status : {"PROVISIONING", "COMPLETED", "FAILED"}, phase : Nat]
Reported == [status : {"none", "PROVISIONING", "COMPLETED", "FAILED", "STREAM_TIMEOUT"}, phase : Nat]
Frames   == [event : {"open", "phase", "completed", "failed"}, row : Reported]

StreamTypeOK ==
    /\ jobRow \in Jobs
    /\ stream \in {"none", "polling", "sleeping", "closed"}
    /\ last \in Reported
    /\ polls \in Nat
    /\ frames \in Seq(Frames)

Progress(f) == f.event = "phase" /\ f.row.status = "PROVISIONING"

\* The browser is told of the phases in their order, each once.
PhasesRise ==
    \A i, j \in DOMAIN frames : i < j /\ Progress(frames[i]) /\ Progress(frames[j])
                                   => frames[i].row.phase < frames[j].row.phase

\* A closing frame is sent as the stream closes, as its last; none "completed" but
\* for a job that has completed.
ClosesOnce ==
    /\ stream = "closed" <=> \E i \in DOMAIN frames : Closing(frames[i])
    /\ \A i \in DOMAIN frames : Closing(frames[i]) => i = Len(frames)
    /\ \A i \in DOMAIN frames : frames[i].event = "completed" => jobRow.status = "COMPLETED"

\* At least one poll, else no more than the ceiling.
PollsBounded == polls <= MaxPolls \/ polls = 1

StreamIsTruthful == ClosesOnce /\ PhasesRise /\ PollsBounded

\* The last row reported is the newest of those sent, the directory is not behind it.
LastIsNewest ==
    /\ last.status \notin Ended
    /\ last.status = "PROVISIONING" => last.phase <= jobRow.phase
    /\ \A i \in DOMAIN frames : Progress(frames[i]) =>
         last.status = "PROVISIONING" /\ frames[i].row.phase <= last.phase

StreamInv ==
    /\ StreamTypeOK
    /\ StreamIsTruthful
    /\ stream = "none" => frames = <<>>
    /\ stream # "closed" => LastIsNewest /\ (polls < MaxPolls \/ polls = 0)

LEMMA StreamInitially == StreamInit => StreamInv
  <1> SUFFICES ASSUME StreamInit PROVE StreamInv
    OBVIOUS
  <1>1. frames = <<>> /\ DOMAIN frames = {} /\ Len(frames) = 0
    BY DEF StreamInit
  <1> QED BY <1>1, StreamAssumption
          DEF StreamInit, StreamInv, StreamTypeOK, StreamIsTruthful, ClosesOnce, PhasesRise, PollsBounded,
              LastIsNewest, Jobs, Reported, NoRow, Row, Ended

\* A frame more is the last, and the others are where they were.
LEMMA Sent ==
    ASSUME NEW fs \in Seq(Frames), NEW f \in Frames
    PROVE  /\ Append(fs, f) \in Seq(Frames)
           /\ Len(Append(fs, f)) = Len(fs) + 1 /\ Len(fs) \in Nat
           /\ DOMAIN fs = 1 .. Len(fs)
           /\ DOMAIN Append(fs, f) = 1 .. Len(fs) + 1
           /\ \A i \in DOMAIN fs : Append(fs, f)[i] = fs[i]
           /\ Append(fs, f)[Len(fs) + 1] = f
  OBVIOUS

\* What Report sends: the row if it is new, and the closing frame if the job has ended.
Told(r) == IF r = last THEN frames ELSE Append(frames, Frame("phase", r))
Outcome(r) == Frame(IF r.status = "COMPLETED" THEN "completed" ELSE "failed", r)

LEMMA ReportSends ==
    ASSUME StreamTypeOK, NEW r \in Jobs, Report(r)
    PROVE  /\ last' = r /\ Told(r) \in Seq(Frames) /\ Outcome(r) \in Frames /\ Frame("phase", r) \in Frames
           /\ frames' = IF r.status \in Ended THEN Append(Told(r), Outcome(r)) ELSE Told(r)
           /\ stream' = IF r.status \in Ended THEN "closed" ELSE "sleeping"
  <1>1. frames \in Seq(Frames) /\ r \in Reported /\ Frame("phase", r) \in Frames /\ Outcome(r) \in Frames
    BY DEF StreamTypeOK, Jobs, Reported, Frames, Frame, Outcome
  <1>2. Told(r) = frames \o (IF r = last THEN <<>> ELSE <<Frame("phase", r)>>)
    BY <1>1, AppendIsConcat, ConcatEmptySeq DEF Told
  <1>3. Told(r) \in Seq(Frames)
    BY <1>1, Sent DEF Told
  <1>4. frames' = Told(r) \o (CASE r.status = "COMPLETED" -> <<Frame("completed", r)>>
                                  [] r.status = "FAILED"    -> <<Frame("failed", r)>>
                                  [] OTHER -> <<>>)
    BY <1>2 DEF Report
  <1>5. CASE r.status \in Ended
    <2>1. frames' = Told(r) \o <<Outcome(r)>>
      BY <1>4, <1>5 DEF Ended, Outcome
    <2> QED BY <1>1, <1>3, <1>5, <2>1, AppendIsConcat DEF Report
  <1>6. CASE r.status \notin Ended
    BY <1>1, <1>3, <1>4, <1>6, ConcatEmptySeq DEF Report, Ended
  <1> QED BY <1>1, <1>3, <1>5, <1>6

\* One frame that does not close, of a row that is news and not ahead of the job.
LEMMA TellStep ==
    ASSUME StreamInv, stream # "closed", NEW r \in Jobs,
           r.status = "PROVISIONING" => r = jobRow,
           NEW fs, fs = Told(r)
    PROVE  /\ fs \in Seq(Frames)
           /\ \A i \in DOMAIN fs : ~Closing(fs[i])
           /\ \A i, j \in DOMAIN fs : i < j /\ Progress(fs[i]) /\ Progress(fs[j]) => fs[i].row.phase < fs[j].row.phase
           /\ r.status = "PROVISIONING" =>
                \A i \in DOMAIN fs : Progress(fs[i]) => fs[i].row.phase <= r.phase
  <1> DEFINE f == Frame("phase", r)
  <1>1. /\ frames \in Seq(Frames) /\ f \in Frames /\ f.event = "phase" /\ f.row = r /\ r.phase \in Nat
        /\ last \in Reported /\ r \in Reported /\ jobRow.phase \in Nat
    BY DEF StreamInv, StreamTypeOK, Jobs, Reported, Frames, Frame
  <1>2. \A i \in DOMAIN frames : frames[i].row.phase \in Nat
    <2>1. \A i \in DOMAIN frames : frames[i] \in Frames
      BY <1>1
    <2> QED BY <2>1 DEF Frames, Reported
  <1>3. /\ \A i \in DOMAIN frames : ~Closing(frames[i])
        /\ \A i \in DOMAIN frames : Progress(frames[i]) =>
             last.status = "PROVISIONING" /\ frames[i].row.phase <= last.phase
        /\ last.status = "PROVISIONING" => last.phase <= jobRow.phase
    BY DEF StreamInv, StreamIsTruthful, ClosesOnce, LastIsNewest
  <1>4. PhasesRise
    BY DEF StreamInv, StreamIsTruthful
  <1>5. CASE r = last
    BY <1>1, <1>3, <1>4, <1>5 DEF Told, PhasesRise
  <1>6. CASE r # last
    <2>1. fs = Append(frames, f)
      BY <1>6 DEF Told
    <2> HIDE DEF f
    <2>2. ~Closing(f)
      BY <1>1 DEF Closing
    <2>3. Progress(f) => \A i \in DOMAIN frames : Progress(frames[i]) => frames[i].row.phase < r.phase
      <3>1. SUFFICES ASSUME r.status = "PROVISIONING", NEW i \in DOMAIN frames, Progress(frames[i])
                     PROVE  frames[i].row.phase < r.phase
        BY <1>1 DEF Progress
      <3>2. r = jobRow /\ last.status = r.status /\ frames[i].row.phase <= last.phase /\ last.phase <= r.phase
        BY <1>3, <3>1
      <3>3. last.phase # r.phase
        BY <1>1, <1>6, <3>2 DEF Reported
      <3> QED BY <1>1, <1>2, <3>2, <3>3 DEF Reported
    <2>4. /\ fs \in Seq(Frames) /\ DOMAIN fs = 1 .. Len(frames) + 1 /\ DOMAIN frames = 1 .. Len(frames)
          /\ \A i \in DOMAIN frames : fs[i] = frames[i]
          /\ fs[Len(frames) + 1] = f /\ Len(frames) \in Nat
      BY <1>1, <2>1, Sent
    <2>5. \A i \in DOMAIN fs : i \in DOMAIN frames \/ (i = Len(frames) + 1 /\ fs[i] = f)
      BY <2>4
    <2>6. \A i, j \in DOMAIN fs : i < j => i \in DOMAIN frames
      BY <2>4
    <2>7. \A i, j \in DOMAIN fs : i < j /\ Progress(fs[i]) /\ Progress(fs[j]) => fs[i].row.phase < fs[j].row.phase
      BY <1>1, <1>4, <2>3, <2>4, <2>5, <2>6 DEF PhasesRise
    <2>8. r.status = "PROVISIONING" => \A i \in DOMAIN fs : Progress(fs[i]) => fs[i].row.phase <= r.phase
      BY <1>1, <1>2, <2>3, <2>4, <2>5 DEF Progress
    <2>9. \A i \in DOMAIN fs : ~Closing(fs[i])
      BY <1>3, <2>2, <2>4, <2>5
    <2> QED BY <2>4, <2>7, <2>8, <2>9
  <1> QED BY <1>5, <1>6

\* A frame that closes, after frames that do not.
LEMMA CloseStep ==
    ASSUME NEW fs \in Seq(Frames), NEW f \in Frames, Closing(f),
           \A i \in DOMAIN fs : ~Closing(fs[i]),
           \A i, j \in DOMAIN fs : i < j /\ Progress(fs[i]) /\ Progress(fs[j]) => fs[i].row.phase < fs[j].row.phase,
           f.event = "completed" => jobRow'.status = "COMPLETED",
           frames' = Append(fs, f), stream' = "closed"
    PROVE  frames' \in Seq(Frames) /\ ClosesOnce' /\ PhasesRise'
  <1>1. /\ frames' \in Seq(Frames) /\ Len(frames') = Len(fs) + 1 /\ Len(fs) \in Nat
        /\ DOMAIN fs = 1 .. Len(fs) /\ DOMAIN frames' = 1 .. Len(fs) + 1
        /\ \A i \in DOMAIN fs : frames'[i] = fs[i]
        /\ frames'[Len(fs) + 1] = f
    BY Sent
  <1>2. \A i \in DOMAIN frames' : i \in DOMAIN fs \/ (i = Len(frames') /\ frames'[i] = f)
    BY <1>1
  <1>3. ~Progress(f)
    BY DEF Closing, Progress
  <1>4. ClosesOnce'
    <2>1. \E i \in DOMAIN frames' : Closing(frames'[i])
      BY <1>1
    <2>2. \A i \in DOMAIN fs : fs[i].event # "completed"
      BY DEF Closing
    <2>3. \A i \in DOMAIN frames' : Closing(frames'[i]) => i = Len(frames')
      BY <1>1, <1>2
    <2>4. \A i \in DOMAIN frames' : frames'[i].event = "completed" => jobRow'.status = "COMPLETED"
      BY <1>1, <1>2, <2>2
    <2> QED BY <2>1, <2>3, <2>4 DEF ClosesOnce, Closing
  <1>5. PhasesRise'
    BY <1>1, <1>2, <1>3 DEF PhasesRise, Progress
  <1> QED BY <1>1, <1>4, <1>5

LEMMA ReportStep ==
    ASSUME StreamInv, stream = "polling", NEW r \in Jobs, Report(r), jobRow' = jobRow, polls' = polls,
           r = jobRow \/ r = Row("FAILED", 0)
    PROVE  StreamInv'
  <1> DEFINE fs == Told(r)
  <1>1. /\ last' = r /\ fs \in Seq(Frames) /\ Outcome(r) \in Frames
        /\ frames' = IF r.status \in Ended THEN Append(fs, Outcome(r)) ELSE fs
        /\ stream' = IF r.status \in Ended THEN "closed" ELSE "sleeping"
    BY ReportSends DEF StreamInv
  <1>2. /\ \A i \in DOMAIN fs : ~Closing(fs[i])
        /\ \A i, j \in DOMAIN fs : i < j /\ Progress(fs[i]) /\ Progress(fs[j]) => fs[i].row.phase < fs[j].row.phase
        /\ r.status = "PROVISIONING" => \A i \in DOMAIN fs : Progress(fs[i]) => fs[i].row.phase <= r.phase
    BY TellStep DEF Row
  <1> HIDE DEF fs
  <1>3. r \in Reported /\ r.phase \in Nat /\ r.status \in {"PROVISIONING", "COMPLETED", "FAILED"}
    BY DEF Jobs, Reported
  <1>4. jobRow \in Jobs /\ polls \in Nat /\ PollsBounded /\ (polls < MaxPolls \/ polls = 0)
    BY DEF StreamInv, StreamTypeOK, StreamIsTruthful
  <1>5. PollsBounded'
    BY <1>4 DEF PollsBounded
  <1>6. CASE r.status \in Ended
    <2>1. Closing(Outcome(r)) /\ (Outcome(r).event = "completed" => jobRow'.status = "COMPLETED")
      BY DEF Outcome, Frame, Closing, Row
    <2>2. frames' \in Seq(Frames) /\ ClosesOnce' /\ PhasesRise' /\ stream' = "closed"
      BY <1>1, <1>2, <1>6, <2>1, CloseStep
    <2> QED BY <1>1, <1>3, <1>4, <1>5, <2>2 DEF StreamInv, StreamTypeOK, StreamIsTruthful
  <1>7. CASE r.status \notin Ended
    <2>1. frames' = fs /\ stream' = "sleeping" /\ r.status = "PROVISIONING" /\ r = jobRow
      BY <1>1, <1>3, <1>7 DEF Ended, Row
    <2>2. ClosesOnce' /\ PhasesRise'
      BY <1>2, <2>1 DEF ClosesOnce, PhasesRise, Closing
    <2>3. LastIsNewest'
      BY <1>1, <1>2, <1>3, <1>7, <2>1 DEF LastIsNewest
    <2> QED BY <1>1, <1>3, <1>4, <1>5, <2>1, <2>2, <2>3 DEF StreamInv, StreamTypeOK, StreamIsTruthful
  <1> QED BY <1>6, <1>7

LEMMA WakeStep ==
    ASSUME StreamInv, Wake
    PROVE  StreamInv'
  <1> DEFINE f == Frame("failed", Row("STREAM_TIMEOUT", 0))
  <1>1. /\ polls' = polls + 1 /\ jobRow' = jobRow /\ last' = last /\ stream = "sleeping"
        /\ stream' = IF polls' < MaxPolls THEN "polling" ELSE "closed"
        /\ frames' = IF polls' < MaxPolls THEN frames ELSE Append(frames, f)
    BY DEF Wake
  <1>2. polls \in Nat /\ MaxPolls \in Nat /\ (polls < MaxPolls \/ polls = 0) /\ frames \in Seq(Frames)
    BY <1>1, StreamAssumption DEF StreamInv, StreamTypeOK
  <1>3. PollsBounded'
    BY <1>1, <1>2 DEF PollsBounded
  <1>4. CASE polls' < MaxPolls
    BY <1>1, <1>2, <1>3, <1>4 DEF StreamInv, StreamTypeOK, StreamIsTruthful, ClosesOnce, PhasesRise, LastIsNewest
  <1>5. CASE ~(polls' < MaxPolls)
    <2>1. f \in Frames /\ Closing(f) /\ f.event # "completed"
      BY DEF Frame, Row, Frames, Reported, Closing
    <2>2. frames' = Append(frames, f) /\ stream' = "closed"
      BY <1>1, <1>5
    <2>3. /\ \A i \in DOMAIN frames : ~Closing(frames[i])
          /\ \A i, j \in DOMAIN frames : i < j /\ Progress(frames[i]) /\ Progress(frames[j])
                                            => frames[i].row.phase < frames[j].row.phase
      BY <1>1 DEF StreamInv, StreamIsTruthful, ClosesOnce, PhasesRise
    <2> HIDE DEF f
    <2>4. frames' \in Seq(Frames) /\ ClosesOnce' /\ PhasesRise'
      BY <1>2, <2>1, <2>2, <2>3, CloseStep
    <2> QED BY <1>1, <1>2, <1>3, <2>2, <2>4 DEF StreamInv, StreamTypeOK, StreamIsTruthful
  <1> QED BY <1>4, <1>5

LEMMA StreamStep ==
    ASSUME StreamInv, [StreamNext]_streamVars
    PROVE  StreamInv'
  <1>1. CASE JobMoves
    <2>1. /\ jobRow.status = "PROVISIONING" /\ jobRow \in Jobs
          /\ stream' = stream /\ last' = last /\ polls' = polls /\ frames' = frames
      BY <1>1 DEF JobMoves, StreamInv, StreamTypeOK
    <2>2. jobRow' \in Jobs /\ jobRow.phase <= jobRow'.phase
      BY <1>1, <2>1 DEF JobMoves, Jobs, Row
    <2>3. \A i \in DOMAIN frames : frames[i].event # "completed"
      BY <2>1 DEF StreamInv, StreamIsTruthful, ClosesOnce
    <2>4. jobRow.phase \in Nat /\ jobRow'.phase \in Nat /\ last.phase \in Nat
      BY <2>1, <2>2 DEF Jobs, Reported, StreamInv, StreamTypeOK
    <2> QED BY <2>1, <2>2, <2>3, <2>4
            DEF StreamInv, StreamTypeOK, StreamIsTruthful, ClosesOnce, PhasesRise, PollsBounded, LastIsNewest
  <1>2. CASE OpenStream
    <2> DEFINE f == Frame("open", NoRow)
    <2>1. /\ stream = "none" /\ frames = <<>> /\ stream' = "polling" /\ frames' = <<f>>
          /\ jobRow' = jobRow /\ last' = last /\ polls' = polls
      BY <1>2 DEF OpenStream, StreamInv
    <2>2. f \in Frames /\ ~Closing(f) /\ ~Progress(f) /\ f.event # "completed"
      BY DEF Frame, NoRow, Row, Frames, Reported, Closing, Progress
    <2> HIDE DEF f
    <2>3. frames' \in Seq(Frames) /\ Len(frames') = 1 /\ DOMAIN frames' = {1} /\ frames'[1] = f
      BY <2>1, <2>2
    <2>4. ClosesOnce' /\ PhasesRise'
      BY <2>1, <2>2, <2>3 DEF ClosesOnce, PhasesRise
    <2>5. LastIsNewest'
      BY <2>1, <2>2, <2>3 DEF StreamInv, LastIsNewest
    <2> QED BY <2>1, <2>3, <2>4, <2>5 DEF StreamInv, StreamTypeOK, StreamIsTruthful, PollsBounded
  <1>3. CASE PollAnswered
    <2>1. Row("FAILED", 0) \in Jobs /\ jobRow \in Jobs
      BY DEF Row, Jobs, StreamInv, StreamTypeOK
    <2> QED BY <1>3, <2>1, ReportStep DEF PollAnswered
  <1>4. CASE PollFails
    BY <1>4 DEF PollFails, StreamInv, StreamTypeOK, StreamIsTruthful, ClosesOnce, PhasesRise, PollsBounded,
               LastIsNewest
  <1>5. CASE Wake
    BY <1>5, WakeStep
  <1>6. CASE UNCHANGED streamVars
    BY <1>6 DEF streamVars, StreamInv, StreamTypeOK, StreamIsTruthful, ClosesOnce, PhasesRise, PollsBounded,
               LastIsNewest
  <1> QED BY <1>1, <1>2, <1>3, <1>4, <1>5, <1>6 DEF StreamNext, Poll

\* The browser of a new L2 sees its phases in order and each once, one closing frame
\* and nothing after it, "completed" only for a job that has, and no stream is polled
\* past the ceiling. (That every stream closes is StreamCloses.)
THEOREM StreamTruthful == StreamSpec => []StreamIsTruthful
  <1>1. StreamInv => StreamIsTruthful
    BY DEF StreamInv
  <1> QED BY <1>1, StreamInitially, StreamStep, PTL DEF StreamSpec
=============================================================================
