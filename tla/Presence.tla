------------------------------ MODULE Presence ------------------------------
(***************************************************************************)
(* Who is online at an L2: the heartbeats of one persona, and a reader of  *)
(* the active peers, be it a user or a peer L2 that gathers the fleet.     *)
(*                                                                         *)
(* The table is keyed by the persona's name alone, and any user may send   *)
(* heartbeats under it: the row is that of the last UPSERT, scope          *)
(* included. A handler takes the time, then awaits its one store call, so  *)
(* heartbeats that overlap may be stored in another order than taken.      *)
(***************************************************************************)
EXTENDS Naturals

CONSTANTS
    Beats,          \* heartbeats under the persona's name
    Tenants,        \* [enterprise, group] of the users who send them
    Window,         \* since_minutes
    MaxMinute       \* bound: the clock

ASSUME PresenceAssumption ==
    /\ {Window, MaxMinute} \subseteq Nat /\ "none" \notin Beats
    /\ \A t \in Tenants : {"enterprise", "group"} \subseteq DOMAIN t

VARIABLES
    minute,
    beat,       \* the heartbeats; "after" is history: those answered before it came
    seat,       \* the row of peers: the heartbeat that it bears, or NoBeat
    asking      \* the reader: whom it asks about, since when, what it got; and history

presenceVars == <<minute, beat, seat, asking>>

NoBeat == "none"
Answered == {b \in Beats : beat[b].pc \in {"stored", "failed"}}

PresenceInit ==
    /\ minute = 0
    /\ beat = [b \in Beats |-> [pc |-> "idle", of |-> CHOOSE t \in Tenants : TRUE, at |-> 0,
                                discoverable |-> FALSE, after |-> {}]]
    /\ seat = [by |-> NoBeat, discoverable |-> FALSE]
    /\ asking = [pc |-> "idle", enterprise |-> "", group |-> "", since |-> 0, got |-> NoBeat, after |-> {}]

(* POST /peers/heartbeat: the scope is that of the user's row, never of the *)
(* request; discoverable is off unless the request says otherwise.          *)
Heartbeat(b, t, discoverable) ==
    /\ beat[b].pc = "idle"
    /\ beat' = [beat EXCEPT ![b] = [pc |-> "upsert", of |-> t, at |-> minute,
                                    discoverable |-> discoverable, after |-> Answered]]
    /\ UNCHANGED <<minute, seat, asking>>

\* Mutant: a persona that is known keeps what it first said of itself.
SeatRefreshed(b) == [by |-> b, discoverable |-> IF seat.by = NoBeat THEN beat[b].discoverable
                                                ELSE seat.discoverable]

(* ON CONFLICT(persona) DO UPDATE SET every column.                         *)
SeatOf(b) == [by |-> b, discoverable |-> beat[b].discoverable]
UpsertPeer(b) ==
    /\ beat[b].pc = "upsert"
    /\ seat' = SeatOf(b)
    /\ beat' = [beat EXCEPT ![b].pc = "stored"]
    /\ UNCHANGED <<minute, asking>>

(* The store call raises: a 500, and nothing is stored.                     *)
HeartbeatFails(b) ==
    /\ beat[b].pc = "upsert"
    /\ beat' = [beat EXCEPT ![b].pc = "failed"]
    /\ UNCHANGED <<minute, seat, asking>>

(* GET /peers/active asks about the user's own Enterprise, perhaps about    *)
(* one group of it; /aigrp/peers-active about this L2's.                    *)
LookAround(enterprise, group) ==
    /\ asking.pc = "idle"
    /\ asking' = [pc |-> "list", enterprise |-> enterprise, group |-> group,
                  since |-> IF minute < Window THEN 0 ELSE minute - Window,
                  got |-> NoBeat, after |-> Answered]
    /\ UNCHANGED <<minute, beat, seat>>

(* _list_active_peers_sync: WHERE enterprise_id, last_seen_at, discoverable. *)
Active ==
    /\ seat.by # NoBeat
    /\ seat.discoverable
    /\ beat[seat.by].of.enterprise = asking.enterprise
    /\ asking.group \in {"", beat[seat.by].of.group}
    /\ beat[seat.by].at >= asking.since
ListPeers ==
    /\ asking.pc = "list"
    /\ asking' = [asking EXCEPT !.pc = "answered", !.got = IF Active THEN seat.by ELSE NoBeat]
    /\ UNCHANGED <<minute, beat, seat>>

MinutePasses ==
    /\ minute < MaxMinute
    /\ minute' = minute + 1
    /\ UNCHANGED <<beat, seat, asking>>

PresenceNext ==
    \/ \E b \in Beats :
          \/ UpsertPeer(b) \/ HeartbeatFails(b)
          \/ \E t \in Tenants, discoverable \in BOOLEAN : Heartbeat(b, t, discoverable)
    \/ \E t \in Tenants, g \in BOOLEAN : LookAround(t.enterprise, IF g THEN t.group ELSE "")
    \/ ListPeers \/ MinutePasses

PresenceSpec == PresenceInit /\ [][PresenceNext]_presenceVars

-----------------------------------------------------------------------------
Asked(b) ==
    /\ beat[b].discoverable
    /\ beat[b].of.enterprise = asking.enterprise /\ asking.group \in {"", beat[b].of.group}
    /\ beat[b].at >= asking.since

(* c was sent once b was answered: it says the last word of the two.        *)
Supersedes(c, b) == b \in beat[c].after

(* A reader is shown a persona only on the word of a heartbeat that agreed  *)
(* to it and that nothing later, stored when the reader asked, took back;   *)
(* and a stored heartbeat that agreed is shown, unless another took over.   *)
LastWordShown ==
    asking.pc = "answered" =>
        /\ asking.got # NoBeat =>
              /\ Asked(asking.got)
              /\ \A c \in asking.after : beat[c].pc = "stored" => ~Supersedes(c, asking.got)
        /\ \A b \in asking.after :
              beat[b].pc = "stored" /\ Asked(b) /\ asking.got = NoBeat =>
                 \E c \in Beats \ {b} : beat[c].pc = "stored" /\ ~Supersedes(b, c)
=============================================================================
