----------------------------- MODULE ClientDrain -----------------------------
(***************************************************************************)
(* The Python client of cq (sdk/python): a unit is proposed to the server, *)
(* or kept in the local store when that fails, and drained later. Several  *)
(* processes, an agent's tools and its hooks, share one local store. Each  *)
(* call of the store is a transaction; a post may be handled after the     *)
(* client has given up on it.                                              *)
(*                                                                         *)
(* The server gives a unit a new id with each post, so copies are counted. *)
(***************************************************************************)
EXTENDS Naturals

CONSTANTS
    Clients,        \* processes
    Proposals,      \* units, each proposed once
    MaxPosts        \* bound: posts per unit

ASSUME ClientAssumption == MaxPosts \in Nat

VARIABLES
    local,      \* knowledge_units of the local store
    received,   \* copies of each unit the server has
    posts,      \* posts of each unit so far
    delayed,    \* posts the client gave up on, which may still arrive
    client,     \* per process: step, unit, units its drain has still to do
    kept        \* units whose propose told the caller that they are kept, here or there

clientVars == <<local, received, posts, delayed, client, kept>>

NoClient == [pc |-> "idle", unit |-> "none", todo |-> {}, draining |-> FALSE]

ClientInit ==
    /\ local = {}
    /\ received = [u \in Proposals |-> 0]
    /\ posts = [u \in Proposals |-> 0]
    /\ delayed = {}
    /\ client = [p \in Clients |-> NoClient]
    /\ kept = {}

Step(p, pc) == client' = [client EXCEPT ![p].pc = pc]

Post(p, u) ==
    /\ posts[u] < MaxPosts
    /\ posts' = [posts EXCEPT ![u] = @ + 1]
    /\ client' = [client EXCEPT ![p].pc = "posting", ![p].unit = u, ![p].todo = @ \ {u}]

(* propose; with no remote it goes to the local store at once.              *)
ProposeUnit(p, u) ==
    /\ client[p].pc = "idle" /\ posts[u] = 0 /\ u \notin local \cup kept
    /\ \A q \in Clients : client[q].unit # u
    /\ \/ Post(p, u)
       \/ /\ client' = [client EXCEPT ![p].pc = "insert", ![p].unit = u]
          /\ UNCHANGED posts
    /\ UNCHANGED <<local, received, delayed, kept>>

(* _remote_propose: the server stores the unit ...                          *)
ServerStores(p) ==
    /\ client[p].pc = "posting"
    /\ received' = [received EXCEPT ![client[p].unit] = @ + 1]
    /\ Step(p, "stored")
    /\ UNCHANGED <<local, posts, delayed, kept>>

(* ... refuses the data, refuses the caller or cannot ...                   *)
ServerRefuses(p, why) ==
    /\ client[p].pc = "posting"
    /\ Step(p, why)
    /\ UNCHANGED <<local, received, posts, delayed, kept>>

(* ... or the client has no answer, and the post may yet be handled.        *)
PostTimesOut(p) ==
    /\ client[p].pc \in {"posting", "stored"}
    /\ delayed' = IF client[p].pc = "posting" THEN delayed \cup {client[p].unit} ELSE delayed
    /\ Step(p, "unreachable")
    /\ UNCHANGED <<local, received, posts, kept>>

LatePost(u) ==
    /\ u \in delayed
    /\ received' = [received EXCEPT ![u] = @ + 1]
    /\ delayed' = delayed \ {u}
    /\ UNCHANGED <<local, posts, client, kept>>

-----------------------------------------------------------------------------
(* propose returns the server's unit.                                       *)
ProposeStored(p) ==
    /\ client[p].pc = "stored" /\ ~client[p].draining
    /\ kept' = kept \cup {client[p].unit}
    /\ client' = [client EXCEPT ![p] = NoClient]
    /\ UNCHANGED <<local, received, posts, delayed>>

(* Of an error of the data the caller is told, and nothing is kept.         *)
ProposeRefused(p) ==
    /\ client[p].pc = "data" /\ ~client[p].draining
    /\ client' = [client EXCEPT ![p] = NoClient]
    /\ UNCHANGED <<local, received, posts, delayed, kept>>

(* 401, 403, 5xx and no answer: stored here, and FallbackError.             *)
ProposeFallsBack(p) ==
    /\ client[p].pc \in {"unreachable", "insert"} /\ ~client[p].draining
    /\ \/ /\ local' = local \cup {client[p].unit}
          /\ kept' = kept \cup {client[p].unit}
       \/ UNCHANGED <<local, kept>>
    /\ client' = [client EXCEPT ![p] = NoClient]
    /\ UNCHANGED <<received, posts, delayed>>

-----------------------------------------------------------------------------
(* drain: the units of the moment, one after another.                       *)
DrainBegin(p) ==
    /\ client[p].pc = "idle" /\ local # {}
    /\ client' = [client EXCEPT ![p] = [pc |-> "next", unit |-> "none", todo |-> local, draining |-> TRUE]]
    /\ UNCHANGED <<local, received, posts, delayed, kept>>

DrainPost(p, u) ==
    /\ client[p].pc = "next" /\ u \in client[p].todo
    /\ Post(p, u)
    /\ UNCHANGED <<local, received, delayed, kept>>

(* delete raises for a unit another process has drained: the drain ends.    *)
DrainStored(p) ==
    /\ client[p].pc = "stored" /\ client[p].draining
    /\ local' = local \ {client[p].unit}
    /\ client' = IF client[p].unit \in local THEN [client EXCEPT ![p].pc = "next"]
                 ELSE [client EXCEPT ![p] = NoClient]
    /\ UNCHANGED <<received, posts, delayed, kept>>

\* Mutant: a unit whose post was answered with an error is deleted as well.
DrainSettles(p) ==
    /\ client[p].pc \in {"data", "unreachable"} /\ client[p].draining
    /\ local' = local \ {client[p].unit}
    /\ Step(p, "next")
    /\ UNCHANGED <<received, posts, delayed, kept>>

(* Any failure of a unit is a warning: it stays, and is posted next time.   *)
DrainWarns(p) ==
    /\ client[p].pc \in {"data", "unreachable"} /\ client[p].draining
    /\ Step(p, "next")
    /\ UNCHANGED <<local, received, posts, delayed, kept>>

DrainEnds(p) ==
    /\ client[p].pc = "next" /\ client[p].todo = {}
    /\ client' = [client EXCEPT ![p] = NoClient]
    /\ UNCHANGED <<local, received, posts, delayed, kept>>

(* The process dies; a post it sent may be handled.                         *)
ClientDies(p) ==
    /\ client[p].pc # "idle"
    /\ delayed' = IF client[p].pc = "posting" THEN delayed \cup {client[p].unit} ELSE delayed
    /\ client' = [client EXCEPT ![p] = NoClient]
    /\ UNCHANGED <<local, received, posts, kept>>

ClientNext ==
    \/ \E p \in Clients :
          \/ \E u \in Proposals : ProposeUnit(p, u) \/ DrainPost(p, u)
          \/ ServerStores(p) \/ PostTimesOut(p)
          \/ \E why \in {"data", "unreachable"} : ServerRefuses(p, why)
          \/ ProposeStored(p) \/ ProposeRefused(p) \/ ProposeFallsBack(p)
          \/ DrainBegin(p) \/ DrainStored(p) \/ DrainWarns(p) \/ DrainEnds(p)
          \/ ClientDies(p)
    \/ \E u \in Proposals : LatePost(u)

ClientSpec == ClientInit /\ [][ClientNext]_clientVars

(* What the caller was told is kept is in the local store or on the server, *)
(* through deaths, timeouts and drains of several processes; and it has     *)
(* more copies than one only if it was posted again.                        *)
KeptIsSomewhere ==
    \A u \in kept : (u \in local \/ received[u] > 0) /\ received[u] <= posts[u]
=============================================================================
