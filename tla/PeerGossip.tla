----------------------------- MODULE PeerGossip -----------------------------
(***************************************************************************)
(* How the L2s of one Enterprise learn of each other: hello to the seed,   *)
(* the announcements a hello floods, the answer it returns, and the poll   *)
(* loop that says hello again to every known peer and fetches its          *)
(* signature (app.py, with aigrp_peers in store/_sqlite.py).               *)
(*                                                                         *)
(* What an L2 says of itself, its endpoint and its signing key, is one     *)
(* era: a redeployment may begin a new one. A row keeps the era it was     *)
(* last told of, and a call addressed to an endpoint of an earlier era     *)
(* reaches nobody. Announcements are sent by a background task: they are   *)
(* delayed, overtaken and lost.                                            *)
(***************************************************************************)
EXTENDS Naturals, FiniteSets

CONSTANTS
    L2s,
    Seed,           \* CQ_AIGRP_SEED_PEER_URL of all the others; its address is fixed
    MaxRestarts,    \* bound: redeployments and rows pasted
    MaxLost         \* bound: announcements lost

ASSUME GossipAssumption == Seed \in L2s /\ MaxRestarts \in Nat /\ MaxLost \in Nat

VARIABLES
    era,        \* what each L2 now says of itself
    row,        \* aigrp_peers of each L2: the era of a peer, and whether a signature is cached
    joined,     \* the first hello of this process was answered
    answer,     \* rows of the seed's answer still to be upserted
    flight,     \* announcements under way
    restarts,
    lost

gossipVars == <<era, row, joined, answer, flight, restarts, lost>>

Unknown == [era |-> 0, signed |-> FALSE]    \* no row; eras begin at 1

Current(n) == [era |-> era[n], signed |-> TRUE]
Converged == \A m, n \in L2s : m # n => row[m][n] = Current(n)

(* A mesh on its first day; or one that runs, of which some L2s have just   *)
(* been redeployed elsewhere.                                               *)
GossipInit ==
    /\ \E fresh \in BOOLEAN, moved \in SUBSET (L2s \ {Seed}) :
          /\ fresh => moved = {}
          /\ era = [n \in L2s |-> IF n \in moved THEN 2 ELSE 1]
          /\ row = [m \in L2s |-> [n \in L2s |-> IF fresh \/ m = n THEN Unknown ELSE [Current(n) EXCEPT !.era = 1]]]
          /\ joined = [n \in L2s |-> n = Seed \/ ~(fresh \/ n \in moved)]
    /\ answer = [n \in L2s |-> {}]
    /\ flight = {}
    /\ restarts \in 0 .. MaxRestarts /\ lost \in 0 .. MaxLost

Known(m) == {n \in L2s : row[m][n].era > 0}

(* upsert_aigrp_peer without a signature: whatever was told last stands, no *)
(* version is compared; the cached signature stays.                         *)
Touch(m, n, e) == [row EXCEPT ![m][n].era = e]

(* POST /aigrp/hello at m from n: the row, and an announcement of n to      *)
(* every other known peer at the endpoint m has for it.                     *)
Hello(m, n) ==
    /\ row' = Touch(m, n, era[n])
    /\ flight' = flight \cup {[to |-> p, about |-> n, era |-> era[n]] :
                                p \in {q \in Known(m) \ {n} : row[m][q].era = era[q]}}

(* What n is told by m: the table of m, without n, and m itself.            *)
Roster(m, n) == {[about |-> p, era |-> row[m][p].era] : p \in Known(m) \ {n}} \cup {[about |-> m, era |-> era[m]]}

(* _try_bootstrap: hello to the seed.                                       *)
TryBootstrap(n) ==
    /\ ~joined[n]
    /\ Hello(Seed, n)
    /\ joined' = [joined EXCEPT ![n] = TRUE]
    /\ answer' = [answer EXCEPT ![n] = Roster(Seed, n)]
    /\ UNCHANGED <<era, restarts, lost>>

(* Its rows are upserted one await at a time, before the loop goes on.      *)
ApplyAnswer(n, x) ==
    /\ x \in answer[n]
    /\ row' = Touch(n, x.about, x.era)
    /\ answer' = [answer EXCEPT ![n] = @ \ {x}]
    /\ UNCHANGED <<era, joined, flight, restarts, lost>>

Reachable(m, n) == n \in Known(m) /\ row[m][n].era = era[n] /\ answer[m] = {}

\* Mutant: hello is said again only until the peer has been seen working.
RehelloUntilSigned(m, n) ==
    /\ Reachable(m, n) /\ ~row[m][n].signed
    /\ Hello(n, m)
    /\ UNCHANGED <<era, joined, answer, restarts, lost>>

(* One peer's turn in the poll loop: _rehello_peer, ...                     *)
Rehello(m, n) ==
    /\ Reachable(m, n)
    /\ Hello(n, m)
    /\ UNCHANGED <<era, joined, answer, restarts, lost>>

(* ... then GET /aigrp/signature, which also refreshes the endpoint.        *)
FetchSignature(m, n) ==
    /\ Reachable(m, n)
    /\ row' = [row EXCEPT ![m][n].signed = TRUE]
    /\ UNCHANGED <<era, joined, answer, flight, restarts, lost>>

(* POST /aigrp/announce.                                                    *)
Announce(x) ==
    /\ x \in flight
    /\ flight' = flight \ {x}
    /\ row' = Touch(x.to, x.about, x.era)
    /\ UNCHANGED <<era, joined, answer, restarts, lost>>

Lose(x) ==
    /\ x \in flight /\ lost < MaxLost
    /\ flight' = flight \ {x}
    /\ lost' = lost + 1
    /\ UNCHANGED <<era, row, joined, answer, restarts>>

(* A redeployment keeps the database; the process bootstraps again.         *)
Redeploy(n, moved) ==
    /\ n # Seed /\ restarts < MaxRestarts
    /\ restarts' = restarts + 1
    /\ era' = [era EXCEPT ![n] = IF moved THEN @ + 1 ELSE @]
    /\ joined' = [joined EXCEPT ![n] = FALSE]
    /\ answer' = [answer EXCEPT ![n] = {}]
    /\ flight' = IF moved THEN {x \in flight : x.to # n} ELSE flight
    /\ UNCHANGED <<row, lost>>

(* POST /admin/aigrp/peers: an administrator of m writes the row of n as of *)
(* any era they have heard of; it counts as a signature. (A row of m itself *)
(* is passed over by every loop.)                                           *)
PastePeer(m, n, e) ==
    /\ m # n /\ e \in 1 .. era[n] /\ restarts < MaxRestarts
    /\ restarts' = restarts + 1
    /\ row' = [row EXCEPT ![m][n] = [era |-> e, signed |-> TRUE]]
    /\ UNCHANGED <<era, joined, answer, flight, lost>>

Joins == \E n \in L2s : TryBootstrap(n) \/ \E x \in answer[n] : ApplyAnswer(n, x)
FetchesSignatures(m) == \E n \in L2s : FetchSignature(m, n)

GossipNext ==
    \/ \E n \in L2s : \/ TryBootstrap(n) \/ \E moved \in BOOLEAN : Redeploy(n, moved)
                      \/ \E x \in answer[n] : ApplyAnswer(n, x)
                      \/ \E m \in L2s : \/ Rehello(m, n) \/ FetchSignature(m, n)
                                        \/ \E e \in 1 .. era[n] : PastePeer(m, n, e)
    \/ \E x \in flight : Announce(x) \/ Lose(x)

(* The loop of each L2 runs for ever and its calls time out (two L2s that   *)
(* call each other at once fail once, not for ever); an announcement is     *)
(* delivered or lost in the end.                                            *)
GossipFairness ==
    /\ WF_gossipVars(Joins)
    /\ \A n \in L2s : /\ WF_gossipVars(FetchesSignatures(n))
                      /\ \A m \in L2s \ {n} : WF_gossipVars(Rehello(m, n))
    /\ WF_gossipVars(\E x \in flight : Announce(x))

GossipSpec == GossipInit /\ [][GossipNext]_gossipVars /\ GossipFairness

(* Once redeployments and pasted rows stop, every L2 ends with the current  *)
(* endpoint and key of every other and with its signature, though a row is  *)
(* overwritten by whatever stale announcement or paste comes last,          *)
(* announcements are lost, and two L2s may have moved at once.              *)
PeersConverge == <>[]Converged
=============================================================================
