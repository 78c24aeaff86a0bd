------------------------------- MODULE Lookup -------------------------------
(***************************************************************************)
(* A query an L2 asks for one of its agents (/aigrp/lookup in app.py): a   *)
(* search of its own units, a signed forward-query to the siblings worth   *)
(* asking (aigrp/federation.py), and one ranking over what came back. The  *)
(* siblings are asked at once and answer in any order, late, or not at     *)
(* all; a sibling that has an old key of this L2 refuses it.               *)
(*                                                                         *)
(* A copy is what a place says of one unit: the siblings may mirror it,    *)
(* with a similarity and a confidence of their own, and without its author *)
(* (a hit on the wire has no created_by).                                  *)
(***************************************************************************)
EXTENDS Naturals, FiniteSets

CONSTANTS
    Kus,            \* ids of units
    Own,            \* those the asking persona wrote, here or at a sibling
    Siblings,       \* the peers in aigrp_peers
    SiblingRows,    \* what a row may say, of [safe, bloom, key]
    MaxHits,        \* max_results
    Floor           \* min_similarity and min_confidence

ASSUME LookupAssumption ==
    /\ IsFiniteSet(Kus) /\ Own \subseteq Kus /\ MaxHits \in Nat \ {0} /\ Floor \in Nat
    /\ SiblingRows \subseteq [safe : BOOLEAN,                       \* the endpoint may be called
                              bloom : {"absent", "claims", "denies"}, \* of the domains asked about
                              key : {"none", "current", "old"}]     \* of this L2, at the sibling

VARIABLES
    sibling,    \* the rows
    look,       \* the request: where it is, which siblings have not answered, exclude_self
    ownHits,    \* copies its own search found
    peerHits,   \* copies the siblings answered with
    results     \* what the caller got

lookupVars == <<sibling, look, ownHits, peerHits, results>>

(* What one search may come back with: at most n units, each with its       *)
(* similarity and its confidence.                                           *)
Copy(k, x, here) == [ku |-> k, similarity |-> x[1], confidence |-> x[2], here |-> here]
Hits(n, here) ==
    UNION {{{Copy(k, x[k], here) : k \in found} : x \in [found -> (0 .. Floor + 1) \X (0 .. Floor)]} :
              found \in {ks \in SUBSET Kus : Cardinality(ks) <= n}}

LookupInit ==
    /\ sibling \in [Siblings -> SiblingRows]
    /\ \E own \in BOOLEAN : look = [pc |-> "embed", asked |-> {}, excludes |-> own]
    /\ ownHits = {} /\ peerHits = {} /\ results = {}

(* No embedding, no search: an empty answer.                                *)
EmbedFails ==
    /\ look.pc = "embed"
    /\ look' = [look EXCEPT !.pc = "answered"]
    /\ UNCHANGED <<sibling, ownHits, peerHits, results>>

(* semantic_query over the approved units, three times as many as asked for *)
SearchHere ==
    /\ look.pc = "embed"
    /\ ownHits' \in Hits(3 * MaxHits, TRUE)
    /\ look' = [look EXCEPT !.pc = "peers"]
    /\ UNCHANGED <<sibling, peerHits, results>>

(* bloom_matches_any: a filter that claims none of the domains of the local *)
(* hits rules its peer out; without local hits there is nothing to test.    *)
MayHold(p) == ownHits # {} => sibling[p].bloom \in {"absent", "claims"}

(* select_peers_for_query                                                   *)
Selected == {p \in Siblings : sibling[p].safe /\ MayHold(p)}

(* list_aigrp_peers may raise: then nobody is asked.                        *)
AskSiblings(readable) ==
    /\ look.pc = "peers"
    /\ look' = [look EXCEPT !.pc = "fan-out", !.asked = IF readable THEN Selected ELSE {}]
    /\ UNCHANGED <<sibling, ownHits, peerHits, results>>

(* require_forwarder_identity at the sibling: the signature is checked once *)
(* it has a key of this L2 on file.                                         *)
Admits(p) == sibling[p].key \in {"none", "current"}

(* forward_query_peer. A peer that does not send a confidence has zero.     *)
SiblingAnswers(p) ==
    /\ look.pc = "fan-out" /\ p \in look.asked /\ Admits(p)
    /\ \E hits \in Hits(MaxHits, FALSE) : peerHits' = peerHits \cup hits
    /\ look' = [look EXCEPT !.asked = @ \ {p}]
    /\ UNCHANGED <<sibling, ownHits, results>>

\* Mutant: gather without return_exceptions.
FanOutFails(p) ==
    /\ look.pc = "fan-out" /\ p \in look.asked
    /\ look' = [look EXCEPT !.pc = "answered", !.asked = {}]
    /\ UNCHANGED <<sibling, ownHits, peerHits, results>>

(* Refused, unreachable, too late, no JSON: no hits, and no error.          *)
SiblingFails(p) ==
    /\ look.pc = "fan-out" /\ p \in look.asked
    /\ look' = [look EXCEPT !.asked = @ \ {p}]
    /\ UNCHANGED <<sibling, ownHits, peerHits, results>>

Candidates == ownHits \cup peerHits
Nearest(k) == {c \in Candidates : c.ku = k /\ \A d \in Candidates : d.ku = k => d.similarity <= c.similarity}

\* Mutant: a peer's copy replaces the local one at a tie.
LastCopy(k) == IF Nearest(k) \cap peerHits = {} THEN Nearest(k) ELSE Nearest(k) \cap peerHits

(* One copy per id, the nearest; of those equally near the first, and the   *)
(* local ones come first.                                                   *)
Kept(k) == IF Nearest(k) \cap ownHits = {} THEN Nearest(k) ELSE Nearest(k) \cap ownHits

(* min_similarity, min_confidence, exclude_self: after the de-duplication.  *)
(* exclude_self compares authors, which a sibling's copy does not have.     *)
Passes(c) ==
    /\ c.similarity >= Floor /\ c.confidence >= Floor
    /\ ~(look.excludes /\ c.here /\ c.ku \in Own)

Rank ==
    /\ look.pc = "fan-out" /\ look.asked = {}
    /\ \E merged \in SUBSET Candidates :
          /\ \A k \in Kus : Cardinality({c \in merged : c.ku = k}) = (IF Nearest(k) = {} THEN 0 ELSE 1)
          /\ \A c \in merged : c \in Kept(c.ku)
          /\ LET passing == {c \in merged : Passes(c)} IN
             \E top \in SUBSET passing :
                /\ Cardinality(top) = (IF Cardinality(passing) < MaxHits THEN Cardinality(passing) ELSE MaxHits)
                /\ \A c \in top, d \in passing \ top : d.similarity <= c.similarity
                /\ results' = top
    /\ look' = [look EXCEPT !.pc = "answered"]
    /\ UNCHANGED <<sibling, ownHits, peerHits>>

LookupNext ==
    \/ EmbedFails \/ SearchHere \/ Rank
    \/ \E readable \in BOOLEAN : AskSiblings(readable)
    \/ \E p \in Siblings : SiblingAnswers(p) \/ SiblingFails(p)

LookupSpec == LookupInit /\ [][LookupNext]_lookupVars

(* "The lookup degrades to local-only" (app.py:662): whichever siblings     *)
(* fail, and whatever the others mirror, a unit found here that passes the  *)
(* filters is in the answer, unless a full answer is at least as near, or a *)
(* nearer copy of the same unit came back that does not pass; and a         *)
(* mirrored copy no nearer than the local one never stands in for it, for   *)
(* it has lost the parts its sibling withholds.                             *)
DegradesToLocal ==
    look.pc = "answered" =>
        /\ \A c \in ownHits : Passes(c) =>
              \/ \E r \in results : r.ku = c.ku
              \/ Cardinality(results) = MaxHits /\ \A r \in results : r.similarity >= c.similarity
              \/ \E r \in peerHits : r.ku = c.ku /\ r.similarity > c.similarity /\ ~Passes(r)
        /\ \A r \in results, c \in ownHits : r.ku = c.ku /\ ~r.here => r.similarity > c.similarity
=============================================================================
