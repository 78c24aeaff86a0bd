------------------------------ MODULE Peerings ------------------------------
(***************************************************************************)
(* The mirror of the directory's peerings on an L2 (directory_client.py):  *)
(* announce with retries, then pull the records, fetch the root keys, and  *)
(* upsert what verifies; and the row an administrator pastes by hand       *)
(* (aigrp_directory_peer_routes.py), under an id of its own.               *)
(*                                                                         *)
(* The directory is another service: its records and keys change by        *)
(* themselves, and it is out of reach at times. A pull holds the list it   *)
(* fetched while the directory goes on, and the loop is one coroutine.     *)
(***************************************************************************)
EXTENDS Naturals

CONSTANTS
    Offers,         \* peering records of this Enterprise with the other one
    Announces,      \* BOOLEAN: FALSE is CQ_DIRECTORY_SKIP_ANNOUNCE
    MaxAttempts,    \* max_attempts of _announce_with_retries
    MaxFailures,    \* bound: outages of the directory
    MaxStarts       \* bound: restarts of the L2

ASSUME PeeringsAssumption ==
    Announces \in BOOLEAN /\ {MaxAttempts, MaxFailures, MaxStarts} \subseteq Nat

VARIABLES
    record,     \* at the directory: status, and the era of the key that signed it
    rootKey,    \* at the directory: era of the other Enterprise's root key
    reach,      \* the directory answers
    failures,
    loop,       \* "announcing", "pulling", "off"
    attempts,
    pull,       \* the cycle: records still to go, the key it cached (0: none); idle when on = FALSE
    mirror,     \* aigrp_directory_peerings, the pulled rows: a status, "none" before
    manual,     \* the pasted row: "none", "active", "over"
    starts

peeringVars == <<record, rootKey, reach, failures, loop, attempts, pull, mirror, manual, starts>>
directoryVars == <<record, rootKey, reach, failures>>

NoPull == [on |-> FALSE, left |-> {}, key |-> 0]
FirstMode == IF Announces THEN "announcing" ELSE "pulling"

PeeringsInit ==
    /\ record = [o \in Offers |-> [status |-> "none", key |-> 1]]
    /\ rootKey = 1 /\ reach = TRUE /\ failures = 0
    /\ loop = FirstMode /\ attempts = 0 /\ pull = NoPull
    /\ mirror = [o \in Offers |-> "none"]
    /\ manual = "none"
    /\ starts = 0

-----------------------------------------------------------------------------
(* The directory: a record is accepted, later withdrawn; the status is not  *)
(* under the signatures. Keys rotate, once here, and the records signed     *)
(* before do not verify any more.                                           *)
Accepted(o) ==
    /\ record[o].status = "none"
    /\ record' = [record EXCEPT ![o] = [status |-> "active", key |-> rootKey]]
    /\ UNCHANGED <<rootKey, reach, failures, loop, attempts, pull, mirror, manual, starts>>

Withdrawn(o) ==
    /\ record[o].status = "active"
    /\ record' = [record EXCEPT ![o].status = "withdrawn"]
    /\ UNCHANGED <<rootKey, reach, failures, loop, attempts, pull, mirror, manual, starts>>

KeyRotates ==
    /\ rootKey = 1
    /\ rootKey' = 2
    /\ UNCHANGED <<record, reach, failures, loop, attempts, pull, mirror, manual, starts>>

DirectoryDown ==
    /\ reach /\ failures < MaxFailures
    /\ reach' = FALSE /\ failures' = failures + 1
    /\ UNCHANGED <<record, rootKey, loop, attempts, pull, mirror, manual, starts>>

DirectoryUp ==
    /\ ~reach
    /\ reach' = TRUE
    /\ UNCHANGED <<record, rootKey, failures, loop, attempts, pull, mirror, manual, starts>>

-----------------------------------------------------------------------------
(* _announce_with_retries: accepted, refused for good, or tried again; the  *)
(* pull loop starts after an announce that was accepted, and only then.     *)
AnnounceSelf ==
    /\ loop = "announcing"
    /\ attempts' = attempts + 1
    /\ loop' \in (IF reach THEN {"pulling", "off"} ELSE {})
                 \cup {IF attempts' < MaxAttempts THEN "announcing" ELSE "off"}
    /\ UNCHANGED <<directoryVars, pull, mirror, manual, starts>>

(* GET /peerings: a list of the moment; a cycle without one is over.        *)
PullList ==
    /\ loop = "pulling" /\ ~pull.on /\ reach
    /\ pull' = [on |-> TRUE, key |-> 0,
                left |-> {[offer |-> o, rec |-> record[o]] : o \in {o \in Offers : record[o].status # "none"}}]
    /\ UNCHANGED <<directoryVars, loop, attempts, mirror, manual, starts>>

(* _fetch_enterprise_pubkey for the next record: from the cycle's cache, or *)
(* from the directory.                                                      *)
KeyFor == IF pull.key # 0 THEN pull.key ELSE IF reach THEN rootKey ELSE 0

Verifies(x) == KeyFor = x.rec.key

\* Mutant: a record that is known already is not written again.
InsertOnly(x) ==
    IF Verifies(x) /\ mirror[x.offer] = "none" THEN [mirror EXCEPT ![x.offer] = x.rec.status] ELSE mirror

(* upsert_directory_peering, for a record whose two signatures hold.        *)
Upserted(x) ==
    IF Verifies(x) THEN [mirror EXCEPT ![x.offer] = x.rec.status] ELSE mirror

TakeRecord(x) ==
    /\ x \in pull.left
    /\ mirror' = Upserted(x)
    /\ pull' = [pull EXCEPT !.left = @ \ {x}, !.key = KeyFor]
    /\ UNCHANGED <<directoryVars, loop, attempts, manual, starts>>

(* The loop sleeps and starts over, with an empty key cache.                *)
CycleEnds ==
    /\ pull.on /\ pull.left = {}
    /\ pull' = NoPull
    /\ UNCHANGED <<directoryVars, loop, attempts, mirror, manual, starts>>

(* The lifespan task anew.                                                  *)
L2Restarts ==
    /\ starts < MaxStarts
    /\ starts' = starts + 1
    /\ loop' = FirstMode /\ attempts' = 0 /\ pull' = NoPull
    /\ UNCHANGED <<directoryVars, mirror, manual>>

(* POST /admin/aigrp/directory-peerings: one upsert, pasting again renews.  *)
PasteByHand ==
    /\ manual' = "active"
    /\ UNCHANGED <<directoryVars, loop, attempts, pull, mirror, starts>>

(* expires_at passes; a pull never ends a row it did not get.               *)
ManualExpires ==
    /\ manual = "active"
    /\ manual' = "over"
    /\ UNCHANGED <<directoryVars, loop, attempts, pull, mirror, starts>>

(* find_active_directory_peering: what a consult may cross on.              *)
InForce == manual = "active" \/ \E o \in Offers : mirror[o] = "active"

Pulling == PullList \/ CycleEnds \/ \E x \in pull.left : TakeRecord(x)

PeeringsNext ==
    \/ \E o \in Offers : Accepted(o) \/ Withdrawn(o)
    \/ KeyRotates \/ DirectoryDown \/ DirectoryUp
    \/ AnnounceSelf \/ PullList \/ CycleEnds \/ \E x \in pull.left : TakeRecord(x)
    \/ L2Restarts \/ PasteByHand \/ ManualExpires

(* The loop never ends by itself and sleeps a bounded time.                 *)
PeeringsFairness == WF_peeringVars(AnnounceSelf \/ Pulling) /\ WF_peeringVars(DirectoryUp)

PeeringsSpec == PeeringsInit /\ [][PeeringsNext]_peeringVars /\ PeeringsFairness

(* A peering all of whose records were withdrawn, under a key that has not  *)
(* rotated since, stops being in force here, whatever older list a cycle    *)
(* still holds: unless it was pasted by hand, the keys rotate, or the loop  *)
(* was never started.                                                       *)
AllWithdrawn ==
    \A o \in Offers : record[o].status = "withdrawn" /\ record[o].key = rootKey
WithdrawalLands ==
    AllWithdrawn ~> (~InForce \/ manual = "active" \/ loop = "off" \/ ~AllWithdrawn)
=============================================================================
