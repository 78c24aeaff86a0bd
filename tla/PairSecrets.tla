---------------------------- MODULE PairSecrets ----------------------------
(***************************************************************************)
(* The secrets with which the L2s of one Enterprise call each other        *)
(* (aigrp/enterprise_root.py, aigrp/runtime.py, require_peer_key in        *)
(* aigrp/_legacy.py): the Enterprise root is in the parameter store, every *)
(* L2 caches it for Ttl, and the pair secrets it derives for Ttl again.    *)
(* A fallback bearer may be configured on either side.                     *)
(*                                                                         *)
(* Roots are numbered in the order they are put, 0 while there is none.    *)
(* Reading the store and deriving is synchronous, so each is one step, at  *)
(* one moment of the clock.                                                *)
(***************************************************************************)
EXTENDS Naturals

CONSTANTS
    Members,    \* the L2s
    Ttl,        \* _pair_cache_ttl_sec and CQ_AIGRP_ROOT_CACHE_TTL_SEC, both 300 s
    MaxRoots,   \* bound: roots ever put
    MaxClock    \* bound: the clock

ASSUME SecretsAssumption == Ttl \in Nat \ {0} /\ MaxRoots \in Nat /\ MaxClock \in Nat

VARIABLES
    clock,
    parameter,  \* the root in the parameter store, 0 while absent
    replacedAt, \* when each root was replaced by the next
    rootCache,  \* per L2: a root and when it was fetched
    pairCache,  \* per L2 and peer: the root the secret comes from and when it was derived
    call        \* the last call: the root of the bearer, the root of the receiver, when

secretVars == <<clock, parameter, replacedAt, rootCache, pairCache, call>>

Roots == 1 .. MaxRoots
Never == [root |-> 0, at |-> 0]
NoCall == [bearer |-> 0, expected |-> 0, at |-> 0]

SecretsInit ==
    /\ clock = 0
    /\ parameter = 0
    /\ replacedAt = [r \in Roots |-> 0]
    /\ rootCache = [m \in Members |-> Never]
    /\ pairCache = [m \in Members |-> [n \in Members |-> Never]]
    /\ call = NoCall

Put ==
    /\ parameter < MaxRoots
    /\ parameter' = parameter + 1
    /\ replacedAt' = IF parameter = 0 THEN replacedAt ELSE [replacedAt EXCEPT ![parameter] = clock]

(* bootstrap_root_if_needed: any read that fails leads to a PUT that does   *)
(* not overwrite, so of two L2s that boot at once one mints. Its cache is   *)
(* emptied.                                                                 *)
MintRoot(m) ==
    /\ parameter = 0
    /\ Put
    /\ rootCache' = [rootCache EXCEPT ![m] = Never]
    /\ UNCHANGED <<clock, pairCache, call>>

(* The operator's rotation; other L2s are not told.                         *)
RotateRoot ==
    /\ parameter > 0
    /\ Put
    /\ UNCHANGED <<clock, rootCache, pairCache, call>>

Fresh(entry) == entry.root > 0 /\ clock - entry.at < Ttl

(* get_enterprise_root and _pair_secret_for_peer: both caches after m used  *)
(* its secret with n.                                                       *)
RootEntry(m, n) ==
    IF Fresh(pairCache[m][n]) \/ Fresh(rootCache[m]) THEN rootCache[m]
    ELSE [root |-> parameter, at |-> clock]

\* Mutant: the secret's age starts again with every use.
PairTouched(m, n) ==
    [root |-> IF Fresh(pairCache[m][n]) THEN pairCache[m][n].root ELSE RootEntry(m, n).root,
     at |-> clock]

PairEntry(m, n) ==
    IF Fresh(pairCache[m][n]) THEN pairCache[m][n]
    ELSE [root |-> RootEntry(m, n).root, at |-> clock]

(* derive_pair_secret does not depend on which of the two derives it, so    *)
(* two bearers are equal if their roots are.                                *)
Bearer(m, n) == PairEntry(m, n).root

(* A call of m to n: m derives the bearer, n what it expects of m. While    *)
(* there is no root neither can, and the fallback bearer decides.           *)
Call(m, n) ==
    /\ parameter > 0
    /\ call' = [bearer |-> Bearer(m, n), expected |-> Bearer(n, m), at |-> clock]
    /\ rootCache' = [rootCache EXCEPT ![m] = RootEntry(m, n), ![n] = RootEntry(n, m)]
    /\ pairCache' = [pairCache EXCEPT ![m][n] = PairEntry(m, n), ![n][m] = PairEntry(n, m)]
    /\ UNCHANGED <<clock, parameter, replacedAt>>

ProcessRestarts(m) ==
    /\ rootCache' = [rootCache EXCEPT ![m] = Never]
    /\ pairCache' = [pairCache EXCEPT ![m] = [n \in Members |-> Never]]
    /\ UNCHANGED <<clock, parameter, replacedAt, call>>

SecretsTick ==
    /\ clock < MaxClock
    /\ clock' = clock + 1
    /\ UNCHANGED <<parameter, replacedAt, rootCache, pairCache, call>>

SecretsNext ==
    \/ \E m \in Members : MintRoot(m) \/ ProcessRestarts(m) \/ \E n \in Members \ {m} : Call(m, n)
    \/ RotateRoot \/ SecretsTick

SecretsSpec == SecretsInit /\ [][SecretsNext]_secretVars

(* A root that was replaced 2 * Ttl ago takes no part in a call. One window *)
(* is not enough, though the runtime says so (aigrp/runtime.py:161): the    *)
(* pair secret may be derived from a cached root that is nearly a Ttl old.  *)
(* Until then a call is refused for want of a common secret, or goes        *)
(* through on the old one.                                                  *)
RotationLands ==
    \A r \in {call.bearer, call.expected} \ {0} :
        r < parameter => call.at < replacedAt[r] + 2 * Ttl
=============================================================================
