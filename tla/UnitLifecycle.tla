---------------------------- MODULE UnitLifecycle ----------------------------
(***************************************************************************)
(* What the review of knowledge units promises its users, with no handler  *)
(* and no interleaving: an id is used for one unit; a unit is open, then   *)
(* decided, then perhaps gone; a decided unit never becomes open again, a  *)
(* deleted one never comes back; and of the requests that try to decide a  *)
(* unit, the first one is its judge for ever.                              *)
(***************************************************************************)
CONSTANTS Units, Judges

VARIABLES
    phase,  \* where each unit is in its life
    judges  \* the requests told that they decided the unit: none or one

lvars == <<phase, judges>>

Phases == {"unborn", "open", "decided", "gone"}

LifecycleInit ==
    /\ phase \in [Units -> {"unborn", "open", "decided"}]
    /\ judges = [u \in Units |-> {}]

Propose(u) ==
    /\ phase[u] = "unborn"
    /\ phase' = [phase EXCEPT ![u] = "open"]
    /\ UNCHANGED judges

\* A request decides an open unit.
Decide(u, j) ==
    /\ phase[u] = "open"
    /\ judges[u] = {}
    /\ phase' = [phase EXCEPT ![u] = "decided"]
    /\ judges' = [judges EXCEPT ![u] = {j}]

\* Time decides open units, any number at once; it is nobody's decision.
TimeOut(S) ==
    /\ \A u \in S : phase[u] = "open"
    /\ phase' = [u \in Units |-> IF u \in S THEN "decided" ELSE phase[u]]
    /\ UNCHANGED judges

Delete(u) ==
    /\ phase[u] \in {"open", "decided"}
    /\ phase' = [phase EXCEPT ![u] = "gone"]
    /\ UNCHANGED judges

LifecycleNext ==
    \/ \E u \in Units : Propose(u) \/ Delete(u) \/ \E j \in Judges : Decide(u, j)
    \/ \E S \in SUBSET Units : TimeOut(S)

LifecycleSpec == LifecycleInit /\ [][LifecycleNext]_lvars
=============================================================================
