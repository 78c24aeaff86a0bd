----------------------------- MODULE NodeProofs -----------------------------
(***************************************************************************)
(* Theorems about five parts of an L2 and its clients that share no state: *)
(* PairSecrets, for any members, Ttl, rotations and restarts; Reflections, *)
(* for any requests, contexts and windows; ClientDrain, for any processes, *)
(* units, timeouts and deaths; ActivityLog, for any events and page sizes; *)
(* GroupConsent, for any grants, scopes, pending rows, keys and requests.  *)
(***************************************************************************)
EXTENDS PairSecrets, Reflections, ClientDrain, ActivityLog, GroupConsent, FiniteSetTheorems,
        WellFoundedInduction, TLAPS

-----------------------------------------------------------------------------
(* PairSecrets. A root is fetched while it is current, so an entry of the  *)
(* root cache is no younger than the root's replacement; a secret is       *)
(* derived from one less than a Ttl old, and used for less than a Ttl.     *)

Entry == [root : Nat, at : Nat]

SecretsTypeOK ==
    /\ clock \in Nat /\ parameter \in 0 .. MaxRoots
    /\ replacedAt \in [Roots -> Nat]
    /\ rootCache \in [Members -> Entry]
    /\ pairCache \in [Members -> [Members -> Entry]]
    /\ call \in [bearer : Nat, expected : Nat, at : Nat]

\* A root that was replaced took part in something at the moment t only within
\* slack of its replacement.
InTime(root, t, slack) == root > 0 /\ root < parameter => t <= replacedAt[root] + slack

RootFetched(e) == e.root <= parameter /\ e.at <= clock /\ InTime(e.root, e.at, 0)
Derived(e)     == e.root <= parameter /\ e.at <= clock /\ InTime(e.root, e.at, Ttl - 1)
Used(r)        == r <= parameter /\ InTime(r, call.at, 2 * Ttl - 1)

SecretsInv ==
    /\ SecretsTypeOK
    /\ \A m \in Members : RootFetched(rootCache[m])
    /\ \A m, n \in Members : Derived(pairCache[m][n])
    /\ call.at <= clock /\ Used(call.bearer) /\ Used(call.expected)

\* A new root: the one it replaces is replaced now, so all it ever took part in
\* was in time; those before stay as they were.
LEMMA PutStep ==
    ASSUME SecretsInv, Put, clock' = clock, NEW root \in Nat, NEW t \in Nat, NEW slack \in Nat,
           root <= parameter, t <= clock, InTime(root, t, slack)
    PROVE  root <= parameter' /\ InTime(root, t, slack)'
  <1>1. /\ parameter \in Nat /\ MaxRoots \in Nat /\ parameter' = parameter + 1
        /\ replacedAt \in [Roots -> Nat] /\ clock \in Nat /\ parameter < MaxRoots
    BY SecretsAssumption DEF SecretsInv, SecretsTypeOK, Put
  <1>2. CASE root = parameter /\ root > 0
    <2>1. root \in Roots /\ replacedAt'[root] = clock
      BY <1>1, <1>2 DEF Put, Roots
    <2> QED BY <1>1, <2>1 DEF InTime
  <1>3. CASE root < parameter /\ root > 0
    <2>1. root \in Roots /\ replacedAt'[root] = replacedAt[root]
      BY <1>1, <1>3 DEF Put, Roots
    <2> QED BY <1>1, <1>3, <2>1 DEF InTime
  <1>4. CASE root = 0
    BY <1>1, <1>4 DEF InTime
  <1> QED BY <1>1, <1>2, <1>3, <1>4

LEMMA PutTyped ==
    ASSUME SecretsInv, Put
    PROVE  parameter' \in 0 .. MaxRoots /\ replacedAt' \in [Roots -> Nat]
  <1>1. /\ parameter \in 0 .. MaxRoots /\ parameter < MaxRoots /\ parameter' = parameter + 1
        /\ replacedAt \in [Roots -> Nat] /\ clock \in Nat /\ MaxRoots \in Nat
    BY SecretsAssumption DEF SecretsInv, SecretsTypeOK, Put
  <1>2. replacedAt' = replacedAt \/ replacedAt' = [replacedAt EXCEPT ![parameter] = clock]
    BY DEF Put
  <1> QED BY <1>1, <1>2

LEMMA CallStep ==
    ASSUME SecretsInv, NEW m \in Members, NEW n \in Members
    PROVE  /\ RootEntry(m, n) \in Entry /\ RootFetched(RootEntry(m, n))
           /\ PairEntry(m, n) \in Entry /\ Derived(PairEntry(m, n))
           /\ PairEntry(m, n).root <= parameter
           /\ InTime(PairEntry(m, n).root, clock, 2 * Ttl - 1)
  <1>1. /\ clock \in Nat /\ parameter \in Nat /\ Ttl \in Nat /\ Ttl > 0
        /\ replacedAt \in [Roots -> Nat] /\ \A r \in Nat : r > 0 /\ r < parameter => replacedAt[r] \in Nat
    BY SecretsAssumption DEF SecretsInv, SecretsTypeOK, Roots
  <1> DEFINE e == RootEntry(m, n)
             s == PairEntry(m, n)
             now == [root |-> parameter, at |-> clock]
  <1>2. now \in Entry /\ now.root = parameter /\ now.at = clock /\ RootFetched(now)
    BY <1>1 DEF Entry, RootFetched, InTime
  <1>3. rootCache[m] \in Entry /\ pairCache[m][n] \in Entry
        /\ RootFetched(rootCache[m]) /\ Derived(pairCache[m][n])
    BY DEF SecretsInv, SecretsTypeOK
  <1>4. e = rootCache[m] \/ e = now
    BY DEF RootEntry
  <1> HIDE DEF now
  <1>5. e \in Entry /\ RootFetched(e)
    BY <1>2, <1>3, <1>4
  <1>6. CASE Fresh(pairCache[m][n])
    <2>1. s = pairCache[m][n] /\ clock - s.at < Ttl
      BY <1>6 DEF PairEntry, Fresh
    <2>2. s \in Entry /\ Derived(s)
      BY <1>3, <2>1
    <2>3. s.at \in Nat /\ s.root \in Nat
      BY <2>2 DEF Entry
    <2> HIDE DEF s
    <2>4. InTime(s.root, clock, 2 * Ttl - 1) /\ s.root <= parameter
      BY <1>1, <2>1, <2>2, <2>3 DEF Derived, InTime
    <2> QED BY <1>5, <2>2, <2>4 DEF s
  <1>7. CASE ~Fresh(pairCache[m][n])
    <2>1. s = [root |-> e.root, at |-> clock]
      BY <1>7 DEF PairEntry
    <2>2. InTime(e.root, clock, Ttl - 1)
      <3>1. CASE e = now
        BY <1>1, <1>2, <3>1 DEF InTime
      <3>2. CASE e # now
        <4>1. e = rootCache[m] /\ clock - e.at < Ttl
          BY <1>7, <3>2 DEF RootEntry, Fresh, now
        <4>2. e.at \in Nat /\ e.root \in Nat
          BY <1>5 DEF Entry
        <4> HIDE DEF e
        <4> QED BY <1>1, <1>5, <4>1, <4>2 DEF RootFetched, InTime
      <3> QED BY <3>1, <3>2
    <2>3. e.root \in Nat /\ e.root <= parameter
      BY <1>5 DEF Entry, RootFetched
    <2> HIDE DEF e
    <2>4. s \in Entry /\ s.root = e.root /\ s.at = clock
      BY <1>1, <2>1, <2>3 DEF Entry
    <2> HIDE DEF s
    <2>5. Derived(s) /\ InTime(s.root, clock, 2 * Ttl - 1)
      BY <1>1, <2>2, <2>3, <2>4 DEF Derived, InTime
    <2> QED BY <1>5, <2>3, <2>4, <2>5 DEF e, s
  <1> QED BY <1>6, <1>7

LEMMA SecretsInitially == SecretsInit => SecretsInv
  <1> SUFFICES ASSUME SecretsInit PROVE SecretsInv
    OBVIOUS
  <1>1. Never \in Entry /\ Never.root = 0 /\ Never.at = 0
    BY DEF Never, Entry
  <1>2. SecretsTypeOK
    BY <1>1, SecretsAssumption DEF SecretsInit, SecretsTypeOK, NoCall
  <1>3. RootFetched(Never) /\ Derived(Never)
    BY <1>1 DEF SecretsInit, RootFetched, Derived, InTime
  <1>4. call.at <= clock /\ Used(call.bearer) /\ Used(call.expected)
    BY DEF SecretsInit, NoCall, Used, InTime
  <1> QED BY <1>2, <1>3, <1>4 DEF SecretsInit, SecretsInv

\* An entry that a restart leaves: none.
LEMMA NeverHolds ==
    ASSUME SecretsInv
    PROVE  Never \in Entry /\ RootFetched(Never) /\ Derived(Never)
  BY SecretsAssumption DEF SecretsInv, SecretsTypeOK, Never, Entry, RootFetched, Derived, InTime

LEMMA SecretsNextStep ==
    ASSUME SecretsInv, [SecretsNext]_secretVars
    PROVE  SecretsInv'
  <1> USE SecretsAssumption
  <1>0. /\ SecretsTypeOK /\ clock \in Nat /\ parameter \in Nat /\ Ttl \in Nat /\ Ttl > 0
        /\ rootCache \in [Members -> Entry] /\ pairCache \in [Members -> [Members -> Entry]]
        /\ call.at \in Nat /\ call.bearer \in Nat /\ call.expected \in Nat
        /\ \A m \in Members : rootCache[m] \in Entry /\ RootFetched(rootCache[m])
        /\ \A m, n \in Members : pairCache[m][n] \in Entry /\ Derived(pairCache[m][n])
        /\ Never \in Entry /\ RootFetched(Never) /\ Derived(Never)
    BY NeverHolds DEF SecretsInv, SecretsTypeOK
  <1>1. ASSUME Put, clock' = clock, UNCHANGED <<pairCache, call>>,
               \/ rootCache' = rootCache
               \/ \E m \in Members : rootCache' = [rootCache EXCEPT ![m] = Never]
        PROVE  SecretsInv'
    <2>1. parameter' \in 0 .. MaxRoots /\ replacedAt' \in [Roots -> Nat]
      BY <1>1, PutTyped
    <2>2. ASSUME NEW e \in Entry, RootFetched(e) PROVE RootFetched(e)'
      <3>1. e.root \in Nat /\ e.at \in Nat
        BY DEF Entry
      <3> QED BY <1>1, <2>2, <3>1, PutStep DEF RootFetched
    <2>3. ASSUME NEW e \in Entry, Derived(e) PROVE Derived(e)'
      <3>1. e.root \in Nat /\ e.at \in Nat /\ Ttl - 1 \in Nat
        BY <1>0 DEF Entry
      <3> QED BY <1>1, <2>3, <3>1, PutStep DEF Derived
    <2>4. ASSUME NEW r \in Nat, Used(r) PROVE Used(r)'
      <3>1. 2 * Ttl - 1 \in Nat
        BY <1>0
      <3>2. call.at <= clock
        BY DEF SecretsInv
      <3>3. r <= parameter' /\ InTime(r, call.at, 2 * Ttl - 1)'
        <4>1. PICK t \in Nat : t = call.at
          BY <1>0
        <4>2. r <= parameter' /\ InTime(r, t, 2 * Ttl - 1)'
          BY <1>0, <1>1, <2>4, <3>1, <3>2, <4>1, PutStep DEF Used
        <4> QED BY <1>1, <4>1, <4>2 DEF InTime
      <3> QED BY <3>3 DEF Used
    <2>5. rootCache' \in [Members -> Entry] /\ \A m \in Members : RootFetched(rootCache[m])'
      <3>1. rootCache' \in [Members -> Entry]
        BY <1>0, <1>1
      <3>2. ASSUME NEW m \in Members PROVE RootFetched(rootCache[m])'
        <4>1. PICK e \in Entry : e = rootCache'[m] /\ RootFetched(e)
          BY <1>0, <1>1
        <4>2. RootFetched(e)'
          BY <2>2, <4>1
        <4> QED BY <4>1, <4>2
      <3> QED BY <3>1, <3>2
    <2>6. \A m, n \in Members : Derived(pairCache[m][n])'
      <3> SUFFICES ASSUME NEW m \in Members, NEW n \in Members PROVE Derived(pairCache[m][n])'
        OBVIOUS
      <3>1. PICK e \in Entry : e = pairCache'[m][n] /\ Derived(e)
        BY <1>0, <1>1
      <3>2. Derived(e)'
        BY <2>3, <3>1
      <3> QED BY <3>1, <3>2
    <2>7. Used(call.bearer)' /\ Used(call.expected)'
      <3>1. ASSUME NEW r \in Nat, r = call.bearer PROVE Used(call.bearer)'
        BY <1>1, <2>4, <3>1 DEF SecretsInv
      <3>2. ASSUME NEW r \in Nat, r = call.expected PROVE Used(call.expected)'
        BY <1>1, <2>4, <3>2 DEF SecretsInv
      <3> QED BY <1>0, <3>1, <3>2
    <2> QED BY <1>0, <1>1, <2>1, <2>5, <2>6, <2>7 DEF SecretsInv, SecretsTypeOK
  <1>2. ASSUME NEW m \in Members, MintRoot(m) PROVE SecretsInv'
    BY <1>1, <1>2 DEF MintRoot
  <1>3. CASE RotateRoot
    BY <1>1, <1>3 DEF RotateRoot
  <1>4. ASSUME NEW m \in Members, ProcessRestarts(m) PROVE SecretsInv'
    <2>1. /\ rootCache' = [rootCache EXCEPT ![m] = Never] /\ rootCache' \in [Members -> Entry]
          /\ pairCache' = [pairCache EXCEPT ![m] = [n \in Members |-> Never]]
          /\ pairCache' \in [Members -> [Members -> Entry]]
          /\ UNCHANGED <<clock, parameter, replacedAt, call>>
      BY <1>0, <1>4 DEF ProcessRestarts
    <2>2. \A x \in Members : rootCache'[x] \in {rootCache[x], Never}
      BY <1>0, <2>1
    <2>3. ASSUME NEW x \in Members, NEW n \in Members
          PROVE  pairCache'[x][n] \in {pairCache[x][n], Never}
      <3>1. CASE x = m
        <4>1. pairCache'[x] = [y \in Members |-> Never]
          BY <1>0, <2>1, <3>1 DEF SecretsInv, SecretsTypeOK
        <4> QED BY <4>1
      <3>2. CASE x # m
        <4>1. pairCache'[x] = pairCache[x]
          BY <1>0, <2>1, <3>2 DEF SecretsInv, SecretsTypeOK
        <4> QED BY <4>1
      <3> QED BY <3>1, <3>2
    <2> QED BY <1>0, <2>1, <2>2, <2>3
            DEF SecretsInv, SecretsTypeOK, RootFetched, Derived, Used, InTime
  <1>5. ASSUME NEW m \in Members, NEW n \in Members \ {m}, Call(m, n) PROVE SecretsInv'
    <2> DEFINE rm == RootEntry(m, n)
               rn == RootEntry(n, m)
               pm == PairEntry(m, n)
               pn == PairEntry(n, m)
    <2>1. /\ rm \in Entry /\ RootFetched(rm) /\ pm \in Entry /\ Derived(pm)
          /\ pm.root <= parameter /\ InTime(pm.root, clock, 2 * Ttl - 1)
          /\ rn \in Entry /\ RootFetched(rn) /\ pn \in Entry /\ Derived(pn)
          /\ pn.root <= parameter /\ InTime(pn.root, clock, 2 * Ttl - 1)
      BY CallStep
    <2>2. /\ call' = [bearer |-> pm.root, expected |-> pn.root, at |-> clock]
          /\ rootCache' = [rootCache EXCEPT ![m] = rm, ![n] = rn]
          /\ pairCache' = [pairCache EXCEPT ![m][n] = pm, ![n][m] = pn]
          /\ UNCHANGED <<clock, parameter, replacedAt>>
      BY <1>5 DEF Call, Bearer
    <2> HIDE DEF rm, rn, pm, pn
    <2>3. pm.root \in Nat /\ pn.root \in Nat
      BY <2>1 DEF Entry
    <2>4. /\ rootCache' \in [Members -> Entry]
          /\ \A x \in Members : rootCache'[x] \in {rootCache[x], rm, rn}
      BY <1>0, <2>1, <2>2
    <2>5. /\ pairCache' \in [Members -> [Members -> Entry]]
          /\ \A x, y \in Members : pairCache'[x][y] \in {pairCache[x][y], pm, pn}
      BY <1>0, <2>1, <2>2
    <2>6. /\ call' \in [bearer : Nat, expected : Nat, at : Nat]
          /\ call'.at = clock /\ call'.bearer = pm.root /\ call'.expected = pn.root
      BY <1>0, <2>2, <2>3
    <2>7. SecretsTypeOK'
      BY <1>0, <2>2, <2>4, <2>5, <2>6 DEF SecretsTypeOK
    <2>8. /\ \A x \in Members : RootFetched(rootCache[x])'
          /\ \A x, y \in Members : Derived(pairCache[x][y])'
      <3>1. \A x \in Members : RootFetched(rootCache'[x])
        BY <1>0, <2>1, <2>4
      <3>2. \A x, y \in Members : Derived(pairCache'[x][y])
        BY <1>0, <2>1, <2>5
      <3> QED BY <2>2, <3>1, <3>2 DEF RootFetched, Derived, InTime
    <2>9. call'.at <= clock' /\ Used(call.bearer)' /\ Used(call.expected)'
      BY <1>0, <2>1, <2>2, <2>6 DEF Used, InTime
    <2> QED BY <2>7, <2>8, <2>9 DEF SecretsInv
  <1>6. CASE SecretsTick
    <2>1. clock' = clock + 1 /\ UNCHANGED <<parameter, replacedAt, rootCache, pairCache, call>>
      BY <1>6 DEF SecretsTick
    <2>2. \A e \in Entry : (RootFetched(e) => RootFetched(e)') /\ (Derived(e) => Derived(e)')
      BY <1>0, <2>1 DEF Entry, RootFetched, Derived, InTime
    <2>3. /\ \A x \in Members : RootFetched(rootCache[x])'
          /\ \A x, y \in Members : Derived(pairCache[x][y])'
      BY <1>0, <2>1 DEF Entry, RootFetched, Derived, InTime
    <2> QED BY <1>0, <2>1, <2>3 DEF SecretsInv, SecretsTypeOK, Used, InTime
  <1>7. CASE UNCHANGED secretVars
    BY <1>7 DEF secretVars, SecretsInv, SecretsTypeOK, RootFetched, Derived, Used, InTime
  <1> QED BY <1>2, <1>3, <1>4, <1>5, <1>6, <1>7 DEF SecretsNext

\* Both caches, and the call just made, are in time after every rotation,
\* whichever L2s restart and however their calls interleave with it.
THEOREM SecretsCorrect == SecretsSpec => []SecretsInv
  BY SecretsInitially, SecretsNextStep, PTL DEF SecretsSpec

\* A root that was replaced 2 * Ttl ago takes no part in a call between L2s,
\* though the pair secret may come from a cached root (aigrp/runtime.py).
THEOREM RotationsLand == SecretsSpec => []RotationLands
  <1>1. SecretsInv => RotationLands
    <2> SUFFICES ASSUME SecretsInv, NEW r \in {call.bearer, call.expected} \ {0}, r < parameter
                 PROVE  call.at < replacedAt[r] + 2 * Ttl
      BY DEF RotationLands
    <2>1. /\ r \in Nat /\ r > 0 /\ Ttl \in Nat /\ call.at \in Nat /\ InTime(r, call.at, 2 * Ttl - 1)
          /\ r \in Roots /\ replacedAt[r] \in Nat
      BY SecretsAssumption DEF SecretsInv, SecretsTypeOK, Used, Roots
    <2> QED BY <2>1 DEF InTime
  <1> QED BY <1>1, SecretsCorrect, PTL

-----------------------------------------------------------------------------
(* Reflections. A request that passed the rate check is more than a window *)
(* younger than every row that was queued when it came, for no row is ever *)
(* removed; and every row is that of its request.                          *)

SubmitSteps == {"idle", "dedup", "rate", "insert", "deduped", "limited", "queued", "failed"}
SubmitRecord == [pc : SubmitSteps, context : Contexts \cup {"none"}, now : Nat,
                 to : Submits \cup {"none"}, before : SUBSET Submits]

ReflectTypeOK ==
    /\ hour \in Nat
    /\ queue \subseteq [request : Submits, context : Contexts, at : Nat]
    /\ submit \in [Submits -> SubmitRecord]

\* The row of a request, and the rows it may have been answered with.
RowOf(x) == submit[x.request].pc = "queued" /\ submit[x.request].now = x.at
Named(r) == submit[r].to # "none" =>
               \E x \in queue : x.request = submit[r].to /\ x.context = submit[r].context

Passed(r) ==
    submit[r].pc \in {"insert", "queued"} =>
        \A x \in queue : x.request \in submit[r].before => x.at + RateWindow < submit[r].now

ReflectInv ==
    /\ ReflectTypeOK
    /\ \A x \in queue : RowOf(x)
    /\ \A r \in Submits :
          /\ submit[r].pc # "idle" => submit[r].context \in Contexts
          /\ submit[r].before \subseteq {x.request : x \in queue}
          /\ Passed(r) /\ Named(r)

LEMMA SubmitFields ==
    ASSUME NEW w \in SubmitRecord, NEW pc \in SubmitSteps, NEW to \in Submits \cup {"none"}
    PROVE  /\ [w EXCEPT !.pc = pc] =
                 [pc |-> pc, context |-> w.context, now |-> w.now, to |-> w.to, before |-> w.before]
           /\ [w EXCEPT !.pc = pc, !.to = to] =
                 [pc |-> pc, context |-> w.context, now |-> w.now, to |-> to, before |-> w.before]
  <1>1. [w EXCEPT !.pc = pc] =
           [pc |-> pc, context |-> w.context, now |-> w.now, to |-> w.to, before |-> w.before]
    BY DEF SubmitRecord
  <1>2. [w EXCEPT !.pc = pc, !.to = to] = [[w EXCEPT !.pc = pc] EXCEPT !.to = to]
    BY DEF SubmitRecord
  <1>3. [[pc |-> pc, context |-> w.context, now |-> w.now, to |-> w.to, before |-> w.before]
            EXCEPT !.to = to] =
           [pc |-> pc, context |-> w.context, now |-> w.now, to |-> to, before |-> w.before]
    OBVIOUS
  <1>4. [w EXCEPT !.pc = pc, !.to = to] =
           [pc |-> pc, context |-> w.context, now |-> w.now, to |-> to, before |-> w.before]
    BY <1>1, <1>2, <1>3, Zenon
  <1> QED BY <1>1, <1>4, Zenon

LEMMA Begun ==
    ASSUME NEW c, NEW now, NEW past
    PROVE  [NoSubmit EXCEPT !.pc = "dedup", !.context = c, !.now = now, !.before = past] =
              [pc |-> "dedup", context |-> c, now |-> now, to |-> "none", before |-> past]
  <1> DEFINE w == [pc |-> "dedup", context |-> "none", now |-> 0, to |-> "none", before |-> {}]
             x == [pc |-> "dedup", context |-> c, now |-> 0, to |-> "none", before |-> {}]
             y == [pc |-> "dedup", context |-> c, now |-> now, to |-> "none", before |-> {}]
             z == [pc |-> "dedup", context |-> c, now |-> now, to |-> "none", before |-> past]
  <1>1. [NoSubmit EXCEPT !.pc = "dedup"] = w
    BY DEF NoSubmit
  <1>2. [w EXCEPT !.context = c] = x
    OBVIOUS
  <1>3. [x EXCEPT !.now = now] = y
    OBVIOUS
  <1>4. [y EXCEPT !.before = past] = z
    OBVIOUS
  <1>5. [NoSubmit EXCEPT !.pc = "dedup", !.context = c, !.now = now, !.before = past] =
           [[[[NoSubmit EXCEPT !.pc = "dedup"] EXCEPT !.context = c] EXCEPT !.now = now] EXCEPT !.before = past]
    OBVIOUS
  <1> HIDE DEF w, x, y, z
  <1>6. [NoSubmit EXCEPT !.pc = "dedup", !.context = c, !.now = now, !.before = past] = z
    BY <1>1, <1>2, <1>3, <1>4, <1>5, Zenon
  <1> QED BY <1>6 DEF z

\* A request that has come moves on with its context, its moment and its past.
LEMMA SubmitMoves ==
    ASSUME ReflectTypeOK, NEW r \in Submits, NEW pc \in SubmitSteps, NEW to \in Submits \cup {"none"},
           \/ Leave(r, pc, to)
           \/ submit' = [submit EXCEPT ![r].pc = pc] /\ to = submit[r].to
    PROVE  /\ submit' \in [Submits -> SubmitRecord]
           /\ \A q \in Submits \ {r} : submit'[q] = submit[q]
           /\ submit'[r].pc = pc /\ submit'[r].to = to /\ submit'[r].context = submit[r].context
           /\ submit'[r].now = submit[r].now /\ submit'[r].before = submit[r].before
  <1>1. submit \in [Submits -> SubmitRecord]
    BY DEF ReflectTypeOK
  <1>2. PICK w \in SubmitRecord : w = submit[r]
    BY <1>1
  <1> DEFINE n == [pc |-> pc, context |-> w.context, now |-> w.now, to |-> to, before |-> w.before]
  <1>3. submit' = [submit EXCEPT ![r] = n]
    <2>1. CASE Leave(r, pc, to)
      <3>1. submit' = [submit EXCEPT ![r] = [w EXCEPT !.pc = pc, !.to = to]]
        BY <1>1, <1>2, <2>1 DEF Leave
      <3> QED BY <3>1, SubmitFields
    <2>2. CASE submit' = [submit EXCEPT ![r].pc = pc] /\ to = submit[r].to
      <3>1. submit' = [submit EXCEPT ![r] = [w EXCEPT !.pc = pc]]
        BY <1>1, <1>2, <2>2
      <3> QED BY <1>2, <2>2, <3>1, SubmitFields
    <2> QED BY <2>1, <2>2
  <1>4. n \in SubmitRecord
    BY DEF SubmitRecord
  <1>5. /\ n.pc = pc /\ n.to = to /\ n.context = w.context /\ n.now = w.now /\ n.before = w.before
    OBVIOUS
  <1> HIDE DEF n
  <1> QED BY <1>1, <1>2, <1>3, <1>4, <1>5

\* A request that is not queued leaves the queue as it is: the rows stay those of
\* other requests, and what others know of the queue stands.
LEMMA QueueStays ==
    ASSUME ReflectInv, queue' = queue, NEW r \in Submits, submit[r].pc # "queued",
           ReflectTypeOK', \A q \in Submits \ {r} : submit'[q] = submit[q],
           submit'[r].pc # "idle" => submit'[r].context \in Contexts,
           submit'[r].before \subseteq {x.request : x \in queue},
           Passed(r)', Named(r)'
    PROVE  ReflectInv'
  <1>1. \A x \in queue : x.request \in Submits /\ x.request # r /\ RowOf(x)
    BY DEF ReflectInv, ReflectTypeOK, RowOf
  <1>2. \A x \in queue' : RowOf(x)'
    BY <1>1 DEF RowOf
  <1>3. ASSUME NEW q \in Submits
        PROVE  /\ submit'[q].pc # "idle" => submit'[q].context \in Contexts
               /\ submit'[q].before \subseteq {x.request : x \in queue'}
               /\ Passed(q)' /\ Named(q)'
    <2>1. CASE q = r
      BY <2>1
    <2>2. CASE q # r
      BY <2>2 DEF ReflectInv, Passed, Named
    <2> QED BY <2>1, <2>2
  <1> QED BY <1>2, <1>3 DEF ReflectInv

LEMMA ReflectInitially == ReflectInit => ReflectInv
  <1> SUFFICES ASSUME ReflectInit PROVE ReflectInv
    OBVIOUS
  <1>1. /\ NoSubmit \in SubmitRecord /\ NoSubmit.pc = "idle" /\ NoSubmit.to = "none"
        /\ NoSubmit.before = {}
    BY DEF NoSubmit, SubmitRecord, SubmitSteps
  <1>2. /\ queue = {} /\ hour = 0 /\ submit \in [Submits -> SubmitRecord]
        /\ \A r \in Submits : submit[r] = NoSubmit
    BY <1>1 DEF ReflectInit
  <1> HIDE DEF NoSubmit
  <1> QED BY <1>1, <1>2 DEF ReflectInv, ReflectTypeOK, Passed, Named

LEMMA ReflectNextStep ==
    ASSUME ReflectInv, [ReflectNext]_reflectVars
    PROVE  ReflectInv'
  <1> USE ReflectionsAssumption
  <1>0. /\ ReflectTypeOK /\ hour \in Nat /\ submit \in [Submits -> SubmitRecord]
        /\ queue \subseteq [request : Submits, context : Contexts, at : Nat]
        /\ RateWindow \in Nat
        /\ \A r \in Submits : submit[r] \in SubmitRecord /\ submit[r].now \in Nat
    BY DEF ReflectInv, ReflectTypeOK, SubmitRecord
  <1>1. ASSUME NEW r \in Submits, NEW c \in Contexts, SubmitBegin(r, c) PROVE ReflectInv'
    <2> DEFINE here == {x.request : x \in queue}
               n == [pc |-> "dedup", context |-> c, now |-> hour, to |-> "none", before |-> here]
    <2>1. here \subseteq Submits
      BY <1>0
    <2>2. n \in SubmitRecord /\ n.pc = "dedup" /\ n.context = c /\ n.to = "none" /\ n.before = here
      BY <1>0, <2>1 DEF SubmitRecord, SubmitSteps
    <2>3. submit' = [submit EXCEPT ![r] = n] /\ UNCHANGED <<hour, queue>> /\ submit[r].pc = "idle"
      <3>1. [NoSubmit EXCEPT !.pc = "dedup", !.context = c, !.now = hour, !.before = here] = n
        BY Begun
      <3> QED BY <1>1, <3>1 DEF SubmitBegin
    <2> HIDE DEF n, here
    <2>4. submit'[r] = n /\ \A q \in Submits \ {r} : submit'[q] = submit[q]
      BY <1>0, <2>3
    <2>5. ReflectTypeOK'
      BY <1>0, <2>2, <2>3 DEF ReflectTypeOK
    <2>6. Passed(r)' /\ Named(r)'
      BY <2>2, <2>4 DEF Passed, Named
    <2>7. submit'[r].before \subseteq {x.request : x \in queue}
      BY <2>2, <2>4 DEF here
    <2> QED BY <2>2, <2>3, <2>4, <2>5, <2>6, <2>7, QueueStays
  <1>2. ASSUME NEW r \in Submits, submit[r].pc \in {"dedup", "rate", "insert"},
               NEW pc \in SubmitSteps, NEW to \in Submits \cup {"none"}, pc # "queued", pc # "idle",
               \/ Leave(r, pc, to)
               \/ submit' = [submit EXCEPT ![r].pc = pc] /\ to = submit[r].to,
               UNCHANGED <<hour, queue>>,
               pc = "insert" => Counted(r) = {},
               to # "none" => \E x \in queue : x.request = to /\ x.context = submit[r].context
        PROVE  ReflectInv'
    <2>1. /\ submit' \in [Submits -> SubmitRecord]
          /\ \A q \in Submits \ {r} : submit'[q] = submit[q]
          /\ submit'[r].pc = pc /\ submit'[r].to = to /\ submit'[r].context = submit[r].context
          /\ submit'[r].now = submit[r].now /\ submit'[r].before = submit[r].before
      BY <1>0, <1>2, SubmitMoves
    <2>2. Named(r)'
      BY <1>2, <2>1 DEF Named
    <2>3. Passed(r)'
      <3> SUFFICES ASSUME pc = "insert", NEW x \in queue PROVE x.at + RateWindow < submit[r].now
        BY <1>2, <2>1 DEF Passed
      <3>1. ~Within(x, r, RateWindow) /\ x.at \in Nat
        BY <1>0, <1>2 DEF Counted
      <3> QED BY <1>0, <3>1 DEF Within
    <2>4. ReflectTypeOK'
      BY <1>0, <1>2, <2>1 DEF ReflectTypeOK
    <2>5. /\ submit'[r].pc # "idle" => submit'[r].context \in Contexts
          /\ submit'[r].before \subseteq {x.request : x \in queue}
      BY <1>2, <2>1 DEF ReflectInv
    <2> QED BY <1>2, <2>1, <2>2, <2>3, <2>4, <2>5, QueueStays
  <1>3. ASSUME NEW r \in Submits, Dedup(r) PROVE ReflectInv'
    <2> DEFINE same == {x \in queue : x.context = submit[r].context /\ Within(x, r, DedupWindow)}
    <2>1. CASE same = {}
      <3>1. submit[r].pc = "dedup" /\ submit' = [submit EXCEPT ![r].pc = "rate"] /\ UNCHANGED <<hour, queue>>
        BY <1>3, <2>1 DEF Dedup
      <3>2. PICK to \in Submits \cup {"none"} : to = submit[r].to
        BY <1>0 DEF SubmitRecord
      <3>3. to # "none" => \E x \in queue : x.request = to /\ x.context = submit[r].context
        BY <3>2 DEF ReflectInv, Named
      <3>4. "rate" \in SubmitSteps
        BY DEF SubmitSteps
      <3> QED BY <1>2, <3>1, <3>2, <3>3, <3>4
    <2>2. CASE same # {}
      <3>1. PICK x \in same : Leave(r, "deduped", x.request)
        BY <1>3, <2>2 DEF Dedup
      <3>2. submit[r].pc = "dedup" /\ UNCHANGED <<hour, queue>> /\ x.request \in Submits /\ x \in queue
            /\ x.context = submit[r].context
        BY <1>0, <1>3 DEF Dedup
      <3>3. "deduped" \in SubmitSteps
        BY DEF SubmitSteps
      <3> HIDE DEF same
      <3> QED BY <1>2, <3>1, <3>2, <3>3
    <2> QED BY <2>1, <2>2
  <1>4. ASSUME NEW r \in Submits, RateCheck(r) PROVE ReflectInv'
    <2>1. submit[r].pc = "rate" /\ UNCHANGED <<hour, queue>>
      BY <1>4 DEF RateCheck
    <2>2. CASE Counted(r) # {}
      <3>1. Leave(r, "limited", "none") /\ "limited" \in SubmitSteps
        BY <1>4, <2>2 DEF RateCheck, SubmitSteps
      <3> QED BY <1>2, <2>1, <3>1
    <2>3. CASE Counted(r) = {}
      <3>1. submit' = [submit EXCEPT ![r].pc = "insert"] /\ "insert" \in SubmitSteps
        BY <1>4, <2>3 DEF RateCheck, SubmitSteps
      <3>2. PICK to \in Submits \cup {"none"} : to = submit[r].to
        BY <1>0 DEF SubmitRecord
      <3>3. to # "none" => \E x \in queue : x.request = to /\ x.context = submit[r].context
        BY <3>2 DEF ReflectInv, Named
      <3> QED BY <1>2, <2>1, <2>3, <3>1, <3>2, <3>3
    <2> QED BY <2>2, <2>3
  <1>5. ASSUME NEW r \in Submits, SubmitFails(r) PROVE ReflectInv'
    <2>1. Leave(r, "failed", "none") /\ "failed" \in SubmitSteps
      BY <1>5 DEF SubmitFails, SubmitSteps
    <2> QED BY <1>2, <1>5, <2>1 DEF SubmitFails
  <1>6. ASSUME NEW r \in Submits, Enqueue(r) PROVE ReflectInv'
    <2> DEFINE new == [request |-> r, context |-> submit[r].context, at |-> submit[r].now]
    <2>1. /\ submit[r].pc = "insert" /\ queue' = queue \cup {new} /\ hour' = hour
          /\ Leave(r, "queued", r) /\ "queued" \in SubmitSteps /\ submit[r].context \in Contexts
      BY <1>6 DEF Enqueue, SubmitSteps, ReflectInv
    <2>2. /\ new \in [request : Submits, context : Contexts, at : Nat]
          /\ new.request = r /\ new.context = submit[r].context /\ new.at = submit[r].now
      BY <1>0, <2>1
    <2> HIDE DEF new
    <2>3. /\ submit' \in [Submits -> SubmitRecord]
          /\ \A q \in Submits \ {r} : submit'[q] = submit[q]
          /\ submit'[r].pc = "queued" /\ submit'[r].to = r /\ submit'[r].context = submit[r].context
          /\ submit'[r].now = submit[r].now /\ submit'[r].before = submit[r].before
      BY <1>0, <2>1, SubmitMoves
    <2>4. ReflectTypeOK'
      BY <1>0, <2>1, <2>2, <2>3 DEF ReflectTypeOK
    <2>5. \A x \in queue : x.request # r /\ x.request \in Submits /\ RowOf(x)
      BY <1>0, <2>1 DEF ReflectInv, RowOf
    <2>6. \A x \in queue' : RowOf(x)'
      BY <2>1, <2>2, <2>3, <2>5 DEF RowOf
    <2>7. ASSUME NEW q \in Submits
          PROVE  /\ submit'[q].pc # "idle" => submit'[q].context \in Contexts
                 /\ submit'[q].before \subseteq {x.request : x \in queue'}
                 /\ Passed(q)' /\ Named(q)'
      <3>1. /\ submit'[q].before = submit[q].before /\ submit'[q].now = submit[q].now
            /\ submit'[q].context = submit[q].context
            /\ submit'[q].pc # "idle" => submit[q].pc # "idle"
            /\ submit'[q].pc \in {"insert", "queued"} => submit[q].pc \in {"insert", "queued"}
        BY <2>1, <2>3
      <3>2. submit[q].before \subseteq {x.request : x \in queue} /\ Passed(q) /\ Named(q)
            /\ (submit[q].pc # "idle" => submit[q].context \in Contexts)
        BY DEF ReflectInv
      <3>3. r \notin submit[q].before
        BY <2>5, <3>2
      <3>4. Passed(q)'
        BY <2>1, <2>2, <3>1, <3>2, <3>3 DEF Passed
      <3>5. Named(q)'
        <4>1. CASE q = r
          BY <2>1, <2>2, <2>3, <4>1 DEF Named
        <4>2. CASE q # r
          BY <2>1, <2>3, <3>2, <4>2 DEF Named
        <4> QED BY <4>1, <4>2
      <3> QED BY <2>1, <3>1, <3>2, <3>4, <3>5
    <2> QED BY <2>4, <2>6, <2>7 DEF ReflectInv
  <1>7. CASE HourPasses
    BY <1>0, <1>7 DEF HourPasses, ReflectInv, ReflectTypeOK, RowOf, Passed, Named
  <1>8. CASE UNCHANGED reflectVars
    BY <1>8 DEF reflectVars, ReflectInv, ReflectTypeOK, RowOf, Passed, Named
  <1> QED BY <1>1, <1>3, <1>4, <1>5, <1>6, <1>7, <1>8 DEF ReflectNext

\* The three store calls of a submission, each a transaction, leave a queue each
\* of whose rows knows which others were there when its request came.
THEOREM ReflectionsCorrect == ReflectSpec => []ReflectInv
  BY ReflectInitially, ReflectNextStep, PTL DEF ReflectSpec

\* Two rows of a session less than RateWindow apart come from requests that
\* overlapped, and an answer names a row that is queued, of the context sent.
THEOREM RateLimitHolds == ReflectSpec => []LimitMissedOnlyAtOnce
  <1>1. ReflectInv => LimitMissedOnlyAtOnce
    <2> SUFFICES ASSUME ReflectInv PROVE LimitMissedOnlyAtOnce
      OBVIOUS
    <2>1. ASSUME NEW x \in queue, NEW y \in queue, y.at <= x.at + RateWindow,
                 x.request \in submit[y.request].before
          PROVE  FALSE
      <3>1. /\ y.request \in Submits /\ submit[y.request].pc = "queued" /\ submit[y.request].now = y.at
            /\ x.at \in Nat /\ y.at \in Nat /\ RateWindow \in Nat
        BY ReflectionsAssumption DEF ReflectInv, ReflectTypeOK, RowOf
      <3>2. x.at + RateWindow < y.at
        BY <2>1, <3>1 DEF ReflectInv, Passed
      <3> QED BY <2>1, <3>1, <3>2
    <2> QED BY <2>1 DEF ReflectInv, Named, LimitMissedOnlyAtOnce
  <1> QED BY <1>1, ReflectionsCorrect, PTL

-----------------------------------------------------------------------------
(* ClientDrain. Each post of a unit has arrived, may still arrive, or was  *)
(* given up: the copies a server may get are never more than the posts.    *)

ClientRecord ==
    [pc : {"idle", "insert", "posting", "stored", "data", "unreachable", "next"},
     unit : Proposals \cup {"none"}, todo : SUBSET Proposals, draining : BOOLEAN]

ClientTypeOK ==
    /\ local \subseteq Proposals /\ delayed \subseteq Proposals /\ kept \subseteq Proposals
    /\ received \in [Proposals -> Nat] /\ posts \in [Proposals -> Nat]
    /\ client \in [Clients -> ClientRecord]

Posts(c, u) == c.pc = "posting" /\ c.unit = u
Posting(u)  == {p \in Clients : Posts(client[p], u)}
Late(u)     == IF u \in delayed THEN 1 ELSE 0

CopiesCounted(u) ==
    /\ IsFiniteSet(Posting(u))
    /\ received[u] + Cardinality(Posting(u)) + Late(u) <= posts[u]

\* What a process is about, at its step: a unit, and one the server has when it said so.
AboutUnit(c) ==
    /\ c.pc \notin {"idle", "next"} => c.unit \in Proposals
    /\ c.pc = "stored" => received[c.unit] > 0

ClientInv ==
    /\ ClientTypeOK
    /\ \A p \in Clients : AboutUnit(client[p])
    /\ \A u \in Proposals : CopiesCounted(u)
    /\ \A u \in kept : u \in local \/ received[u] > 0

Counts(b) == IF b THEN 1 ELSE 0

\* A process moves: it joins those that post a unit, or leaves them, or neither.
LEMMA PostingMoves ==
    ASSUME NEW p \in Clients, NEW n, NEW u, client \in [Clients -> ClientRecord],
           client' = [client EXCEPT ![p] = n], IsFiniteSet(Posting(u))
    PROVE  /\ IsFiniteSet(Posting(u)')
           /\ Cardinality(Posting(u)) \in Nat /\ Cardinality(Posting(u)') \in Nat
           /\ Cardinality(Posting(u)') + Counts(Posts(client[p], u)) =
                 Cardinality(Posting(u)) + Counts(Posts(n, u))
  <1>1. /\ client'[p] = n /\ \A q \in Clients \ {p} : client'[q] = client[q]
    OBVIOUS
  <1>2. Cardinality(Posting(u)) \in Nat
    BY FS_CardinalityType
  <1>3. p \in Posting(u) <=> Posts(client[p], u)
    BY DEF Posting
  <1>4. CASE Posts(n, u)
    <2>1. Posting(u)' = Posting(u) \cup {p}
      BY <1>1, <1>4 DEF Posting, Posts
    <2>2. /\ IsFiniteSet(Posting(u) \cup {p})
          /\ Cardinality(Posting(u) \cup {p}) =
                IF p \in Posting(u) THEN Cardinality(Posting(u)) ELSE Cardinality(Posting(u)) + 1
      BY FS_AddElement
    <2> QED BY <1>2, <1>3, <1>4, <2>1, <2>2 DEF Counts
  <1>5. CASE ~Posts(n, u)
    <2>1. Posting(u)' = Posting(u) \ {p}
      BY <1>1, <1>5 DEF Posting, Posts
    <2>2. /\ IsFiniteSet(Posting(u) \ {p})
          /\ Cardinality(Posting(u) \ {p}) =
                IF p \in Posting(u) THEN Cardinality(Posting(u)) - 1 ELSE Cardinality(Posting(u))
      BY FS_RemoveElement
    <2>3. Cardinality(Posting(u) \ {p}) \in Nat
      BY <2>2, FS_CardinalityType
    <2> QED BY <1>2, <1>3, <1>5, <2>1, <2>2, <2>3 DEF Counts
  <1> QED BY <1>4, <1>5

\* A step of one process keeps the invariant when it makes no copy from nothing.
LEMMA ClientStep ==
    ASSUME ClientInv, NEW p \in Clients, NEW n \in ClientRecord,
           client' = [client EXCEPT ![p] = n],
           local' \subseteq Proposals, delayed' \subseteq Proposals, kept' \subseteq Proposals,
           received' \in [Proposals -> Nat], posts' \in [Proposals -> Nat],
           \A u \in Proposals :
              /\ received'[u] >= received[u]
              /\ received'[u] + Counts(Posts(n, u)) + Late(u)' + posts[u] <=
                    received[u] + Counts(Posts(client[p], u)) + Late(u) + posts'[u],
           AboutUnit(n)',
           \A u \in kept' : u \in local' \/ received'[u] > 0
    PROVE  ClientInv'
  <1>1. client \in [Clients -> ClientRecord] /\ received \in [Proposals -> Nat] /\ posts \in [Proposals -> Nat]
    BY DEF ClientInv, ClientTypeOK
  <1>2. client'[p] = n /\ \A q \in Clients \ {p} : client'[q] = client[q]
    BY <1>1
  <1>3. ClientTypeOK'
    BY <1>1 DEF ClientTypeOK
  <1>4. ASSUME NEW q \in Clients PROVE AboutUnit(client[q])'
    <2>1. CASE q = p
      BY <1>2, <2>1 DEF AboutUnit
    <2>2. CASE q # p
      <3>1. AboutUnit(client[q]) /\ client'[q] = client[q]
        BY <1>2, <2>2 DEF ClientInv
      <3>2. client[q].unit \in Proposals => received'[client[q].unit] >= received[client[q].unit]
                                            /\ received[client[q].unit] \in Nat /\ received'[client[q].unit] \in Nat
        BY <1>1
      <3> QED BY <3>1, <3>2 DEF AboutUnit
    <2> QED BY <2>1, <2>2
  <1>5. ASSUME NEW u \in Proposals PROVE CopiesCounted(u)'
    <2>1. IsFiniteSet(Posting(u)) /\ received[u] + Cardinality(Posting(u)) + Late(u) <= posts[u]
      BY DEF ClientInv, CopiesCounted
    <2>2. /\ IsFiniteSet(Posting(u)')
          /\ Cardinality(Posting(u)) \in Nat /\ Cardinality(Posting(u)') \in Nat
          /\ Cardinality(Posting(u)') + Counts(Posts(client[p], u)) =
                Cardinality(Posting(u)) + Counts(Posts(n, u))
      BY <1>1, <2>1, PostingMoves
    <2>3. /\ received[u] \in Nat /\ received'[u] \in Nat /\ posts[u] \in Nat /\ posts'[u] \in Nat
          /\ Late(u) \in Nat /\ Late(u)' \in Nat
          /\ Counts(Posts(n, u)) \in Nat /\ Counts(Posts(client[p], u)) \in Nat
      BY <1>1 DEF Late, Counts
    <2>4. received'[u] + Cardinality(Posting(u)') + Late(u)' <= posts'[u]
      <3> DEFINE a == Cardinality(Posting(u))  b == Cardinality(Posting(u)')
                 c == Counts(Posts(n, u))  d == Counts(Posts(client[p], u))  l == Late(u)  m == Late(u)'
                 r == received[u]  s == received'[u]  x == posts[u]  y == posts'[u]
      <3>1. /\ a \in Nat /\ b \in Nat /\ c \in Nat /\ d \in Nat /\ l \in Nat /\ m \in Nat
            /\ r \in Nat /\ s \in Nat /\ x \in Nat /\ y \in Nat
            /\ b + d = a + c /\ r + a + l <= x /\ s + c + m + x <= r + d + l + y
        BY <2>1, <2>2, <2>3
      <3> HIDE DEF a, b, c, d, l, m, r, s, x, y
      <3>2. s + b + m <= y
        BY <3>1
      <3> QED BY <3>2 DEF b, m, s, y
    <2> QED BY <2>2, <2>4 DEF CopiesCounted
  <1> QED BY <1>3, <1>4, <1>5 DEF ClientInv

\* What a process becomes: with a step only, and with a unit to post.
LEMMA StepRecord ==
    ASSUME NEW w \in ClientRecord, NEW pc \in {"insert", "posting", "stored", "data", "unreachable", "next"}
    PROVE  LET n == [w EXCEPT !.pc = pc] IN
           /\ n \in ClientRecord /\ n.pc = pc /\ n.unit = w.unit
           /\ n.todo = w.todo /\ n.draining = w.draining
  BY DEF ClientRecord

LEMMA PostRecord ==
    ASSUME NEW w \in ClientRecord, NEW u \in Proposals, NEW pc \in {"insert", "posting"}, NEW t \in SUBSET Proposals
    PROVE  LET n == [pc |-> pc, unit |-> u, todo |-> t, draining |-> w.draining] IN
           n \in ClientRecord /\ n.pc = pc /\ n.unit = u
  BY DEF ClientRecord

LEMMA PostFields ==
    ASSUME client \in [Clients -> ClientRecord], NEW p \in Clients, NEW u \in Proposals
    PROVE  /\ [client EXCEPT ![p].pc = "posting", ![p].unit = u, ![p].todo = @ \ {u}] =
                 [client EXCEPT ![p] = [pc |-> "posting", unit |-> u, todo |-> client[p].todo \ {u},
                                        draining |-> client[p].draining]]
           /\ [client EXCEPT ![p].pc = "insert", ![p].unit = u] =
                 [client EXCEPT ![p] = [pc |-> "insert", unit |-> u, todo |-> client[p].todo,
                                        draining |-> client[p].draining]]
  <1>1. PICK w \in ClientRecord : w = client[p]
    OBVIOUS
  <1>2. ASSUME NEW pc PROVE [[w EXCEPT !.pc = pc] EXCEPT !.unit = u] =
            [pc |-> pc, unit |-> u, todo |-> w.todo, draining |-> w.draining]
    <2>1. [w EXCEPT !.pc = pc] = [pc |-> pc, unit |-> w.unit, todo |-> w.todo, draining |-> w.draining]
      BY DEF ClientRecord
    <2>2. [[pc |-> pc, unit |-> w.unit, todo |-> w.todo, draining |-> w.draining] EXCEPT !.unit = u] =
             [pc |-> pc, unit |-> u, todo |-> w.todo, draining |-> w.draining]
      OBVIOUS
    <2> QED BY <2>1, <2>2, Zenon
  <1>3. [[pc |-> "posting", unit |-> u, todo |-> w.todo, draining |-> w.draining] EXCEPT !.todo = @ \ {u}] =
            [pc |-> "posting", unit |-> u, todo |-> w.todo \ {u}, draining |-> w.draining]
    OBVIOUS
  <1>4. [client EXCEPT ![p].pc = "insert", ![p].unit = u] =
            [client EXCEPT ![p] = [[w EXCEPT !.pc = "insert"] EXCEPT !.unit = u]]
    BY <1>1
  <1>5. [client EXCEPT ![p].pc = "posting", ![p].unit = u, ![p].todo = @ \ {u}] =
            [client EXCEPT ![p] = [[[w EXCEPT !.pc = "posting"] EXCEPT !.unit = u] EXCEPT !.todo = @ \ {u}]]
    BY <1>1
  <1>6. [[[w EXCEPT !.pc = "posting"] EXCEPT !.unit = u] EXCEPT !.todo = @ \ {u}] =
            [pc |-> "posting", unit |-> u, todo |-> w.todo \ {u}, draining |-> w.draining]
    BY <1>2, <1>3
  <1> QED BY <1>1, <1>2, <1>4, <1>5, <1>6, Zenon

\* A process goes on without a post of its own, and the server has what it had.
LEMMA ClientRests ==
    ASSUME ClientInv, NEW p \in Clients, NEW n \in ClientRecord,
           client' = [client EXCEPT ![p] = n], UNCHANGED <<received, posts>>,
           local' \subseteq Proposals, delayed' \subseteq Proposals, kept' \subseteq Proposals,
           n.pc # "posting", AboutUnit(n),
           \A u \in Proposals : Late(u)' <= Late(u) + Counts(Posts(client[p], u)),
           \A u \in kept' : u \in local' \/ received[u] > 0
    PROVE  ClientInv'
  <1>1. /\ received' = received /\ posts' = posts
        /\ received' \in [Proposals -> Nat] /\ posts' \in [Proposals -> Nat]
    BY DEF ClientInv, ClientTypeOK
  <1>2. ASSUME NEW u \in Proposals
        PROVE  /\ received'[u] >= received[u]
               /\ received'[u] + Counts(Posts(n, u)) + Late(u)' + posts[u] <=
                     received[u] + Counts(Posts(client[p], u)) + Late(u) + posts'[u]
    <2>1. received[u] \in Nat /\ posts[u] \in Nat /\ Counts(Posts(n, u)) = 0
      BY <1>1 DEF Posts, Counts
    <2>2. Late(u) \in Nat /\ Late(u)' \in Nat /\ Counts(Posts(client[p], u)) \in Nat
      BY DEF Late, Counts
    <2>3. Late(u)' <= Late(u) + Counts(Posts(client[p], u))
      OBVIOUS
    <2> QED BY <1>1, <2>1, <2>2, <2>3
  <1>3. AboutUnit(n)'
    BY <1>1 DEF AboutUnit
  <1>4. \A u \in kept' : u \in local' \/ received'[u] > 0
    BY <1>1
  <1> QED BY <1>1, <1>2, <1>3, <1>4, ClientStep

\* A process starts a post of a unit, counted in posts.
LEMMA PostStep ==
    ASSUME ClientInv, NEW p \in Clients, NEW u \in Proposals, client[p].pc # "posting",
           Post(p, u), UNCHANGED <<local, received, delayed, kept>>
    PROVE  ClientInv'
  <1>1. /\ client \in [Clients -> ClientRecord] /\ received \in [Proposals -> Nat]
        /\ posts \in [Proposals -> Nat] /\ client[p] \in ClientRecord
    BY DEF ClientInv, ClientTypeOK
  <1>2. client[p].todo \ {u} \in SUBSET Proposals
    BY <1>1 DEF ClientRecord
  <1>3. PICK n \in ClientRecord : client' = [client EXCEPT ![p] = n] /\ n.pc = "posting" /\ n.unit = u
    <2> DEFINE m == [pc |-> "posting", unit |-> u, todo |-> client[p].todo \ {u}, draining |-> client[p].draining]
    <2>1. m \in ClientRecord /\ m.pc = "posting" /\ m.unit = u
      BY <1>1, <1>2, PostRecord
    <2>2. client' = [client EXCEPT ![p] = m]
      BY <1>1, PostFields DEF Post
    <2> QED BY <2>1, <2>2
  <1>4. posts' = [posts EXCEPT ![u] = @ + 1] /\ posts' \in [Proposals -> Nat]
    BY <1>1 DEF Post
  <1>5. ASSUME NEW v \in Proposals
        PROVE  /\ received'[v] >= received[v]
               /\ received'[v] + Counts(Posts(n, v)) + Late(v)' + posts[v] <=
                     received[v] + Counts(Posts(client[p], v)) + Late(v) + posts'[v]
    <2>1. /\ received[v] \in Nat /\ received'[v] = received[v] /\ posts[v] \in Nat
          /\ posts'[v] = posts[v] + Counts(Posts(n, v)) /\ Counts(Posts(client[p], v)) = 0
      BY <1>1, <1>3, <1>4 DEF Posts, Counts
    <2>2. Late(v)' = Late(v) /\ Late(v) \in Nat /\ Counts(Posts(n, v)) \in Nat
      BY DEF Late, Counts
    <2> QED BY <2>1, <2>2
  <1>6. AboutUnit(n)'
    BY <1>3 DEF AboutUnit
  <1>7. /\ local' \subseteq Proposals /\ delayed' \subseteq Proposals /\ kept' \subseteq Proposals
        /\ received' \in [Proposals -> Nat] /\ \A v \in kept' : v \in local' \/ received'[v] > 0
    BY DEF ClientInv, ClientTypeOK
  <1> QED BY <1>3, <1>4, <1>5, <1>6, <1>7, ClientStep

LEMMA ClientInitially == ClientInit => ClientInv
  <1> SUFFICES ASSUME ClientInit PROVE ClientInv
    OBVIOUS
  <1>1. NoClient \in ClientRecord /\ NoClient.pc = "idle"
    BY DEF NoClient, ClientRecord
  <1>2. /\ client \in [Clients -> ClientRecord] /\ \A p \in Clients : client[p].pc = "idle"
    BY <1>1 DEF ClientInit
  <1>3. \A u : Posting(u) = {} /\ Late(u) = 0
    BY <1>2 DEF Posting, Posts, Late, ClientInit
  <1>4. \A u \in Proposals : CopiesCounted(u)
    BY <1>3, FS_EmptySet DEF CopiesCounted, ClientInit
  <1>5. ClientTypeOK
    BY <1>2 DEF ClientTypeOK, ClientInit
  <1> QED BY <1>2, <1>4, <1>5 DEF ClientInv, AboutUnit, ClientInit

LEMMA ClientNextStep ==
    ASSUME ClientInv, [ClientNext]_clientVars
    PROVE  ClientInv'
  <1>0. /\ client \in [Clients -> ClientRecord] /\ received \in [Proposals -> Nat]
        /\ posts \in [Proposals -> Nat]
        /\ local \subseteq Proposals /\ delayed \subseteq Proposals /\ kept \subseteq Proposals
        /\ \A p \in Clients : client[p] \in ClientRecord /\ AboutUnit(client[p])
        /\ \A u \in kept : u \in local \/ received[u] > 0
    BY DEF ClientInv, ClientTypeOK
  <1>n. NoClient \in ClientRecord /\ NoClient.pc # "posting" /\ AboutUnit(NoClient)
    BY DEF NoClient, ClientRecord, AboutUnit
  <1>l. \A u : Late(u) \in Nat /\ \A b : Counts(b) \in Nat
    BY DEF Late, Counts
  <1>1. ASSUME NEW p \in Clients, NEW u \in Proposals, ProposeUnit(p, u) PROVE ClientInv'
    <2>1. client[p].pc = "idle" /\ UNCHANGED <<local, received, delayed, kept>>
      BY <1>1 DEF ProposeUnit
    <2>2. CASE Post(p, u)
      BY <2>1, <2>2, PostStep
    <2>3. CASE client' = [client EXCEPT ![p].pc = "insert", ![p].unit = u] /\ UNCHANGED posts
      <3>1. PICK n \in ClientRecord : client' = [client EXCEPT ![p] = n] /\ n.pc = "insert" /\ n.unit = u
        <4>1. client[p].todo \in SUBSET Proposals
          BY <1>0 DEF ClientRecord
        <4> DEFINE m == [pc |-> "insert", unit |-> u, todo |-> client[p].todo, draining |-> client[p].draining]
        <4>2. m \in ClientRecord /\ m.pc = "insert" /\ m.unit = u
          BY <1>0, <4>1, PostRecord
        <4>3. client' = [client EXCEPT ![p] = m]
          BY <1>0, <2>3, PostFields
        <4> QED BY <4>2, <4>3
      <3>2. AboutUnit(n)
        BY <3>1 DEF AboutUnit
      <3>3. \A v \in Proposals : Late(v)' <= Late(v) + Counts(Posts(client[p], v))
        <4>1. \A v \in Proposals : Late(v)' = Late(v)
          BY <2>1 DEF Late
        <4> QED BY <1>l, <4>1
      <3> QED BY <1>0, <2>1, <2>3, <3>1, <3>2, <3>3, ClientRests
    <2> QED BY <1>1, <2>2, <2>3 DEF ProposeUnit
  <1>2. ASSUME NEW p \in Clients, NEW u \in Proposals, DrainPost(p, u) PROVE ClientInv'
    BY <1>2, PostStep DEF DrainPost
  <1>3. ASSUME NEW p \in Clients, ServerStores(p) PROVE ClientInv'
    <2> DEFINE u == client[p].unit
    <2>1. /\ client[p].pc = "posting" /\ u \in Proposals /\ UNCHANGED <<local, posts, delayed, kept>>
          /\ received' = [received EXCEPT ![u] = @ + 1]
      BY <1>0, <1>3 DEF ServerStores, AboutUnit
    <2>2. PICK n \in ClientRecord : client' = [client EXCEPT ![p] = n] /\ n.pc = "stored" /\ n.unit = u
      <3>1. PICK w \in ClientRecord : w = client[p]
        BY <1>0
      <3>2. client' = [client EXCEPT ![p] = [w EXCEPT !.pc = "stored"]]
        BY <1>0, <1>3, <3>1 DEF ServerStores, Step
      <3> DEFINE m == [w EXCEPT !.pc = "stored"]
      <3>3. m \in ClientRecord /\ m.pc = "stored" /\ m.unit = w.unit
        BY StepRecord
      <3>4. client' = [client EXCEPT ![p] = m] /\ m.unit = u
        BY <3>1, <3>2, <3>3
      <3> HIDE DEF m
      <3> QED BY <3>3, <3>4
    <2>3. received' \in [Proposals -> Nat]
      BY <1>0, <2>1
    <2>4. ASSUME NEW v \in Proposals
          PROVE  /\ received'[v] >= received[v]
                 /\ received'[v] + Counts(Posts(n, v)) + Late(v)' + posts[v] <=
                       received[v] + Counts(Posts(client[p], v)) + Late(v) + posts'[v]
      <3>1. /\ received[v] \in Nat /\ posts[v] \in Nat /\ posts'[v] = posts[v] /\ Counts(Posts(n, v)) = 0
            /\ received'[v] = received[v] + Counts(Posts(client[p], v))
        BY <1>0, <2>1, <2>2 DEF Posts, Counts
      <3>2. Late(v)' = Late(v)
        BY <2>1 DEF Late
      <3> QED BY <1>l, <3>1, <3>2
    <2>5. AboutUnit(n)'
      BY <1>0, <2>1, <2>2 DEF AboutUnit
    <2>6. \A v \in kept' : v \in local' \/ received'[v] > 0
      BY <1>0, <2>1, <2>3, <2>4
    <2> HIDE DEF u
    <2> QED BY <1>0, <2>1, <2>2, <2>3, <2>4, <2>5, <2>6, ClientStep
  \* A step of a process that is told something and turns to the next of its steps.
  <1>4. ASSUME NEW p \in Clients, client[p].pc # "idle", NEW pc \in {"data", "unreachable", "next"},
               pc = "next" \/ client[p].pc # "next",
               Step(p, pc), UNCHANGED <<received, posts, kept>>,
               local' \subseteq Proposals, \A v \in kept : v \in local' \/ received[v] > 0,
               delayed' = delayed \/ (client[p].pc = "posting" /\ delayed' = delayed \cup {client[p].unit})
        PROVE  ClientInv'
    <2>1. PICK n \in ClientRecord : client' = [client EXCEPT ![p] = n] /\ n.pc = pc /\ n.unit = client[p].unit
      <3>1. PICK w \in ClientRecord : w = client[p]
        BY <1>0
      <3>2. client' = [client EXCEPT ![p] = [w EXCEPT !.pc = pc]]
        BY <1>0, <1>4, <3>1 DEF Step
      <3>3. [w EXCEPT !.pc = pc] \in ClientRecord /\ [w EXCEPT !.pc = pc].pc = pc
            /\ [w EXCEPT !.pc = pc].unit = w.unit
        BY <1>4 DEF ClientRecord
      <3> QED BY <3>1, <3>2, <3>3
    <2>2. AboutUnit(n)
      BY <1>0, <1>4, <2>1 DEF AboutUnit
    <2>3. delayed' \subseteq Proposals
      BY <1>0, <1>4 DEF AboutUnit
    <2>4. \A v \in Proposals : Late(v)' <= Late(v) + Counts(Posts(client[p], v))
      BY <1>4 DEF Late, Counts, Posts
    <2> QED BY <1>0, <1>4, <2>1, <2>2, <2>3, <2>4, ClientRests
  \* A step with which a process is done.
  <1>5. ASSUME NEW p \in Clients, client' = [client EXCEPT ![p] = NoClient],
               UNCHANGED <<received, posts>>,
               local' \subseteq Proposals, kept' \subseteq Proposals,
               \A v \in kept' : v \in local' \/ received[v] > 0,
               delayed' = delayed \/ (client[p].pc = "posting" /\ delayed' = delayed \cup {client[p].unit})
        PROVE  ClientInv'
    <2>1. delayed' \subseteq Proposals
      BY <1>0, <1>5 DEF AboutUnit
    <2>2. \A v \in Proposals : Late(v)' <= Late(v) + Counts(Posts(client[p], v))
      BY <1>5 DEF Late, Counts, Posts
    <2> QED BY <1>5, <1>n, <2>1, <2>2, ClientRests
  <1>6. ASSUME NEW p \in Clients, NEW why \in {"data", "unreachable"}, ServerRefuses(p, why) PROVE ClientInv'
    BY <1>0, <1>4, <1>6 DEF ServerRefuses
  <1>7. ASSUME NEW p \in Clients, PostTimesOut(p) PROVE ClientInv'
    BY <1>0, <1>4, <1>7 DEF PostTimesOut
  <1>8. ASSUME NEW u \in Proposals, LatePost(u) PROVE ClientInv'
    <2>1. /\ u \in delayed /\ received' = [received EXCEPT ![u] = @ + 1] /\ delayed' = delayed \ {u}
          /\ UNCHANGED <<local, posts, client, kept>>
      BY <1>8 DEF LatePost
    <2>2. received' \in [Proposals -> Nat] /\ \A v \in Proposals : received'[v] >= received[v]
      BY <1>0, <2>1
    <2>3. ASSUME NEW v \in Proposals PROVE CopiesCounted(v)'
      <3>1. Posting(v)' = Posting(v)
        BY <2>1 DEF Posting
      <3>2. received'[v] + Late(v)' = received[v] + Late(v)
        BY <1>0, <2>1 DEF Late
      <3>3. IsFiniteSet(Posting(v)) /\ received[v] + Cardinality(Posting(v)) + Late(v) <= posts[v]
        BY DEF ClientInv, CopiesCounted
      <3>4. /\ received[v] \in Nat /\ received'[v] \in Nat /\ Cardinality(Posting(v)) \in Nat /\ posts'[v] = posts[v]
            /\ Late(v)' \in Nat /\ posts[v] \in Nat
        BY <1>0, <2>1, <2>2, <3>3, FS_CardinalityType DEF Late
      <3> QED BY <1>l, <3>1, <3>2, <3>3, <3>4 DEF CopiesCounted
    <2>4. ClientTypeOK'
      BY <1>0, <2>1, <2>2 DEF ClientTypeOK
    <2>5. ASSUME NEW q \in Clients PROVE AboutUnit(client[q])'
      <3>1. AboutUnit(client[q]) /\ client'[q] = client[q]
        BY <1>0, <2>1
      <3>2. client[q].unit \in Proposals => /\ received'[client[q].unit] >= received[client[q].unit]
                                            /\ received[client[q].unit] \in Nat /\ received'[client[q].unit] \in Nat
        BY <1>0, <2>2
      <3> QED BY <3>1, <3>2 DEF AboutUnit
    <2>6. \A v \in kept' : v \in local' \/ received'[v] > 0
      BY <1>0, <2>1, <2>2
    <2> QED BY <2>3, <2>4, <2>5, <2>6 DEF ClientInv
  <1>9. ASSUME NEW p \in Clients, ProposeStored(p) PROVE ClientInv'
    <2>1. /\ client[p].pc = "stored" /\ client[p].unit \in Proposals /\ received[client[p].unit] > 0
          /\ kept' = kept \cup {client[p].unit} /\ UNCHANGED <<local, received, posts, delayed>>
          /\ client' = [client EXCEPT ![p] = NoClient]
      BY <1>0, <1>9 DEF ProposeStored, AboutUnit
    <2> QED BY <1>0, <1>5, <2>1
  <1>10. ASSUME NEW p \in Clients, ProposeRefused(p) PROVE ClientInv'
    BY <1>0, <1>5, <1>10 DEF ProposeRefused
  <1>11. ASSUME NEW p \in Clients, ProposeFallsBack(p) PROVE ClientInv'
    <2>1. /\ client[p].unit \in Proposals /\ UNCHANGED <<received, posts, delayed>>
          /\ client' = [client EXCEPT ![p] = NoClient]
          /\ \/ local' = local \cup {client[p].unit} /\ kept' = kept \cup {client[p].unit}
             \/ UNCHANGED <<local, kept>>
      BY <1>0, <1>11 DEF ProposeFallsBack, AboutUnit
    <2> QED BY <1>0, <1>5, <2>1
  <1>12. ASSUME NEW p \in Clients, DrainBegin(p) PROVE ClientInv'
    <2> DEFINE n == [pc |-> "next", unit |-> "none", todo |-> local, draining |-> TRUE]
    <2>1. n \in ClientRecord /\ n.pc # "posting" /\ AboutUnit(n)
      BY <1>0 DEF ClientRecord, AboutUnit
    <2>2. client' = [client EXCEPT ![p] = n] /\ UNCHANGED <<local, received, posts, delayed, kept>>
      BY <1>12 DEF DrainBegin
    <2>3. \A v \in Proposals : Late(v)' <= Late(v) + Counts(Posts(client[p], v))
      BY <2>2 DEF Late, Counts
    <2> HIDE DEF n
    <2> QED BY <1>0, <2>1, <2>2, <2>3, ClientRests
  <1>13. ASSUME NEW p \in Clients, DrainStored(p) PROVE ClientInv'
    <2>1. /\ client[p].pc = "stored" /\ client[p].unit \in Proposals /\ received[client[p].unit] > 0
          /\ local' = local \ {client[p].unit} /\ UNCHANGED <<received, posts, delayed, kept>>
          /\ Step(p, "next") \/ client' = [client EXCEPT ![p] = NoClient]
      BY <1>0, <1>13 DEF DrainStored, AboutUnit, Step
    <2>2. local' \subseteq Proposals /\ \A v \in kept : v \in local' \/ received[v] > 0
      BY <1>0, <2>1
    <2> QED BY <1>0, <1>4, <1>5, <2>1, <2>2
  <1>14. ASSUME NEW p \in Clients, DrainWarns(p) PROVE ClientInv'
    BY <1>0, <1>4, <1>14 DEF DrainWarns
  <1>15. ASSUME NEW p \in Clients, DrainEnds(p) PROVE ClientInv'
    BY <1>0, <1>5, <1>15 DEF DrainEnds
  <1>16. ASSUME NEW p \in Clients, ClientDies(p) PROVE ClientInv'
    BY <1>0, <1>5, <1>16 DEF ClientDies
  <1>17. CASE UNCHANGED clientVars
    BY <1>17 DEF clientVars, ClientInv, ClientTypeOK, CopiesCounted, Posting, Late, AboutUnit
  <1> QED BY <1>1, <1>2, <1>3, <1>6, <1>7, <1>8, <1>9, <1>10, <1>11, <1>12, <1>13, <1>14, <1>15,
             <1>16, <1>17 DEF ClientNext

\* Each post of a unit arrives at most once, at once or late, so that the server
\* never has more copies of it than posts were made; and who was told "stored"
\* has a unit the server has.
THEOREM ClientCorrect == ClientSpec => []ClientInv
  BY ClientInitially, ClientNextStep, PTL DEF ClientSpec

\* What propose said is kept is in the local store or on the server, whatever
\* processes die, give up on a post or drain the same units; and a second copy on
\* the server takes a second post.
THEOREM ProposalsKept == ClientSpec => []KeptIsSomewhere
  <1>1. ClientInv => KeptIsSomewhere
    <2> SUFFICES ASSUME ClientInv, NEW u \in kept PROVE received[u] <= posts[u]
      BY DEF ClientInv, KeptIsSomewhere
    <2>1. /\ u \in Proposals /\ received[u] \in Nat /\ posts[u] \in Nat
          /\ IsFiniteSet(Posting(u)) /\ received[u] + Cardinality(Posting(u)) + Late(u) <= posts[u]
      BY DEF ClientInv, ClientTypeOK, CopiesCounted
    <2>2. Cardinality(Posting(u)) \in Nat /\ Late(u) \in Nat
      BY <2>1, FS_CardinalityType DEF Late
    <2> QED BY <2>1, <2>2
  <1> QED BY <1>1, ClientCorrect, PTL

-----------------------------------------------------------------------------
(* ActivityLog. A page has nothing above the cursor before it and leaves   *)
(* nothing above the cursor after it; so what was there when the reader    *)
(* began is among what it got or below its cursor, wherever rows are       *)
(* inserted meanwhile.                                                     *)

LogRow == [ts : Nat, tag : Nat, tenant : {"", Default, "acme"}, persona : Personas \cup {""}]
LogTask == [pc : {"idle", "insert", "done"}, row : LogRow]

ActivityTypeOK ==
    /\ stamp \in Nat /\ home \in [Personas -> {Default, "acme"}] /\ ownEnterprise \in {"", "acme"}
    /\ task \in [Events -> LogTask]
    /\ rows \subseteq LogRow /\ IsFiniteSet(rows)

\* No two rows have one id, and no row that of no row.
IdsAreUnique ==
    /\ \A e \in Events : task[e].pc = "idle" <=> task[e].row.tag = 0
    /\ \A e, f \in Events : e # f /\ task[e].row.tag = task[f].row.tag => task[e].row.tag = 0
    /\ \A r \in rows : r.tag # 0 /\ \E e \in Events : task[e].pc = "done" /\ task[e].row = r

\* What a reader w has and lacks.
Reads(w) ==
    /\ w.again = {} /\ w.got \subseteq rows /\ w.start \subseteq Matching(w.tenant, w.persona)
    /\ w.cursor \in rows \cup {NoRow}
    /\ IF w.cursor = NoRow THEN w.got = {}
       ELSE /\ \A r \in w.got : ~Below(r, w.cursor)
            /\ \A r \in w.start \ w.got : Below(r, w.cursor)

WalkInv ==
    /\ walk.pc \in {"idle", "reading", "ended"}
    /\ walk.again = {}
    /\ walk.pc = "reading" => Reads(walk) /\ walk.cursor # NoRow
    /\ walk.pc = "ended" => walk.start \subseteq walk.got

ActivityInv == ActivityTypeOK /\ IdsAreUnique /\ WalkInv

LEMMA NoRowType == NoRow \in LogRow /\ NoRow.tag = 0
  BY DEF NoRow, LogRow

LEMMA ActivityInitially == ActivityInit => ActivityInv
  <1> SUFFICES ASSUME ActivityInit PROVE ActivityInv
    OBVIOUS
  <1>1. ActivityTypeOK
    BY NoRowType, FS_EmptySet DEF ActivityInit, ActivityTypeOK, LogTask
  <1>2. IdsAreUnique
    BY NoRowType DEF ActivityInit, IdsAreUnique
  <1>3. WalkInv
    BY DEF ActivityInit, WalkInv, Walk
  <1> QED BY <1>1, <1>2, <1>3 DEF ActivityInv

LEMMA RowsApart ==
    ASSUME IdsAreUnique, NEW r \in rows, NEW s \in rows, r.tag = s.tag
    PROVE  r = s
  <1>1. PICK e \in Events : task[e].row = r
    BY DEF IdsAreUnique
  <1>2. PICK f \in Events : task[f].row = s
    BY DEF IdsAreUnique
  <1> QED BY <1>1, <1>2 DEF IdsAreUnique

\* What a reader has stays what it has while rows are added.
LEMMA WalkKept ==
    ASSUME WalkInv, rows \subseteq rows', UNCHANGED walk
    PROVE  WalkInv'
  <1>1. ASSUME walk.pc = "reading" PROVE Reads(walk)'
    <2>1. Reads(walk)
      BY <1>1 DEF WalkInv
    <2>2. Matching(walk.tenant, walk.persona) \subseteq Matching(walk.tenant, walk.persona)'
      BY DEF Matching
    <2>3. (walk.start \subseteq Matching(walk.tenant, walk.persona))'
      BY <2>1, <2>2 DEF Reads
    <2> QED BY <2>1, <2>3 DEF Reads, Below
  <1> QED BY <1>1 DEF WalkInv

LEMMA StampRowStep ==
    ASSUME ActivityInv, NEW e \in Events, NEW p \in Personas, NEW tag \in Tags, StampRow(e, p, tag)
    PROVE  ActivityInv'
  <1> DEFINE row == [ts |-> stamp, tag |-> tag, tenant |-> Tenancy(p), persona |-> p]
  <1> USE DEF ActivityInv
  <1>1. row \in LogRow /\ tag # 0 /\ task[e].pc = "idle"
    <2>1. Tenancy(p) \in {"", Default, "acme"}
      BY DEF ActivityTypeOK, Tenancy
    <2>2. tag # 0
      BY DEF StampRow, IdsAreUnique
    <2> QED BY <2>1, <2>2, ActivityAssumption DEF StampRow, LogRow, ActivityTypeOK
  <1> HIDE DEF row
  <1>2. task' = [task EXCEPT ![e] = [pc |-> "insert", row |-> row]]
    BY DEF StampRow, row
  <1>3. UNCHANGED <<stamp, home, ownEnterprise, rows, walk>>
    BY DEF StampRow
  <1>4. row.tag = tag
    BY DEF row
  <1>5. ActivityTypeOK'
    BY <1>1, <1>2, <1>3 DEF ActivityTypeOK, LogTask
  <1>6. /\ task'[e] = [pc |-> "insert", row |-> row]
        /\ \A f \in Events \ {e} : task'[f] = task[f]
    BY <1>2 DEF ActivityTypeOK
  <1>7. IdsAreUnique'
    <2>1. \A f \in Events : task'[f].pc = "idle" <=> task'[f].row.tag = 0
      BY <1>1, <1>4, <1>6 DEF IdsAreUnique
    <2>2. \A f, g \in Events : f # g /\ task'[f].row.tag = task'[g].row.tag => task'[f].row.tag = 0
      BY <1>1, <1>4, <1>6 DEF IdsAreUnique, StampRow
    <2>3. \A r \in rows : r.tag # 0 /\ \E f \in Events : task'[f].pc = "done" /\ task'[f].row = r
      BY <1>1, <1>6 DEF IdsAreUnique
    <2> QED BY <2>1, <2>2, <2>3, <1>3 DEF IdsAreUnique
  <1>8. WalkInv'
    BY <1>3, WalkKept
  <1> QED BY <1>5, <1>7, <1>8

\* A task that ends leaves its row in the log, or does not.
LEMMA TaskEnds ==
    ASSUME ActivityInv, NEW e \in Events, task[e].pc = "insert",
           task' = [task EXCEPT ![e].pc = "done"],
           rows' = rows \/ rows' = rows \cup {task[e].row},
           UNCHANGED <<stamp, home, ownEnterprise, walk>>
    PROVE  ActivityInv'
  <1> USE DEF ActivityInv
  <1>1. /\ task'[e].pc = "done" /\ task'[e].row = task[e].row
        /\ \A f \in Events \ {e} : task'[f] = task[f]
    BY DEF ActivityTypeOK, LogTask
  <1>2. ActivityTypeOK'
    <2>1. task[e].row \in LogRow
      BY DEF ActivityTypeOK, LogTask
    <2>2. IsFiniteSet(rows')
      <3>1. IsFiniteSet(rows)
        BY DEF ActivityTypeOK
      <3>2. IsFiniteSet(rows \cup {task[e].row})
        BY <3>1, FS_AddElement
      <3> QED BY <3>1, <3>2
    <2> QED BY <2>1, <2>2 DEF ActivityTypeOK, LogTask
  <1>3. IdsAreUnique'
    <2>1. \A f \in Events : task'[f].pc = "idle" <=> task'[f].row.tag = 0
      BY <1>1 DEF IdsAreUnique
    <2>2. \A f, g \in Events : f # g /\ task'[f].row.tag = task'[g].row.tag => task'[f].row.tag = 0
      BY <1>1 DEF IdsAreUnique
    <2>3. \A r \in rows' : r.tag # 0 /\ \E f \in Events : task'[f].pc = "done" /\ task'[f].row = r
      BY <1>1 DEF IdsAreUnique
    <2> QED BY <2>1, <2>2, <2>3 DEF IdsAreUnique
  <1>4. WalkInv'
    BY WalkKept
  <1> QED BY <1>2, <1>3, <1>4

LEMMA TurnStep ==
    ASSUME ActivityInv, NEW w, Reads(w), Turn(w),
           UNCHANGED <<stamp, home, ownEnterprise, task, rows>>
    PROVE  ActivityInv'
  <1> USE DEF ActivityInv
  <1>1. ActivityTypeOK' /\ IdsAreUnique'
    BY DEF ActivityTypeOK, IdsAreUnique
  <1>2. PICK page \in SUBSET Rest(w), last \in rows \cup {NoRow} :
           /\ Page(w, page)
           /\ IF Cardinality(page) = PageLimit
              THEN last \in page /\ \A r \in page \ {last} : Newer(r, last)
              ELSE last = NoRow
           /\ walk' = [pc      |-> IF last = NoRow THEN "ended" ELSE "reading",
                       tenant  |-> w.tenant,
                       persona |-> w.persona,
                       cursor  |-> last,
                       got     |-> w.got \cup page,
                       again   |-> w.again \cup (w.got \cap page),
                       start   |-> w.start]
    BY DEF Turn
  <1>3. /\ walk'.pc = (IF last = NoRow THEN "ended" ELSE "reading")
        /\ walk'.tenant = w.tenant /\ walk'.persona = w.persona /\ walk'.cursor = last
        /\ walk'.got = w.got \cup page /\ walk'.again = w.again \cup (w.got \cap page)
        /\ walk'.start = w.start
    BY <1>2
  <1>4. /\ Rest(w) \subseteq rows /\ Matching(w.tenant, w.persona) \subseteq rows
        /\ \A r \in rows : r \in LogRow /\ r # NoRow
    BY NoRowType DEF Rest, Matching, ActivityTypeOK, IdsAreUnique
  <1>5. walk'.again = {}
    BY <1>2, <1>3 DEF Reads, Rest
  <1>6. \A r \in w.start \ w.got : r \in Rest(w)
    BY DEF Reads, Rest
  <1>7. CASE Cardinality(page) # PageLimit
    <2>1. last = NoRow /\ page = Rest(w)
      BY <1>2, <1>7 DEF Page
    <2>2. walk'.start \subseteq walk'.got
      BY <2>1, <1>3, <1>6
    <2> QED BY <2>1, <2>2, <1>1, <1>3, <1>5 DEF WalkInv
  <1>8. CASE Cardinality(page) = PageLimit
    <2>1. /\ last \in page /\ last \in rows /\ last # NoRow /\ last \in LogRow
          /\ \A r \in page \ {last} : Newer(r, last)
      BY <1>2, <1>4, <1>8
    <2>2. ASSUME NEW r \in w.got \cup page PROVE ~Below(r, last)
      <3>1. r \in LogRow
        BY <1>2, <1>4 DEF Reads
      <3>2. CASE r \in page
        <4>1. r.ts \in Nat /\ r.tag \in Nat /\ last.ts \in Nat /\ last.tag \in Nat
          BY <3>1, <2>1 DEF LogRow
        <4>2. r = last \/ Newer(r, last)
          BY <3>2, <2>1
        <4> QED BY <4>1, <4>2 DEF Below, Newer
      <3>3. CASE r \in w.got
        <4>1. w.cursor \in LogRow /\ ~Below(r, w.cursor) /\ Below(last, w.cursor)
          BY <3>3, <2>1, <1>2, <1>4 DEF Reads, Rest
        <4>2. /\ r.ts \in Nat /\ r.tag \in Nat /\ last.ts \in Nat /\ last.tag \in Nat
              /\ w.cursor.ts \in Nat /\ w.cursor.tag \in Nat
          BY <4>1, <3>1, <2>1 DEF LogRow
        <4> QED BY <4>1, <4>2 DEF Below
      <3> QED BY <3>2, <3>3
    <2>3. ASSUME NEW r \in w.start \ (w.got \cup page) PROVE Below(r, last)
      <3>1. r \in Rest(w) \ page /\ r \in LogRow
        BY <1>4, <1>6
      <3>2. Newer(last, r)
        BY <3>1, <2>1, <1>2 DEF Page
      <3> QED BY <3>1, <3>2, <2>1 DEF Below, Newer, LogRow
    <2>4. (walk.start \subseteq Matching(walk.tenant, walk.persona))'
      BY <1>3 DEF Reads, Matching
    <2>5. walk'.got \subseteq rows' /\ walk'.cursor \in rows' /\ walk'.cursor # NoRow
      BY <1>2, <1>3, <1>4, <2>1 DEF Reads
    <2>6. Reads(walk)'
      BY <1>3, <1>5, <2>2, <2>3, <2>4, <2>5 DEF Reads, Below
    <2> QED BY <2>1, <2>6, <1>1, <1>3, <1>5 DEF WalkInv
  <1> QED BY <1>7, <1>8

LEMMA ActivityStep == ActivityInv /\ [ActivityNext]_activityVars => ActivityInv'
  <1> SUFFICES ASSUME ActivityInv, [ActivityNext]_activityVars PROVE ActivityInv'
    OBVIOUS
  <1>1. ASSUME NEW e \in Events, AppendRow(e) \/ TaskLost(e) PROVE ActivityInv'
    BY <1>1, TaskEnds DEF AppendRow, TaskLost
  <1>2. ASSUME NEW e \in Events, NEW p \in Personas, NEW tag \in Tags, StampRow(e, p, tag)
        PROVE  ActivityInv'
    BY <1>2, StampRowStep
  <1>3. ASSUME NEW p \in Personas, NEW admin \in BOOLEAN, OpenLog(p, admin) PROVE ActivityInv'
    <2> DEFINE whose == IF admin THEN "" ELSE p
    <2>1. Reads(Walk(home[p], whose, Matching(home[p], whose)))
      BY DEF Reads, Walk
    <2> QED BY <2>1, <1>3, TurnStep DEF OpenLog
  <1>4. CASE NextPage
    BY <1>4, TurnStep DEF NextPage, ActivityInv, WalkInv
  <1>5. CASE StampAdvances \/ UNCHANGED activityVars
    <2>1. UNCHANGED <<home, ownEnterprise, task, rows, walk>> /\ stamp' \in Nat
      <3>1. stamp \in Nat
        BY DEF ActivityInv, ActivityTypeOK
      <3>2. CASE StampAdvances
        BY <3>1, <3>2 DEF StampAdvances
      <3>3. CASE UNCHANGED activityVars
        BY <3>1, <3>3 DEF activityVars
      <3> QED BY <1>5, <3>2, <3>3
    <2>2. WalkInv'
      BY <2>1, WalkKept DEF ActivityInv
    <2> QED BY <2>1, <2>2 DEF ActivityInv, ActivityTypeOK, IdsAreUnique
  <1> QED BY <1>1, <1>2, <1>3, <1>4, <1>5 DEF ActivityNext

\* Rows have ids of their own, and a reader's cursor parts what it got from what
\* it still lacks.
THEOREM ActivityCorrect == ActivitySpec => []ActivityInv
  BY ActivityInitially, ActivityStep, PTL DEF ActivitySpec

\* A reader that follows the cursors of GET /activity to the end gets every row
\* that was there when it began, and none twice, of any number of rows inserted
\* meanwhile in any order.
THEOREM PagesWhole == ActivitySpec => []PagesAreWhole
  <1>1. ActivityInv => PagesAreWhole
    BY DEF ActivityInv, WalkInv, PagesAreWhole
  <1> QED BY <1>1, ActivityCorrect, PTL

\* Of subsets of a finite set one has no other within it.
LEMMA NoneWithin ==
    ASSUME NEW S, IsFiniteSet(S), NEW F, F \subseteq SUBSET S, F # {}
    PROVE  \E A \in F : \A B \in F : B \subseteq A => B = A
  <1>1. IsWellFoundedOn(StrictSubsetOrdering(S), SUBSET S)
    BY FS_StrictSubsetOrderingWellFounded, FS_FiniteSubsetsOfFinite
  <1>2. PICK A \in F : \A B \in F : <<B, A>> \notin StrictSubsetOrdering(S)
    BY <1>1, WFMin
  <1> QED BY <1>2 DEF StrictSubsetOrdering

\* Likewise of the values of a function: one has no other within it.
LEMMA ValueNoneWithin ==
    ASSUME NEW S, IsFiniteSet(S), S # {}, NEW f \in [S -> SUBSET S]
    PROVE  \E m \in S : \A r \in S : f[r] \subseteq f[m] => f[r] = f[m]
  <1> DEFINE F == {A \in SUBSET S : \E m \in S : A = f[m]}
  <1>1. F \subseteq SUBSET S /\ \A m \in S : f[m] \in F
    OBVIOUS
  <1>2. \A A \in F : \E m \in S : A = f[m]
    OBVIOUS
  <1> HIDE DEF F
  <1>3. PICK A \in F : \A B \in F : B \subseteq A => B = A
    BY <1>1, NoneWithin
  <1> QED BY <1>1, <1>2, <1>3

\* ORDER BY ts DESC, id DESC orders rows of different ids.
LEMMA NewerOrders ==
    ASSUME NEW r \in LogRow, NEW s \in LogRow, NEW u \in LogRow
    PROVE  /\ r.tag # s.tag => Newer(r, s) \/ Newer(s, r)
           /\ ~Newer(r, r)
           /\ Newer(r, s) /\ Newer(s, u) => Newer(r, u)
  <1>1. /\ r.ts \in Nat /\ r.tag \in Nat /\ s.ts \in Nat /\ s.tag \in Nat
        /\ u.ts \in Nat /\ u.tag \in Nat
    BY DEF LogRow
  <1> QED BY <1>1 DEF Newer

\* Of a finite set of rows one is the newest, and one the oldest.
LEMMA Extremes ==
    ASSUME NEW S, S \subseteq LogRow, IsFiniteSet(S), S # {},
           \A r, s \in S : r.tag = s.tag => r = s
    PROVE  /\ \E m \in S : \A r \in S \ {m} : Newer(m, r)
           /\ \E m \in S : \A r \in S \ {m} : Newer(r, m)
  <1>1. \E m \in S : \A r \in S \ {m} : Newer(m, r)
    <2> DEFINE Above == [m \in S |-> {x \in S : Newer(x, m)}]
    <2>1. Above \in [S -> SUBSET S]
      OBVIOUS
    <2>2. PICK m \in S : \A r \in S : Above[r] \subseteq Above[m] => Above[r] = Above[m]
      <3> HIDE DEF Above
      <3> QED BY <2>1, ValueNoneWithin
    <2>3. ASSUME NEW r \in S \ {m} PROVE Newer(m, r)
      <3>1. SUFFICES ASSUME Newer(r, m) PROVE FALSE
        BY NewerOrders
      <3>2. Above[r] \subseteq Above[m]
        BY <3>1, NewerOrders
      <3>3. r \in Above[m] /\ r \notin Above[r]
        BY <3>1, NewerOrders
      <3> QED BY <2>2, <3>2, <3>3
    <2> QED BY <2>3
  <1>2. \E m \in S : \A r \in S \ {m} : Newer(r, m)
    <2> DEFINE Under == [m \in S |-> {x \in S : Newer(m, x)}]
    <2>1. Under \in [S -> SUBSET S]
      OBVIOUS
    <2>2. PICK m \in S : \A r \in S : Under[r] \subseteq Under[m] => Under[r] = Under[m]
      <3> HIDE DEF Under
      <3> QED BY <2>1, ValueNoneWithin
    <2>3. ASSUME NEW r \in S \ {m} PROVE Newer(r, m)
      <3>1. SUFFICES ASSUME Newer(m, r) PROVE FALSE
        BY NewerOrders
      <3>2. Under[r] \subseteq Under[m]
        BY <3>1, NewerOrders
      <3>3. r \in Under[m] /\ r \notin Under[r]
        BY <3>1, NewerOrders
      <3> QED BY <2>2, <3>2, <3>3
    <2> QED BY <2>3
  <1> QED BY <1>1, <1>2

\* What GET /activity needs for its answer.
HasPage(w) ==
    \E page \in SUBSET Rest(w), last \in rows \cup {NoRow} :
        /\ Page(w, page)
        /\ IF Cardinality(page) = PageLimit
           THEN last \in page /\ \A r \in page \ {last} : Newer(r, last)
           ELSE last = NoRow

\* A page is the newest rows of the rest, one more as long as there is room.
LEMMA PageThere ==
    ASSUME ActivityTypeOK, IdsAreUnique, NEW w
    PROVE  HasPage(w)
  <1>1. /\ Rest(w) \subseteq rows /\ Rest(w) \subseteq LogRow /\ IsFiniteSet(Rest(w))
        /\ \A r, s \in Rest(w) : r.tag = s.tag => r = s
    <2>1. Rest(w) \subseteq rows
      BY DEF Rest, Matching
    <2>2. IsFiniteSet(Rest(w))
      BY <2>1, FS_Subset DEF ActivityTypeOK
    <2> QED BY <2>1, <2>2, RowsApart DEF ActivityTypeOK
  <1> DEFINE Top(page) == /\ Cardinality(page) <= PageLimit
                          /\ \A r \in page, s \in Rest(w) \ page : Newer(r, s)
             Tops == {page \in SUBSET Rest(w) : Top(page)}
             Left == {Rest(w) \ page : page \in Tops}
  <1>2. PICK page \in Tops : \A p \in Tops : page \subseteq p => p = page
    <2>1. {} \in Tops
      BY FS_EmptySet, ActivityAssumption
    <2>2. Left \subseteq SUBSET Rest(w) /\ Left # {}
      BY <2>1
    <2> HIDE DEF Left
    <2>3. PICK A \in Left : \A B \in Left : B \subseteq A => B = A
      BY <1>1, <2>2, NoneWithin
    <2>4. PICK page \in Tops : A = Rest(w) \ page
      BY <2>3 DEF Left
    <2>5. ASSUME NEW p \in Tops, page \subseteq p PROVE p = page
      <3>1. Rest(w) \ p \in Left /\ Rest(w) \ p \subseteq A
        BY <2>4, <2>5 DEF Left
      <3>2. Rest(w) \ p = Rest(w) \ page
        BY <2>3, <2>4, <3>1
      <3> QED BY <3>2
    <2> QED BY <2>4, <2>5
  <1>3. page \in SUBSET Rest(w) /\ IsFiniteSet(page) /\ Cardinality(page) \in Nat /\ Top(page)
    BY <1>1, <1>2, FS_Subset, FS_CardinalityType
  <1>4. page = Rest(w) \/ Cardinality(page) = PageLimit
    <2> SUFFICES ASSUME page # Rest(w), Cardinality(page) # PageLimit PROVE FALSE
      OBVIOUS
    <2>1. /\ Rest(w) \ page \subseteq LogRow /\ Rest(w) \ page # {} /\ IsFiniteSet(Rest(w) \ page)
          /\ \A r, s \in Rest(w) \ page : r.tag = s.tag => r = s
      BY <1>1, <1>3, FS_Subset
    <2>2. PICK m \in Rest(w) \ page : \A r \in (Rest(w) \ page) \ {m} : Newer(m, r)
      <3> DEFINE S == Rest(w) \ page
      <3>1. /\ S \subseteq LogRow /\ S # {} /\ IsFiniteSet(S)
            /\ \A r, s \in S : r.tag = s.tag => r = s
        BY <2>1
      <3> HIDE DEF S
      <3>2. \E m \in S : \A r \in S \ {m} : Newer(m, r)
        BY <3>1, Extremes
      <3> QED BY <3>2 DEF S
    <2>3. Cardinality(page \cup {m}) = Cardinality(page) + 1
      BY <1>3, <2>2, FS_AddElement
    <2>4. Cardinality(page \cup {m}) <= PageLimit
      BY <1>3, <2>3, ActivityAssumption
    <2>5. \A r \in page \cup {m}, s \in Rest(w) \ (page \cup {m}) : Newer(r, s)
      BY <1>3, <2>2
    <2>6. page \cup {m} \in Tops
      BY <1>3, <2>2, <2>4, <2>5
    <2> QED BY <1>2, <2>2, <2>6
  <1>5. Page(w, page)
    BY <1>3, <1>4 DEF Page
  <1>6. CASE Cardinality(page) # PageLimit
    BY <1>3, <1>5, <1>6 DEF HasPage
  <1>7. CASE Cardinality(page) = PageLimit
    <2>1. page # {}
      BY <1>7, FS_EmptySet, ActivityAssumption
    <2>2. PICK last \in page : \A r \in page \ {last} : Newer(r, last)
      <3>1. page \subseteq LogRow /\ \A r, s \in page : r.tag = s.tag => r = s
        BY <1>1, <1>3
      <3> QED BY <2>1, <3>1, <1>3, Extremes
    <2>3. last \in rows
      BY <1>1, <1>3, <2>2
    <2> QED BY <1>3, <1>5, <1>7, <2>2, <2>3 DEF HasPage
  <1> QED BY <1>6, <1>7

\* The log has a next page for whoever asks, whatever cursor they hold: since no
\* two rows share an id, "the rows below the cursor, newest first, up to the limit"
\* is never in want of an order.
THEOREM PagesExist == ActivitySpec => [](\A w : HasPage(w))
  <1>1. ActivityInv => \A w : HasPage(w)
    BY PageThere DEF ActivityInv
  <1> QED BY <1>1, ActivityCorrect, PTL

-----------------------------------------------------------------------------
(* GroupConsent. A handler writes from a row it loaded in an earlier       *)
(* transaction. What it loaded stays good because a cosigned row changes   *)
(* in one way only: a ratification deletes it, and leaves a grant of its   *)
(* id behind, on which every later INSERT fails. The inductive invariant   *)
(* says that.                                                              *)

AnyBody == Bodies \cup {SomeBody}
PendingRows == [status : {"unused", "proposed", "cosigned", "deleted"}, body : AnyBody,
                cosigner : TargetKeys \cup {"none"}, lapsed : BOOLEAN]
Keys == TargetKeys \cup {SourceKey, RecoveryKey}
GrantRows == [status : {"absent", "active", "revoked"}, body : AnyBody,
              a : Keys \cup {"none"}, b : Keys \cup {"none"}, revoker : Keys \cup {"none"},
              recovery : BOOLEAN, expired : BOOLEAN]

JobRows == [op : {"idle", "cosign", "ratify", "revoke"}, pending : Pendings \cup {NoJob.pending},
            key : Keys \cup {"none"}, grant : Grants \cup {SomeBody.grant}, row : PendingRows]

ConsentTypeOK ==
    /\ cjob \in [ConsentJobs -> JobRows]
    /\ pending \in [Pendings -> PendingRows]
    /\ grant \in [Grants -> GrantRows]
    /\ signed \subseteq Keys \X Bodies

\* A row carries the signatures its status claims.
RowsSigned ==
    \A p \in Pendings :
        /\ pending[p].status # "unused" => <<SourceKey, pending[p].body>> \in signed
        /\ pending[p].status = "cosigned" => <<pending[p].cosigner, pending[p].body>> \in signed

\* A row goes only when a grant of its id comes.
DeletedIsGranted ==
    \A p \in Pendings :
        pending[p].status = "deleted" => grant[pending[p].body.grant].status # "absent"

\* A cosigner has signed the row it is about to update.
CosignJobs ==
    \A j \in ConsentJobs :
        cjob[j].op = "cosign" =>
            /\ cjob[j].pending \in Pendings /\ cjob[j].key \in TargetKeys
            /\ pending[cjob[j].pending].status # "unused"
            /\ <<cjob[j].key, pending[cjob[j].pending].body>> \in signed

\* A ratifier holds the row as it still is, or as it was when it went.
RatifyJobs ==
    \A j \in ConsentJobs :
        cjob[j].op = "ratify" =>
            /\ cjob[j].pending \in Pendings
            /\ pending[cjob[j].pending].status \in {"cosigned", "deleted"}
            /\ cjob[j].row.body = pending[cjob[j].pending].body
            /\ cjob[j].row.cosigner = pending[cjob[j].pending].cosigner
            /\ <<cjob[j].row.cosigner, cjob[j].row.body>> \in signed

RevokeJobs ==
    \A j \in ConsentJobs :
        cjob[j].op = "revoke" => cjob[j].grant \in Grants /\ cjob[j].key \in Keys

ConsentInv ==
    /\ ConsentTypeOK /\ RowsSigned /\ DeletedIsGranted
    /\ CosignJobs /\ RatifyJobs /\ RevokeJobs
-----------------------------------------------------------------------------
(* What the operators of the model build.                                  *)

LEMMA Rows ==
    /\ NoPending \in PendingRows /\ NoGrant \in GrantRows /\ NoJob \in JobRows
    /\ \A b \in Bodies : Proposed(b) \in PendingRows /\ b.grant \in Grants /\ b \in AnyBody
    /\ SourceKey \notin TargetKeys /\ RecoveryKey \notin TargetKeys /\ SourceKey # RecoveryKey
  BY ConsentAssumption DEF NoPending, PendingRows, NoGrant, GrantRows, NoJob, JobRows, AnyBody,
                           Keys, Proposed, Bodies, SourceKey, RecoveryKey

\* What a request keeps of what it loads.
LEMMA Loaded ==
    /\ \A p \in Pendings, k \in Keys : [NoJob EXCEPT !.op = "cosign", !.pending = p, !.key = k] \in JobRows
    /\ \A p \in Pendings, r \in PendingRows :
          [NoJob EXCEPT !.op = "ratify", !.pending = p, !.row = r] \in JobRows
    /\ \A g \in Grants, k \in Keys : [NoJob EXCEPT !.op = "revoke", !.grant = g, !.key = k] \in JobRows
  BY Rows DEF NoJob, JobRows, NoPending

\* The grant a ratification inserts.
LEMMA Granted ==
    ASSUME NEW b \in Bodies, NEW k \in TargetKeys \cup {"none"}
    PROVE  [NoGrant EXCEPT !.status = "active", !.body = b, !.a = SourceKey, !.b = k] \in GrantRows
  BY Rows DEF NoGrant, GrantRows, Keys

LEMMA ConsentInitInv == ConsentInit => ConsentInv
  <1> SUFFICES ASSUME ConsentInit PROVE ConsentInv
    OBVIOUS
  <1>1. ConsentTypeOK
    BY Rows DEF ConsentInit, ConsentTypeOK
  <1>2. /\ \A p \in Pendings : pending[p].status = "unused"
        /\ \A j \in ConsentJobs : cjob[j].op = "idle"
    BY DEF ConsentInit, NoPending, NoJob
  <1> QED BY <1>1, <1>2 DEF ConsentInv, RowsSigned, DeletedIsGranted, CosignJobs, RatifyJobs,
                            RevokeJobs

LEMMA ProposeInv ==
    ASSUME ConsentInv, NEW p \in Pendings, NEW b \in Bodies, Propose(p, b)
    PROVE  ConsentInv'
  <1>1. ConsentTypeOK'
    BY Rows DEF Propose, ConsentInv, ConsentTypeOK, Keys
  <1>2. /\ Proposed(b).status = "proposed" /\ Proposed(b).body = b
        /\ pending'[p] = Proposed(b)
        /\ \A q \in Pendings \ {p} : pending'[q] = pending[q]
    BY DEF Propose, Proposed, NoPending, ConsentInv, ConsentTypeOK
  <1>3. signed \subseteq signed' /\ <<SourceKey, b>> \in signed' /\ UNCHANGED <<grant, cjob>>
    BY DEF Propose
  <1>4. pending[p].status = "unused"
    BY DEF Propose
  <1>5. RowsSigned' /\ DeletedIsGranted'
    BY <1>2, <1>3 DEF ConsentInv, RowsSigned, DeletedIsGranted
  <1>6. CosignJobs' /\ RatifyJobs' /\ RevokeJobs'
    BY <1>2, <1>3, <1>4 DEF ConsentInv, CosignJobs, RatifyJobs, RevokeJobs
  <1> QED BY <1>1, <1>5, <1>6 DEF ConsentInv

LEMMA CosignLoadInv ==
    ASSUME ConsentInv, NEW j \in ConsentJobs, NEW p \in Pendings, NEW k \in TargetKeys,
           CosignLoad(j, p, k)
    PROVE  ConsentInv'
  <1> DEFINE job == [NoJob EXCEPT !.op = "cosign", !.pending = p, !.key = k]
  <1>1. job \in JobRows /\ k \in Keys /\ pending[p].status = "proposed"
    BY Loaded, Rows DEF Keys, CosignLoad, Cosignable
  <1>2. <<SourceKey, pending[p].body>> \in signed
    BY <1>1 DEF ConsentInv, RowsSigned
  <1>3. ConsentTypeOK'
    BY <1>1, <1>2 DEF CosignLoad, ConsentInv, ConsentTypeOK
  <1>4. /\ job.op = "cosign" /\ job.pending = p /\ job.key = k
        /\ cjob'[j] = job /\ \A i \in ConsentJobs \ {j} : cjob'[i] = cjob[i]
    BY DEF CosignLoad, NoJob, ConsentInv, ConsentTypeOK
  <1>5. signed \subseteq signed' /\ <<k, pending[p].body>> \in signed' /\ UNCHANGED <<pending, grant>>
    BY DEF CosignLoad
  <1> HIDE DEF job
  <1>6. RowsSigned' /\ DeletedIsGranted'
    BY <1>5 DEF ConsentInv, RowsSigned, DeletedIsGranted
  <1>7. CosignJobs' /\ RatifyJobs' /\ RevokeJobs'
    BY <1>1, <1>4, <1>5 DEF ConsentInv, CosignJobs, RatifyJobs, RevokeJobs
  <1> QED BY <1>3, <1>6, <1>7 DEF ConsentInv

\* A request that ends leaves the others alone.
LEMMA Ended ==
    ASSUME ConsentTypeOK, NEW j \in ConsentJobs, Finish(j)
    PROVE  /\ cjob' \in [ConsentJobs -> JobRows] /\ cjob'[j].op = "idle"
           /\ \A i \in ConsentJobs \ {j} : cjob'[i] = cjob[i]
  BY Rows DEF Finish, NoJob, ConsentTypeOK

\* What requests hold of rows outlives what a step of another does to the rows.
LEMMA OthersKeepJobs ==
    ASSUME ConsentInv, NEW j \in ConsentJobs, cjob'[j].op = "idle",
           \A i \in ConsentJobs \ {j} : cjob'[i] = cjob[i],
           signed' = signed,
           \A q \in Pendings :
              /\ pending'[q].body = pending[q].body
              /\ pending'[q].status = "unused" => pending[q].status = "unused"
              /\ pending[q].status \in {"cosigned", "deleted"} =>
                    pending'[q].status \in {"cosigned", "deleted"} /\ pending'[q].cosigner = pending[q].cosigner
    PROVE  CosignJobs' /\ RatifyJobs' /\ RevokeJobs'
  <1>1. \A i \in ConsentJobs : cjob'[i].op # "idle" => cjob'[i] = cjob[i]
    OBVIOUS
  <1>2. CosignJobs'
    <2> SUFFICES ASSUME NEW i \in ConsentJobs, cjob'[i].op = "cosign"
                 PROVE  /\ cjob'[i].pending \in Pendings /\ cjob'[i].key \in TargetKeys
                        /\ pending'[cjob'[i].pending].status # "unused"
                        /\ <<cjob'[i].key, pending'[cjob'[i].pending].body>> \in signed
      BY DEF CosignJobs
    <2>1. cjob'[i] = cjob[i] /\ cjob[i].op = "cosign"
      BY <1>1
    <2>2. /\ cjob[i].pending \in Pendings /\ cjob[i].key \in TargetKeys
          /\ pending[cjob[i].pending].status # "unused"
          /\ <<cjob[i].key, pending[cjob[i].pending].body>> \in signed
      BY <2>1 DEF ConsentInv, CosignJobs
    <2> QED BY <2>1, <2>2
  <1>3. RatifyJobs'
    <2> SUFFICES ASSUME NEW i \in ConsentJobs, cjob'[i].op = "ratify"
                 PROVE  /\ cjob'[i].pending \in Pendings
                        /\ pending'[cjob'[i].pending].status \in {"cosigned", "deleted"}
                        /\ cjob'[i].row.body = pending'[cjob'[i].pending].body
                        /\ cjob'[i].row.cosigner = pending'[cjob'[i].pending].cosigner
                        /\ <<cjob'[i].row.cosigner, cjob'[i].row.body>> \in signed
      BY DEF RatifyJobs
    <2>1. cjob'[i] = cjob[i] /\ cjob[i].op = "ratify"
      BY <1>1
    <2>2. /\ cjob[i].pending \in Pendings
          /\ pending[cjob[i].pending].status \in {"cosigned", "deleted"}
          /\ cjob[i].row.body = pending[cjob[i].pending].body
          /\ cjob[i].row.cosigner = pending[cjob[i].pending].cosigner
          /\ <<cjob[i].row.cosigner, cjob[i].row.body>> \in signed
      BY <2>1 DEF ConsentInv, RatifyJobs
    <2> QED BY <2>1, <2>2
  <1>4. RevokeJobs'
    BY <1>1 DEF ConsentInv, RevokeJobs
  <1> QED BY <1>2, <1>3, <1>4

LEMMA CosignUpdateInv ==
    ASSUME ConsentInv, NEW j \in ConsentJobs, CosignUpdate(j)
    PROVE  ConsentInv'
  <1> DEFINE p == cjob[j].pending
             row == [pending[p] EXCEPT !.status = "cosigned", !.cosigner = cjob[j].key]
  <1>1. /\ p \in Pendings /\ cjob[j].key \in TargetKeys
        /\ <<cjob[j].key, pending[p].body>> \in signed
    BY DEF CosignUpdate, ConsentInv, CosignJobs
  <1>2. /\ cjob' \in [ConsentJobs -> JobRows] /\ cjob'[j].op = "idle"
        /\ \A i \in ConsentJobs \ {j} : cjob'[i] = cjob[i]
    BY Ended DEF CosignUpdate, ConsentInv
  <1>3. row \in PendingRows /\ row.status = "cosigned" /\ row.cosigner = cjob[j].key
        /\ row.body = pending[p].body
    BY <1>1 DEF ConsentInv, ConsentTypeOK, PendingRows
  <1>4. CASE pending[p].status = "proposed"
    <2>1. /\ pending' = [pending EXCEPT ![p] = row]
          /\ UNCHANGED <<grant, signed>>
      BY <1>4, <1>1 DEF CosignUpdate, CosignGuard
    <2>2. /\ pending' \in [Pendings -> PendingRows] /\ pending'[p] = row
          /\ \A q \in Pendings \ {p} : pending'[q] = pending[q]
      BY <2>1, <1>1, <1>3 DEF ConsentInv, ConsentTypeOK
    <2>3. ConsentTypeOK' BY <2>1, <2>2, <1>2 DEF ConsentInv, ConsentTypeOK
    <2> HIDE DEF row
    <2>4. \A q \in Pendings : /\ pending'[q].body = pending[q].body
                              /\ pending'[q].status = "deleted" => pending[q].status = "deleted"
                              /\ pending'[q].status = "unused" => pending[q].status = "unused"
                              /\ pending[q].status \in {"cosigned", "deleted"} => pending'[q] = pending[q]
      BY <1>3, <1>4, <2>2
    <2>5. RowsSigned'
      <3> SUFFICES ASSUME NEW q \in Pendings
                   PROVE  /\ pending'[q].status # "unused" => <<SourceKey, pending'[q].body>> \in signed
                          /\ pending'[q].status = "cosigned" => <<pending'[q].cosigner, pending'[q].body>> \in signed
        BY <2>1 DEF RowsSigned
      <3>1. CASE q = p
        BY <1>1, <1>3, <1>4, <2>2, <3>1 DEF ConsentInv, RowsSigned
      <3>2. CASE q # p
        BY <2>2, <3>2 DEF ConsentInv, RowsSigned
      <3> QED BY <3>1, <3>2
    <2>6. DeletedIsGranted'
      BY <2>1, <2>4 DEF ConsentInv, DeletedIsGranted
    <2>7. CosignJobs' /\ RatifyJobs' /\ RevokeJobs'
      BY <1>2, <2>1, <2>4, OthersKeepJobs
    <2> QED BY <2>3, <2>5, <2>6, <2>7 DEF ConsentInv
  <1>5. CASE pending[p].status # "proposed"
    <2>1. UNCHANGED <<pending, grant, signed>>
      BY <1>5 DEF CosignUpdate, CosignGuard
    <2> QED BY <1>2, <2>1 DEF ConsentInv, ConsentTypeOK, RowsSigned, DeletedIsGranted,
                              CosignJobs, RatifyJobs, RevokeJobs
  <1> QED BY <1>4, <1>5

LEMMA RatifyLoadInv ==
    ASSUME ConsentInv, NEW j \in ConsentJobs, NEW p \in Pendings, RatifyLoad(j, p)
    PROVE  ConsentInv'
  <1> DEFINE job == [NoJob EXCEPT !.op = "ratify", !.pending = p, !.row = pending[p]]
  <1>1. job \in JobRows /\ pending[p].status = "cosigned" /\ UNCHANGED <<pending, grant, signed>>
    BY Loaded DEF RatifyLoad, Ratifiable, ConsentInv, ConsentTypeOK, Keys
  <1>2. ConsentTypeOK'
    BY <1>1 DEF RatifyLoad, ConsentInv, ConsentTypeOK
  <1>3. /\ job.op = "ratify" /\ job.pending = p /\ job.row = pending[p]
        /\ cjob'[j] = job /\ \A i \in ConsentJobs \ {j} : cjob'[i] = cjob[i]
    BY DEF RatifyLoad, NoJob, ConsentInv, ConsentTypeOK
  <1> HIDE DEF job
  <1>4. RowsSigned' /\ DeletedIsGranted'
    BY <1>1 DEF ConsentInv, RowsSigned, DeletedIsGranted
  <1>5. CosignJobs' /\ RevokeJobs'
    BY <1>1, <1>3 DEF ConsentInv, CosignJobs, RevokeJobs
  <1>6. RatifyJobs'
    <2>1. <<pending[p].cosigner, pending[p].body>> \in signed
      BY <1>1 DEF ConsentInv, RowsSigned
    <2> SUFFICES ASSUME NEW i \in ConsentJobs, cjob'[i].op = "ratify"
                 PROVE  /\ cjob'[i].pending \in Pendings
                        /\ pending[cjob'[i].pending].status \in {"cosigned", "deleted"}
                        /\ cjob'[i].row.body = pending[cjob'[i].pending].body
                        /\ cjob'[i].row.cosigner = pending[cjob'[i].pending].cosigner
                        /\ <<cjob'[i].row.cosigner, cjob'[i].row.body>> \in signed
      BY <1>1 DEF RatifyJobs
    <2>2. CASE i = j
      BY <1>1, <1>3, <2>1, <2>2
    <2>3. CASE i # j
      <3>1. cjob'[i] = cjob[i]
        BY <1>3, <2>3
      <3> QED BY <3>1 DEF ConsentInv, RatifyJobs
    <2> QED BY <2>2, <2>3
  <1> QED BY <1>2, <1>4, <1>5, <1>6 DEF ConsentInv

\* What a ratification that inserts writes.
LEMMA Promoted ==
    ASSUME ConsentInv, NEW j \in ConsentJobs, RatifyPromote(j),
           Insertable(cjob[j].row.body.grant)
    PROVE  LET p == cjob[j].pending
               b == cjob[j].row.body
           IN  /\ p \in Pendings /\ pending[p].status = "cosigned"
               /\ b \in Bodies /\ b = pending[p].body
               /\ {<<SourceKey, b>>, <<cjob[j].row.cosigner, b>>} \subseteq signed
               /\ pending' \in [Pendings -> PendingRows] /\ grant' \in [Grants -> GrantRows]
               /\ pending'[p].status = "deleted" /\ pending'[p].body = b
               /\ pending'[p].cosigner = pending[p].cosigner
               /\ \A q \in Pendings \ {p} : pending'[q] = pending[q]
               /\ b.grant \in Grants /\ grant[b.grant].status = "absent"
               /\ grant'[b.grant].status = "active" /\ grant'[b.grant].body = b
               /\ grant'[b.grant].a = SourceKey /\ grant'[b.grant].b = pending[p].cosigner
               /\ cjob[j].row.cosigner = pending[p].cosigner
               /\ \A g \in Grants \ {b.grant} : grant'[g] = grant[g]
  <1> DEFINE p == cjob[j].pending
             b == cjob[j].row.body
             k == cjob[j].row.cosigner
             gone == [pending[p] EXCEPT !.status = "deleted"]
             new == [NoGrant EXCEPT !.status = "active", !.body = b, !.a = SourceKey, !.b = k]
  <1>1. /\ p \in Pendings /\ pending[p].status \in {"cosigned", "deleted"}
        /\ b = pending[p].body /\ k = pending[p].cosigner /\ <<k, b>> \in signed
    BY DEF RatifyPromote, ConsentInv, RatifyJobs
  <1>2. <<SourceKey, b>> \in signed /\ b \in Bodies /\ k \in TargetKeys \cup {"none"}
    BY <1>1 DEF ConsentInv, ConsentTypeOK, RowsSigned, PendingRows
  <1>3. b.grant \in Grants /\ grant[b.grant].status = "absent"
    BY <1>2, Rows DEF Insertable
  <1>4. pending[p].status = "cosigned"
    BY <1>1, <1>3 DEF ConsentInv, DeletedIsGranted
  <1>5. /\ gone \in PendingRows /\ gone.status = "deleted"
        /\ gone.body = pending[p].body /\ gone.cosigner = pending[p].cosigner
    BY <1>1 DEF ConsentInv, ConsentTypeOK, PendingRows
  <1>6. /\ new \in GrantRows /\ new.status = "active" /\ new.body = b
        /\ new.a = SourceKey /\ new.b = k
    <2>1. new \in GrantRows BY <1>2, Granted
    <2>2. new.status = "active" /\ new.body = b /\ new.a = SourceKey /\ new.b = k
      BY DEF NoGrant
    <2> QED BY <2>1, <2>2
  <1>7. pending' = [pending EXCEPT ![p] = gone] /\ grant' = [grant EXCEPT ![b.grant] = new]
    BY DEF RatifyPromote
  <1>8. /\ pending' \in [Pendings -> PendingRows] /\ pending'[p] = gone
        /\ \A q \in Pendings \ {p} : pending'[q] = pending[q]
    BY <1>1, <1>5, <1>7 DEF ConsentInv, ConsentTypeOK
  <1>9. /\ grant' \in [Grants -> GrantRows] /\ grant'[b.grant] = new
        /\ \A g \in Grants \ {b.grant} : grant'[g] = grant[g]
    BY <1>3, <1>6, <1>7 DEF ConsentInv, ConsentTypeOK
  <1> QED BY <1>1, <1>2, <1>3, <1>4, <1>5, <1>6, <1>8, <1>9

LEMMA RatifyPromoteInv ==
    ASSUME ConsentInv, NEW j \in ConsentJobs, RatifyPromote(j)
    PROVE  ConsentInv'
  <1>1. /\ cjob' \in [ConsentJobs -> JobRows] /\ cjob'[j].op = "idle"
        /\ \A i \in ConsentJobs \ {j} : cjob'[i] = cjob[i]
        /\ UNCHANGED signed
    BY Ended DEF RatifyPromote, ConsentInv
  <1>2. CASE Insertable(cjob[j].row.body.grant)
    <2> DEFINE p == cjob[j].pending
               b == cjob[j].row.body
    <2>1. /\ p \in Pendings /\ b \in Bodies
          /\ pending[p].status = "cosigned" /\ b = pending[p].body
          /\ pending' \in [Pendings -> PendingRows] /\ grant' \in [Grants -> GrantRows]
          /\ pending'[p].status = "deleted" /\ pending'[p].body = b
          /\ pending'[p].cosigner = pending[p].cosigner
          /\ \A q \in Pendings \ {p} : pending'[q] = pending[q]
          /\ b.grant \in Grants /\ grant'[b.grant].status = "active"
          /\ \A g \in Grants \ {b.grant} : grant'[g] = grant[g]
      BY <1>2, Promoted
    <2>2. \A q \in Pendings :
             /\ pending'[q].body = pending[q].body /\ pending'[q].cosigner = pending[q].cosigner
             /\ pending'[q].status = "unused" => pending[q].status = "unused"
             /\ pending[q].status \in {"cosigned", "deleted"} =>
                   pending'[q].status \in {"cosigned", "deleted"}
      BY <2>1
    <2> HIDE DEF p, b
    <2>3. ConsentTypeOK'
      BY <1>1, <2>1 DEF ConsentInv, ConsentTypeOK
    <2>4. RowsSigned'
      BY <1>1, <2>1 DEF ConsentInv, RowsSigned
    <2>5. CosignJobs' /\ RatifyJobs' /\ RevokeJobs'
      BY <1>1, <2>2, OthersKeepJobs
    <2>6. DeletedIsGranted'
      <3> SUFFICES ASSUME NEW q \in Pendings, pending'[q].status = "deleted"
                   PROVE  grant'[pending'[q].body.grant].status # "absent"
        BY DEF DeletedIsGranted
      <3>1. CASE q = p
        BY <2>1, <3>1
      <3>2. CASE q # p
        <4>1. pending'[q] = pending[q] /\ grant[pending[q].body.grant].status # "absent"
          BY <2>1, <3>2 DEF ConsentInv, DeletedIsGranted
        <4>2. pending[q].body.grant \in Grants
          BY <4>1, Rows DEF ConsentInv, ConsentTypeOK, RowsSigned
        <4> QED BY <2>1, <4>1, <4>2
      <3> QED BY <3>1, <3>2
    <2> QED BY <2>3, <2>4, <2>5, <2>6 DEF ConsentInv
  <1>3. CASE ~Insertable(cjob[j].row.body.grant)
    <2>1. UNCHANGED <<pending, grant, signed>>
      BY <1>3 DEF RatifyPromote
    <2> QED BY <1>1, <2>1 DEF ConsentInv, ConsentTypeOK, RowsSigned, DeletedIsGranted,
                              CosignJobs, RatifyJobs, RevokeJobs
  <1> QED BY <1>2, <1>3

LEMMA RevokeLoadInv ==
    ASSUME ConsentInv, NEW j \in ConsentJobs, NEW g \in Grants, NEW k \in Keys, RevokeLoad(j, g, k)
    PROVE  ConsentInv'
  <1> DEFINE job == [NoJob EXCEPT !.op = "revoke", !.grant = g, !.key = k]
  <1>1. job \in JobRows /\ UNCHANGED <<pending, grant, signed>>
    BY Loaded DEF RevokeLoad
  <1>2. ConsentTypeOK'
    BY <1>1 DEF RevokeLoad, ConsentInv, ConsentTypeOK
  <1>3. /\ job.op = "revoke" /\ job.grant = g /\ job.key = k
        /\ cjob'[j] = job /\ \A i \in ConsentJobs \ {j} : cjob'[i] = cjob[i]
    BY DEF RevokeLoad, NoJob, ConsentInv, ConsentTypeOK
  <1> HIDE DEF job
  <1>4. RowsSigned' /\ DeletedIsGranted'
    BY <1>1 DEF ConsentInv, RowsSigned, DeletedIsGranted
  <1>5. CosignJobs' /\ RatifyJobs' /\ RevokeJobs'
    BY <1>1, <1>3 DEF ConsentInv, CosignJobs, RatifyJobs, RevokeJobs
  <1> QED BY <1>2, <1>4, <1>5 DEF ConsentInv

\* A write to a grant that is there leaves it there.
LEMMA GrantsOnly ==
    ASSUME ConsentInv, UNCHANGED <<pending, signed>>, grant' \in [Grants -> GrantRows],
           \A g \in Grants : grant[g].status # "absent" => grant'[g].status # "absent",
           cjob' \in [ConsentJobs -> JobRows],
           \A i \in ConsentJobs : cjob'[i].op # "idle" => cjob'[i] = cjob[i]
    PROVE  ConsentInv'
  <1>1. ConsentTypeOK' /\ RowsSigned'
    BY DEF ConsentInv, ConsentTypeOK, RowsSigned
  <1>2. \A p \in Pendings : pending[p].status = "deleted" => pending[p].body.grant \in Grants
    BY Rows DEF ConsentInv, ConsentTypeOK, RowsSigned
  <1>3. DeletedIsGranted'
    BY <1>2 DEF ConsentInv, DeletedIsGranted
  <1>4. CosignJobs' /\ RatifyJobs' /\ RevokeJobs'
    BY DEF ConsentInv, CosignJobs, RatifyJobs, RevokeJobs
  <1> QED BY <1>1, <1>3, <1>4 DEF ConsentInv

\* What a revocation that finds its grant active writes.
LEMMA Revoked ==
    ASSUME ConsentInv, NEW j \in ConsentJobs, RevokeUpdate(j)
    PROVE  LET g == cjob[j].grant IN
           /\ grant' \in [Grants -> GrantRows]
           /\ \A h \in Grants : grant'[h] # grant[h] =>
                 grant[h].status = "active" /\ grant'[h].status = "revoked"
  <1> DEFINE g == cjob[j].grant
             own == IF cjob[j].key = RecoveryKey THEN TRUE ELSE FALSE
             new == [grant[g] EXCEPT !.status = "revoked", !.revoker = cjob[j].key,
                                     !.recovery = own]
  <1>1. g \in Grants /\ cjob[j].key \in Keys
    BY DEF RevokeUpdate, ConsentInv, RevokeJobs
  <1>2. own = (cjob[j].key = RecoveryKey) /\ own \in BOOLEAN
    OBVIOUS
  <1>3. grant[g] \in GrantRows
    BY <1>1 DEF ConsentInv, ConsentTypeOK
  <1>4. new \in GrantRows /\ new.status = "revoked"
    BY <1>1, <1>2, <1>3 DEF GrantRows
  <1>5. grant[g].status = "active" => grant' = [grant EXCEPT ![g] = new]
    BY <1>2 DEF RevokeUpdate
  <1>6. grant[g].status # "active" => grant' = grant
    BY DEF RevokeUpdate
  <1> HIDE DEF new, own
  <1> QED BY <1>1, <1>4, <1>5, <1>6 DEF ConsentInv, ConsentTypeOK

LEMMA RevokeUpdateInv ==
    ASSUME ConsentInv, NEW j \in ConsentJobs, RevokeUpdate(j)
    PROVE  ConsentInv'
  <1>1. /\ cjob' \in [ConsentJobs -> JobRows] /\ cjob'[j].op = "idle"
        /\ \A i \in ConsentJobs \ {j} : cjob'[i] = cjob[i]
        /\ UNCHANGED <<pending, signed>>
    BY Ended DEF RevokeUpdate, ConsentInv
  <1> QED BY <1>1, Revoked, GrantsOnly

LEMMA WindowClosesInv ==
    ASSUME ConsentInv, NEW p \in Pendings, WindowCloses(p)
    PROVE  ConsentInv'
  <1> DEFINE row == [pending[p] EXCEPT !.lapsed = TRUE]
  <1>1. /\ row \in PendingRows /\ row.status = pending[p].status /\ row.body = pending[p].body
        /\ row.cosigner = pending[p].cosigner
    BY DEF ConsentInv, ConsentTypeOK, PendingRows
  <1>2. /\ pending' \in [Pendings -> PendingRows] /\ pending'[p] = row
        /\ \A q \in Pendings \ {p} : pending'[q] = pending[q]
        /\ UNCHANGED <<grant, cjob, signed>>
    BY <1>1 DEF WindowCloses, ConsentInv, ConsentTypeOK
  <1> HIDE DEF row
  <1>3. \A q \in Pendings : /\ pending'[q].status = pending[q].status
                            /\ pending'[q].body = pending[q].body
                            /\ pending'[q].cosigner = pending[q].cosigner
    BY <1>1, <1>2
  <1>4. ConsentTypeOK' /\ RowsSigned' /\ DeletedIsGranted'
    BY <1>2, <1>3 DEF ConsentInv, ConsentTypeOK, RowsSigned, DeletedIsGranted
  <1>5. CosignJobs'
    BY <1>2, <1>3 DEF ConsentInv, CosignJobs
  <1>6. RatifyJobs'
    <2> SUFFICES ASSUME NEW i \in ConsentJobs, cjob[i].op = "ratify"
                 PROVE  /\ cjob[i].pending \in Pendings
                        /\ pending'[cjob[i].pending].status \in {"cosigned", "deleted"}
                        /\ cjob[i].row.body = pending'[cjob[i].pending].body
                        /\ cjob[i].row.cosigner = pending'[cjob[i].pending].cosigner
                        /\ <<cjob[i].row.cosigner, cjob[i].row.body>> \in signed
      BY <1>2 DEF RatifyJobs
    <2>1. /\ cjob[i].pending \in Pendings
          /\ pending[cjob[i].pending].status \in {"cosigned", "deleted"}
          /\ cjob[i].row.body = pending[cjob[i].pending].body
          /\ cjob[i].row.cosigner = pending[cjob[i].pending].cosigner
          /\ <<cjob[i].row.cosigner, cjob[i].row.body>> \in signed
      BY DEF ConsentInv, RatifyJobs
    <2> QED BY <1>3, <2>1
  <1>7. RevokeJobs'
    BY <1>2 DEF ConsentInv, RevokeJobs
  <1> QED BY <1>4, <1>5, <1>6, <1>7 DEF ConsentInv

LEMMA GrantExpiresInv ==
    ASSUME ConsentInv, NEW g \in Grants, GrantExpires(g)
    PROVE  ConsentInv'
  <1>1. /\ [grant[g] EXCEPT !.expired = TRUE] \in GrantRows
        /\ [grant[g] EXCEPT !.expired = TRUE].status = grant[g].status
    BY DEF ConsentInv, ConsentTypeOK, GrantRows
  <1>2. grant' = [grant EXCEPT ![g] = [grant[g] EXCEPT !.expired = TRUE]]
    BY DEF GrantExpires
  <1>3. /\ grant' \in [Grants -> GrantRows]
        /\ \A h \in Grants : grant'[h].status = grant[h].status
    BY <1>1, <1>2 DEF ConsentInv, ConsentTypeOK
  <1> QED BY <1>3, GrantsOnly DEF GrantExpires, ConsentInv, ConsentTypeOK

LEMMA RestartInv ==
    ASSUME ConsentInv, ConsentRestart
    PROVE  ConsentInv'
  <1>1. cjob' \in [ConsentJobs -> JobRows] /\ \A j \in ConsentJobs : cjob'[j].op = "idle"
    BY Rows DEF ConsentRestart, NoJob
  <1> QED BY <1>1, GrantsOnly DEF ConsentRestart, ConsentInv, ConsentTypeOK

LEMMA ConsentStep ==
    ASSUME ConsentInv, [ConsentNext]_consentVars
    PROVE  ConsentInv'
  <1>1. CASE UNCHANGED consentVars
    BY <1>1 DEF consentVars, ConsentInv, ConsentTypeOK, RowsSigned, DeletedIsGranted, CosignJobs,
                RatifyJobs, RevokeJobs
  <1>2. CASE ConsentNext
    BY <1>2, ProposeInv, CosignLoadInv, CosignUpdateInv, RatifyLoadInv, RatifyPromoteInv,
       RevokeLoadInv, RevokeUpdateInv, WindowClosesInv, GrantExpiresInv, RestartInv
       DEF ConsentNext, Keys
  <1> QED BY <1>1, <1>2

(* Rows, grants and requests stay of their types, a row that went left a    *)
(* grant behind, and what a request loaded still describes its row          *)
(* (xgroup_consent.py).                                                     *)
THEOREM ConsentCorrect == ConsentSpec => []ConsentInv
  BY ConsentInitInv, ConsentStep, PTL DEF ConsentSpec

(* A ratification promotes the row it checked, which is still there and     *)
(* unchanged: the grant pins the signers of that row, and both signed the   *)
(* body it records (promote_to_active).                                     *)
THEOREM RatificationsCurrent == ConsentSpec => RatifiedIsCurrent
  <1>1. ASSUME ConsentInv, [ConsentNext]_consentVars, NEW g \in Grants,
               grant[g].status = "absent", grant'[g].status = "active"
        PROVE  /\ \E p \in Pendings :
                     /\ pending[p].status = "cosigned" /\ pending'[p].status = "deleted"
                     /\ pending[p].body = grant'[g].body /\ pending[p].cosigner = grant'[g].b
               /\ {<<grant'[g].a, grant'[g].body>>, <<grant'[g].b, grant'[g].body>>}
                     \subseteq signed
    <2>1. PICK j \in ConsentJobs : RatifyPromote(j)
      <3>1. ASSUME NEW j \in ConsentJobs, RevokeUpdate(j) PROVE FALSE
        BY <1>1, <3>1, Revoked
      <3>2. ASSUME NEW h \in Grants, GrantExpires(h) PROVE FALSE
        BY <1>1, <3>2 DEF GrantExpires, ConsentInv, ConsentTypeOK
      <3> QED BY <1>1, <3>1, <3>2 DEF ConsentNext, consentVars, Propose, CosignLoad, CosignUpdate,
                 RatifyLoad, RevokeLoad, WindowCloses, ConsentRestart
    <2>2. Insertable(cjob[j].row.body.grant)
      BY <1>1, <2>1 DEF RatifyPromote
    <2>3. PICK p \in Pendings, b \in Bodies :
             /\ pending[p].status = "cosigned" /\ pending'[p].status = "deleted"
             /\ b = pending[p].body
             /\ {<<SourceKey, b>>, <<pending[p].cosigner, b>>} \subseteq signed
             /\ grant'[b.grant].body = b /\ grant'[b.grant].a = SourceKey
             /\ grant'[b.grant].b = pending[p].cosigner
             /\ \A h \in Grants \ {b.grant} : grant'[h] = grant[h]
      <3> DEFINE p == cjob[j].pending
                 b == cjob[j].row.body
      <3>1. /\ p \in Pendings /\ b \in Bodies
            /\ pending[p].status = "cosigned" /\ pending'[p].status = "deleted" /\ b = pending[p].body
            /\ {<<SourceKey, b>>, <<cjob[j].row.cosigner, b>>} \subseteq signed
            /\ cjob[j].row.cosigner = pending[p].cosigner
            /\ grant'[b.grant].body = b /\ grant'[b.grant].a = SourceKey
            /\ grant'[b.grant].b = pending[p].cosigner
            /\ \A h \in Grants \ {b.grant} : grant'[h] = grant[h]
        BY <1>1, <2>1, <2>2, Promoted
      <3> HIDE DEF p, b
      <3>2. {<<SourceKey, b>>, <<pending[p].cosigner, b>>} \subseteq signed
        BY <3>1
      <3> QED BY <3>1, <3>2
    <2>4. g = b.grant
      BY <1>1, <2>3
    <2> QED BY <2>3, <2>4
  <1>2. ConsentInv /\ [ConsentNext]_consentVars =>
           \A g \in Grants :
              grant[g].status = "absent" /\ grant'[g].status = "active" =>
                 /\ \E p \in Pendings :
                       /\ pending[p].status = "cosigned" /\ pending'[p].status = "deleted"
                       /\ pending[p].body = grant'[g].body /\ pending[p].cosigner = grant'[g].b
                 /\ {<<grant'[g].a, grant'[g].body>>, <<grant'[g].b, grant'[g].body>>}
                       \subseteq signed
    BY <1>1
  <1> QED BY <1>2, ConsentCorrect, PTL DEF ConsentSpec, RatifiedIsCurrent

(* Revocation is final: no request that loaded the grant earlier and no new *)
(* round of signatures changes a revoked grant again (set_revoked).         *)
THEOREM RevocationsFinal == ConsentSpec => RevokedForGood
  <1>1. ASSUME ConsentInv, [ConsentNext]_consentVars, NEW g \in Grants,
               grant[g].status = "revoked", grant'[g] # grant[g]
        PROVE  FALSE
    <2>1. ASSUME NEW j \in ConsentJobs, RevokeUpdate(j) PROVE FALSE
      BY <1>1, <2>1, Revoked
    <2>2. ASSUME NEW h \in Grants, GrantExpires(h) PROVE FALSE
      BY <1>1, <2>2 DEF GrantExpires, ConsentInv, ConsentTypeOK
    <2>3. ASSUME NEW j \in ConsentJobs, RatifyPromote(j) PROVE FALSE
      <3>1. Insertable(cjob[j].row.body.grant)
        BY <1>1, <2>3 DEF RatifyPromote
      <3>2. PICK b \in Bodies : /\ grant[b.grant].status = "absent"
                                /\ \A h \in Grants \ {b.grant} : grant'[h] = grant[h]
        BY <1>1, <2>3, <3>1, Promoted
      <3> QED BY <1>1, <3>2
    <2> QED BY <1>1, <2>1, <2>2, <2>3 DEF ConsentNext, consentVars, Propose, CosignLoad,
               CosignUpdate, RatifyLoad, RevokeLoad, WindowCloses, ConsentRestart
  <1>2. ConsentInv /\ [ConsentNext]_consentVars =>
           \A g \in Grants : grant[g].status = "revoked" => grant'[g] = grant[g]
    BY <1>1
  <1> QED BY <1>2, ConsentCorrect, PTL DEF ConsentSpec, RevokedForGood
=============================================================================
