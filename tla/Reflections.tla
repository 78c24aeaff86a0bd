----------------------------- MODULE Reflections -----------------------------
(***************************************************************************)
(* Submissions to the reflection queue (reflect.py, reflect_submissions in *)
(* store/_sqlite.py): the same context of a session within DedupWindow is  *)
(* answered with the row that is there, any other within RateWindow is     *)
(* refused, and what is left is inserted. The three store calls are three  *)
(* transactions; the moment of the request is taken before the first.      *)
(*                                                                         *)
(* One session: the three queries compare nothing but its id.              *)
(***************************************************************************)
EXTENDS Naturals

CONSTANTS
    Submits,        \* requests, each served once
    Contexts,       \* context hashes
    DedupWindow,    \* DEDUP_WINDOW_MINUTES
    RateWindow,     \* CQ_REFLECT_RATE_LIMIT_HOURS
    MaxHour         \* bound: the clock

ASSUME ReflectionsAssumption == {DedupWindow, RateWindow, MaxHour} \subseteq Nat

VARIABLES
    hour,
    queue,      \* reflect_submissions: request, context, submitted_at
    submit      \* requests: step, context, now, the row answered with; as history, the
                \* requests that were queued when it came

reflectVars == <<hour, queue, submit>>

NoSubmit == [pc |-> "idle", context |-> "none", now |-> 0, to |-> "none", before |-> {}]

ReflectInit ==
    /\ hour = 0
    /\ queue = {}
    /\ submit = [r \in Submits |-> NoSubmit]

(* POST /reflect/submit, valid, of a user that exists.                      *)
SubmitBegin(r, c) ==
    /\ submit[r].pc = "idle"
    /\ submit' = [submit EXCEPT ![r] = [NoSubmit EXCEPT !.pc = "dedup", !.context = c, !.now = hour,
                                                     !.before = {x.request : x \in queue}]]
    /\ UNCHANGED <<hour, queue>>

Within(x, r, window) == x.at + window >= submit[r].now

Leave(r, pc, to) ==
    submit' = [submit EXCEPT ![r].pc = pc, ![r].to = to]

(* find_recent_reflect_dedup: the latest row of this context; checked first,*)
(* so that a repetition does not burn the quota.                            *)
Dedup(r) ==
    LET same == {x \in queue : x.context = submit[r].context /\ Within(x, r, DedupWindow)} IN
    /\ submit[r].pc = "dedup"
    /\ IF same = {} THEN submit' = [submit EXCEPT ![r].pc = "rate"]
       ELSE \E x \in same : /\ \A y \in same : y.at <= x.at
                            /\ Leave(r, "deduped", x.request)
    /\ UNCHANGED <<hour, queue>>

\* Mutant: the limit counts submissions of this context.
CountedOfContext(r) ==
    {x \in queue : x.context = submit[r].context /\ Within(x, r, RateWindow)}

(* count_recent_reflect_submissions: 429 if there is one.                   *)
Counted(r) == {x \in queue : Within(x, r, RateWindow)}

RateCheck(r) ==
    /\ submit[r].pc = "rate"
    /\ IF Counted(r) # {} THEN Leave(r, "limited", "none")
       ELSE submit' = [submit EXCEPT ![r].pc = "insert"]
    /\ UNCHANGED <<hour, queue>>

(* create_reflect_submission: 202.                                          *)
Enqueue(r) ==
    /\ submit[r].pc = "insert"
    /\ queue' = queue \cup {[request |-> r, context |-> submit[r].context, at |-> submit[r].now]}
    /\ Leave(r, "queued", r)
    /\ UNCHANGED hour

(* A store call that raises, or the server dies: no answer.                 *)
SubmitFails(r) ==
    /\ submit[r].pc \in {"dedup", "rate", "insert"}
    /\ Leave(r, "failed", "none")
    /\ UNCHANGED <<hour, queue>>

HourPasses ==
    /\ hour < MaxHour
    /\ hour' = hour + 1
    /\ UNCHANGED <<queue, submit>>

ReflectNext ==
    \/ \E r \in Submits : \/ \E c \in Contexts : SubmitBegin(r, c)
                          \/ Dedup(r) \/ RateCheck(r) \/ Enqueue(r) \/ SubmitFails(r)
    \/ HourPasses

ReflectSpec == ReflectInit /\ [][ReflectNext]_reflectVars

(* The limit is a read followed by a write, so it can only be missed by     *)
(* requests that overlap: of two rows of the session less than a window     *)
(* apart, neither was there when the request of the other came. And an      *)
(* answer names a row that is queued, of the context that was sent.         *)
LimitMissedOnlyAtOnce ==
    /\ \A x, y \in queue :
          y.at <= x.at + RateWindow => x.request \notin submit[y.request].before
    /\ \A r \in Submits : submit[r].to # "none" =>
          \E x \in queue : x.request = submit[r].to /\ x.context = submit[r].context
=============================================================================
