-------------------------- MODULE KnowledgeReview --------------------------
(***************************************************************************)
(* The life of a knowledge unit (KU) on one L2 server: proposal, review by *)
(* the admins, the pending-review tier with its TTL sweeper, hard delete,  *)
(* confirmations and flags.                                                *)
(*                                                                         *)
(* The handlers (review.py, app.py) are coroutines on one event loop.  A   *)
(* store call is awaited on a thread pool (SqliteStore._run_sync) and is   *)
(* one SQLite transaction, so a handler is a sequence of atomic store      *)
(* steps with those of every other handler interleaved between them.  A    *)
(* request is a slot of Requests; pc[r] names the store call it makes next *)
(* or how it was answered, job[r] holds the handler's local variables.     *)
(* SQLite opens a transaction at the first write only: a SELECT that       *)
(* precedes the write inside engine.begin() is a step of its own.          *)
(***************************************************************************)
EXTENDS Naturals, FiniteSets

CONSTANTS
    Units,         \* knowledge-unit ids
    Requests,      \* request slots: every request the model serves
    Users,         \* callers; each may propose, review, confirm and flag
    Enterprise,    \* function from Users: the Enterprise of the user row
    Group,         \* function from Users: the group (L2) of the user row
    PerL2Isolation,\* PER_L2_ISOLATION: admins are scoped by group as well
    AutoApprove,   \* CQ_AUTO_APPROVE_PROPOSE
    ChainMayFail,  \* record_event may fail (the failure is swallowed)
    ServerMayCrash,\* the process may die with requests in flight
    Kinds,         \* the operations callers use, a subset of AllKinds
    InitialRows    \* rows the table may hold when the server starts

AllKinds == {"propose", "submit", "approve", "reject", "sweep", "delete",
             "confirm", "flag"}

Open     == {"pending", "pending_review"}
Terminal == {"approved", "rejected", "dropped"}
Statuses == Open \cup Terminal \cup {"absent"}

Nobody  == "nobody"
Sweeper == "ttl_expired_sweeper"

\* Confidence in steps of 0.05: ceiling 1.0, boost 0.1, penalty 0.15.
Ceiling == 20
Boost   == 2
Penalty == 3

Evidence == [confirmations : Nat, flags : Nat, confidence : 0..Ceiling]
\* A new unit starts with its proposer's confirmation and confidence 0.5.
NoEvidence == [confirmations |-> 1, flags |-> 0, confidence |-> 10]

\* One row of knowledge_units.  owner stands for the tenancy columns, which
\* propose_unit copies from the caller's user row.  ttl abstracts
\* pending_review_expires_at: not set, in the future, or already past.
Row == [status   : Statuses,
        by       : Users \cup {Nobody, Sweeper},
        owner    : Users \cup {Nobody},
        ttl      : {"none", "live", "past"},
        embedded : BOOLEAN,
        evidence : Evidence]

NoRow == [status |-> "absent", by |-> Nobody, owner |-> Nobody,
          ttl |-> "none", embedded |-> FALSE, evidence |-> NoEvidence]

NewRow(user) == [NoRow EXCEPT !.status = "pending", !.owner = user]

ASSUME ConstantsAssumption ==
    /\ Units # {} /\ Users # {}
    /\ {PerL2Isolation, AutoApprove, ChainMayFail, ServerMayCrash} \subseteq BOOLEAN
    /\ Kinds \subseteq AllKinds
    /\ InitialRows \subseteq Row

VARIABLES
    row,     \* the table: row[u] is NoRow when u has no row
    born,    \* ids ever inserted (ids are random: one is never reused)
    pc,      \* the next store call of each request, or its outcome
    job,     \* the handler's locals
    won,     \* requests whose guarded status UPDATE returned True
    events   \* requests whose ku.event is in the reputation chain

vars == <<row, born, pc, job, won, events>>

Working  == {"embed", "auto", "mark", "read", "write", "reread", "lost",
             "hook", "find", "erase", "get", "put", "select", "drop"}
Answered == {"ok", "conflict", "missing", "failed", "crashed"}

Job == [kind    : AllKinds,
        unit    : Units,
        by      : Users,
        verdict : Terminal,        \* status a review writes
        copy    : Evidence,        \* unit as confirm or flag read it
        picked  : SUBSET Units]    \* ids the sweep selected

Admin(r)   == job[r].by
Target(r)  == job[r].unit
Present(u) == row[u].status # "absent"

\* scope_filter: the tenant WHERE clause of an admin's read or write.
InScope(user, u) ==
    /\ Present(u)
    /\ Enterprise[user] = Enterprise[row[u].owner]
    /\ PerL2Isolation => Group[user] = Group[row[u].owner]

Goto(r, label) == pc' = [pc EXCEPT ![r] = label]

-----------------------------------------------------------------------------
(* A request arrives: its handler starts and reaches its first store call. *)

FirstCall ==
    [approve |-> "read", reject |-> "read", sweep |-> "select",
     delete |-> "find", confirm |-> "get", flag |-> "get"]

NewJob(k, u, user) ==
    [kind |-> k, unit |-> u, by |-> user, verdict |-> "approved",
     copy |-> NoEvidence, picked |-> {}]

\* An idle slot's locals, overwritten when a request arrives.
NoJob == NewJob("approve", CHOOSE u \in Units : TRUE, CHOOSE user \in Users : TRUE)

Arrive(r) ==
    \E k \in Kinds \cap DOMAIN FirstCall, u \in Units, user \in Users :
        /\ pc[r] = "idle"
        /\ job' = [job EXCEPT ![r] = NewJob(k, u, user)]
        /\ Goto(r, FirstCall[k])
        /\ UNCHANGED <<row, born, won, events>>

AfterInsert == IF AutoApprove THEN "auto" ELSE "ok"

\* propose_unit and submit_pending_review start with the INSERT, under an id
\* nobody has used; an unavailable embedding service skips set_embedding.
Insert(r) ==
    \E k \in Kinds \cap {"propose", "submit"}, u \in Units \ born, user \in Users :
        /\ pc[r] = "idle"
        /\ job' = [job EXCEPT ![r] = NewJob(k, u, user)]
        /\ row' = [row EXCEPT ![u] = NewRow(user)]
        /\ born' = born \cup {u}
        /\ \/ k = "submit" /\ Goto(r, "mark")
           \/ k = "propose" /\ Goto(r, "embed")
           \/ k = "propose" /\ Goto(r, AfterInsert)
        /\ UNCHANGED <<won, events>>

\* set_embedding: an UPDATE, which a row deleted meanwhile simply misses.
SetEmbedding(r) ==
    /\ pc[r] = "embed"
    /\ row' = IF Present(Target(r))
              THEN [row EXCEPT ![Target(r)].embedded = TRUE]
              ELSE row
    /\ Goto(r, AfterInsert)
    /\ UNCHANGED <<born, job, won, events>>

\* The second transaction of submit_pending_review: UPDATE ... WHERE id.
MarkPendingReview(r) ==
    /\ pc[r] = "mark"
    /\ row' = IF Present(Target(r))
              THEN [row EXCEPT ![Target(r)] =
                     [@ EXCEPT !.status = "pending_review", !.ttl = "live"]]
              ELSE row
    /\ Goto(r, "ok")
    /\ UNCHANGED <<born, job, won, events>>

-----------------------------------------------------------------------------
(* set_review_status: one transaction, refused on a terminal row.          *)

\* Mutant: the decision is stored without its author.
SetStatusOnly(r, status) ==
    /\ row' = [row EXCEPT ![Target(r)].status = status]
    /\ won' = won \cup {r}

SetReviewStatus(r, status) ==
    /\ row' = [row EXCEPT ![Target(r)] =
                 [@ EXCEPT !.status = status, !.by = Admin(r)]]
    /\ won' = won \cup {r}

\* Auto-approval of one's own proposal is not scoped by tenant; a lost race
\* or a deleted row is ignored.
AutoApproveOwn(r) ==
    /\ pc[r] = "auto"
    /\ IF row[Target(r)].status \in Open
       THEN SetReviewStatus(r, "approved")
       ELSE UNCHANGED <<row, won>>
    /\ Goto(r, "ok")
    /\ UNCHANGED <<born, job, events>>

\* First call of approve_unit and reject_unit: the status is checked, and a
\* rejection chooses between 'dropped' and 'rejected' from what it read.
VerdictFor(kind, status) ==
    IF kind = "approve" THEN "approved"
    ELSE IF status = "pending_review" THEN "dropped" ELSE "rejected"

\* Mutant: the parallel tier of #103 is not a status one may review.
PendingOnly == {"pending"}
Reviewable == Open

ReadStatus(r) ==
    LET u == Target(r) IN
    /\ pc[r] = "read"
    /\ \/ ~InScope(Admin(r), u) /\ Goto(r, "missing") /\ UNCHANGED job
       \/ /\ InScope(Admin(r), u)
          /\ row[u].status \notin Reviewable
          /\ Goto(r, "conflict")
          /\ UNCHANGED job
       \/ /\ InScope(Admin(r), u)
          /\ row[u].status \in Reviewable
          /\ job' = [job EXCEPT ![r].verdict = VerdictFor(job[r].kind, row[u].status)]
          /\ Goto(r, "write")
    /\ UNCHANGED <<row, born, won, events>>

\* Mutant: the UPDATE without its terminal-state guard.
WriteStatusUnguarded(r) ==
    LET u == Target(r) IN
    /\ pc[r] = "write"
    /\ \/ ~InScope(Admin(r), u) /\ Goto(r, "missing") /\ UNCHANGED <<row, won>>
       \/ /\ InScope(Admin(r), u)
          /\ SetReviewStatus(r, job[r].verdict)
          /\ Goto(r, "reread")
    /\ UNCHANGED <<born, job, events>>

WriteStatus(r) ==
    LET u == Target(r) IN
    /\ pc[r] = "write"
    /\ \/ ~InScope(Admin(r), u) /\ Goto(r, "missing") /\ UNCHANGED <<row, won>>
       \/ /\ InScope(Admin(r), u)
          /\ row[u].status \in Terminal
          /\ Goto(r, "lost")
          /\ UNCHANGED <<row, won>>
       \/ /\ InScope(Admin(r), u)
          /\ row[u].status \notin Terminal
          /\ SetReviewStatus(r, job[r].verdict)
          /\ Goto(r, "reread")
    /\ UNCHANGED <<born, job, events>>

\* The winner re-reads the row for its answer; the assertion that the row is
\* still there fails after a concurrent delete, before the reputation hook.
Reread(r) ==
    /\ pc[r] = "reread"
    /\ Goto(r, IF InScope(Admin(r), Target(r)) THEN "hook" ELSE "failed")
    /\ UNCHANGED <<row, born, job, won, events>>

\* Mutant: the loser tries its UPDATE again.
RetryLost(r) ==
    /\ pc[r] = "lost"
    /\ Goto(r, "write")
    /\ UNCHANGED <<row, born, job, won, events>>

\* The loser re-reads the row for the detail of its 409.
RereadLost(r) ==
    /\ pc[r] = "lost"
    /\ Goto(r, "conflict")
    /\ UNCHANGED <<row, born, job, won, events>>

\* _hook_ku_event: record_event is a transaction of its own, and swallows
\* every failure.
Hook(r) ==
    /\ pc[r] = "hook"
    /\ \/ events' = events \cup {r}
       \/ ChainMayFail /\ UNCHANGED events
    /\ Goto(r, "ok")
    /\ UNCHANGED <<row, born, job, won>>

-----------------------------------------------------------------------------
(* delete_unit.                                                            *)

FindUnit(r) ==
    /\ pc[r] = "find"
    /\ Goto(r, IF InScope(Admin(r), Target(r)) THEN "erase" ELSE "missing")
    /\ UNCHANGED <<row, born, job, won, events>>

EraseUnit(r) ==
    /\ pc[r] = "erase"
    /\ row' = [row EXCEPT ![Target(r)] = NoRow]
    /\ Goto(r, IF Present(Target(r)) THEN "ok" ELSE "missing")
    /\ UNCHANGED <<born, job, won, events>>

-----------------------------------------------------------------------------
(* confirm_unit and flag_unit: read an approved unit, compute, write back. *)

\* Mutant: the boost is not capped.
Uncapped(n) == n
AtMostCeiling(n) == IF n > Ceiling THEN Ceiling ELSE n

ApplyConfirmation(e) ==
    [e EXCEPT !.confirmations = @ + 1, !.confidence = AtMostCeiling(@ + Boost)]

\* Mutant: a flag is counted as one more confirmation.
FlagAsConfirmation(e) == ApplyConfirmation(e)

ApplyFlag(e) ==
    [e EXCEPT !.flags = @ + 1,
              !.confidence = IF @ < Penalty THEN 0 ELSE @ - Penalty]

GetApproved(r) ==
    /\ pc[r] = "get"
    /\ \/ /\ row[Target(r)].status = "approved"
          /\ job' = [job EXCEPT ![r].copy = row[Target(r)].evidence]
          /\ Goto(r, "put")
       \/ /\ row[Target(r)].status # "approved"
          /\ Goto(r, "missing")
          /\ UNCHANGED job
    /\ UNCHANGED <<row, born, won, events>>

\* Mutant: an upsert, which brings a deleted unit back.
UpsertUnit(r) ==
    /\ pc[r] = "put"
    /\ row' = [row EXCEPT ![Target(r)] =
                 [IF Present(Target(r)) THEN @ ELSE NewRow(Admin(r))
                  EXCEPT !.evidence = ApplyConfirmation(job[r].copy)]]
    /\ Goto(r, "ok")
    /\ UNCHANGED <<born, job, won, events>>

\* store.update writes the whole unit back under its id, whatever happened to
\* the row since it was read; a deleted row raises KeyError.
PutUnit(r) ==
    LET applied == IF job[r].kind = "confirm"
                   THEN ApplyConfirmation(job[r].copy)
                   ELSE ApplyFlag(job[r].copy)
    IN
    /\ pc[r] = "put"
    /\ \/ /\ Present(Target(r))
          /\ row' = [row EXCEPT ![Target(r)].evidence = applied]
          /\ Goto(r, "ok")
       \/ /\ ~Present(Target(r))
          /\ Goto(r, "failed")
          /\ UNCHANGED row
    /\ UNCHANGED <<born, job, won, events>>

-----------------------------------------------------------------------------
(* The TTL sweep a read of the pending-review queue leaves behind.  It is  *)
(* scoped by the reader's Enterprise only.                                 *)

Expired(r) ==
    {u \in Units : /\ row[u].status = "pending_review"
                   /\ Enterprise[row[u].owner] = Enterprise[Admin(r)]
                   /\ row[u].ttl = "past"}

SelectExpired(r) ==
    /\ pc[r] = "select"
    /\ job' = [job EXCEPT ![r].picked = Expired(r)]
    /\ Goto(r, IF Expired(r) = {} THEN "ok" ELSE "drop")
    /\ UNCHANGED <<row, born, won, events>>

\* UPDATE ... WHERE id IN (the selected ids): the status is not looked at again.
DropSelected(r) ==
    /\ pc[r] = "drop"
    /\ row' = [u \in Units |->
                 IF u \in job[r].picked /\ Present(u)
                 THEN [row[u] EXCEPT !.status = "dropped", !.by = Sweeper]
                 ELSE row[u]]
    /\ Goto(r, "ok")
    /\ UNCHANGED <<born, job, won, events>>

\* The clock passes a row's pending_review_expires_at.
TtlPasses(u) ==
    /\ row[u].ttl = "live"
    /\ row' = [row EXCEPT ![u].ttl = "past"]
    /\ UNCHANGED <<born, pc, job, won, events>>

\* The server dies and restarts: the table survives, the handlers do not.
Crash ==
    /\ ServerMayCrash
    /\ \E r \in Requests : pc[r] \in Working
    /\ pc' = [r \in Requests |-> IF pc[r] \in Working THEN "crashed" ELSE pc[r]]
    /\ UNCHANGED <<row, born, job, won, events>>

\* Every slot of the model has been used and answered.
Finished ==
    /\ \A r \in Requests : pc[r] \in Answered
    /\ UNCHANGED vars

-----------------------------------------------------------------------------
Init ==
    /\ row \in [Units -> InitialRows]
    /\ born = {u \in Units : Present(u)}
    /\ pc = [r \in Requests |-> "idle"]
    /\ job = [r \in Requests |-> NoJob]
    /\ won = {}
    /\ events = {}

StoreCall(r) ==
    \/ SetEmbedding(r)  \/ AutoApproveOwn(r) \/ MarkPendingReview(r)
    \/ ReadStatus(r)    \/ WriteStatus(r)    \/ Reread(r)  \/ RereadLost(r)
    \/ Hook(r)          \/ FindUnit(r)       \/ EraseUnit(r)
    \/ GetApproved(r)   \/ PutUnit(r)
    \/ SelectExpired(r) \/ DropSelected(r)

Next ==
    \/ \E r \in Requests : Arrive(r) \/ Insert(r) \/ StoreCall(r)
    \/ \E u \in Units : TtlPasses(u)
    \/ Crash
    \/ Finished

\* The executor completes every call handed to it and the event loop resumes
\* the coroutine that awaits it.
Fairness == \A r \in Requests : WF_vars(StoreCall(r))

Spec == Init /\ [][Next]_vars /\ Fairness

-----------------------------------------------------------------------------
(* Properties.                                                             *)

\* Every variable has its type; in particular confidence stays in [0, 1]
\* however many confirmations and flags apply_confirmation and apply_flag add.
TypeOK ==
    /\ row \in [Units -> Row]
    /\ born \subseteq Units
    /\ pc \in [Requests -> {"idle"} \cup Working \cup Answered]
    /\ job \in [Requests -> Job]
    /\ won \subseteq Requests
    /\ events \subseteq Requests

\* Of all the requests that approve or reject a unit, or auto-approve it, at
\* most one is told that it decided: the guarded UPDATE of set_review_status
\* resolves every race its readers may run, across deletes and sweeps.
OneDecision ==
    \A r, s \in won : Target(r) = Target(s) => r = s

\* A ku.event of the reputation chain is never contradicted by the table: the
\* unit is deleted, or carries that decision and its author, or was dropped by
\* the TTL sweeper (the hook runs three store calls after the write).
DecisionStands(r) ==
    LET x == row[Target(r)] IN
    \/ ~Present(Target(r))
    \/ x.status = job[r].verdict /\ x.by = Admin(r)
    \/ x.status = "dropped" /\ x.by = Sweeper

EventMatchesRow == \A r \in events : DecisionStands(r)

\* A 409 of approve_unit or reject_unit is never spurious: the unit it names is
\* resolved, or gone, from then on.
NoFalseConflict ==
    \A r \in Requests :
        pc[r] = "conflict" => row[Target(r)].status \in Terminal \cup {"absent"}

Accepted(u, kind) ==
    {r \in Requests : pc[r] = "ok" /\ job[r].kind = kind /\ Target(r) = u}

\* Confirmations and flags may be lost by interleaved read-modify-writes but
\* are never invented: no unit counts more of them than were accepted.
NoPhantomEvidence ==
    \A u \in Units :
        /\ row[u].evidence.confirmations <= 1 + Cardinality(Accepted(u, "confirm"))
        /\ row[u].evidence.flags <= Cardinality(Accepted(u, "flag"))

\* Every request the server accepts is answered, lost races included, unless
\* the server dies first.
EveryRequestAnswered ==
    \A r \in Requests : (pc[r] \in Working) ~> (pc[r] \in Answered)

\* The refinement: a unit's phase is read off its row and its id's history, its
\* judge is the request that holds the True of set_review_status.
phaseBar == [u \in Units |->
    IF Present(u) THEN IF row[u].status \in Open THEN "open" ELSE "decided"
    ELSE IF u \in born THEN "gone" ELSE "unborn"]

judgesBar == [u \in Units |-> {r \in won : Target(r) = u}]

Lifecycle == INSTANCE UnitLifecycle
             WITH Judges <- Requests, phase <- phaseBar, judges <- judgesBar

\* The handlers implement the lifecycle: whatever the interleaving, a decided
\* unit never reopens, a deleted one never returns, a judge is never replaced.
ImplementsLifecycle == Lifecycle!LifecycleSpec

-----------------------------------------------------------------------------
(* What the code's own text says and the code does not do.                 *)

\* "409 rather than silently overwriting their decision" (review.py): once a
\* reviewer has resolved a unit, nothing rewrites the status or the reviewer.
DecisionIsFinal ==
    [][\A u \in Units :
         row[u].status \in Terminal =>
            \/ row'[u].status = "absent"
            \/ row'[u].status = row[u].status /\ row'[u].by = row[u].by]_vars

\* "Increment confirmations" (scoring.py): a confirmation that was answered
\* with success is counted.
NoLostConfirmation ==
    (\A r \in Requests : pc[r] \notin Working)
        => \A u \in Units : Present(u) =>
             row[u].evidence.confirmations = 1 + Cardinality(Accepted(u, "confirm"))
=============================================================================
