------------------------ MODULE KnowledgeReviewProofs ------------------------
(***************************************************************************)
(* Proofs about KnowledgeReview, for any number of units, requests and     *)
(* users, any tenancy and any failures.  Type correctness needs no other   *)
(* hypothesis.  The rest holds of the operations the server serves, that   *)
(* is without submit_pending_review, which no handler calls and whose      *)
(* second transaction reopens a decided unit.                              *)
(***************************************************************************)
EXTENDS KnowledgeReview, FiniteSetTheorems, TLAPS

-----------------------------------------------------------------------------
(* Type correctness.                                                       *)

LEMMA NoEvidenceType == NoEvidence \in Evidence
BY DEF Evidence, NoEvidence, Ceiling

LEMMA NewJobType ==
    ASSUME NEW k \in AllKinds, NEW u \in Units, NEW user \in Users
    PROVE  NewJob(k, u, user) \in Job
BY NoEvidenceType DEF NewJob, Job, Terminal

LEMMA NoJobType == NoJob \in Job
BY NewJobType, ConstantsAssumption DEF NoJob, AllKinds

LEMMA NoRowType == NoRow \in Row
BY NoEvidenceType DEF NoRow, Row, Statuses

LEMMA NewRowType ==
    ASSUME NEW user \in Users
    PROVE  NewRow(user) \in Row
<1>1. "pending" \in Statuses
  BY DEF Statuses, Open
<1> QED BY NoRowType, <1>1 DEF NewRow, Row

\* Every UPDATE of the code, on one row.
LEMMA RowUpdateType ==
    ASSUME NEW x \in Row
    PROVE  /\ [x EXCEPT !.embedded = TRUE] \in Row
           /\ [x EXCEPT !.ttl = "past"] \in Row
           /\ [x EXCEPT !.status = "pending_review", !.ttl = "live"] \in Row
           /\ \A s \in Terminal, b \in Users \cup {Sweeper} :
                [x EXCEPT !.status = s, !.by = b] \in Row
           /\ \A e \in Evidence : [x EXCEPT !.evidence = e] \in Row
<1>1. "pending_review" \in Statuses /\ Terminal \subseteq Statuses
  BY DEF Statuses, Open
<1> QED BY <1>1 DEF Row

\* apply_confirmation and apply_flag keep the confidence in [0, 1].
LEMMA ConfirmationType ==
    ASSUME NEW e \in Evidence
    PROVE  ApplyConfirmation(e) \in Evidence
<1>1. /\ e.confirmations + 1 \in Nat
      /\ AtMostCeiling(e.confidence + Boost) \in 0..Ceiling
  BY DEF Evidence, AtMostCeiling, Ceiling, Boost
<1> QED BY <1>1 DEF Evidence, ApplyConfirmation

LEMMA FlagType ==
    ASSUME NEW e \in Evidence
    PROVE  ApplyFlag(e) \in Evidence
<1>1. /\ e.flags + 1 \in Nat
      /\ (IF e.confidence < Penalty THEN 0 ELSE e.confidence - Penalty) \in 0..Ceiling
  BY DEF Evidence, Penalty, Ceiling
<1> QED BY <1>1 DEF Evidence, ApplyFlag

LEMMA InitType == Init => TypeOK
BY NoJobType, ConstantsAssumption DEF Init, TypeOK, Present

LEMMA StoreCallType ==
    ASSUME TypeOK, NEW r \in Requests, StoreCall(r)
    PROVE  TypeOK'
<1> USE DEF TypeOK, Goto
<1> DEFINE Labels == {"idle"} \cup Working \cup Answered
<1>a. /\ Target(r) \in Units
      /\ Admin(r) \in Users
      /\ job[r].verdict \in Terminal
      /\ job[r].copy \in Evidence
      /\ row[Target(r)] \in Row
  BY DEF Target, Admin, Job
<1>b. {"read", "write", "reread", "lost", "hook", "auto", "erase", "put", "drop",
        "ok", "conflict", "missing", "failed"} \subseteq Labels
  BY DEF Working, Answered
<1>1. CASE SetEmbedding(r)
  BY <1>1, <1>a, <1>b, RowUpdateType DEF SetEmbedding, AfterInsert
<1>2. CASE AutoApproveOwn(r)
  <2>1. [row[Target(r)] EXCEPT !.status = "approved", !.by = Admin(r)] \in Row
    BY <1>a, RowUpdateType DEF Terminal
  <2> QED BY <1>2, <2>1, <1>a, <1>b DEF AutoApproveOwn, SetReviewStatus
<1>3. CASE MarkPendingReview(r)
  BY <1>3, <1>a, <1>b, RowUpdateType DEF MarkPendingReview
<1>4. CASE ReadStatus(r)
  <2>1. \A v \in Terminal : [job EXCEPT ![r].verdict = v] \in [Requests -> Job]
    BY DEF Job
  <2>2. \A k, s : VerdictFor(k, s) \in Terminal
    BY DEF VerdictFor, Terminal
  <2> QED BY <1>4, <2>1, <2>2, <1>b DEF ReadStatus
<1>5. CASE WriteStatus(r)
  <2>1. [row[Target(r)] EXCEPT !.status = job[r].verdict, !.by = Admin(r)] \in Row
    BY <1>a, RowUpdateType
  <2> QED BY <1>5, <2>1, <1>a, <1>b DEF WriteStatus, SetReviewStatus
<1>6. CASE Reread(r) \/ RereadLost(r) \/ FindUnit(r)
  BY <1>6, <1>b DEF Reread, RereadLost, FindUnit
<1>7. CASE Hook(r)
  BY <1>7, <1>b DEF Hook
<1>8. CASE EraseUnit(r)
  BY <1>8, <1>b, NoRowType DEF EraseUnit
<1>9. CASE GetApproved(r)
  <2>1. row[Target(r)].evidence \in Evidence
    BY <1>a DEF Row
  <2>2. [job EXCEPT ![r].copy = row[Target(r)].evidence] \in [Requests -> Job]
    BY <2>1 DEF Job
  <2> QED BY <1>9, <2>2, <1>b DEF GetApproved
<1>10. CASE PutUnit(r)
  <2> DEFINE applied == IF job[r].kind = "confirm"
                        THEN ApplyConfirmation(job[r].copy)
                        ELSE ApplyFlag(job[r].copy)
  <2>1. applied \in Evidence
    BY <1>a, ConfirmationType, FlagType
  <2>2. [row EXCEPT ![Target(r)].evidence = applied] \in [Units -> Row]
    <3> HIDE DEF applied
    <3> QED BY <2>1, <1>a, RowUpdateType
  <2> QED BY <1>10, <2>2, <1>b DEF PutUnit
<1>11. CASE SelectExpired(r)
  <2>1. [job EXCEPT ![r].picked = Expired(r)] \in [Requests -> Job]
    BY DEF Expired, Job
  <2> QED BY <1>11, <2>1, <1>b DEF SelectExpired
<1>12. CASE DropSelected(r)
  <2>1. \A u \in Units : [row[u] EXCEPT !.status = "dropped", !.by = Sweeper] \in Row
    BY RowUpdateType DEF Terminal
  <2> QED BY <1>12, <2>1, <1>b DEF DropSelected
<1> QED
  BY <1>1, <1>2, <1>3, <1>4, <1>5, <1>6, <1>7, <1>8, <1>9, <1>10, <1>11, <1>12
  DEF StoreCall

LEMMA NextType == TypeOK /\ [Next]_vars => TypeOK'
<1> SUFFICES ASSUME TypeOK, [Next]_vars PROVE TypeOK'
  OBVIOUS
<1>1. CASE \E r \in Requests : Arrive(r)
  <2>1. PICK r \in Requests : Arrive(r)
    BY <1>1
  <2>2. PICK k \in Kinds \cap DOMAIN FirstCall, u \in Units, user \in Users :
            /\ job' = [job EXCEPT ![r] = NewJob(k, u, user)]
            /\ Goto(r, FirstCall[k])
            /\ UNCHANGED <<row, born, won, events>>
    BY <2>1 DEF Arrive
  <2>3. k \in AllKinds /\ FirstCall[k] \in Working
    BY <2>2 DEF FirstCall, AllKinds, Working
  <2> QED BY <2>2, <2>3, NewJobType DEF TypeOK, Goto
<1>2. CASE \E r \in Requests : Insert(r)
  <2>1. PICK r \in Requests : Insert(r)
    BY <1>2
  <2>2. PICK k \in Kinds \cap {"propose", "submit"}, u \in Units \ born, user \in Users :
            /\ job' = [job EXCEPT ![r] = NewJob(k, u, user)]
            /\ row' = [row EXCEPT ![u] = NewRow(user)]
            /\ born' = born \cup {u}
            /\ Goto(r, "mark") \/ Goto(r, "embed") \/ Goto(r, AfterInsert)
            /\ UNCHANGED <<won, events>>
    BY <2>1 DEF Insert
  <2>3. NewJob(k, u, user) \in Job
    BY <2>2, NewJobType DEF AllKinds
  <2>4. pc' \in [Requests -> {"idle"} \cup Working \cup Answered]
    BY <2>2 DEF TypeOK, Goto, AfterInsert, Working, Answered
  <2> QED BY <2>2, <2>3, <2>4, NewRowType DEF TypeOK
<1>3. CASE \E r \in Requests : StoreCall(r)
  BY <1>3, StoreCallType
<1>4. CASE \E u \in Units : TtlPasses(u)
  <2>1. PICK u \in Units : TtlPasses(u)
    BY <1>4
  <2>2. [row[u] EXCEPT !.ttl = "past"] \in Row
    BY RowUpdateType DEF TypeOK
  <2> QED BY <2>1, <2>2 DEF TtlPasses, TypeOK
<1>5. CASE Crash
  BY <1>5 DEF Crash, TypeOK, Answered
<1>6. CASE Finished \/ UNCHANGED vars
  BY <1>6 DEF Finished, vars, TypeOK
<1> QED BY <1>1, <1>2, <1>3, <1>4, <1>5, <1>6 DEF Next

\* Every behaviour of the server keeps the table and the handlers' locals well
\* typed; in particular no unit's confidence ever leaves [0, 1].
THEOREM TypeCorrect == Spec => []TypeOK
BY InitType, NextType, PTL DEF Spec

-----------------------------------------------------------------------------
(* Decisions.  ReviewInv strengthens the safety properties of the module   *)
(* to an inductive invariant: a decision is made at an open row only,      *)
(* stands for as long as the row does, and an id is never used twice.      *)

Served == "submit" \notin Kinds

ReviewInv ==
    /\ TypeOK
    /\ \A u \in Units : Present(u) => u \in born
    /\ \A r \in Requests : pc[r] # "mark"
    /\ \A r \in Requests : pc[r] \in {"embed", "auto"} => job[r].verdict = "approved"
    /\ \A r \in won : /\ pc[r] \in {"reread", "hook", "ok", "failed", "crashed"}
                      /\ Target(r) \in born
                      /\ DecisionStands(r)
    /\ OneDecision
    /\ \A r \in Requests : pc[r] \in {"reread", "hook"} => r \in won
    /\ events \subseteq won
    /\ \A r \in Requests : pc[r] \in {"lost", "conflict"} =>
          /\ Target(r) \in born
          /\ row[Target(r)].status \in Terminal \cup {"absent"}

LEMMA ReviewInvInit == Init => ReviewInv
BY InitType DEF Init, ReviewInv, OneDecision

\* A handler that moves on without writing the table, deciding or recording.
LEMMA MoveOn ==
    ASSUME ReviewInv, TypeOK',
           NEW r \in Requests,
           NEW label \in (Working \cup Answered)
                          \ {"mark", "hook", "reread", "embed", "auto"},
           r \notin won, Goto(r, label),
           \A s \in Requests : s # r => job'[s] = job[s],
           label \in {"lost", "conflict"} =>
              /\ job'[r].unit = Target(r)
              /\ Target(r) \in born
              /\ row[Target(r)].status \in Terminal \cup {"absent"},
           UNCHANGED <<row, born, won, events>>
    PROVE  ReviewInv'
<1> USE DEF ReviewInv
<1>1. \A s \in Requests : pc'[s] = IF s = r THEN label ELSE pc[s]
  BY DEF Goto, TypeOK
<1>2. \A s \in won : s # r /\ s \in Requests /\ DecisionStands(s)'
  BY DEF TypeOK, DecisionStands, Present, Admin, Target
<1>3. OneDecision'
  BY <1>2 DEF OneDecision, Target
<1>4. \A s \in Requests : pc'[s] \in {"lost", "conflict"} =>
         /\ job'[s].unit \in born
         /\ row[job'[s].unit].status \in Terminal \cup {"absent"}
  BY <1>1 DEF Target
<1> QED BY <1>1, <1>2, <1>3, <1>4 DEF Present, TypeOK, Target

\* A store call that changes one row, in a way no decision is hurt by.
LEMMA RowChange ==
    ASSUME ReviewInv, TypeOK', UNCHANGED <<job, won, events>>, born' = born,
           \A u \in Units : row'[u] # row[u] =>
              \/ row'[u].status = "absent"
              \/ Present(u) /\ row'[u].status = row[u].status /\ row'[u].by = row[u].by
              \/ Present(u) /\ row'[u].status = "dropped" /\ row'[u].by = Sweeper,
           \A s \in Requests :
              \/ pc'[s] = pc[s]
              \/ /\ s \notin won
                 /\ pc'[s] \in {"auto", "ok", "missing", "failed"}
                 /\ pc'[s] = "auto" => pc[s] = "embed"
    PROVE  ReviewInv'
<1> USE DEF ReviewInv
<1>1. \A u \in Units : Present(u)' => Present(u)
  BY DEF Present
<1>2. ASSUME NEW s \in won PROVE DecisionStands(s)'
  <2>1. s \in Requests /\ Target(s) \in Units /\ DecisionStands(s)
    BY DEF TypeOK, Target, Job
  <2> QED BY <2>1 DEF DecisionStands, Present, Target, Admin
<1>3. \A s \in Requests : pc[s] \in {"lost", "conflict"} =>
         row'[Target(s)].status \in Terminal \cup {"absent"}
  BY DEF Terminal, Present, Target, TypeOK, Job
<1> QED BY <1>1, <1>2, <1>3 DEF OneDecision, Target, TypeOK

\* A winner goes on to its re-read, its hook and its answer.
LEMMA WinnerMovesOn ==
    ASSUME ReviewInv, TypeOK', NEW r \in won,
           NEW label \in {"hook", "ok", "failed"}, Goto(r, label),
           events' \subseteq events \cup {r},
           UNCHANGED <<row, born, job, won>>
    PROVE  ReviewInv'
<1> USE DEF ReviewInv
<1>1. \A s \in Requests : pc'[s] = IF s = r THEN label ELSE pc[s]
  BY DEF Goto, TypeOK
<1>2. OneDecision' /\ \A s \in won : DecisionStands(s)'
  BY DEF OneDecision, DecisionStands, Present, Admin, Target
<1> QED BY <1>1, <1>2 DEF Present, TypeOK, Target

\* set_review_status on an open row: the request becomes the only judge.
LEMMA DecisionMade ==
    ASSUME ReviewInv, TypeOK', NEW r \in Requests, NEW label \in {"ok", "reread"},
           pc[r] \in {"auto", "write"}, Present(Target(r)),
           row[Target(r)].status \notin Terminal,
           SetReviewStatus(r, job[r].verdict), Goto(r, label),
           UNCHANGED <<born, job, events>>
    PROVE  ReviewInv'
<1> USE DEF ReviewInv
<1>1. /\ Target(r) \in Units /\ Target(r) \in born /\ job[r].verdict \in Terminal
      /\ r \notin won
  BY DEF TypeOK, Target, Job
<1>2. \A u \in Units : row'[u] = IF u = Target(r)
                               THEN [row[u] EXCEPT !.status = job[r].verdict, !.by = Admin(r)]
                               ELSE row[u]
  BY <1>1 DEF SetReviewStatus, TypeOK
<1>3. /\ row[Target(r)] \in Row
      /\ row'[Target(r)].status = job[r].verdict
      /\ row'[Target(r)].by = Admin(r)
  <2>1. row[Target(r)] \in Row
    BY <1>1 DEF TypeOK
  <2>2. row'[Target(r)] = [row[Target(r)] EXCEPT !.status = job[r].verdict, !.by = Admin(r)]
    BY <1>1, <1>2
  <2> QED BY <2>1, <2>2 DEF Row
<1>4. \A s \in Requests : pc'[s] = IF s = r THEN label ELSE pc[s]
  BY DEF Goto, TypeOK
<1>5. won' = won \cup {r} /\ \A s \in Requests : Target(s)' = Target(s) /\ Admin(s)' = Admin(s)
  BY DEF SetReviewStatus, Target, Admin
<1>6. \A s \in won : s \in Requests /\ Target(s) \in Units /\ Target(s) # Target(r)
  <2> SUFFICES ASSUME NEW s \in won PROVE s \in Requests /\ Target(s) \in Units /\ Target(s) # Target(r)
    OBVIOUS
  <2>1. s \in Requests /\ job[s].verdict \in Terminal /\ Target(s) \in Units
    BY DEF TypeOK, Job, Target
  <2> QED BY <2>1 DEF DecisionStands, Terminal
<1>7. DecisionStands(r)'
  BY <1>1, <1>3, <1>5 DEF DecisionStands, Target, Admin
<1>8. ASSUME NEW s \in won PROVE DecisionStands(s)'
  <2>1. row'[Target(s)] = row[Target(s)] /\ job'[s] = job[s]
    BY <1>2, <1>6
  <2>2. Target(s)' = Target(s) /\ Admin(s)' = Admin(s) /\ DecisionStands(s)
    BY <1>5, <1>6
  <2> QED BY <2>1, <2>2 DEF DecisionStands, Present
<1>9. OneDecision'
  BY <1>5, <1>6 DEF OneDecision
<1>10. \A u \in Units : Present(u)' => u \in born
  BY <1>1, <1>2 DEF Present
<1>11. \A s \in Requests : pc'[s] \in {"lost", "conflict"} =>
         /\ Target(s)' \in born
         /\ row'[Target(s)'].status \in Terminal \cup {"absent"}
  BY <1>1, <1>2, <1>3, <1>4, <1>5 DEF TypeOK, Target, Job
<1>12. \A s \in won' : /\ pc'[s] \in {"reread", "hook", "ok", "failed", "crashed"}
                       /\ Target(s)' \in born'
                       /\ DecisionStands(s)'
  BY <1>1, <1>4, <1>5, <1>6, <1>7, <1>8
<1>13. \A s \in Requests : pc'[s] # "mark" /\ (pc'[s] \in {"reread", "hook"} => s \in won')
  BY <1>4, <1>5
<1>14. events' \subseteq won'
  BY <1>5
<1>15. \A u \in Units : Present(u)' => u \in born'
  BY <1>10 DEF Present
<1>16. \A s \in Requests : pc'[s] \in {"embed", "auto"} => job'[s].verdict = "approved"
  BY <1>4
<1> QED BY <1>9, <1>11, <1>12, <1>13, <1>14, <1>15, <1>16 DEF Present, Target

LEMMA InsertInv ==
    ASSUME Served, ReviewInv, TypeOK', NEW r \in Requests, Insert(r)
    PROVE  ReviewInv'
<1> USE DEF ReviewInv
<1>1. PICK u \in Units \ born, user \in Users :
         /\ pc[r] = "idle"
         /\ job' = [job EXCEPT ![r] = NewJob("propose", u, user)]
         /\ row' = [row EXCEPT ![u] = NewRow(user)]
         /\ born' = born \cup {u}
         /\ Goto(r, "embed") \/ Goto(r, "auto") \/ Goto(r, "ok")
         /\ UNCHANGED <<won, events>>
  BY DEF Insert, Served, AfterInsert
<1>2. /\ \A s \in Requests : s # r => pc'[s] = pc[s] /\ job'[s] = job[s]
      /\ pc'[r] \in {"embed", "auto", "ok"}
      /\ job'[r].verdict = "approved"
  BY <1>1 DEF TypeOK, Goto, NewJob
<1>3. \A s \in won : s \in Requests /\ s # r /\ Target(s) \in born /\ Target(s) # u
  BY <1>1 DEF TypeOK
<1>4. \A v \in Units : v # u => row'[v] = row[v]
  BY <1>1 DEF TypeOK
<1>5. \A s \in won : DecisionStands(s)'
  <2> SUFFICES ASSUME NEW s \in won PROVE DecisionStands(s)'
    OBVIOUS
  <2>1. Target(s) \in Units /\ row'[Target(s)] = row[Target(s)] /\ job'[s] = job[s]
    BY <1>2, <1>3, <1>4 DEF TypeOK, Target, Job
  <2> QED BY <2>1, <1>3 DEF DecisionStands, Present, Target, Admin
<1>6. OneDecision'
  BY <1>1, <1>2, <1>3 DEF OneDecision, Target
<1>7. \A s \in Requests : pc'[s] \in {"lost", "conflict"} =>
         /\ Target(s)' \in born
         /\ row'[Target(s)'].status \in Terminal \cup {"absent"}
  BY <1>1, <1>2, <1>4 DEF TypeOK, Target
<1>8. \A v \in Units : Present(v)' => v \in born'
  BY <1>1, <1>4 DEF Present
<1>9. \A s \in Requests : /\ pc'[s] # "mark"
                          /\ pc'[s] \in {"embed", "auto"} => job'[s].verdict = "approved"
                          /\ pc'[s] \in {"reread", "hook"} => s \in won'
  BY <1>1, <1>2
<1> QED BY <1>1, <1>2, <1>3, <1>5, <1>6, <1>7, <1>8, <1>9 DEF Present, Target

LEMMA StoreCallInv ==
    ASSUME ReviewInv, TypeOK', NEW r \in Requests, StoreCall(r)
    PROVE  ReviewInv'
<1>a. /\ Target(r) \in Units
      /\ row[Target(r)].status \in Open \cup Terminal \cup {"absent"}
      /\ Present(Target(r)) => Target(r) \in born
      /\ Terminal \cap Open = {}
  BY DEF ReviewInv, TypeOK, Target, Job, Terminal, Open, Row, Statuses
<1>b. {"write", "lost", "erase", "put", "drop", "ok", "conflict", "missing", "failed"}
        \subseteq (Working \cup Answered) \ {"mark", "hook", "reread", "embed", "auto"}
  BY DEF Working, Answered
<1>c. /\ pc[r] \in Working \ {"reread", "hook"} => r \notin won
      /\ pc[r] \in {"reread", "hook"} => r \in won
      /\ pc[r] # "mark"
      /\ pc[r] = "auto" => job[r].verdict = "approved"
      /\ pc[r] = "lost" => /\ Target(r) \in born
                           /\ row[Target(r)].status \in Terminal \cup {"absent"}
  BY DEF ReviewInv, Working
<1>1. CASE SetEmbedding(r)
  BY <1>1, <1>a, RowChange DEF SetEmbedding, Goto, AfterInsert, TypeOK, ReviewInv
<1>2. CASE AutoApproveOwn(r)
  <2>1. CASE row[Target(r)].status \in Open
    BY <1>2, <2>1, <1>a, <1>c, DecisionMade DEF AutoApproveOwn, Present, Open
  <2>2. CASE row[Target(r)].status \notin Open
    BY <1>2, <2>2, <1>b, <1>c, MoveOn DEF AutoApproveOwn, Working
  <2> QED BY <2>1, <2>2
<1>3. CASE MarkPendingReview(r)
  BY <1>3, <1>c DEF MarkPendingReview
<1>4. CASE ReadStatus(r)
  <2>1. r \notin won
    BY <1>4, <1>c DEF ReadStatus, Working
  <2>2. \A s \in Requests : s # r => job'[s] = job[s]
    BY <1>4 DEF ReadStatus, ReviewInv, TypeOK
  <2>3. PICK label \in {"missing", "conflict", "write"} :
          /\ Goto(r, label)
          /\ label = "conflict" => /\ job' = job
                                   /\ Present(Target(r))
                                   /\ row[Target(r)].status \notin Reviewable
    BY <1>4 DEF ReadStatus, InScope
  <2>4. UNCHANGED <<row, born, won, events>>
    BY <1>4 DEF ReadStatus
  <2> QED BY <2>1, <2>2, <2>3, <2>4, <1>a, <1>b, MoveOn DEF Reviewable, Target
<1>5. CASE WriteStatus(r)
  <2>1. CASE row' = row /\ won' = won
    <3>1. r \notin won
      BY <1>5, <1>c DEF WriteStatus, Working
    <3>2. PICK label \in {"missing", "lost", "reread"} :
            /\ Goto(r, label)
            /\ label = "lost" => /\ Present(Target(r))
                                 /\ row[Target(r)].status \in Terminal
            /\ label = "reread" => r \in won'
      BY <1>5 DEF WriteStatus, InScope, SetReviewStatus
    <3> QED BY <1>5, <2>1, <3>1, <3>2, <1>a, <1>b, MoveOn DEF WriteStatus, Target
  <2>2. CASE ~(row' = row /\ won' = won)
    BY <1>5, <2>2, <1>a, DecisionMade DEF WriteStatus, InScope
  <2> QED BY <2>1, <2>2
<1>6. CASE Reread(r) \/ Hook(r)
  BY <1>6, <1>c, WinnerMovesOn DEF Reread, Hook
<1>7. CASE RereadLost(r) \/ FindUnit(r)
  <2>1. r \notin won
    BY <1>7, <1>c DEF RereadLost, FindUnit, Working
  <2>2. PICK label \in {"erase", "missing", "conflict"} :
          Goto(r, label) /\ (label = "conflict" => pc[r] = "lost")
    BY <1>7 DEF RereadLost, FindUnit
  <2>3. UNCHANGED <<row, born, job, won, events>>
    BY <1>7 DEF RereadLost, FindUnit
  <2> QED BY <2>1, <2>2, <2>3, <1>b, <1>c, MoveOn DEF Target
<1>8. CASE EraseUnit(r)
  <2>1. \A u \in Units : row'[u] # row[u] => row'[u].status = "absent"
    BY <1>8 DEF EraseUnit, NoRow, ReviewInv, TypeOK
  <2>2. \A s \in Requests : pc'[s] # pc[s] => s = r /\ pc'[s] \in {"ok", "missing"}
    BY <1>8 DEF EraseUnit, Goto, ReviewInv, TypeOK
  <2>3. r \notin won
    BY <1>8, <1>c DEF EraseUnit, Working
  <2> QED BY <1>8, <1>a, <2>1, <2>2, <2>3, RowChange DEF EraseUnit
<1>9. CASE GetApproved(r)
  <2>1. r \notin won
    BY <1>9, <1>c DEF GetApproved, Working
  <2>2. \A s \in Requests : s # r => job'[s] = job[s]
    BY <1>9 DEF GetApproved, ReviewInv, TypeOK
  <2> QED BY <1>9, <2>1, <2>2, <1>b, MoveOn DEF GetApproved
<1>10. CASE PutUnit(r)
  <2>1. \A u \in Units : row'[u] # row[u] =>
          Present(u) /\ row'[u].status = row[u].status /\ row'[u].by = row[u].by
    BY <1>10, <1>a DEF PutUnit, ReviewInv, TypeOK, Row
  <2>2. \A s \in Requests : pc'[s] # pc[s] => s = r /\ pc'[s] \in {"ok", "failed"}
    BY <1>10 DEF PutUnit, Goto, ReviewInv, TypeOK
  <2>3. r \notin won
    BY <1>10, <1>c DEF PutUnit, Working
  <2> QED BY <1>10, <2>1, <2>2, <2>3, RowChange DEF PutUnit
<1>11. CASE SelectExpired(r)
  <2>1. r \notin won
    BY <1>11, <1>c DEF SelectExpired, Working
  <2>2. \A s \in Requests : s # r => job'[s] = job[s]
    BY <1>11 DEF SelectExpired, ReviewInv, TypeOK
  <2> QED BY <1>11, <2>1, <2>2, <1>b, MoveOn DEF SelectExpired
<1>12. CASE DropSelected(r)
  <2>0. \A x \in Row : LET y == [x EXCEPT !.status = "dropped", !.by = Sweeper]
                       IN  y.status = "dropped" /\ y.by = Sweeper
    BY DEF Row
  <2>1. \A u \in Units : row'[u] # row[u] =>
          Present(u) /\ row'[u].status = "dropped" /\ row'[u].by = Sweeper
    BY <1>12, <2>0 DEF DropSelected, ReviewInv, TypeOK
  <2>2. \A s \in Requests : pc'[s] # pc[s] => s = r /\ pc'[s] = "ok"
    BY <1>12 DEF DropSelected, Goto, ReviewInv, TypeOK
  <2>3. r \notin won
    BY <1>12, <1>c DEF DropSelected, Working
  <2> QED BY <1>12, <2>1, <2>2, <2>3, RowChange DEF DropSelected
<1> QED
  BY <1>1, <1>2, <1>3, <1>4, <1>5, <1>6, <1>7, <1>8, <1>9, <1>10, <1>11, <1>12
  DEF StoreCall

LEMMA ReviewInvNext == Served /\ ReviewInv /\ [Next]_vars => ReviewInv'
<1> SUFFICES ASSUME Served, ReviewInv, [Next]_vars PROVE ReviewInv'
  OBVIOUS
<1>a. TypeOK'
  BY NextType DEF ReviewInv
<1>1. CASE \E r \in Requests : Arrive(r)
  <2>1. PICK r \in Requests : Arrive(r)
    BY <1>1
  <2>2. PICK label \in {"read", "select", "find", "get"} :
          /\ pc[r] = "idle"
          /\ Goto(r, label)
          /\ \A s \in Requests : s # r => job'[s] = job[s]
          /\ UNCHANGED <<row, born, won, events>>
    BY <2>1 DEF Arrive, FirstCall, ReviewInv, TypeOK
  <2>3. r \notin won
    BY <2>2 DEF ReviewInv
  <2> QED BY <1>a, <2>2, <2>3, MoveOn DEF Working
<1>2. CASE \E r \in Requests : Insert(r)
  BY <1>a, <1>2, InsertInv
<1>3. CASE \E r \in Requests : StoreCall(r)
  BY <1>a, <1>3, StoreCallInv
<1>4. CASE \E u \in Units : TtlPasses(u)
  <2>1. PICK u \in Units : TtlPasses(u)
    BY <1>4
  <2>2. \A x \in Row : /\ [x EXCEPT !.ttl = "past"].status = x.status
                       /\ [x EXCEPT !.ttl = "past"].by = x.by
    BY DEF Row
  <2>3. row[u].status # "absent" \/ row'[u].status = "absent"
    BY <2>1, <2>2 DEF TtlPasses, ReviewInv, TypeOK
  <2>4. \A v \in Units : row'[v] # row[v] =>
          \/ row'[v].status = "absent"
          \/ Present(v) /\ row'[v].status = row[v].status /\ row'[v].by = row[v].by
    BY <2>1, <2>2, <2>3 DEF TtlPasses, ReviewInv, TypeOK, Present
  <2> QED BY <1>a, <2>1, <2>4, RowChange DEF TtlPasses
<1>5. CASE Crash
  <2>1. \A s \in Requests : /\ pc'[s] = pc[s] \/ pc'[s] = "crashed"
    BY <1>5 DEF Crash, ReviewInv, TypeOK
  <2>2. UNCHANGED <<row, born, job, won, events>>
    BY <1>5 DEF Crash
  <2>3. OneDecision' /\ \A s \in won : DecisionStands(s)'
    BY <2>2 DEF ReviewInv, OneDecision, DecisionStands, Present, Admin, Target
  <2> QED BY <1>a, <2>1, <2>2, <2>3 DEF ReviewInv, TypeOK, Present, Target
<1>6. CASE Finished \/ UNCHANGED vars
  <2>1. UNCHANGED vars
    BY <1>6 DEF Finished
  <2> QED BY <2>1, <1>a DEF vars, ReviewInv, OneDecision, DecisionStands, Present, Admin, Target
<1> QED BY <1>1, <1>2, <1>3, <1>4, <1>5, <1>6 DEF Next

LEMMA ReviewInvariance ==
    ASSUME Served
    PROVE  Spec => []ReviewInv
BY ReviewInvInit, ReviewInvNext, PTL DEF Spec

\* However many admins and auto-approvals race for a unit, one wins at most.
THEOREM AtMostOneDecision ==
    ASSUME Served
    PROVE  Spec => []OneDecision
<1>1. ReviewInv => OneDecision
  BY DEF ReviewInv
<1> QED BY <1>1, ReviewInvariance, PTL

\* The reputation chain never holds a ku.event that the table contradicts.
THEOREM EventsMatchRows ==
    ASSUME Served
    PROVE  Spec => []EventMatchesRow
<1>1. ReviewInv => EventMatchesRow
  BY DEF ReviewInv, EventMatchesRow
<1> QED BY <1>1, ReviewInvariance, PTL

\* A 409 always names a unit that is resolved or gone for good.
THEOREM ConflictsAreReal ==
    ASSUME Served
    PROVE  Spec => []NoFalseConflict
<1>1. ReviewInv => NoFalseConflict
  BY DEF ReviewInv, NoFalseConflict
<1> QED BY <1>1, ReviewInvariance, PTL

-----------------------------------------------------------------------------
(* The refinement: every step of the handlers is a step of UnitLifecycle   *)
(* or changes nothing that it shows.                                       *)

Phase(u) == IF Present(u) THEN IF row[u].status \in Open THEN "open" ELSE "decided"
            ELSE IF u \in born THEN "gone" ELSE "unborn"

LEMMA PhaseBarIsPhase == phaseBar = [u \in Units |-> Phase(u)]
BY DEF phaseBar, Phase

LEMMA LifecycleInitRefined == Init => Lifecycle!LifecycleInit
<1> SUFFICES ASSUME Init PROVE Lifecycle!LifecycleInit
  OBVIOUS
<1>1. phaseBar \in [Units -> {"unborn", "open", "decided"}]
  BY DEF Init, phaseBar, Present
<1>2. judgesBar = [u \in Units |-> {}]
  BY DEF Init, judgesBar
<1> QED BY <1>1, <1>2 DEF Lifecycle!LifecycleInit

\* A step that decides nothing, and neither opens nor deletes a unit.
LEMMA LifecycleStutter ==
    ASSUME born' = born, won' = won,
           \A u \in Units : /\ row'[u].status = "absent" <=> row[u].status = "absent"
                            /\ row'[u].status \in Open <=> row[u].status \in Open,
           \A s \in won : job'[s].unit = job[s].unit
    PROVE  UNCHANGED Lifecycle!lvars
<1>1. phaseBar' = phaseBar
  <2>1. ASSUME NEW u \in Units PROVE Phase(u)' = Phase(u)
    <3>1. Present(u)' <=> Present(u)
      BY DEF Present
    <3>2. row'[u].status \in Open <=> row[u].status \in Open
      OBVIOUS
    <3> QED BY <3>1, <3>2 DEF Phase
  <2>2. phaseBar' = [u \in Units |-> Phase(u)']
    BY DEF phaseBar, Phase
  <2> QED BY <2>1, <2>2, PhaseBarIsPhase
<1>2. judgesBar' = judgesBar
  BY DEF judgesBar, Target
<1> QED BY <1>1, <1>2 DEF Lifecycle!lvars

LEMMA DecisionRefined ==
    ASSUME ReviewInv, NEW r \in Requests, row[Target(r)].status \in Open,
           job[r].verdict \in Terminal,
           SetReviewStatus(r, job[r].verdict), UNCHANGED <<born, job>>
    PROVE  Lifecycle!LifecycleNext
<1> DEFINE u == Target(r)
<1>1. u \in Units /\ Present(u)
  BY DEF ReviewInv, TypeOK, Target, Job, Present, Open
<1>2. \A v \in Units : row'[v] = IF v = u
                               THEN [row[v] EXCEPT !.status = job[r].verdict, !.by = Admin(r)]
                               ELSE row[v]
  BY <1>1 DEF SetReviewStatus, ReviewInv, TypeOK
<1>3. row'[u].status = job[r].verdict /\ row[u] \in Row
  BY <1>1, <1>2 DEF ReviewInv, TypeOK, Row
<1>4. phaseBar' = [phaseBar EXCEPT ![u] = "decided"]
  <2>1. \A v \in Units : Phase(v)' = IF v = u THEN "decided" ELSE Phase(v)
    BY <1>1, <1>2, <1>3 DEF Phase, Present, Open, Terminal
  <2>2. phaseBar' = [v \in Units |-> Phase(v)']
    BY DEF phaseBar, Phase
  <2> QED BY <1>1, <2>1, <2>2, PhaseBarIsPhase
<1>5. \A s \in won : s \in Requests /\ Target(s) # u
  <2> SUFFICES ASSUME NEW s \in won PROVE s \in Requests /\ Target(s) # u
    OBVIOUS
  <2>1. s \in Requests /\ job[s].verdict \in Terminal /\ DecisionStands(s)
    BY DEF ReviewInv, TypeOK, Job
  <2> QED BY <2>1 DEF DecisionStands, Terminal, Present, Open
<1>6. judgesBar[u] = {} /\ judgesBar' = [judgesBar EXCEPT ![u] = {r}]
  BY <1>1, <1>5 DEF judgesBar, SetReviewStatus, Target
<1>7. phaseBar[u] = "open"
  BY <1>1 DEF phaseBar
<1> QED BY <1>1, <1>4, <1>6, <1>7 DEF Lifecycle!LifecycleNext, Lifecycle!Decide

LEMMA InsertRefined ==
    ASSUME ReviewInv, NEW r \in Requests, Insert(r)
    PROVE  Lifecycle!LifecycleNext
<1>1. PICK k \in Kinds, u \in Units \ born, user \in Users :
         /\ pc[r] = "idle"
         /\ job' = [job EXCEPT ![r] = NewJob(k, u, user)]
         /\ row' = [row EXCEPT ![u] = NewRow(user)]
         /\ born' = born \cup {u}
         /\ won' = won
  BY DEF Insert
<1>2. NewRow(user).status = "pending"
  BY DEF NewRow, NoRow
<1>3. phaseBar' = [phaseBar EXCEPT ![u] = "open"]
  <2>1. \A v \in Units : Phase(v)' = IF v = u THEN "open" ELSE Phase(v)
    BY <1>1, <1>2 DEF Phase, Present, Open, ReviewInv, TypeOK
  <2>2. phaseBar' = [v \in Units |-> Phase(v)']
    BY DEF phaseBar, Phase
  <2> QED BY <1>1, <2>1, <2>2, PhaseBarIsPhase
<1>4. judgesBar' = judgesBar
  BY <1>1 DEF judgesBar, Target, ReviewInv, TypeOK
<1>5. phaseBar[u] = "unborn"
  BY <1>1 DEF phaseBar, ReviewInv
<1> QED BY <1>1, <1>3, <1>4, <1>5 DEF Lifecycle!LifecycleNext, Lifecycle!Propose

LEMMA EraseRefined ==
    ASSUME ReviewInv, NEW r \in Requests, EraseUnit(r)
    PROVE  [Lifecycle!LifecycleNext]_(Lifecycle!lvars)
<1> DEFINE u == Target(r)
<1>1. /\ u \in Units
      /\ row' = [row EXCEPT ![u] = NoRow] /\ NoRow.status = "absent"
      /\ UNCHANGED <<born, job, won>>
  BY DEF EraseUnit, ReviewInv, TypeOK, Target, Job, NoRow
<1>2. judgesBar' = judgesBar
  BY <1>1 DEF judgesBar, Target
<1>3. CASE Present(u)
  <2>1. \A v \in Units : Phase(v)' = IF v = u THEN "gone" ELSE Phase(v)
    BY <1>1, <1>3 DEF Phase, Present, ReviewInv, TypeOK
  <2>2. phaseBar' = [v \in Units |-> Phase(v)']
    BY DEF phaseBar, Phase
  <2>3. phaseBar' = [phaseBar EXCEPT ![u] = "gone"]
    BY <1>1, <2>1, <2>2, PhaseBarIsPhase
  <2>4. phaseBar[u] \in {"open", "decided"}
    BY <1>1, <1>3 DEF phaseBar
  <2> QED BY <1>1, <1>2, <2>3, <2>4 DEF Lifecycle!LifecycleNext, Lifecycle!Delete
<1>4. CASE ~Present(u)
  <2>1. \A v \in Units : /\ row'[v].status = "absent" <=> row[v].status = "absent"
                         /\ row'[v].status \in Open <=> row[v].status \in Open
    BY <1>1, <1>4 DEF Present, Open, ReviewInv, TypeOK
  <2> QED BY <1>1, <2>1, LifecycleStutter
<1> QED BY <1>3, <1>4

LEMMA DropRefined ==
    ASSUME ReviewInv, NEW r \in Requests, DropSelected(r)
    PROVE  Lifecycle!LifecycleNext
<1> DEFINE S == {u \in job[r].picked \cap Units : Phase(u) = "open"}
<1>1. \A x \in Row : [x EXCEPT !.status = "dropped", !.by = Sweeper].status = "dropped"
  BY DEF Row
<1>2. \A u \in Units : /\ row'[u].status = IF u \in job[r].picked /\ Present(u)
                                          THEN "dropped" ELSE row[u].status
  BY <1>1 DEF DropSelected, ReviewInv, TypeOK
<1>3. UNCHANGED <<born, job, won>>
  BY DEF DropSelected
<1>4. \A u \in Units : Phase(u)' = IF u \in S THEN "decided" ELSE Phase(u)
  BY <1>2, <1>3 DEF Phase, Present, Open
<1>5. phaseBar' = [u \in Units |-> Phase(u)']
  BY DEF phaseBar, Phase
<1>6. phaseBar' = [u \in Units |-> IF u \in S THEN "decided" ELSE phaseBar[u]]
  BY <1>4, <1>5, PhaseBarIsPhase
<1>7. judgesBar' = judgesBar
  BY <1>3 DEF judgesBar, Target
<1>8. S \in SUBSET Units /\ \A u \in S : phaseBar[u] = "open"
  BY PhaseBarIsPhase
<1> QED BY <1>6, <1>7, <1>8 DEF Lifecycle!LifecycleNext, Lifecycle!TimeOut

LEMMA StoreCallRefined ==
    ASSUME ReviewInv, NEW r \in Requests, StoreCall(r)
    PROVE  [Lifecycle!LifecycleNext]_(Lifecycle!lvars)
<1>a. /\ Target(r) \in Units /\ job[r].verdict \in Terminal
      /\ row[Target(r)].status \in Open \cup Terminal \cup {"absent"}
      /\ pc[r] # "mark"
      /\ pc[r] = "auto" => job[r].verdict = "approved"
  BY DEF ReviewInv, TypeOK, Target, Job, Row, Statuses
<1>1. CASE row' = row /\ won' = won
  <2>1. born' = born
    BY DEF StoreCall, SetEmbedding, AutoApproveOwn, MarkPendingReview,
       ReadStatus, WriteStatus, Reread, RereadLost, Hook, FindUnit, EraseUnit,
       GetApproved, PutUnit, SelectExpired, DropSelected
  <2>2. \/ job' = job
        \/ \E v : job' = [job EXCEPT ![r].verdict = v]
        \/ \E e : job' = [job EXCEPT ![r].copy = e]
        \/ \E S : job' = [job EXCEPT ![r].picked = S]
    BY DEF StoreCall, SetEmbedding, AutoApproveOwn, MarkPendingReview,
       ReadStatus, WriteStatus, Reread, RereadLost, Hook, FindUnit, EraseUnit,
       GetApproved, PutUnit, SelectExpired, DropSelected
  <2>3. \A s \in Requests : job'[s].unit = job[s].unit
    BY <2>2 DEF ReviewInv, TypeOK, Job
  <2> QED BY <1>1, <2>1, <2>3, LifecycleStutter DEF ReviewInv, TypeOK
<1>2. CASE EraseUnit(r)
  BY <1>2, EraseRefined
<1>3. CASE DropSelected(r)
  BY <1>3, DropRefined
<1>4. CASE AutoApproveOwn(r) /\ ~(row' = row /\ won' = won)
  BY <1>4, <1>a, DecisionRefined DEF AutoApproveOwn
<1>5. CASE WriteStatus(r) /\ ~(row' = row /\ won' = won)
  BY <1>5, <1>a, DecisionRefined DEF WriteStatus, InScope, Present
<1>6. CASE SetEmbedding(r) \/ PutUnit(r)
  <2>1. UNCHANGED <<born, job, won>>
    BY <1>6 DEF SetEmbedding, PutUnit
  <2>2. row[Target(r)] \in Row
    BY <1>a DEF ReviewInv, TypeOK
  <2>3. \A e : /\ [row[Target(r)] EXCEPT !.embedded = e].status = row[Target(r)].status
              /\ [row[Target(r)] EXCEPT !.evidence = e].status = row[Target(r)].status
    BY <2>2 DEF Row
  <2>4. \A u \in Units : row'[u].status = row[u].status
    <3>1. CASE SetEmbedding(r)
      BY <3>1, <2>3, <1>a DEF SetEmbedding, ReviewInv, TypeOK
    <3>2. CASE PutUnit(r)
      <4>1. PICK e : row' = row \/ row' = [row EXCEPT ![Target(r)].evidence = e]
        BY <3>2 DEF PutUnit
      <4>2. [row[Target(r)] EXCEPT !.evidence = e].status = row[Target(r)].status
        BY <2>3
      <4>3. \A u \in Units : row'[u] = row[u] \/ (u = Target(r) /\ row'[u] = [row[u] EXCEPT !.evidence = e])
        BY <4>1 DEF ReviewInv, TypeOK
      <4> QED BY <4>2, <4>3
    <3> QED BY <1>6, <3>1, <3>2
  <2> QED BY <2>1, <2>4, LifecycleStutter
<1>7. CASE \/ ReadStatus(r) \/ Reread(r) \/ RereadLost(r) \/ Hook(r)
           \/ FindUnit(r) \/ GetApproved(r) \/ SelectExpired(r)
  BY <1>1, <1>7 DEF ReadStatus, Reread, RereadLost, Hook, FindUnit, GetApproved,
     SelectExpired
<1>8. CASE MarkPendingReview(r)
  BY <1>8, <1>a DEF MarkPendingReview
<1> QED BY <1>1, <1>2, <1>3, <1>4, <1>5, <1>6, <1>7, <1>8 DEF StoreCall

LEMMA LifecycleNextRefined ==
    Served /\ ReviewInv /\ [Next]_vars
        => [Lifecycle!LifecycleNext]_(Lifecycle!lvars)
<1> SUFFICES ASSUME ReviewInv, [Next]_vars
             PROVE  [Lifecycle!LifecycleNext]_(Lifecycle!lvars)
  OBVIOUS
<1>1. CASE \E r \in Requests : Arrive(r)
  <2>1. PICK r \in Requests : Arrive(r)
    BY <1>1
  <2>2. UNCHANGED <<row, born, won>> /\ r \notin won
    BY <2>1 DEF Arrive, ReviewInv
  <2>3. \A s \in won : job'[s] = job[s]
    BY <2>1, <2>2 DEF Arrive, ReviewInv, TypeOK
  <2> QED BY <2>2, <2>3, LifecycleStutter
<1>2. CASE \E r \in Requests : Insert(r)
  BY <1>2, InsertRefined
<1>3. CASE \E r \in Requests : StoreCall(r)
  BY <1>3, StoreCallRefined
<1>4. CASE \E u \in Units : TtlPasses(u)
  <2>1. PICK u \in Units : TtlPasses(u)
    BY <1>4
  <2>2. \A x \in Row : [x EXCEPT !.ttl = "past"].status = x.status
    BY DEF Row
  <2>3. \A v \in Units : row'[v].status = row[v].status
    BY <2>1, <2>2 DEF TtlPasses, ReviewInv, TypeOK
  <2> QED BY <2>1, <2>3, LifecycleStutter DEF TtlPasses
<1>5. CASE Crash \/ Finished \/ UNCHANGED vars
  BY <1>5, LifecycleStutter DEF Crash, Finished, vars
<1> QED BY <1>1, <1>2, <1>3, <1>4, <1>5 DEF Next

\* The handlers of review.py and app.py, however they interleave and whenever
\* the server dies, implement the lifecycle their users are promised.
THEOREM ReviewImplementsLifecycle ==
    ASSUME Served
    PROVE  Spec => ImplementsLifecycle
<1>1. ASSUME Served PROVE ReviewInv /\ [Next]_vars => [Lifecycle!LifecycleNext]_(Lifecycle!lvars)
  BY <1>1, LifecycleNextRefined
<1> QED
  BY <1>1, LifecycleInitRefined, ReviewInvariance, PTL
  DEF Spec, ImplementsLifecycle, Lifecycle!LifecycleSpec

-----------------------------------------------------------------------------
(* Evidence. What a row counts, and what a handler has read of one and will *)
(* write back, is backed by requests that were accepted: a lost update      *)
(* lowers a count, and nothing raises it but an acceptance of its own.      *)

\* The table as the server finds it: of units nobody has confirmed or flagged yet.
Unconfirmed ==
    \A x \in InitialRows : x.evidence.confirmations <= 1 /\ x.evidence.flags = 0

Backed(e, u) ==
    /\ e.confirmations <= 1 + Cardinality(Accepted(u, "confirm"))
    /\ e.flags <= Cardinality(Accepted(u, "flag"))

EvidenceInv ==
    /\ TypeOK
    /\ \A u \in Units : \A kind \in AllKinds : IsFiniteSet(Accepted(u, kind))
    /\ \A r \in Requests : pc[r] \in {"get", "put"} => job[r].kind \in {"confirm", "flag"}
    /\ \A u \in Units : Backed(row[u].evidence, u)
    /\ \A r \in Requests : pc[r] = "put" => Backed(job[r].copy, Target(r))

LEMMA EvidenceInitially == Unconfirmed /\ Init => EvidenceInv
<1> SUFFICES ASSUME Unconfirmed, Init PROVE EvidenceInv
  OBVIOUS
<1>1. TypeOK /\ \A r \in Requests : pc[r] = "idle"
  BY InitType DEF Init
<1>2. \A u, kind : Accepted(u, kind) = {}
  BY <1>1 DEF Accepted
<1>3. \A u \in Units : Backed(row[u].evidence, u)
  <2>1. \A u \in Units : row[u].evidence.confirmations <= 1 /\ row[u].evidence.flags = 0
    BY DEF Init, Unconfirmed
  <2>2. \A u, kind : Cardinality(Accepted(u, kind)) = 0
    BY <1>2, FS_EmptySet
  <2> QED BY <2>1, <2>2 DEF Backed
<1> QED BY <1>1, <1>2, <1>3, FS_EmptySet DEF EvidenceInv

\* One request moves that has not been accepted before: what was accepted stays so,
\* and the request adds one when it is accepted now.
LEMMA AcceptedGrow ==
    ASSUME EvidenceInv, NEW r \in Requests, pc[r] # "ok",
           \A s \in Requests \ {r} : pc'[s] = pc[s] /\ job'[s] = job[s],
           NEW u \in Units, NEW kind \in AllKinds
    PROVE  /\ IsFiniteSet(Accepted(u, kind)')
           /\ Cardinality(Accepted(u, kind)) \in Nat /\ Cardinality(Accepted(u, kind)') \in Nat
           /\ Cardinality(Accepted(u, kind)) <= Cardinality(Accepted(u, kind)')
           /\ pc'[r] = "ok" /\ job'[r].kind = kind /\ job'[r].unit = u =>
                 Cardinality(Accepted(u, kind)') = Cardinality(Accepted(u, kind)) + 1
<1>1. IsFiniteSet(Accepted(u, kind)) /\ r \notin Accepted(u, kind)
  BY DEF EvidenceInv, Accepted
<1>2. Cardinality(Accepted(u, kind)) \in Nat
  BY <1>1, FS_CardinalityType
<1>3. CASE pc'[r] = "ok" /\ job'[r].kind = kind /\ job'[r].unit = u
  <2>1. Accepted(u, kind)' = Accepted(u, kind) \cup {r}
    BY <1>3 DEF Accepted, Target
  <2> QED BY <1>1, <1>2, <2>1, FS_AddElement
<1>4. CASE ~(pc'[r] = "ok" /\ job'[r].kind = kind /\ job'[r].unit = u)
  <2>1. Accepted(u, kind)' = Accepted(u, kind)
    BY <1>4 DEF Accepted, Target
  <2> QED BY <1>1, <1>2, <1>4, <2>1
<1> QED BY <1>3, <1>4

LEMMA BackedStays ==
    ASSUME EvidenceInv, NEW r \in Requests, pc[r] # "ok",
           \A s \in Requests \ {r} : pc'[s] = pc[s] /\ job'[s] = job[s],
           NEW u \in Units, NEW e \in Evidence, Backed(e, u)
    PROVE  Backed(e, u)'
<1>1. "confirm" \in AllKinds /\ "flag" \in AllKinds /\ e.confirmations \in Nat /\ e.flags \in Nat
  BY DEF AllKinds, Evidence
<1>2. /\ Cardinality(Accepted(u, "confirm")) \in Nat /\ Cardinality(Accepted(u, "confirm")') \in Nat
      /\ Cardinality(Accepted(u, "confirm")) <= Cardinality(Accepted(u, "confirm")')
      /\ Cardinality(Accepted(u, "flag")) \in Nat /\ Cardinality(Accepted(u, "flag")') \in Nat
      /\ Cardinality(Accepted(u, "flag")) <= Cardinality(Accepted(u, "flag")')
  BY <1>1, AcceptedGrow
<1>3. /\ e.confirmations <= 1 + Cardinality(Accepted(u, "confirm"))
      /\ e.flags <= Cardinality(Accepted(u, "flag"))
  BY DEF Backed
<1>4. e.confirmations <= 1 + Cardinality(Accepted(u, "confirm")')
  BY <1>1, <1>2, <1>3
<1>5. e.flags <= Cardinality(Accepted(u, "flag")')
  BY <1>1, <1>2, <1>3
<1> QED BY <1>4, <1>5 DEF Backed

\* A step of one request that writes no evidence but its own.
LEMMA EvidenceStep ==
    ASSUME EvidenceInv, TypeOK', NEW r \in Requests, pc[r] # "ok",
           \A s \in Requests \ {r} : pc'[s] = pc[s] /\ job'[s] = job[s],
           \A u \in Units : row'[u].evidence = row[u].evidence \/ Backed(row[u].evidence, u)',
           pc'[r] \in {"get", "put"} => job'[r].kind \in {"confirm", "flag"},
           pc'[r] = "put" => job'[r].copy = row[Target(r)].evidence /\ Target(r)' = Target(r)
    PROVE  EvidenceInv'
<1>1. ASSUME NEW u \in Units, NEW kind \in AllKinds PROVE IsFiniteSet(Accepted(u, kind)')
  BY AcceptedGrow
<1>2. /\ row \in [Units -> Row] /\ job \in [Requests -> Job] /\ job' \in [Requests -> Job]
      /\ \A u \in Units : row[u].evidence \in Evidence
      /\ \A s \in Requests : Target(s) \in Units /\ job[s].copy \in Evidence
  BY DEF EvidenceInv, TypeOK, Row, Job, Target
<1>3. ASSUME NEW u \in Units PROVE Backed(row[u].evidence, u)'
  <2>1. CASE row'[u].evidence = row[u].evidence
    <3>1. PICK e \in Evidence : e = row[u].evidence
      BY <1>2
    <3>2. Backed(e, u)'
      BY <3>1, BackedStays DEF EvidenceInv
    <3> QED BY <2>1, <3>1, <3>2 DEF Backed
  <2> QED BY <2>1
<1>4. ASSUME NEW s \in Requests, pc'[s] = "put" PROVE Backed(job[s].copy, Target(s))'
  <2>1. PICK e \in Evidence, u \in Units :
           e = job'[s].copy /\ u = Target(s)' /\ Backed(e, u)
    <3>1. CASE s = r
      BY <1>2, <1>4, <3>1 DEF EvidenceInv
    <3>2. CASE s # r
      <4>1. pc[s] = "put" /\ job'[s] = job[s]
        BY <1>4, <3>2
      <4> QED BY <1>2, <4>1 DEF EvidenceInv, Target
    <3> QED BY <3>1, <3>2
  <2>2. Backed(e, u)'
    BY <2>1, BackedStays
  <2> QED BY <2>1, <2>2 DEF Backed
<1>5. \A s \in Requests : pc'[s] \in {"get", "put"} => job'[s].kind \in {"confirm", "flag"}
  BY DEF EvidenceInv
<1> QED BY <1>1, <1>3, <1>4, <1>5 DEF EvidenceInv

\* A handler takes a step and leaves the table's evidence, but for a row it inserts
\* or deletes, which counts what nobody has confirmed yet.
LEMMA EvidenceUntouched ==
    ASSUME EvidenceInv, TypeOK', NEW r \in Requests, pc[r] # "ok",
           \A s \in Requests \ {r} : pc'[s] = pc[s] /\ job'[s] = job[s],
           \A u \in Units : row'[u].evidence = row[u].evidence \/ row'[u].evidence = NoEvidence,
           pc'[r] \in {"get", "put"} => job'[r].kind \in {"confirm", "flag"},
           pc'[r] = "put" => job'[r].copy = row[Target(r)].evidence /\ Target(r)' = Target(r)
    PROVE  EvidenceInv'
<1>1. ASSUME NEW u \in Units, row'[u].evidence = NoEvidence PROVE Backed(row[u].evidence, u)'
  <2>1. Cardinality(Accepted(u, "confirm")') \in Nat /\ Cardinality(Accepted(u, "flag")') \in Nat
    BY AcceptedGrow DEF AllKinds
  <2>2. NoEvidence.confirmations = 1 /\ NoEvidence.flags = 0
    BY DEF NoEvidence
  <2> QED BY <1>1, <2>1, <2>2 DEF Backed
<1> QED BY <1>1, EvidenceStep

LEMMA EvidenceStoreCall ==
    ASSUME EvidenceInv, TypeOK', NEW r \in Requests, StoreCall(r)
    PROVE  EvidenceInv'
<1>a. /\ row \in [Units -> Row] /\ pc \in [Requests -> {"idle"} \cup Working \cup Answered]
      /\ job \in [Requests -> Job] /\ Target(r) \in Units /\ row[Target(r)] \in Row
      /\ job[r] \in Job
  BY DEF EvidenceInv, TypeOK, Target, Job
<1>b. ASSUME NEW label, Goto(r, label)
      PROVE  pc'[r] = label /\ \A s \in Requests \ {r} : pc'[s] = pc[s]
  BY <1>a, <1>b DEF Goto
\* Every UPDATE of the table but that of the evidence itself.
<1>c. \A x \in Row : /\ [x EXCEPT !.embedded = TRUE].evidence = x.evidence
                     /\ [x EXCEPT !.status = "pending_review", !.ttl = "live"].evidence = x.evidence
  BY DEF Row
<1>d. NoRow.evidence = NoEvidence
  BY DEF NoRow
\* A step that leaves the locals as they are and does not end in a write of evidence.
<1>e. ASSUME pc[r] # "ok", NEW label, label \notin {"get", "put"}, Goto(r, label),
             \A s \in Requests \ {r} : job'[s] = job[s],
             \A u \in Units : row'[u].evidence = row[u].evidence \/ row'[u].evidence = NoEvidence
      PROVE  EvidenceInv'
  BY <1>b, <1>e, EvidenceUntouched
<1>f. ASSUME NEW st, SetReviewStatus(r, st)
      PROVE  \A u \in Units : row'[u].evidence = row[u].evidence
  <2>1. PICK x \in Row : x = row[Target(r)]
    BY <1>a
  <2>2. PICK b : b = Admin(r)
    OBVIOUS
  <2>3. PICK y : y = [x EXCEPT !.status = st, !.by = b]
    OBVIOUS
  <2>4. y.evidence = x.evidence
    BY <2>1, <2>3 DEF Row
  <2>5. row' = [row EXCEPT ![Target(r)] = y]
    BY <1>f, <2>1, <2>2, <2>3 DEF SetReviewStatus
  <2> QED BY <1>a, <2>1, <2>4, <2>5
<1>1. CASE SetEmbedding(r)
  <2>1. \A u \in Units : row'[u].evidence = row[u].evidence
    BY <1>1, <1>a, <1>c DEF SetEmbedding
  <2>2. PICK label \in {"auto", "ok"} : Goto(r, label)
    BY <1>1 DEF SetEmbedding, AfterInsert
  <2>3. pc[r] # "ok" /\ job' = job
    BY <1>1 DEF SetEmbedding
  <2> QED BY <1>e, <2>1, <2>2, <2>3
<1>2. CASE AutoApproveOwn(r)
  <2>1. \A u \in Units : row'[u].evidence = row[u].evidence
    BY <1>2, <1>f DEF AutoApproveOwn
  <2>2. pc[r] # "ok" /\ job' = job /\ Goto(r, "ok")
    BY <1>2 DEF AutoApproveOwn
  <2> QED BY <1>e, <2>1, <2>2
<1>3. CASE MarkPendingReview(r)
  <2>1. \A u \in Units : row'[u].evidence = row[u].evidence
    BY <1>3, <1>a, <1>c DEF MarkPendingReview
  <2>2. pc[r] # "ok" /\ job' = job /\ Goto(r, "ok")
    BY <1>3 DEF MarkPendingReview
  <2> QED BY <1>e, <2>1, <2>2
<1>4. CASE ReadStatus(r)
  <2>1. PICK label \in {"missing", "conflict", "write"} : Goto(r, label)
    BY <1>4 DEF ReadStatus
  <2>2. pc[r] # "ok" /\ row' = row /\ \A s \in Requests \ {r} : job'[s] = job[s]
    BY <1>4, <1>a DEF ReadStatus
  <2> QED BY <1>e, <2>1, <2>2
<1>5. CASE WriteStatus(r)
  <2>1. \A u \in Units : row'[u].evidence = row[u].evidence
    BY <1>5, <1>f DEF WriteStatus
  <2>2. PICK label \in {"missing", "lost", "reread"} : Goto(r, label)
    BY <1>5 DEF WriteStatus
  <2>3. pc[r] # "ok" /\ job' = job
    BY <1>5 DEF WriteStatus
  <2> QED BY <1>e, <2>1, <2>2, <2>3
<1>6. CASE Reread(r) \/ RereadLost(r) \/ Hook(r) \/ FindUnit(r)
  <2>1. PICK label \in {"hook", "failed", "conflict", "ok", "erase", "missing"} : Goto(r, label)
    BY <1>6 DEF Reread, RereadLost, Hook, FindUnit
  <2>2. pc[r] # "ok" /\ job' = job /\ row' = row
    BY <1>6 DEF Reread, RereadLost, Hook, FindUnit
  <2> QED BY <1>e, <2>1, <2>2
<1>7. CASE EraseUnit(r)
  <2>1. \A u \in Units : row'[u].evidence = row[u].evidence \/ row'[u].evidence = NoEvidence
    BY <1>7, <1>a, <1>d DEF EraseUnit
  <2>2. PICK label \in {"ok", "missing"} : Goto(r, label)
    BY <1>7 DEF EraseUnit
  <2>3. pc[r] # "ok" /\ job' = job
    BY <1>7 DEF EraseUnit
  <2> QED BY <1>e, <2>1, <2>2, <2>3
<1>8. CASE GetApproved(r)
  <2>1. /\ pc[r] = "get" /\ row' = row /\ job[r].kind \in {"confirm", "flag"}
        /\ \A s \in Requests \ {r} : job'[s] = job[s]
    BY <1>8, <1>a DEF GetApproved, EvidenceInv
  <2>2. CASE row[Target(r)].status = "approved"
    <3>1. /\ job' = [job EXCEPT ![r].copy = row[Target(r)].evidence] /\ Goto(r, "put")
      BY <1>8, <2>2 DEF GetApproved
    <3>2. job'[r].kind = job[r].kind /\ job'[r].copy = row[Target(r)].evidence /\ job'[r].unit = job[r].unit
      BY <1>a, <3>1 DEF Job
    <3> QED BY <1>b, <2>1, <3>1, <3>2, EvidenceUntouched DEF Target
  <2>3. CASE row[Target(r)].status # "approved"
    <3>1. Goto(r, "missing")
      BY <1>8, <2>3 DEF GetApproved
    <3> QED BY <1>e, <2>1, <3>1
  <2> QED BY <2>2, <2>3
<1>9. CASE PutUnit(r)
  <2>0. /\ pc[r] = "put" /\ job' = job /\ job[r].kind \in {"confirm", "flag"}
        /\ Backed(job[r].copy, Target(r)) /\ job[r].copy \in Evidence
    BY <1>9, <1>a DEF PutUnit, EvidenceInv, Job
  <2>1. CASE ~Present(Target(r))
    <3>1. Goto(r, "failed") /\ row' = row
      BY <1>9, <2>1 DEF PutUnit
    <3> QED BY <1>e, <2>0, <3>1
  <2>2. CASE Present(Target(r))
    <3>1. PICK e \in Evidence, u \in Units : e = job[r].copy /\ u = Target(r)
      BY <1>a, <2>0
    <3>2. PICK applied \in Evidence :
             /\ applied = IF job[r].kind = "confirm" THEN ApplyConfirmation(e) ELSE ApplyFlag(e)
             /\ row' = [row EXCEPT ![u].evidence = applied]
      BY <1>9, <2>2, <3>1, ConfirmationType, FlagType DEF PutUnit
    <3>3. Goto(r, "ok")
      BY <1>9, <2>2 DEF PutUnit
    <3>4. pc'[r] = "ok" /\ \A s \in Requests \ {r} : pc'[s] = pc[s]
      BY <1>b, <3>3
    <3>5. row'[u].evidence = applied /\ \A v \in Units \ {u} : row'[v] = row[v]
      <4>1. row[u] \in Row
        BY <1>a
      <4>2. [row[u] EXCEPT !.evidence = applied].evidence = applied
        BY <4>1 DEF Row
      <4> QED BY <1>a, <3>2, <4>2
    <3>6. Backed(applied, u)'
      <4>1. /\ Backed(e, u)' /\ e.confirmations \in Nat /\ e.flags \in Nat
        BY <2>0, <3>1, <3>4, BackedStays DEF Evidence
      <4>2. ASSUME NEW kind \in AllKinds
            PROVE  /\ Cardinality(Accepted(u, kind)) \in Nat /\ Cardinality(Accepted(u, kind)') \in Nat
                   /\ job[r].kind = kind => Cardinality(Accepted(u, kind)') = Cardinality(Accepted(u, kind)) + 1
        BY <2>0, <3>1, <3>4, AcceptedGrow DEF Target
      <4>3. /\ e.confirmations <= 1 + Cardinality(Accepted(u, "confirm"))
            /\ e.flags <= Cardinality(Accepted(u, "flag"))
        BY <2>0, <3>1 DEF Backed
      <4>4. CASE job[r].kind = "confirm"
        <5>1. applied.confirmations = e.confirmations + 1 /\ applied.flags = e.flags
          BY <3>2, <4>4 DEF ApplyConfirmation, Evidence
        <5>2. applied.confirmations <= 1 + Cardinality(Accepted(u, "confirm")')
          BY <4>1, <4>2, <4>3, <4>4, <5>1 DEF AllKinds
        <5> QED BY <4>1, <5>1, <5>2 DEF Backed
      <4>5. CASE job[r].kind = "flag"
        <5>1. applied.flags = e.flags + 1 /\ applied.confirmations = e.confirmations
          BY <3>2, <4>5 DEF ApplyFlag, Evidence
        <5>2. applied.flags <= Cardinality(Accepted(u, "flag")')
          BY <4>1, <4>2, <4>3, <4>5, <5>1 DEF AllKinds
        <5> QED BY <4>1, <5>1, <5>2 DEF Backed
      <4> QED BY <2>0, <4>4, <4>5
    <3>7. \A v \in Units : row'[v].evidence = row[v].evidence \/ Backed(row[v].evidence, v)'
      BY <3>5, <3>6 DEF Backed
    <3> QED BY <2>0, <3>4, <3>7, EvidenceStep
  <2> QED BY <2>1, <2>2
<1>10. CASE SelectExpired(r)
  <2>1. PICK label \in {"ok", "drop"} : Goto(r, label)
    BY <1>10 DEF SelectExpired
  <2>2. pc[r] # "ok" /\ row' = row /\ \A s \in Requests \ {r} : job'[s] = job[s]
    BY <1>10, <1>a DEF SelectExpired
  <2> QED BY <1>e, <2>1, <2>2
<1>11. CASE DropSelected(r)
  <2>0. \A x \in Row : [x EXCEPT !.status = "dropped", !.by = Sweeper].evidence = x.evidence
    BY DEF Row
  <2>1. \A u \in Units : row'[u].evidence = row[u].evidence
    BY <1>11, <1>a, <2>0 DEF DropSelected
  <2>2. pc[r] # "ok" /\ job' = job /\ Goto(r, "ok")
    BY <1>11 DEF DropSelected
  <2> QED BY <1>e, <2>1, <2>2
<1> QED BY <1>1, <1>2, <1>3, <1>4, <1>5, <1>6, <1>7, <1>8, <1>9, <1>10, <1>11 DEF StoreCall

LEMMA EvidenceNext == EvidenceInv /\ [Next]_vars => EvidenceInv'
<1> SUFFICES ASSUME EvidenceInv, [Next]_vars PROVE EvidenceInv'
  OBVIOUS
<1>a. TypeOK' /\ TypeOK
  BY NextType DEF EvidenceInv
<1>1. ASSUME NEW r \in Requests, Arrive(r) PROVE EvidenceInv'
  <2>1. PICK k \in Kinds \cap DOMAIN FirstCall, u \in Units, user \in Users :
          /\ pc[r] = "idle" /\ job' = [job EXCEPT ![r] = NewJob(k, u, user)]
          /\ Goto(r, FirstCall[k]) /\ UNCHANGED <<row, born, won, events>>
    BY <1>1 DEF Arrive
  <2>2. /\ pc'[r] = FirstCall[k] /\ job'[r].kind = k
        /\ \A s \in Requests \ {r} : pc'[s] = pc[s] /\ job'[s] = job[s]
    BY <1>a, <2>1 DEF Goto, TypeOK, NewJob
  <2>3. FirstCall[k] # "put" /\ (FirstCall[k] = "get" => k \in {"confirm", "flag"})
    BY DEF FirstCall
  <2> QED BY <1>a, <2>1, <2>2, <2>3, EvidenceUntouched
<1>2. ASSUME NEW r \in Requests, Insert(r) PROVE EvidenceInv'
  <2>1. PICK k \in Kinds \cap {"propose", "submit"}, u \in Units \ born, user \in Users :
          /\ pc[r] = "idle" /\ job' = [job EXCEPT ![r] = NewJob(k, u, user)]
          /\ row' = [row EXCEPT ![u] = NewRow(user)]
          /\ Goto(r, "mark") \/ Goto(r, "embed") \/ Goto(r, AfterInsert)
    BY <1>2 DEF Insert
  <2>2. /\ pc'[r] \in {"mark", "embed", "auto", "ok"}
        /\ \A s \in Requests \ {r} : pc'[s] = pc[s] /\ job'[s] = job[s]
    BY <1>a, <2>1 DEF Goto, TypeOK, AfterInsert
  <2>3. NewRow(user).evidence = NoEvidence
    BY NoRowType DEF NewRow, NoRow, Row
  <2>4. \A v \in Units : row'[v].evidence = row[v].evidence \/ row'[v].evidence = NoEvidence
    BY <1>a, <2>1, <2>3 DEF TypeOK
  <2> QED BY <1>a, <2>1, <2>2, <2>4, EvidenceUntouched
<1>3. ASSUME NEW r \in Requests, StoreCall(r) PROVE EvidenceInv'
  BY <1>3, <1>a, EvidenceStoreCall
\* A step that accepts nothing and changes no evidence.
<1>4. ASSUME \A r \in Requests : pc'[r] = pc[r] \/ (pc[r] # "ok" /\ pc'[r] = "crashed"),
             job' = job, \A u \in Units : row'[u].evidence = row[u].evidence
      PROVE  EvidenceInv'
  <2>1. \A u, kind : Accepted(u, kind)' = Accepted(u, kind)
    BY <1>4 DEF Accepted, Target
  <2> QED BY <1>4, <1>a, <2>1 DEF EvidenceInv, Backed, Target
<1>5. ASSUME NEW u \in Units, TtlPasses(u) PROVE EvidenceInv'
  <2>1. \A x \in Row : [x EXCEPT !.ttl = "past"].evidence = x.evidence
    BY DEF Row
  <2>2. \A v \in Units : row'[v].evidence = row[v].evidence
    BY <1>5, <1>a, <2>1 DEF TtlPasses, TypeOK
  <2> QED BY <1>4, <1>5, <2>2 DEF TtlPasses
<1>6. CASE Crash
  <2>1. \A r \in Requests : pc'[r] = pc[r] \/ (pc[r] # "ok" /\ pc'[r] = "crashed")
    BY <1>6, <1>a DEF Crash, TypeOK, Working
  <2> QED BY <1>4, <1>6, <2>1 DEF Crash
<1>7. CASE Finished \/ UNCHANGED vars
  <2>1. UNCHANGED vars
    BY <1>7 DEF Finished
  <2> QED BY <1>4, <2>1 DEF vars
<1> QED BY <1>1, <1>2, <1>3, <1>5, <1>6, <1>7 DEF Next

\* apply_confirmation and apply_flag are read-modify-writes that lose each other's
\* updates, also over a delete; but no unit ever counts more confirmations or flags
\* than the server accepted, of any number of requests. The table may hold units
\* at the start, if nobody has confirmed or flagged them.
THEOREM EvidenceIsBacked ==
    ASSUME Unconfirmed
    PROVE  Spec => []NoPhantomEvidence
<1>1. Init => EvidenceInv
  BY EvidenceInitially
<1>2. EvidenceInv => NoPhantomEvidence
  BY DEF EvidenceInv, Backed, NoPhantomEvidence
<1> QED BY <1>1, <1>2, EvidenceNext, PTL DEF Spec
=============================================================================
