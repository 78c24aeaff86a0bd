---------------------------- MODULE ConsultsProofs ----------------------------
(***************************************************************************)
(* Theorems about Consults, for any L2s, users, peer tables, rosters and   *)
(* policies, and any number of requests, deliveries and crashes.           *)
(*                                                                         *)
(* Whatever an L2 stores can be traced to the request it came from: a      *)
(* thread to the request of its own name, a message to the request that    *)
(* carries it.  The inductive invariant is that trace.                     *)
(***************************************************************************)
EXTENDS Consults, TLAPS

Used(j) == jobs[j] # NoJob

\* A request that got beyond its checks: it is being handled, was answered or
\* died after it wrote, or its forward is on its way.
Engaged(j) ==
    /\ Used(j)
    /\ \/ jobs[j].stage # "done"
       \/ jobs[j].answer \in {"ok", "dead"}
       \/ \E c \in Copies : forwards[j][c] # "none"

\* It has made its local writes.
Sent(j) ==
    /\ Used(j)
    /\ \/ jobs[j].stage \in {"send", "wait"}
       \/ \E c \in Copies : forwards[j][c] # "none"

Unlogged(j) ==
    /\ jobs[j].kind = "request"
    /\ PolicyBetween(Home(j), jobs[j].other) = "no_log_consults"

\* Every row of a thread comes from the request that opened it.
ThreadsTraced ==
    \A l2 \in L2s, t \in Jobs :
        Exists(l2, t) =>
            /\ Used(t) /\ jobs[t].kind = "request"
            /\ consults[l2][t].from = jobs[t].user
            /\ Exists(Home(t), t)
            /\ consults[l2][t].to = consults[Home(t)][t].to
            /\ l2 \in {HomeOf[consults[l2][t].from], HomeOf[consults[l2][t].to]}

\* Every message row comes from a request that the author's L2 recorded.
MessagesTraced ==
    \A l2 \in L2s, m \in Jobs :
        messages[l2][m] # NoMessage =>
            /\ Engaged(m) /\ jobs[m].kind # "close"
            /\ messages[l2][m].thread = jobs[m].thread
            /\ messages[l2][m].author = jobs[m].user
            /\ Exists(l2, jobs[m].thread)
            /\ messages[Home(m)][m] # NoMessage

\* A request acts on a thread of its server in which its user takes part.
JobsOnThread ==
    \A j \in Jobs :
        Engaged(j) =>
            /\ Exists(Home(j), jobs[j].thread)
            /\ Participant(jobs[j].user, consults[Home(j)][jobs[j].thread])
            /\ jobs[j].kind # "close" =>
                  jobs[j].other =
                      HomeOf[OtherParty(jobs[j].user, consults[Home(j)][jobs[j].thread])]

StagesMatchKinds ==
    \A j \in Jobs :
        Used(j) =>
            /\ jobs[j].stage \in {"append", "send", "wait"} => jobs[j].kind # "close"
            /\ jobs[j].stage \in {"close", "event"} => jobs[j].kind = "close"

\* Nothing is forwarded before it is recorded.
ForwardsTraced ==
    \A j \in Jobs :
        /\ \A c \in Copies : forwards[j][c] # "none" => Used(j)
        /\ Used(j) /\ jobs[j].stage = "wait" => \E c \in Copies : forwards[j][c] # "none"
        /\ Sent(j) => /\ jobs[j].kind # "close"
                      /\ messages[Home(j)][j] # NoMessage \/ Unlogged(j)

\* What a forward's receiver has found or answered is in its tables.
ForwardsKept ==
    \A j \in Jobs, c \in Copies :
        /\ forwards[j][c] \in {"found", "ok"} => Exists(There(j), jobs[j].thread)
        /\ forwards[j][c] = "ok" => messages[There(j)][j] # NoMessage \/ Unlogged(j)

\* Of those that close a thread, one at most is left to record the event.
OneRecorder ==
    \A j \in Jobs :
        Used(j) /\ jobs[j].stage = "event" =>
            /\ events[Home(j)][jobs[j].thread] = 0
            /\ consults[Home(j)][jobs[j].thread].status = "closed"
            /\ \A i \in Jobs :
                  /\ Used(i) /\ jobs[i].stage = "event"
                  /\ Home(i) = Home(j) /\ jobs[i].thread = jobs[j].thread
                  => i = j

ConsultInv ==
    /\ TypeOK
    /\ ThreadsTraced /\ MessagesTraced
    /\ JobsOnThread /\ StagesMatchKinds
    /\ ForwardsTraced /\ ForwardsKept
    /\ OkMeansMirrored
    /\ OneClosedEvent /\ OneRecorder

-----------------------------------------------------------------------------
(* Who writes what.                                                        *)

Asks(j)  == \E u \in Users, to \in Personas : RequestConsult(j, u, to)
Opens(j) == \E u \in Users, t \in Jobs : PostMessage(j, u, t) \/ CloseConsult(j, u, t)
Denied(j) ==
    \/ \E u \in Users, to \in Personas : RequestRefused(j, u, to)
    \/ \E u \in Users, t \in Jobs :
          PostRefused(j, u, t) \/ PostUnroutable(j, u, t) \/ CloseRefused(j, u, t)

\* The rows of consults have three writers.
LEMMA ConsultWriters ==
    ASSUME [Next]_vars, consults' # consults
    PROVE  \/ \E j \in Jobs : Asks(j) \/ UpdateClosed(j)
           \/ \E j \in Jobs, c \in Copies : MirrorThread(j, c)
  <1>1. ASSUME NEW j \in Jobs, Asked(j) PROVE Asks(j)
    BY <1>1 DEF Asked, Asks, RequestRefused, PostMessage, PostRefused, PostUnroutable,
                CloseConsult, CloseRefused, Refuse, store
  <1>2. ASSUME NEW j \in Jobs, Handled(j) PROVE UpdateClosed(j)
    BY <1>2 DEF Handled, AppendMessage, Send, ForwardAnswered, ForwardFails,
                RecordClosed, store
  <1>3. ASSUME NEW j \in Jobs, NEW c \in Copies, Received(j, c) PROVE MirrorThread(j, c)
    BY <1>3 DEF Received, ForwardArrives, MirrorThreadFails, MirrorMessage, store
  <1> QED BY <1>1, <1>2, <1>3 DEF Next, vars, store, Redeliver, Crash

LEMMA MessageWriters ==
    ASSUME [Next]_vars, messages' # messages
    PROVE  \/ \E j \in Jobs : AppendMessage(j)
           \/ \E j \in Jobs, c \in Copies : MirrorMessage(j, c)
  <1>1. ASSUME NEW j \in Jobs, Asked(j) PROVE FALSE
    BY <1>1 DEF Asked, RequestConsult, RequestRefused, PostMessage, PostRefused,
                PostUnroutable, CloseConsult, CloseRefused, Refuse, store
  <1>2. ASSUME NEW j \in Jobs, Handled(j) PROVE AppendMessage(j)
    BY <1>2 DEF Handled, Send, ForwardAnswered, ForwardFails, UpdateClosed,
                RecordClosed, store
  <1>3. ASSUME NEW j \in Jobs, NEW c \in Copies, Received(j, c) PROVE MirrorMessage(j, c)
    BY <1>3 DEF Received, ForwardArrives, MirrorThread, MirrorThreadFails, store
  <1> QED BY <1>1, <1>2, <1>3 DEF Next, vars, store, Redeliver, Crash

LEMMA EventWriters ==
    ASSUME [Next]_vars, events' # events
    PROVE  \E j \in Jobs : RecordClosed(j)
  <1>1. ASSUME NEW j \in Jobs, Asked(j) PROVE FALSE
    BY <1>1 DEF Asked, RequestConsult, RequestRefused, PostMessage, PostRefused,
                PostUnroutable, CloseConsult, CloseRefused, Refuse, store
  <1>2. ASSUME NEW j \in Jobs, Handled(j) PROVE RecordClosed(j)
    BY <1>2 DEF Handled, AppendMessage, Send, ForwardAnswered, ForwardFails,
                UpdateClosed, store
  <1>3. ASSUME NEW j \in Jobs, NEW c \in Copies, Received(j, c) PROVE FALSE
    BY <1>3 DEF Received, ForwardArrives, MirrorThread, MirrorThreadFails,
                MirrorMessage, store
  <1> QED BY <1>1, <1>2, <1>3 DEF Next, vars, store, Redeliver, Crash

LEMMA ForwardWriters ==
    ASSUME [Next]_vars
    PROVE  \/ forwards' = forwards
           \/ \E j \in Jobs : Send(j)
           \/ \E j \in Jobs, c \in Copies : Received(j, c) \/ Redeliver(j, c)
           \/ \E l2 \in L2s : Crash(l2)
  <1>1. ASSUME NEW j \in Jobs, Asked(j) PROVE forwards' = forwards
    BY <1>1 DEF Asked, RequestConsult, RequestRefused, PostMessage, PostRefused,
                PostUnroutable, CloseConsult, CloseRefused, Refuse
  <1>2. ASSUME NEW j \in Jobs, Handled(j) PROVE forwards' = forwards \/ Send(j)
    BY <1>2 DEF Handled, AppendMessage, ForwardAnswered, ForwardFails,
                UpdateClosed, RecordClosed
  <1> QED BY <1>1, <1>2 DEF Next, vars

LEMMA JobWriters ==
    ASSUME [Next]_vars
    PROVE  \/ jobs' = jobs
           \/ \E j \in Jobs : Asks(j) \/ Opens(j) \/ Denied(j) \/ Handled(j)
           \/ \E l2 \in L2s : Crash(l2)
  BY DEF Next, vars, store, Asked, Asks, Opens, Denied, Received, ForwardArrives,
         MirrorThread, MirrorThreadFails, MirrorMessage, Redeliver

LEMMA CrashWriters ==
    ASSUME [Next]_vars, crashes' # crashes
    PROVE  \E l2 \in L2s : Crash(l2)
  <1>1. ASSUME NEW j \in Jobs, Asked(j) PROVE FALSE
    BY <1>1 DEF Asked, RequestConsult, RequestRefused, PostMessage, PostRefused,
                PostUnroutable, CloseConsult, CloseRefused, Refuse
  <1>2. ASSUME NEW j \in Jobs, Handled(j) PROVE FALSE
    BY <1>2 DEF Handled, AppendMessage, Send, ForwardAnswered, ForwardFails,
                UpdateClosed, RecordClosed
  <1>3. ASSUME NEW j \in Jobs, NEW c \in Copies, Received(j, c) PROVE FALSE
    BY <1>3 DEF Received, ForwardArrives, MirrorThread, MirrorThreadFails, MirrorMessage
  <1> QED BY <1>1, <1>2, <1>3 DEF Next, vars, Redeliver

-----------------------------------------------------------------------------
(* Types.                                                                  *)

\* All that the types need of the constants.
LEMMA Homes ==
    HomeOf \in [Personas -> L2s] /\ Users \subseteq Personas /\ MaxCrashes \in Nat
  BY ConstantsAssumption

USE Homes

LEMMA InitType == Init => TypeOK
  BY SMTT(30) DEF Init, TypeOK, ForwardStages

LEMMA JobFields ==
    ASSUME NEW job \in Job, NEW stage \in Stages,
           NEW answer \in {"none", "ok", "refused", "bad_gateway", "dead"}
    PROVE  /\ [job EXCEPT !.stage = stage] \in Job
           /\ [job EXCEPT !.stage = stage, !.answer = answer] \in Job
  BY DEF Job

LEMMA JobOrNone ==
    ASSUME TypeOK, NEW j \in Jobs
    PROVE  /\ jobs[j] = NoJob => jobs[j].stage = "unused"
           /\ jobs[j] # NoJob => jobs[j] \in Job /\ jobs[j].stage # "unused"
  BY DEF TypeOK, NoJob, Job, Stages

\* What a request becomes is a request.
LEMMA JobsTyped ==
    ASSUME TypeOK, [Next]_vars
    PROVE  jobs' \in [Jobs -> Job \cup {NoJob}]
  <1> USE DEF TypeOK
  <1>1. ASSUME NEW j \in Jobs, NEW kind \in {"request", "message", "close"},
               NEW u \in Users, NEW t \in Jobs, NEW there \in L2s,
               NEW stage \in Stages,
               NEW answer \in {"none", "ok", "refused", "bad_gateway", "dead"},
               Begin(j, kind, u, t, there, stage, answer)
        PROVE  jobs' \in [Jobs -> Job \cup {NoJob}]
    BY <1>1 DEF Begin, Job
  <1>2. ASSUME NEW j \in Jobs, Asks(j) \/ Opens(j)
        PROVE  jobs' \in [Jobs -> Job \cup {NoJob}]
    <2>1. ASSUME NEW u \in Users, NEW to \in Personas, RequestConsult(j, u, to)
          PROVE  jobs' \in [Jobs -> Job \cup {NoJob}]
      <3>1. HomeOf[to] \in L2s /\ "append" \in Stages /\ "send" \in Stages
        BY DEF Stages
      <3>2. PICK stage \in Stages : Begin(j, "request", u, j, HomeOf[to], stage, "none")
        BY <2>1, <3>1 DEF RequestConsult
      <3>3. u \in Users /\ j \in Jobs /\ "request" \in {"request", "message", "close"}
            /\ "none" \in {"none", "ok", "refused", "bad_gateway", "dead"}
        OBVIOUS
      <3> HIDE DEF TypeOK
      <3> QED BY <1>1, <3>1, <3>2, <3>3, Zenon
    <2>2. ASSUME NEW u \in Users, NEW t \in Jobs, PostMessage(j, u, t)
          PROVE  jobs' \in [Jobs -> Job \cup {NoJob}]
      <3>1. OtherParty(u, consults[HomeOf[u]][t]) \in Personas
        <4>1. HomeOf[u] \in L2s /\ Exists(HomeOf[u], t)
          BY <2>2 DEF PostMessage, MayAct
        <4>2. consults[HomeOf[u]][t] \in Consult
          BY <4>1 DEF Exists
        <4> QED BY <4>2 DEF Consult, OtherParty
      <3>2. HomeOf[OtherParty(u, consults[HomeOf[u]][t])] \in L2s /\ "append" \in Stages
        BY <3>1 DEF Stages
      <3>3. Begin(j, "message", u, t, HomeOf[OtherParty(u, consults[HomeOf[u]][t])],
                  "append", "none")
        BY <2>2 DEF PostMessage
      <3>4. u \in Users /\ j \in Jobs /\ "message" \in {"request", "message", "close"}
            /\ "none" \in {"none", "ok", "refused", "bad_gateway", "dead"}
        OBVIOUS
      <3> HIDE DEF TypeOK
      <3> QED BY <1>1, <3>2, <3>3, <3>4, Zenon
    <2>3. ASSUME NEW u \in Users, NEW t \in Jobs, CloseConsult(j, u, t)
          PROVE  jobs' \in [Jobs -> Job \cup {NoJob}]
      BY <1>1, <2>3 DEF CloseConsult, Stages
    <2> QED BY <1>2, <2>1, <2>2, <2>3 DEF Asks, Opens
  <1>3. ASSUME NEW j \in Jobs, Denied(j)
        PROVE  jobs' \in [Jobs -> Job \cup {NoJob}]
    BY <1>1, <1>3 DEF Denied, RequestRefused, PostRefused, PostUnroutable, CloseRefused,
                      Refuse, Stages
  <1>4. ASSUME NEW j \in Jobs, Handled(j)
        PROVE  jobs' \in [Jobs -> Job \cup {NoJob}]
    <2>1. jobs[j] \in Job
      BY <1>4, JobOrNone DEF Handled, AppendMessage, Send, ForwardAnswered, ForwardFails,
                  UpdateClosed, RecordClosed
    <2>2. \/ \E answer \in {"ok", "bad_gateway"} : Answer(j, answer)
          \/ \E stage \in {"send", "wait", "event"} : GoTo(j, stage)
      BY <1>4 DEF Handled, AppendMessage, Mirror, Send, ForwardAnswered, ForwardFails,
                  UpdateClosed, RecordClosed
    <2>3. CASE \E answer \in {"ok", "bad_gateway"} : Answer(j, answer)
      <3>1. PICK answer \in {"ok", "bad_gateway"} :
               jobs' = [jobs EXCEPT ![j] = [@ EXCEPT !.stage = "done", !.answer = answer]]
        BY <2>3 DEF Answer
      <3>2. [jobs[j] EXCEPT !.stage = "done", !.answer = answer] \in Job
        BY <2>1, JobFields DEF Stages
      <3> QED BY <3>1, <3>2
    <2>4. CASE \E stage \in {"send", "wait", "event"} : GoTo(j, stage)
      <3>1. PICK stage \in {"send", "wait", "event"} :
               jobs' = [jobs EXCEPT ![j] = [@ EXCEPT !.stage = stage]]
        BY <2>4 DEF GoTo
      <3>2. [jobs[j] EXCEPT !.stage = stage] \in Job
        BY <2>1, JobFields DEF Stages
      <3> QED BY <3>1, <3>2
    <2> QED BY <2>2, <2>3, <2>4
  <1>5. ASSUME NEW l2 \in L2s, Crash(l2)
        PROVE  jobs' \in [Jobs -> Job \cup {NoJob}]
    <2>1. ASSUME NEW j \in Jobs
          PROVE  jobs'[j] \in Job \cup {NoJob}
      <3>1. \/ jobs'[j] = jobs[j]
            \/ /\ jobs[j].stage # "unused"
               /\ jobs'[j] = [jobs[j] EXCEPT !.stage = "done", !.answer = "dead"]
        BY <1>5 DEF Crash
      <3>2. CASE jobs'[j] = jobs[j]
        BY <3>2
      <3>3. CASE /\ jobs[j].stage # "unused"
                 /\ jobs'[j] = [jobs[j] EXCEPT !.stage = "done", !.answer = "dead"]
        <4>1. jobs[j] \in Job
          BY <3>3, JobOrNone
        <4>2. [jobs[j] EXCEPT !.stage = "done", !.answer = "dead"] \in Job
          BY <4>1, JobFields DEF Stages
        <4> QED BY <3>3, <4>2
      <3> QED BY <3>1, <3>2, <3>3
    <2> QED BY <1>5, <2>1 DEF Crash
  <1> QED BY JobWriters, <1>2, <1>3, <1>4, <1>5

\* What a forward carries is a thread of its sender.
LEMMA EndpointsTyped ==
    ASSUME ConsultInv, NEW j \in Jobs, NEW c \in Copies, forwards[j][c] # "none"
    PROVE  /\ Used(j) /\ Engaged(j) /\ Sent(j) /\ jobs[j] \in Job
           /\ jobs[j].kind # "close"
           /\ Home(j) \in L2s /\ There(j) \in L2s /\ jobs[j].thread \in Jobs
           /\ Exists(Home(j), jobs[j].thread)
           /\ Endpoints(j) = consults[Home(j)][jobs[j].thread]
           /\ Endpoints(j) \in Consult
  <1>1. Used(j) /\ jobs[j] \in Job
    BY JobOrNone DEF ConsultInv, ForwardsTraced, Used
  <1>2. Engaged(j) /\ Sent(j)
    BY <1>1 DEF Engaged, Sent
  <1>3. /\ Exists(Home(j), jobs[j].thread)
        /\ jobs[j].kind # "close"
    BY <1>2 DEF ConsultInv, JobsOnThread, ForwardsTraced
  <1>4. Home(j) \in L2s /\ There(j) \in L2s /\ jobs[j].thread \in Jobs
    BY <1>1 DEF Job, Home, There
  <1>5. Endpoints(j) \in Consult
    BY <1>3, <1>4 DEF Endpoints, Exists, ConsultInv, TypeOK
  <1> QED BY <1>1, <1>2, <1>3, <1>4, <1>5 DEF Endpoints

LEMMA StepType == ConsultInv /\ [Next]_vars => TypeOK'
  <1> SUFFICES ASSUME ConsultInv, [Next]_vars
               PROVE  TypeOK'
    OBVIOUS
  <1>0. TypeOK
    BY DEF ConsultInv
  <1> USE <1>0 DEF TypeOK
  <1>1. jobs' \in [Jobs -> Job \cup {NoJob}]
    BY JobsTyped
  <1>2. consults' \in [L2s -> [Jobs -> Consult \cup {NoConsult}]]
    <2>1. ASSUME NEW l2 \in L2s, NEW t \in Jobs, NEW from \in Personas, NEW to \in Personas,
                 InsertConsult(l2, t, from, to)
          PROVE  consults' \in [L2s -> [Jobs -> Consult \cup {NoConsult}]]
      BY <2>1 DEF InsertConsult, Consult
    <2>2. ASSUME NEW j \in Jobs, Asks(j)
          PROVE  consults' \in [L2s -> [Jobs -> Consult \cup {NoConsult}]]
      BY <2>1, <2>2 DEF Asks, RequestConsult
    <2>3. ASSUME NEW j \in Jobs, UpdateClosed(j)
          PROVE  consults' \in [L2s -> [Jobs -> Consult \cup {NoConsult}]]
      <3>1. jobs[j] \in Job
        BY <2>3, JobOrNone DEF UpdateClosed
      <3>2. Home(j) \in L2s /\ jobs[j].thread \in Jobs
        BY <3>1 DEF Job, Home
      <3>3. ASSUME NEW row \in Consult PROVE Closed(row) \in Consult
        BY DEF Closed, Consult
      <3>4. consults[Home(j)][jobs[j].thread] \in Consult
        <4>1. Engaged(j)
          BY <2>3, JobOrNone DEF UpdateClosed, Engaged, Used
        <4> QED BY <4>1, <3>2 DEF ConsultInv, JobsOnThread, Exists
      <3>5. PICK row \in Consult :
               \/ consults' = consults
               \/ consults' = [consults EXCEPT ![Home(j)][jobs[j].thread] = row]
        BY <2>3, <3>3, <3>4 DEF UpdateClosed
      <3> HIDE <1>0
      <3>6. consults \in [L2s -> [Jobs -> Consult \cup {NoConsult}]]
        BY <1>0
      <3>7. [consults EXCEPT ![Home(j)][jobs[j].thread] = row]
                \in [L2s -> [Jobs -> Consult \cup {NoConsult}]]
        BY <3>2, <3>6
      <3> QED BY <3>5, <3>6, <3>7
    <2>4. ASSUME NEW j \in Jobs, NEW c \in Copies, MirrorThread(j, c)
          PROVE  consults' \in [L2s -> [Jobs -> Consult \cup {NoConsult}]]
      <3>1. Endpoints(j).from \in Personas /\ Endpoints(j).to \in Personas
        BY <2>4, EndpointsTyped DEF MirrorThread, Consult
      <3> QED BY <2>1, <2>4, <3>1, EndpointsTyped DEF MirrorThread
    <2> QED BY ConsultWriters, <2>2, <2>3, <2>4
  <1>3. messages' \in [L2s -> [Jobs -> Message \cup {NoMessage}]]
    <2>1. ASSUME NEW l2 \in L2s, NEW m \in Jobs, NEW job \in Job, NEW p,
                 InsertMessage(l2, m, job.thread, job.user, RedactForPolicy(p))
          PROVE  messages' \in [L2s -> [Jobs -> Message \cup {NoMessage}]]
      <3>1. [thread |-> job.thread, author |-> job.user, body |-> RedactForPolicy(p)] \in Message
        BY DEF Job, Message, RedactForPolicy
      <3> QED BY <2>1, <3>1 DEF InsertMessage
    <2>2. ASSUME NEW j \in Jobs, AppendMessage(j)
          PROVE  messages' \in [L2s -> [Jobs -> Message \cup {NoMessage}]]
      <3>1. jobs[j] \in Job
        BY <2>2, JobOrNone DEF AppendMessage
      <3> QED BY <2>1, <2>2, <3>1 DEF AppendMessage, Job, Home
    <2>3. ASSUME NEW j \in Jobs, NEW c \in Copies, MirrorMessage(j, c)
          PROVE  messages' \in [L2s -> [Jobs -> Message \cup {NoMessage}]]
      BY <2>1, <2>3, EndpointsTyped DEF MirrorMessage
    <2> QED BY <2>2, <2>3, MessageWriters
  <1>4. events' \in [L2s -> [Jobs -> Nat]]
    <2>1. ASSUME NEW j \in Jobs, RecordClosed(j)
          PROVE  events' \in [L2s -> [Jobs -> Nat]]
      <3>1. jobs[j] \in Job
        BY <2>1, JobOrNone DEF RecordClosed
      <3>2. Home(j) \in L2s /\ jobs[j].thread \in Jobs
        BY <3>1 DEF Job, Home
      <3>3. events' \in {events, [events EXCEPT ![Home(j)][jobs[j].thread] = @ + 1]}
        BY <2>1 DEF RecordClosed
      <3>4. events \in [L2s -> [Jobs -> Nat]]
        OBVIOUS
      <3>5. [events EXCEPT ![Home(j)][jobs[j].thread] = @ + 1] \in [L2s -> [Jobs -> Nat]]
        BY <3>2, <3>4
      <3> QED BY <3>3, <3>4, <3>5
    <2> QED BY <2>1, EventWriters
  <1>5. forwards' \in [Jobs -> [Copies -> ForwardStages]]
    <2>1. ASSUME NEW j \in Jobs, NEW c \in Copies, NEW stage \in ForwardStages,
                 SetForward(j, c, stage)
          PROVE  forwards' \in [Jobs -> [Copies -> ForwardStages]]
      BY <2>1 DEF SetForward
    <2>2. ASSUME NEW j \in Jobs, Send(j)
          PROVE  forwards' \in [Jobs -> [Copies -> ForwardStages]]
      BY <2>2, <2>1 DEF Send, SetForward, ForwardStages
    <2>3. ASSUME NEW j \in Jobs, NEW c \in Copies, Received(j, c) \/ Redeliver(j, c)
          PROVE  forwards' \in [Jobs -> [Copies -> ForwardStages]]
      BY <2>3, <2>1 DEF Received, ForwardArrives, MirrorThread, MirrorThreadFails,
                        MirrorMessage, Redeliver, ForwardStages
    <2>4. ASSUME NEW l2 \in L2s, Crash(l2)
          PROVE  forwards' \in [Jobs -> [Copies -> ForwardStages]]
      <3>1. ASSUME NEW j \in Jobs, NEW c \in Copies
            PROVE  forwards'[j][c] \in ForwardStages
        <4>1. forwards'[j][c] \in {forwards[j][c], "error"}
          BY <2>4 DEF Crash
        <4> QED BY <4>1 DEF ForwardStages
      <3> QED BY <2>4, <3>1 DEF Crash
    <2> QED BY <2>2, <2>3, <2>4, ForwardWriters
  <1>6. crashes' \in 0..MaxCrashes
    <2>1. ASSUME NEW l2 \in L2s, Crash(l2)
          PROVE  crashes' \in 0..MaxCrashes
      <3>1. crashes < MaxCrashes /\ crashes' = crashes + 1
        BY <2>1 DEF Crash
      <3> QED BY <3>1
    <2> QED BY <2>1, CrashWriters
  <1> QED BY <1>1, <1>2, <1>3, <1>4, <1>5, <1>6

-----------------------------------------------------------------------------
(* What no step takes away.                                                *)

\* The ways a request comes to be another: it is made, its server handles it,
\* or its server dies.
LEMMA JobFate ==
    ASSUME ConsultInv, [Next]_vars, NEW j \in Jobs, jobs'[j] # jobs[j]
    PROVE  \/ jobs[j] = NoJob /\ (Asks(j) \/ Opens(j) \/ Denied(j))
           \/ jobs[j] \in Job /\ Handled(j)
           \/ \E l2 \in L2s :
                /\ Crash(l2) /\ jobs[j] \in Job /\ jobs[j].stage # "done"
                /\ jobs'[j] = [jobs[j] EXCEPT !.stage = "done", !.answer = "dead"]
  <1>1. TypeOK /\ jobs \in [Jobs -> Job \cup {NoJob}]
    BY DEF ConsultInv, TypeOK
  <1>2. ASSUME NEW i \in Jobs, Asks(i) \/ Opens(i) \/ Denied(i)
        PROVE  i = j /\ jobs[j] = NoJob
    BY <1>1, <1>2 DEF Asks, Opens, Denied, RequestConsult, RequestRefused, PostMessage,
                      PostRefused, PostUnroutable, CloseConsult, CloseRefused, Refuse, Begin
  <1>3. ASSUME NEW i \in Jobs, Handled(i)
        PROVE  i = j /\ jobs[j] \in Job
    <2>1. jobs[i] \in Job
      BY <1>1, <1>3, JobOrNone DEF Handled, AppendMessage, Send, ForwardAnswered,
                  ForwardFails, UpdateClosed, RecordClosed
    <2>2. i = j
      BY <1>1, <1>3 DEF Handled, AppendMessage, Mirror, Send, ForwardAnswered,
                  ForwardFails, UpdateClosed, RecordClosed, Answer, GoTo
    <2> QED BY <2>1, <2>2
  <1>4. ASSUME NEW l2 \in L2s, Crash(l2)
        PROVE  /\ jobs[j] \in Job /\ jobs[j].stage # "done"
               /\ jobs'[j] = [jobs[j] EXCEPT !.stage = "done", !.answer = "dead"]
    <2>1. jobs[j].stage \notin {"unused", "done"}
      BY <1>4 DEF Crash
    <2>2. jobs'[j] = [jobs[j] EXCEPT !.stage = "done", !.answer = "dead"]
      BY <1>4 DEF Crash
    <2> QED BY <1>1, <2>1, <2>2, JobOrNone
  <1> QED BY <1>2, <1>3, <1>4, JobWriters

\* A request keeps what it asks for, and its answer.
LEMMA JobsKept ==
    ASSUME ConsultInv, [Next]_vars, NEW j \in Jobs, Used(j)
    PROVE  /\ Used(j)' /\ jobs[j] \in Job /\ jobs'[j] \in Job
           /\ jobs'[j].kind = jobs[j].kind /\ jobs'[j].user = jobs[j].user
           /\ jobs'[j].thread = jobs[j].thread /\ jobs'[j].other = jobs[j].other
           /\ jobs[j].stage = "done" => jobs'[j] = jobs[j]
  <1>1. TypeOK /\ jobs[j] \in Job /\ jobs \in [Jobs -> Job \cup {NoJob}]
    BY JobOrNone DEF ConsultInv, TypeOK, Used
  <1>2. CASE jobs'[j] = jobs[j]
    BY <1>1, <1>2 DEF Used
  <1>3. CASE Handled(j)
    <2>1. jobs[j].stage # "done"
      BY <1>3 DEF Handled, AppendMessage, Send, ForwardAnswered, ForwardFails,
                  UpdateClosed, RecordClosed
    <2>2. \/ \E answer \in {"ok", "bad_gateway"} :
                jobs'[j] = [jobs[j] EXCEPT !.stage = "done", !.answer = answer]
          \/ \E stage \in {"send", "wait", "event"} :
                jobs'[j] = [jobs[j] EXCEPT !.stage = stage]
      BY <1>1, <1>3 DEF Handled, AppendMessage, Mirror, Send, ForwardAnswered,
                  ForwardFails, UpdateClosed, RecordClosed, Answer, GoTo
    <2>3. jobs'[j] # NoJob
      BY <1>1, <2>2 DEF NoJob, Job
    <2>4. jobs'[j] \in Job
      <3>1. ASSUME NEW answer \in {"ok", "bad_gateway"} PROVE [jobs[j] EXCEPT !.stage = "done", !.answer = answer] \in Job
        BY <1>1, JobFields DEF Stages
      <3>2. ASSUME NEW stage \in {"send", "wait", "event"} PROVE [jobs[j] EXCEPT !.stage = stage] \in Job
        BY <1>1, JobFields DEF Stages
      <3> QED BY <2>2, <3>1, <3>2
    <2> QED BY <1>1, <2>1, <2>2, <2>3, <2>4 DEF Used, Job
  <1>4. CASE /\ jobs[j].stage # "done"
             /\ jobs'[j] = [jobs[j] EXCEPT !.stage = "done", !.answer = "dead"]
    <2>1. jobs'[j] \in Job
      BY <1>1, <1>4, JobFields DEF Stages
    <2>2. jobs'[j] # NoJob
      BY <1>1, <1>4 DEF NoJob, Job
    <2> QED BY <1>1, <1>4, <2>1, <2>2 DEF Used, Job
  <1> QED BY <1>2, <1>3, <1>4, JobFate DEF Used

LEMMA ForwardsStay ==
    ASSUME ConsultInv, [Next]_vars, NEW j \in Jobs, NEW c \in Copies,
           forwards[j][c] # "none"
    PROVE  forwards'[j][c] # "none"
  <1>1. forwards \in [Jobs -> [Copies -> ForwardStages]]
    BY DEF ConsultInv, TypeOK
  <1>2. ASSUME NEW i \in Jobs, NEW d \in Copies, NEW stage, stage # "none",
               forwards' = [forwards EXCEPT ![i][d] = stage]
        PROVE  forwards'[j][c] # "none"
    BY <1>1, <1>2
  <1>3. ASSUME NEW i \in Jobs, Send(i) PROVE forwards'[j][c] # "none"
    BY <1>2, <1>3 DEF Send
  <1>4. ASSUME NEW i \in Jobs, NEW d \in Copies, Received(i, d) \/ Redeliver(i, d)
        PROVE  forwards'[j][c] # "none"
    BY <1>2, <1>4 DEF Received, ForwardArrives, MirrorThread, MirrorThreadFails,
                      MirrorMessage, Redeliver, SetForward
  <1>5. ASSUME NEW l2 \in L2s, Crash(l2) PROVE forwards'[j][c] # "none"
    BY <1>5 DEF Crash
  <1> QED BY <1>3, <1>4, <1>5, ForwardWriters

\* A thread stays, its ends stay, and it is never reopened.
LEMMA ConsultsKept ==
    ASSUME ConsultInv, [Next]_vars, NEW l2 \in L2s, NEW t \in Jobs, Exists(l2, t)
    PROVE  /\ consults'[l2][t] # NoConsult
           /\ consults'[l2][t] \in {consults[l2][t], Closed(consults[l2][t])}
           /\ consults'[l2][t].from = consults[l2][t].from
           /\ consults'[l2][t].to = consults[l2][t].to
           /\ consults[l2][t].status = "closed" => consults'[l2][t].status = "closed"
  <1>1. consults \in [L2s -> [Jobs -> Consult \cup {NoConsult}]] /\ consults[l2][t] \in Consult
    BY DEF ConsultInv, TypeOK, Exists
  <1>2. ASSUME NEW h \in L2s, NEW s \in Jobs, NEW from \in Personas, NEW to \in Personas,
               InsertConsult(h, s, from, to)
        PROVE  consults'[l2][t] = consults[l2][t]
    BY <1>1, <1>2 DEF InsertConsult, Exists
  <1>3. ASSUME NEW j \in Jobs, Asks(j) PROVE consults'[l2][t] = consults[l2][t]
    BY <1>2, <1>3 DEF Asks, RequestConsult
  <1>4. ASSUME NEW j \in Jobs, NEW c \in Copies, MirrorThread(j, c)
        PROVE  consults'[l2][t] = consults[l2][t]
    <2>1. Endpoints(j) \in Consult /\ There(j) \in L2s /\ jobs[j].thread \in Jobs
      BY <1>4, EndpointsTyped DEF MirrorThread
    <2> QED BY <1>2, <1>4, <2>1 DEF MirrorThread, Consult
  <1>5. ASSUME NEW j \in Jobs, UpdateClosed(j)
        PROVE  consults'[l2][t] \in {consults[l2][t], Closed(consults[l2][t])}
    <2>1. jobs[j] \in Job
      BY <1>5, JobOrNone DEF UpdateClosed, ConsultInv
    <2>2. Home(j) \in L2s /\ jobs[j].thread \in Jobs
      BY <2>1 DEF Job, Home
    <2> QED BY <1>1, <1>5, <2>2 DEF UpdateClosed
  <1>6. consults'[l2][t] \in {consults[l2][t], Closed(consults[l2][t])}
    BY <1>3, <1>4, <1>5, ConsultWriters
  <1> QED BY <1>1, <1>6 DEF Closed, Consult, NoConsult, Exists

LEMMA MessagesKept ==
    ASSUME ConsultInv, [Next]_vars, NEW l2 \in L2s, NEW m \in Jobs,
           messages[l2][m] # NoMessage
    PROVE  messages'[l2][m] = messages[l2][m]
  <1>1. messages \in [L2s -> [Jobs -> Message \cup {NoMessage}]]
    BY DEF ConsultInv, TypeOK
  <1>2. ASSUME NEW h \in L2s, NEW i \in Jobs, NEW t, NEW author, NEW body,
               InsertMessage(h, i, t, author, body)
        PROVE  messages'[l2][m] = messages[l2][m]
    BY <1>1, <1>2 DEF InsertMessage
  <1>3. ASSUME NEW j \in Jobs, AppendMessage(j) PROVE messages'[l2][m] = messages[l2][m]
    <2>1. Home(j) \in L2s
      BY <1>3, JobOrNone DEF AppendMessage, ConsultInv, Job, Home
    <2> QED BY <1>2, <1>3, <2>1 DEF AppendMessage
  <1>4. ASSUME NEW j \in Jobs, NEW c \in Copies, MirrorMessage(j, c)
        PROVE  messages'[l2][m] = messages[l2][m]
    <2>1. There(j) \in L2s
      BY <1>4, EndpointsTyped DEF MirrorMessage
    <2> QED BY <1>2, <1>4, <2>1 DEF MirrorMessage
  <1> QED BY <1>3, <1>4, MessageWriters

\* What a handled request has done stays true of it.
LEMMA EngagedKept ==
    ASSUME ConsultInv, [Next]_vars, NEW j \in Jobs, Engaged(j)
    PROVE  Engaged(j)'
  <1>1. Used(j) /\ Used(j)' /\ jobs[j] \in Job
    BY JobsKept DEF Engaged
  <1>2. CASE \E c \in Copies : forwards[j][c] # "none"
    BY <1>1, <1>2, ForwardsStay DEF Engaged
  <1>3. CASE jobs'[j] = jobs[j]
    BY <1>1, <1>3, ForwardsStay DEF Engaged
  <1>4. CASE Handled(j) /\ ~\E c \in Copies : forwards[j][c] # "none"
    <2>1. jobs[j].stage # "wait"
      BY <1>1, <1>4 DEF ConsultInv, ForwardsTraced
    <2>2. jobs'[j].stage # "done" \/ jobs'[j].answer = "ok"
      <3>1. jobs \in [Jobs -> Job \cup {NoJob}]
        BY DEF ConsultInv, TypeOK
      <3> QED BY <1>1, <1>4, <2>1, <3>1 DEF Handled, AppendMessage, Mirror, Send,
              ForwardAnswered, ForwardFails, UpdateClosed, RecordClosed, Answer, GoTo, Job
    <2> QED BY <1>1, <2>2 DEF Engaged
  <1>5. CASE jobs'[j] = [jobs[j] EXCEPT !.stage = "done", !.answer = "dead"]
    BY <1>1, <1>5 DEF Engaged, Job
  <1> QED BY <1>1, <1>2, <1>3, <1>4, <1>5, JobFate DEF Used

\* A request that becomes engaged is a new one, past its handler's checks.
LEMMA NewlyEngaged ==
    ASSUME ConsultInv, [Next]_vars, NEW j \in Jobs, Engaged(j)', ~Engaged(j)
    PROVE  jobs[j] = NoJob /\ (Asks(j) \/ Opens(j))
  <1>1. /\ forwards \in [Jobs -> [Copies -> ForwardStages]]
        /\ jobs \in [Jobs -> Job \cup {NoJob}]
    BY DEF ConsultInv, TypeOK
  <1>2. CASE Used(j)
    <2>1. /\ jobs'[j] = jobs[j]
          /\ \A c \in Copies : forwards[j][c] = "none"
      <3>1. jobs[j].stage = "done"
        BY <1>2 DEF Engaged
      <3> QED BY <1>2, <3>1, JobsKept DEF Engaged
    <2>2. PICK c \in Copies : forwards'[j][c] # "none"
      BY <1>2, <2>1 DEF Engaged, Used
    <2>3. ASSUME NEW i \in Jobs, Send(i) PROVE FALSE
      <3>1. i # j
        BY <1>2, <2>3 DEF Send, Engaged
      <3> QED BY <1>1, <2>1, <2>2, <2>3, <3>1 DEF Send
    <2>4. ASSUME NEW i \in Jobs, NEW d \in Copies, Received(i, d) \/ Redeliver(i, d)
          PROVE  FALSE
      <3>1. \E e \in Copies : forwards[i][e] # "none"
        BY <2>4 DEF Received, ForwardArrives, MirrorThread, MirrorThreadFails,
                    MirrorMessage, Redeliver
      <3>2. i # j
        BY <2>1, <3>1
      <3>3. \E stage : forwards' = [forwards EXCEPT ![i][d] = stage]
        BY <2>4 DEF Received, ForwardArrives, MirrorThread, MirrorThreadFails,
                    MirrorMessage, Redeliver, SetForward
      <3> QED BY <1>1, <2>1, <2>2, <3>2, <3>3
    <2>5. ASSUME NEW l2 \in L2s, Crash(l2) PROVE FALSE
      BY <2>1, <2>2, <2>5 DEF Crash
    <2> QED BY <2>1, <2>2, <2>3, <2>4, <2>5, ForwardWriters
  <1>3. CASE jobs[j] = NoJob
    <2>1. jobs'[j] # jobs[j]
      BY <1>3 DEF Engaged, Used
    <2>2. jobs[j] \notin Job
      BY <1>3 DEF Job, Stages, NoJob
    <2>3. Asks(j) \/ Opens(j) \/ Denied(j)
      BY <2>1, <2>2, JobFate
    <2>4. ~Denied(j)
      <3>1. SUFFICES ASSUME Denied(j) PROVE FALSE
        OBVIOUS
      <3>2. /\ jobs'[j].stage = "done" /\ jobs'[j].answer \in {"refused", "bad_gateway"}
            /\ forwards' = forwards
        BY <1>1, <3>1 DEF Denied, RequestRefused, PostRefused, PostUnroutable, CloseRefused,
                          Refuse, Begin
      <3>3. \A c \in Copies : forwards[j][c] = "none"
        BY <1>3 DEF ConsultInv, ForwardsTraced, Used
      <3> QED BY <3>2, <3>3 DEF Engaged
    <2> QED BY <1>3, <2>3, <2>4
  <1> QED BY <1>2, <1>3 DEF Used

-----------------------------------------------------------------------------
(* The invariant is inductive, conjunct by conjunct.                       *)

\* A request that acts on a thread finds it in its own server's tables.
LEMMA EngagedTyped ==
    ASSUME ConsultInv, NEW j \in Jobs, Engaged(j)
    PROVE  /\ jobs[j] \in Job /\ Home(j) \in L2s /\ jobs[j].thread \in Jobs
           /\ jobs[j].user \in Personas
           /\ Exists(Home(j), jobs[j].thread)
           /\ consults[Home(j)][jobs[j].thread] \in Consult
           /\ Participant(jobs[j].user, consults[Home(j)][jobs[j].thread])
  <1>1. jobs[j] \in Job
    BY JobOrNone DEF ConsultInv, Engaged, Used
  <1>2. Home(j) \in L2s /\ jobs[j].thread \in Jobs /\ jobs[j].user \in Personas
    BY <1>1 DEF Job, Home
  <1>3. /\ Exists(Home(j), jobs[j].thread)
        /\ Participant(jobs[j].user, consults[Home(j)][jobs[j].thread])
    BY DEF ConsultInv, JobsOnThread
  <1> QED BY <1>1, <1>2, <1>3 DEF ConsultInv, TypeOK, Exists

\* A request's server is the same before and after a step.
LEMMA HomesKept ==
    ASSUME ConsultInv, [Next]_vars, NEW j \in Jobs, Used(j)
    PROVE  Home(j)' = Home(j) /\ There(j)' = There(j) /\ Home(j) \in L2s /\ There(j) \in L2s
  BY JobsKept DEF Home, There, Job

LEMMA RequestFacts ==
    ASSUME ConsultInv, NEW j \in Jobs, NEW u \in Users, NEW to \in Personas,
           RequestConsult(j, u, to)
    PROVE  /\ jobs[j] = NoJob /\ ~Exists(HomeOf[u], j) /\ HomeOf[u] \in L2s
           /\ jobs'[j] # NoJob
           /\ jobs'[j].kind = "request" /\ jobs'[j].user = u /\ jobs'[j].thread = j
           /\ jobs'[j].other = HomeOf[to] /\ jobs'[j].answer = "none"
           /\ jobs'[j].stage \in {"append", "send"}
           /\ jobs'[j].stage = "send" =>
                PolicyBetween(HomeOf[u], HomeOf[to]) = "no_log_consults"
           /\ \A l2 \in L2s, t \in Jobs :
                 l2 # HomeOf[u] \/ t # j => consults'[l2][t] = consults[l2][t]
           /\ consults'[HomeOf[u]][j] # NoConsult
           /\ consults'[HomeOf[u]][j] = [from |-> u, to |-> to, status |-> "open"]
  <1>1. /\ jobs \in [Jobs -> Job \cup {NoJob}]
        /\ consults \in [L2s -> [Jobs -> Consult \cup {NoConsult}]]
    BY DEF ConsultInv, TypeOK
  <1>2. HomeOf[u] \in L2s
    OBVIOUS
  <1>3. /\ jobs[j] = NoJob /\ ~Exists(HomeOf[u], j)
        /\ consults' = [consults EXCEPT ![HomeOf[u]][j] =
                              [from |-> u, to |-> to, status |-> "open"]]
    BY DEF RequestConsult, Begin, InsertConsult
  <1>4. PICK stage \in {"append", "send"} :
          /\ jobs' = [jobs EXCEPT ![j] =
                  [stage |-> stage, kind |-> "request", user |-> u, thread |-> j,
                   other |-> HomeOf[to], answer |-> "none"]]
          /\ stage = "send" => PolicyBetween(HomeOf[u], HomeOf[to]) = "no_log_consults"
    BY DEF RequestConsult, Begin
  <1>5. jobs'[j] = [stage |-> stage, kind |-> "request", user |-> u, thread |-> j,
                    other |-> HomeOf[to], answer |-> "none"]
    BY <1>1, <1>4
  <1>6. \A l2 \in L2s, t \in Jobs :
           l2 # HomeOf[u] \/ t # j => consults'[l2][t] = consults[l2][t]
    BY <1>1, <1>2, <1>3
  <1>7. consults'[HomeOf[u]][j] = [from |-> u, to |-> to, status |-> "open"]
    BY <1>1, <1>2, <1>3
  <1>8. jobs'[j] # NoJob
    BY <1>5 DEF NoJob
  <1>9. consults'[HomeOf[u]][j] # NoConsult
    BY <1>7 DEF NoConsult
  <1> QED BY <1>2, <1>3, <1>4, <1>5, <1>6, <1>7, <1>8, <1>9

LEMMA ThreadsTracedStep ==
    ASSUME ConsultInv, [Next]_vars
    PROVE  ThreadsTraced'
  <1> DEFINE Traced(l2, t) ==
        /\ Used(t) /\ jobs[t].kind = "request"
        /\ consults[l2][t].from = jobs[t].user
        /\ Exists(Home(t), t)
        /\ consults[l2][t].to = consults[Home(t)][t].to
        /\ l2 \in {HomeOf[consults[l2][t].from], HomeOf[consults[l2][t].to]}
  <1> SUFFICES ASSUME NEW l2 \in L2s, NEW t \in Jobs, Exists(l2, t)'
               PROVE  Traced(l2, t)'
    BY DEF ThreadsTraced
  <1>0. \A h \in L2s, i \in Jobs : Exists(h, i) => Traced(h, i)
    BY DEF ConsultInv, ThreadsTraced
  <1>t. consults \in [L2s -> [Jobs -> Consult \cup {NoConsult}]]
    BY DEF ConsultInv, TypeOK
  <1>1. CASE Exists(l2, t)
    <2>1. Traced(l2, t) /\ Home(t) \in L2s
      BY <1>0, <1>1, HomesKept
    <2>2. /\ Used(t)' /\ jobs'[t].kind = "request" /\ jobs'[t].user = jobs[t].user
          /\ Home(t)' = Home(t)
      BY <2>1, JobsKept, HomesKept
    <2>3. /\ consults'[l2][t].from = consults[l2][t].from
          /\ consults'[l2][t].to = consults[l2][t].to
      BY <1>1, ConsultsKept
    <2>4. /\ consults'[Home(t)][t] # NoConsult
          /\ consults'[Home(t)][t].to = consults[Home(t)][t].to
      BY <2>1, ConsultsKept
    <2>5. Exists(Home(t), t)' /\ consults'[Home(t)'][t].to = consults'[Home(t)][t].to
      BY <2>2, <2>4 DEF Exists
    <2> QED BY <2>1, <2>2, <2>3, <2>4, <2>5
  <1>2. CASE ~Exists(l2, t)
    <2>1. ASSUME NEW j \in Jobs, Asks(j) PROVE Traced(l2, t)'
      <3>1. PICK u \in Users, to \in Personas : RequestConsult(j, u, to)
        BY <2>1 DEF Asks
      <3>f. /\ \A h \in L2s, i \in Jobs :
                  h # HomeOf[u] \/ i # j => consults'[h][i] = consults[h][i]
            /\ consults'[HomeOf[u]][j] = [from |-> u, to |-> to, status |-> "open"]
            /\ jobs'[j] # NoJob /\ jobs'[j].kind = "request" /\ jobs'[j].user = u
        BY <3>1, RequestFacts
      <3>2. l2 = HomeOf[u] /\ t = j
        BY <1>2, <3>f DEF Exists
      <3>3. Home(t)' = HomeOf[u]
        BY <3>2, <3>f DEF Home
      <3>4. consults'[l2][t] = [from |-> u, to |-> to, status |-> "open"]
        BY <3>2, <3>f
      <3>5. Used(t)' /\ jobs'[t].kind = "request" /\ jobs'[t].user = u
        BY <3>2, <3>f DEF Used
      <3>6. Exists(Home(t), t)' /\ consults'[Home(t)'][t] = consults'[l2][t]
        BY <3>2, <3>3, <3>4 DEF Exists, NoConsult
      <3> QED BY <3>2, <3>4, <3>5, <3>6
    <2>2. ASSUME NEW j \in Jobs, NEW c \in Copies, MirrorThread(j, c) PROVE Traced(l2, t)'
      <3> DEFINE row == consults[Home(j)][jobs[j].thread]
      <3>1. forwards[j][c] # "none"
        BY <2>2 DEF MirrorThread
      <3>2. /\ Engaged(j) /\ Home(j) \in L2s /\ There(j) \in L2s /\ jobs[j].thread \in Jobs
            /\ Exists(Home(j), jobs[j].thread) /\ Endpoints(j) = row /\ row \in Consult
            /\ jobs[j].kind # "close"
        BY <3>1, EndpointsTyped
      <3>3. consults' = [consults EXCEPT ![There(j)][jobs[j].thread] =
                            [from |-> row.from, to |-> row.to, status |-> "open"]]
        BY <2>2, <3>2 DEF MirrorThread, InsertConsult
      <3>4. l2 = There(j) /\ t = jobs[j].thread
        BY <1>2, <1>t, <3>2, <3>3 DEF Exists
      <3>5. consults'[l2][t] = [from |-> row.from, to |-> row.to, status |-> "open"]
        BY <1>t, <3>3, <3>4
      <3>6. Traced(Home(j), t)
        BY <1>0, <3>2, <3>4
      <3>7. l2 = HomeOf[OtherParty(jobs[j].user, row)]
        BY <3>2, <3>4 DEF ConsultInv, JobsOnThread, There
      <3>8. l2 \in {HomeOf[row.from], HomeOf[row.to]}
        BY <3>7 DEF OtherParty
      <3>9. /\ Used(t)' /\ jobs'[t].kind = "request" /\ jobs'[t].user = jobs[t].user
            /\ Home(t)' = Home(t) /\ Home(t) \in L2s
        BY <3>6, JobsKept, HomesKept
      <3>10. /\ consults'[Home(t)][t] # NoConsult
             /\ consults'[Home(t)][t].to = consults[Home(t)][t].to
        BY <3>6, <3>9, ConsultsKept
      <3>11. Exists(Home(t), t)' /\ consults'[Home(t)'][t].to = row.to
        BY <3>4, <3>6, <3>9, <3>10 DEF Exists
      <3>12. consults'[l2][t].from = row.from /\ consults'[l2][t].to = row.to
        BY <3>5
      <3>13. row.from = jobs[t].user
        BY <3>4, <3>6
      <3> HIDE DEF row
      <3> QED BY <3>8, <3>9, <3>11, <3>12, <3>13
    <2>3. ASSUME NEW j \in Jobs, UpdateClosed(j) PROVE FALSE
      <3>1. Engaged(j)
        BY <2>3, JobOrNone DEF UpdateClosed, Engaged, Used, ConsultInv
      <3>2. Home(j) \in L2s /\ jobs[j].thread \in Jobs /\ Exists(Home(j), jobs[j].thread)
        BY <3>1, EngagedTyped
      <3> QED BY <1>2, <1>t, <2>3, <3>2 DEF UpdateClosed, Exists
    <2>4. consults' # consults
      BY <1>2 DEF Exists
    <2> QED BY <2>1, <2>2, <2>3, <2>4, ConsultWriters
  <1> QED BY <1>1, <1>2

\* A message that appears is its own request's, at one of the request's two
\* servers, and as the request has it.
LEMMA NewMessage ==
    ASSUME ConsultInv, [Next]_vars, NEW l2 \in L2s, NEW m \in Jobs,
           messages[l2][m] = NoMessage, messages'[l2][m] # NoMessage
    PROVE  /\ Engaged(m) /\ jobs[m].kind # "close"
           /\ messages'[l2][m].thread = jobs[m].thread
           /\ messages'[l2][m].author = jobs[m].user
           /\ \/ l2 = Home(m)
              \/ l2 = There(m) /\ Exists(There(m), jobs[m].thread)
                 /\ messages[Home(m)][m] # NoMessage
  <1>1. messages \in [L2s -> [Jobs -> Message \cup {NoMessage}]]
    BY DEF ConsultInv, TypeOK
  <1>2. ASSUME NEW h \in L2s, NEW j \in Jobs, NEW t, NEW author, NEW body,
               InsertMessage(h, j, t, author, body)
        PROVE  /\ l2 = h /\ m = j
               /\ messages'[l2][m] = [thread |-> t, author |-> author, body |-> body]
    BY <1>1, <1>2 DEF InsertMessage
  <1>3. ASSUME NEW j \in Jobs, AppendMessage(j)
        PROVE  /\ Engaged(m) /\ jobs[m].kind # "close" /\ l2 = Home(m)
               /\ messages'[l2][m].thread = jobs[m].thread
               /\ messages'[l2][m].author = jobs[m].user
    <2>1. Used(j) /\ Home(j) \in L2s /\ jobs[j].stage = "append"
      BY <1>3, JobOrNone DEF AppendMessage, ConsultInv, Job, Home, Used
    <2>2. Engaged(j) /\ jobs[j].kind # "close"
      BY <2>1 DEF Engaged, ConsultInv, StagesMatchKinds
    <2>3. PICK body : InsertMessage(Home(j), j, jobs[j].thread, jobs[j].user, body)
      BY <1>3 DEF AppendMessage
    <2>4. /\ l2 = Home(j) /\ m = j
          /\ messages'[l2][m].thread = jobs[j].thread
          /\ messages'[l2][m].author = jobs[j].user
      <3>1. /\ l2 = Home(j) /\ m = j
            /\ messages'[l2][m] =
                  [thread |-> jobs[j].thread, author |-> jobs[j].user, body |-> body]
        BY <1>2, <2>1, <2>3
      <3> QED BY <3>1
    <2> QED BY <2>2, <2>4
  <1>4. ASSUME NEW j \in Jobs, NEW c \in Copies, MirrorMessage(j, c)
        PROVE  /\ Engaged(m) /\ jobs[m].kind # "close" /\ l2 = There(m)
               /\ messages'[l2][m].thread = jobs[m].thread
               /\ messages'[l2][m].author = jobs[m].user
               /\ Exists(There(m), jobs[m].thread) /\ messages[Home(m)][m] # NoMessage
    <2>1. forwards[j][c] = "found"
      BY <1>4 DEF MirrorMessage
    <2>2. Engaged(j) /\ Sent(j) /\ jobs[j].kind # "close" /\ There(j) \in L2s
      BY <2>1, EndpointsTyped
    <2>3. messages' # messages
      BY <1>1
    <2>4. /\ ~Unlogged(j)
          /\ \E body : InsertMessage(There(j), j, jobs[j].thread, jobs[j].user, body)
      BY <1>4, <2>3 DEF MirrorMessage, Unlogged, There
    <2>5. /\ l2 = There(j) /\ m = j
          /\ messages'[l2][m].thread = jobs[j].thread
          /\ messages'[l2][m].author = jobs[j].user
      <3>1. PICK body : InsertMessage(There(j), j, jobs[j].thread, jobs[j].user, body)
        BY <2>4
      <3>2. /\ l2 = There(j) /\ m = j
            /\ messages'[l2][m] =
                  [thread |-> jobs[j].thread, author |-> jobs[j].user, body |-> body]
        BY <1>2, <2>2, <3>1
      <3> QED BY <3>2
    <2>6. messages[Home(j)][j] # NoMessage
      BY <2>2, <2>4 DEF ConsultInv, ForwardsTraced
    <2>7. Exists(There(j), jobs[j].thread)
      BY <2>1 DEF ConsultInv, ForwardsKept
    <2> QED BY <2>2, <2>5, <2>6, <2>7
  <1> QED BY <1>3, <1>4, MessageWriters

LEMMA MessagesTracedStep ==
    ASSUME ConsultInv, [Next]_vars
    PROVE  MessagesTraced'
  <1> SUFFICES ASSUME NEW l2 \in L2s, NEW m \in Jobs, messages'[l2][m] # NoMessage
               PROVE  (/\ Engaged(m) /\ jobs[m].kind # "close"
                       /\ messages[l2][m].thread = jobs[m].thread
                       /\ messages[l2][m].author = jobs[m].user
                       /\ Exists(l2, jobs[m].thread)
                       /\ messages[Home(m)][m] # NoMessage)'
    BY DEF MessagesTraced
  <1>1. /\ Engaged(m) /\ jobs[m].kind # "close"
        /\ messages'[l2][m].thread = jobs[m].thread
        /\ messages'[l2][m].author = jobs[m].user
        /\ Exists(l2, jobs[m].thread)
        /\ l2 = Home(m) \/ messages[Home(m)][m] # NoMessage
    <2>1. CASE messages[l2][m] # NoMessage
      BY <2>1, MessagesKept DEF ConsultInv, MessagesTraced
    <2>2. CASE messages[l2][m] = NoMessage
      BY <2>2, NewMessage, EngagedTyped
    <2> QED BY <2>1, <2>2
  <1>2. /\ Engaged(m)' /\ Home(m) \in L2s /\ Home(m)' = Home(m) /\ jobs[m].thread \in Jobs
        /\ jobs'[m].kind = jobs[m].kind /\ jobs'[m].thread = jobs[m].thread
        /\ jobs'[m].user = jobs[m].user
    BY <1>1, EngagedKept, EngagedTyped, HomesKept, JobsKept DEF Engaged
  <1>3. consults'[l2][jobs[m].thread] # NoConsult
    BY <1>1, <1>2, ConsultsKept
  <1>4. messages'[Home(m)][m] # NoMessage
    BY <1>1, <1>2, MessagesKept
  <1>5. Exists(l2, jobs[m].thread)'
    BY <1>2, <1>3 DEF Exists
  <1>6. messages'[Home(m)'][m] # NoMessage
    BY <1>2, <1>4
  <1> QED BY <1>1, <1>2, <1>5, <1>6

\* A new request has its thread, and its user takes part in it.
LEMMA NewJobOnThread ==
    ASSUME ConsultInv, [Next]_vars, NEW j \in Jobs, Asks(j) \/ Opens(j)
    PROVE  /\ HomeOf[jobs'[j].user] \in L2s /\ jobs'[j].thread \in Jobs
           /\ consults'[HomeOf[jobs'[j].user]][jobs'[j].thread] # NoConsult
           /\ Participant(jobs'[j].user,
                    consults'[HomeOf[jobs'[j].user]][jobs'[j].thread])
           /\ jobs'[j].kind # "close" =>
                  jobs'[j].other = HomeOf[OtherParty(jobs'[j].user,
                    consults'[HomeOf[jobs'[j].user]][jobs'[j].thread])]
           /\ jobs'[j].answer = "none"
           /\ IF jobs'[j].kind = "close" THEN jobs'[j].stage = "close"
              ELSE /\ jobs'[j].stage \in {"append", "send"}
                   /\ jobs'[j].stage = "send" =>
                        /\ jobs'[j].kind = "request"
                        /\ PolicyBetween(HomeOf[jobs'[j].user], jobs'[j].other) =
                                "no_log_consults"
  <1>1. /\ jobs \in [Jobs -> Job \cup {NoJob}]
        /\ consults \in [L2s -> [Jobs -> Consult \cup {NoConsult}]]
    BY DEF ConsultInv, TypeOK
  <1>2. CASE Asks(j)
    <2>1. PICK u \in Users, to \in Personas : RequestConsult(j, u, to)
      BY <1>2 DEF Asks
    <2>2. /\ jobs'[j].kind = "request" /\ jobs'[j].user = u /\ jobs'[j].thread = j
          /\ jobs'[j].other = HomeOf[to] /\ jobs'[j].answer = "none"
          /\ jobs'[j].stage \in {"append", "send"}
          /\ jobs'[j].stage = "send" =>
                PolicyBetween(HomeOf[u], HomeOf[to]) = "no_log_consults"
          /\ consults'[HomeOf[u]][j] # NoConsult
          /\ consults'[HomeOf[u]][j] = [from |-> u, to |-> to, status |-> "open"]
          /\ HomeOf[u] \in L2s
      BY <2>1, RequestFacts
    <2>3. /\ consults'[HomeOf[u]][j].from = u /\ consults'[HomeOf[u]][j].to = to
      BY <2>2
    <2>4. OtherParty(u, consults'[HomeOf[u]][j]) = to
      BY <2>3 DEF OtherParty
    <2>5. Participant(u, consults'[HomeOf[u]][j])
      BY <2>3 DEF Participant
    <2> QED BY <2>2, <2>4, <2>5
  <1>3. ASSUME NEW u \in Users, NEW t \in Jobs, PostMessage(j, u, t) \/ CloseConsult(j, u, t)
        PROVE  /\ jobs'[j].user = u /\ jobs'[j].thread = t /\ jobs'[j].answer = "none"
               /\ consults' = consults /\ MayAct(u, t)
               /\ \/ jobs'[j].kind = "close" /\ jobs'[j].stage = "close"
                  \/ /\ jobs'[j].kind = "message" /\ jobs'[j].stage = "append"
                     /\ jobs'[j].other = HomeOf[OtherParty(u, consults[HomeOf[u]][t])]
    BY <1>1, <1>3 DEF PostMessage, CloseConsult, Begin, store
  <1>4. CASE Opens(j)
    <2>1. PICK u \in Users, t \in Jobs : PostMessage(j, u, t) \/ CloseConsult(j, u, t)
      BY <1>4 DEF Opens
    <2> QED BY <1>3, <2>1 DEF MayAct, Exists
  <1> QED BY <1>2, <1>4

LEMMA JobsOnThreadStep ==
    ASSUME ConsultInv, [Next]_vars
    PROVE  JobsOnThread'
  <1> SUFFICES ASSUME NEW j \in Jobs, Engaged(j)'
               PROVE  (/\ Exists(Home(j), jobs[j].thread)
                       /\ Participant(jobs[j].user, consults[Home(j)][jobs[j].thread])
                       /\ jobs[j].kind # "close" =>
                            jobs[j].other = HomeOf[OtherParty(jobs[j].user,
                                consults[Home(j)][jobs[j].thread])])'
    BY DEF JobsOnThread
  <1>1. CASE Engaged(j)
    <2> DEFINE row == consults[Home(j)][jobs[j].thread]
               new == consults'[Home(j)][jobs[j].thread]
    <2>1. /\ Home(j) \in L2s /\ jobs[j].thread \in Jobs
          /\ Exists(Home(j), jobs[j].thread) /\ Participant(jobs[j].user, row)
          /\ jobs[j].kind # "close" => jobs[j].other = HomeOf[OtherParty(jobs[j].user, row)]
      BY <1>1, EngagedTyped DEF ConsultInv, JobsOnThread
    <2>2. /\ jobs'[j].user = jobs[j].user /\ jobs'[j].thread = jobs[j].thread
          /\ jobs'[j].kind = jobs[j].kind /\ jobs'[j].other = jobs[j].other
          /\ Home(j)' = Home(j)
      BY <1>1, JobsKept, HomesKept DEF Engaged
    <2>3. new # NoConsult /\ new.from = row.from /\ new.to = row.to
      BY <2>1, ConsultsKept
    <2>4. OtherParty(jobs[j].user, new) = OtherParty(jobs[j].user, row)
      BY <2>3 DEF OtherParty
    <2>5. Participant(jobs[j].user, new)
      BY <2>1, <2>3 DEF Participant
    <2>6. consults'[Home(j)'][jobs'[j].thread] = new
      BY <2>2
    <2>7. Exists(Home(j), jobs[j].thread)'
      BY <2>3, <2>6 DEF Exists
    <2> HIDE DEF new, row
    <2> QED BY <2>1, <2>2, <2>4, <2>5, <2>6, <2>7
  <1>2. CASE ~Engaged(j)
    <2>1. Asks(j) \/ Opens(j)
      BY <1>2, NewlyEngaged
    <2>2. Home(j)' = HomeOf[jobs'[j].user]
      BY DEF Home
    <2> QED BY <2>1, <2>2, NewJobOnThread DEF Exists
  <1> QED BY <1>1, <1>2

\* What a handler's step makes of its request.
LEMMA HandledSteps ==
    ASSUME ConsultInv, NEW j \in Jobs, Handled(j)
    PROVE  /\ Used(j) /\ jobs[j] \in Job
           /\ \/ /\ AppendMessage(j) /\ jobs[j].stage = "append"
                 /\ \/ jobs'[j].stage = "send" /\ jobs'[j].answer = jobs[j].answer
                    \/ /\ jobs'[j].stage = "done" /\ jobs'[j].answer = "ok"
                       /\ jobs[j].other = Home(j)
              \/ /\ Send(j) /\ jobs[j].stage = "send"
                 /\ jobs'[j].stage = "wait" /\ jobs'[j].answer = jobs[j].answer
              \/ /\ ForwardAnswered(j) \/ ForwardFails(j)
                 /\ jobs[j].stage = "wait" /\ jobs'[j].stage = "done"
                 /\ \/ jobs'[j].answer = "ok" /\ \E c \in Copies : forwards[j][c] = "ok"
                    \/ jobs'[j].answer = "bad_gateway"
              \/ /\ UpdateClosed(j) /\ jobs[j].stage = "close"
                 /\ jobs'[j].stage \in {"event", "done"}
              \/ /\ RecordClosed(j) /\ jobs[j].stage = "event"
                 /\ jobs'[j].stage = "done"
  <1>1. jobs \in [Jobs -> Job \cup {NoJob}]
    BY DEF ConsultInv, TypeOK
  <1>2. Used(j) /\ jobs[j] \in Job
    BY JobOrNone DEF ConsultInv, Used, Handled, AppendMessage, Send, ForwardAnswered,
                     ForwardFails, UpdateClosed, RecordClosed
  <1>3. ASSUME NEW stage, GoTo(j, stage)
        PROVE  jobs'[j].stage = stage /\ jobs'[j].answer = jobs[j].answer
    BY <1>1, <1>2, <1>3 DEF GoTo, Job
  <1>4. ASSUME NEW answer, Answer(j, answer)
        PROVE  jobs'[j].stage = "done" /\ jobs'[j].answer = answer
    BY <1>1, <1>2, <1>4 DEF Answer, Job
  <1>5. CASE AppendMessage(j)
    BY <1>2, <1>3, <1>4, <1>5 DEF AppendMessage, Mirror
  <1>6. CASE Send(j)
    BY <1>2, <1>3, <1>6 DEF Send
  <1>7. CASE ForwardAnswered(j)
    BY <1>2, <1>4, <1>7 DEF ForwardAnswered
  <1>8. CASE ForwardFails(j)
    BY <1>2, <1>4, <1>8 DEF ForwardFails
  <1>9. CASE UpdateClosed(j)
    BY <1>2, <1>3, <1>4, <1>9 DEF UpdateClosed
  <1>10. CASE RecordClosed(j)
    BY <1>2, <1>4, <1>10 DEF RecordClosed
  <1> QED BY <1>5, <1>6, <1>7, <1>8, <1>9, <1>10 DEF Handled

LEMMA DeniedJob ==
    ASSUME ConsultInv, NEW j \in Jobs, Denied(j)
    PROVE  jobs'[j].stage = "done" /\ jobs'[j].answer \in {"refused", "bad_gateway"}
  <1>1. jobs \in [Jobs -> Job \cup {NoJob}]
    BY DEF ConsultInv, TypeOK
  <1> QED BY <1>1 DEF Denied, RequestRefused, PostRefused, PostUnroutable, CloseRefused,
                      Refuse, Begin

LEMMA StagesMatchKindsStep ==
    ASSUME ConsultInv, [Next]_vars
    PROVE  StagesMatchKinds'
  <1> SUFFICES ASSUME NEW j \in Jobs, jobs'[j] # NoJob
               PROVE  /\ jobs'[j].stage \in {"append", "send", "wait"} =>
                            jobs'[j].kind # "close"
                      /\ jobs'[j].stage \in {"close", "event"} => jobs'[j].kind = "close"
    BY DEF StagesMatchKinds, Used
  <1>0. Used(j) => /\ jobs[j].stage \in {"append", "send", "wait"} => jobs[j].kind # "close"
                   /\ jobs[j].stage \in {"close", "event"} => jobs[j].kind = "close"
    BY DEF ConsultInv, StagesMatchKinds
  <1>1. CASE jobs'[j] = jobs[j]
    BY <1>0, <1>1 DEF Used
  <1>2. CASE Asks(j) \/ Opens(j)
    BY <1>2, NewJobOnThread
  <1>3. CASE Denied(j)
    BY <1>3, DeniedJob
  <1>4. CASE Handled(j)
    <2>1. Used(j) /\ jobs'[j].kind = jobs[j].kind
      BY <1>4, HandledSteps, JobsKept
    <2> QED BY <1>0, <1>4, <2>1, HandledSteps
  <1>5. CASE /\ jobs[j] \in Job
             /\ jobs'[j] = [jobs[j] EXCEPT !.stage = "done", !.answer = "dead"]
    BY <1>5 DEF Job
  <1> QED BY <1>1, <1>2, <1>3, <1>4, <1>5, JobFate

LEMMA PolicyKept ==
    ASSUME [Next]_vars
    PROVE  policy' = policy
  <1>1. ASSUME NEW j \in Jobs, Asked(j) PROVE policy' = policy
    BY <1>1 DEF Asked, RequestConsult, RequestRefused, PostMessage, PostRefused,
                PostUnroutable, CloseConsult, CloseRefused, Refuse
  <1>2. ASSUME NEW j \in Jobs, Handled(j) PROVE policy' = policy
    BY <1>2 DEF Handled, AppendMessage, Send, ForwardAnswered, ForwardFails,
                UpdateClosed, RecordClosed
  <1>3. ASSUME NEW j \in Jobs, NEW c \in Copies, Received(j, c) PROVE policy' = policy
    BY <1>3 DEF Received, ForwardArrives, MirrorThread, MirrorThreadFails, MirrorMessage
  <1> QED BY <1>1, <1>2, <1>3 DEF Next, vars, Redeliver, Crash

LEMMA UnloggedKept ==
    ASSUME ConsultInv, [Next]_vars, NEW j \in Jobs, Used(j)
    PROVE  Unlogged(j)' = Unlogged(j)
  BY JobsKept, HomesKept, PolicyKept DEF Unlogged, PolicyBetween

\* What becomes of a forward: its receiver reads, writes or answers.
LEMMA ForwardFate ==
    ASSUME ConsultInv, [Next]_vars, NEW j \in Jobs, NEW c \in Copies,
           forwards'[j][c] # forwards[j][c]
    PROVE  /\ Sent(j)
           /\ \/ forwards'[j][c] \notin {"found", "ok"}
              \/ forwards'[j][c] = "found" /\ Exists(There(j), jobs[j].thread)
              \/ forwards'[j][c] = "found" /\ MirrorThread(j, c)
              \/ forwards'[j][c] = "ok" /\ MirrorMessage(j, c)
  <1>1. forwards \in [Jobs -> [Copies -> ForwardStages]]
    BY DEF ConsultInv, TypeOK
  <1>2. ASSUME NEW i \in Jobs, NEW d \in Copies, NEW stage, SetForward(i, d, stage)
        PROVE  i = j /\ d = c /\ forwards'[j][c] = stage
    BY <1>1, <1>2 DEF SetForward
  <1>3. ASSUME NEW i \in Jobs, Send(i)
        PROVE  Sent(j) /\ forwards'[j][c] \notin {"found", "ok"}
    <2>1. i = j /\ forwards'[j][c] = "wire"
      BY <1>2, <1>3 DEF Send, SetForward
    <2>2. Sent(i)
      BY <1>3, HandledSteps DEF Handled, Sent, Send
    <2> QED BY <2>1, <2>2
  <1>4. ASSUME NEW i \in Jobs, NEW d \in Copies, Redeliver(i, d)
        PROVE  Sent(j) /\ forwards'[j][c] \notin {"found", "ok"}
    <2>1. i = j /\ forwards'[j][c] = "wire"
      BY <1>2, <1>4 DEF Redeliver
    <2>2. \E e \in Copies : forwards[i][e] # "none"
      BY <1>4 DEF Redeliver
    <2> QED BY <2>1, <2>2, EndpointsTyped
  <1>5. ASSUME NEW i \in Jobs, NEW d \in Copies, ForwardArrives(i, d)
        PROVE  /\ Sent(j)
               /\ \/ forwards'[j][c] \notin {"found", "ok"}
                  \/ forwards'[j][c] = "found" /\ Exists(There(j), jobs[j].thread)
    <2>1. \E stage \in {"refused", "found", "missing"} :
             /\ SetForward(i, d, stage)
             /\ stage = "found" => Exists(There(i), jobs[i].thread)
      BY <1>5 DEF ForwardArrives
    <2>2. i = j /\ d = c /\ forwards'[j][c] \in {"refused", "found", "missing"}
          /\ (forwards'[j][c] = "found" => Exists(There(i), jobs[i].thread))
      BY <1>2, <2>1
    <2>3. Sent(i)
      BY <1>5, EndpointsTyped DEF ForwardArrives
    <2> QED BY <2>2, <2>3
  <1>6. ASSUME NEW i \in Jobs, NEW d \in Copies, MirrorThread(i, d)
        PROVE  Sent(j) /\ forwards'[j][c] = "found" /\ MirrorThread(j, c)
    <2>1. i = j /\ d = c /\ forwards'[j][c] = "found"
      BY <1>2, <1>6 DEF MirrorThread
    <2>2. Sent(i)
      BY <1>6, EndpointsTyped DEF MirrorThread
    <2> QED BY <1>6, <2>1, <2>2
  <1>7. ASSUME NEW i \in Jobs, NEW d \in Copies, MirrorThreadFails(i, d)
        PROVE  Sent(j) /\ forwards'[j][c] \notin {"found", "ok"}
    <2>1. i = j /\ d = c /\ forwards'[j][c] = "error"
      BY <1>2, <1>7 DEF MirrorThreadFails
    <2>2. Sent(i)
      BY <1>7, EndpointsTyped DEF MirrorThreadFails
    <2> QED BY <2>1, <2>2
  <1>8. ASSUME NEW i \in Jobs, NEW d \in Copies, MirrorMessage(i, d)
        PROVE  Sent(j) /\ forwards'[j][c] = "ok" /\ MirrorMessage(j, c)
    <2>1. i = j /\ d = c /\ forwards'[j][c] = "ok"
      BY <1>2, <1>8 DEF MirrorMessage
    <2>2. Sent(i)
      BY <1>8, EndpointsTyped DEF MirrorMessage
    <2> QED BY <1>8, <2>1, <2>2
  <1>9. ASSUME NEW l2 \in L2s, Crash(l2)
        PROVE  Sent(j) /\ forwards'[j][c] \notin {"found", "ok"}
    <2>1. forwards'[j][c] = "error" /\ forwards[j][c] # "none"
      BY <1>9 DEF Crash
    <2> QED BY <2>1, EndpointsTyped
  <1> QED BY <1>3, <1>4, <1>5, <1>6, <1>7, <1>8, <1>9, ForwardWriters DEF Received

LEMMA ForwardsTracedStep ==
    ASSUME ConsultInv, [Next]_vars
    PROVE  ForwardsTraced'
  <1> SUFFICES ASSUME NEW j \in Jobs
               PROVE  (/\ \A c \in Copies : forwards[j][c] # "none" => Used(j)
                       /\ Used(j) /\ jobs[j].stage = "wait" =>
                            \E c \in Copies : forwards[j][c] # "none"
                       /\ Sent(j) => /\ jobs[j].kind # "close"
                                     /\ messages[Home(j)][j] # NoMessage \/ Unlogged(j))'
    BY DEF ForwardsTraced
  <1>1. ASSUME NEW c \in Copies, forwards'[j][c] # "none"
        PROVE  Sent(j)
    BY <1>1, ForwardFate, EndpointsTyped
  <1>2. ASSUME Sent(j)
        PROVE  /\ Used(j)' /\ jobs'[j].kind # "close"
               /\ (messages[Home(j)][j] # NoMessage)' \/ Unlogged(j)'
    <2>1. Used(j) /\ jobs[j].kind # "close" /\ (messages[Home(j)][j] # NoMessage \/ Unlogged(j))
      BY <1>2 DEF ConsultInv, ForwardsTraced, Sent
    <2>2. Used(j)' /\ jobs'[j].kind = jobs[j].kind /\ Home(j)' = Home(j) /\ Home(j) \in L2s
      BY <2>1, JobsKept, HomesKept
    <2>3. messages[Home(j)][j] # NoMessage => messages'[Home(j)][j] # NoMessage
      BY <2>2, MessagesKept
    <2>4. Unlogged(j) => Unlogged(j)'
      BY <2>1, UnloggedKept
    <2>5. messages'[Home(j)'][j] = messages'[Home(j)][j]
      BY <2>2
    <2> QED BY <2>1, <2>2, <2>3, <2>4, <2>5
  <1>3. ASSUME jobs'[j] # NoJob, jobs'[j].stage = "wait"
        PROVE  \E c \in Copies : forwards'[j][c] # "none"
    <2>1. CASE jobs'[j] = jobs[j]
      <3>1. PICK c \in Copies : forwards[j][c] # "none"
        BY <1>3, <2>1 DEF ConsultInv, ForwardsTraced, Used
      <3> QED BY <3>1, ForwardsStay
    <2>2. CASE Handled(j)
      <3>1. Send(j)
        BY <1>3, <2>2, HandledSteps
      <3>2. forwards \in [Jobs -> [Copies -> ForwardStages]]
        BY DEF ConsultInv, TypeOK
      <3> QED BY <3>1, <3>2 DEF Send
    <2>3. CASE Asks(j) \/ Opens(j)
      BY <1>3, <2>3, NewJobOnThread
    <2>4. CASE Denied(j)
      BY <1>3, <2>4, DeniedJob
    <2>5. CASE /\ jobs[j] \in Job
               /\ jobs'[j] = [jobs[j] EXCEPT !.stage = "done", !.answer = "dead"]
      BY <1>3, <2>5 DEF Job
    <2> QED BY <2>1, <2>2, <2>3, <2>4, <2>5, JobFate
  <1>4. ASSUME jobs'[j] # NoJob, jobs'[j].stage \in {"send", "wait"}, ~Sent(j)
        PROVE  (/\ jobs[j].kind # "close"
                /\ messages[Home(j)][j] # NoMessage \/ Unlogged(j))'
    <2>1. CASE jobs'[j] = jobs[j]
      BY <1>4, <2>1 DEF Sent, Used
    <2>2. CASE Handled(j)
      <3>1. /\ Used(j) /\ AppendMessage(j) /\ jobs[j].stage = "append"
            /\ Home(j) \in L2s /\ Home(j)' = Home(j) /\ jobs'[j].kind = jobs[j].kind
        BY <1>4, <2>2, HandledSteps, JobsKept, HomesKept DEF Sent
      <3>2. jobs[j].kind # "close"
        BY <3>1 DEF ConsultInv, StagesMatchKinds
      <3>3. messages'[Home(j)][j] # NoMessage
        <4>1. PICK body : InsertMessage(Home(j), j, jobs[j].thread, jobs[j].user, body)
          BY <3>1 DEF AppendMessage
        <4>2. messages \in [L2s -> [Jobs -> Message \cup {NoMessage}]]
          BY DEF ConsultInv, TypeOK
        <4> QED BY <3>1, <4>1, <4>2 DEF InsertMessage, NoMessage
      <3>4. messages'[Home(j)'][j] # NoMessage
        BY <3>1, <3>3
      <3> QED BY <3>1, <3>2, <3>4
    <2>3. CASE Asks(j) \/ Opens(j)
      <3>1. /\ jobs'[j].kind = "request"
            /\ PolicyBetween(HomeOf[jobs'[j].user], jobs'[j].other) = "no_log_consults"
        BY <1>4, <2>3, NewJobOnThread
      <3> QED BY <3>1, PolicyKept DEF Unlogged, PolicyBetween, Home
    <2>4. CASE Denied(j)
      BY <1>4, <2>4, DeniedJob
    <2>5. CASE /\ jobs[j] \in Job
               /\ jobs'[j] = [jobs[j] EXCEPT !.stage = "done", !.answer = "dead"]
      BY <1>4, <2>5 DEF Job
    <2> QED BY <2>1, <2>2, <2>3, <2>4, <2>5, JobFate
  <1>5. Sent(j)' => \/ Sent(j)
                    \/ jobs'[j] # NoJob /\ jobs'[j].stage \in {"send", "wait"}
    BY <1>1 DEF Sent, Used
  <1>6. Used(j)' <=> jobs'[j] # NoJob
    BY DEF Used
  <1> QED BY <1>1, <1>2, <1>3, <1>4, <1>5, <1>6

LEMMA ForwardsKeptStep ==
    ASSUME ConsultInv, [Next]_vars
    PROVE  ForwardsKept'
  <1> SUFFICES ASSUME NEW j \in Jobs, NEW c \in Copies, forwards'[j][c] \in {"found", "ok"}
               PROVE  (/\ Exists(There(j), jobs[j].thread)
                       /\ forwards[j][c] = "ok" =>
                            messages[There(j)][j] # NoMessage \/ Unlogged(j))'
    BY DEF ForwardsKept
  <1>1. /\ Used(j) /\ There(j) \in L2s /\ jobs[j].thread \in Jobs
        /\ There(j)' = There(j) /\ jobs'[j].thread = jobs[j].thread
    <2>1. Used(j)
      BY ForwardFate, EndpointsTyped DEF Sent
    <2> QED BY <2>1, JobsKept, HomesKept DEF Job
  <1>2. consults'[There(j)][jobs[j].thread] # NoConsult
    <2>1. CASE Exists(There(j), jobs[j].thread)
      BY <1>1, <2>1, ConsultsKept
    <2>2. CASE MirrorThread(j, c)
      <3>1. consults' = [consults EXCEPT ![There(j)][jobs[j].thread] =
                [from |-> Endpoints(j).from, to |-> Endpoints(j).to, status |-> "open"]]
        BY <2>2 DEF MirrorThread, InsertConsult
      <3>2. consults \in [L2s -> [Jobs -> Consult \cup {NoConsult}]]
        BY DEF ConsultInv, TypeOK
      <3> QED BY <1>1, <3>1, <3>2 DEF NoConsult
    <2>3. forwards[j][c] \in {"found", "ok"} => Exists(There(j), jobs[j].thread)
      BY DEF ConsultInv, ForwardsKept
    <2>4. MirrorMessage(j, c) => forwards[j][c] = "found"
      BY DEF MirrorMessage
    <2> QED BY <2>1, <2>2, <2>3, <2>4, ForwardFate
  <1>3. ASSUME forwards'[j][c] = "ok"
        PROVE  messages'[There(j)][j] # NoMessage \/ Unlogged(j)
    <2>1. CASE forwards[j][c] = "ok"
      BY <1>1, <2>1, MessagesKept DEF ConsultInv, ForwardsKept
    <2>2. CASE MirrorMessage(j, c) /\ ~Unlogged(j)
      <3>1. PICK body : InsertMessage(There(j), j, jobs[j].thread, jobs[j].user, body)
        BY <2>2 DEF MirrorMessage, Unlogged, There
      <3>2. messages \in [L2s -> [Jobs -> Message \cup {NoMessage}]]
        BY DEF ConsultInv, TypeOK
      <3> QED BY <1>1, <3>1, <3>2 DEF InsertMessage, NoMessage
    <2> QED BY <1>3, <2>1, <2>2, ForwardFate
  <1>4. Unlogged(j)' = Unlogged(j)
    BY <1>1, UnloggedKept
  <1>5. /\ consults'[There(j)'][jobs'[j].thread] # NoConsult
        /\ messages'[There(j)'][j] = messages'[There(j)][j]
    BY <1>1, <1>2
  <1>6. Exists(There(j), jobs[j].thread)'
    BY <1>5 DEF Exists
  <1> QED BY <1>3, <1>4, <1>5, <1>6

LEMMA OkMeansMirroredStep ==
    ASSUME ConsultInv, [Next]_vars
    PROVE  OkMeansMirrored'
  <1> SUFFICES ASSUME NEW j \in Jobs, jobs'[j] # NoJob, jobs'[j].answer = "ok",
                      jobs'[j].kind # "close"
               PROVE  /\ consults'[jobs'[j].other][jobs'[j].thread] # NoConsult
                      /\ \/ messages'[jobs'[j].other][j] # NoMessage
                         \/ (PolicyBetween(Home(j), jobs[j].other) = "no_log_consults")'
    BY DEF OkMeansMirrored, Exists
  <1> DEFINE unlogged == PolicyBetween(Home(j), jobs[j].other) = "no_log_consults"
  <1>1. ~Asks(j) /\ ~Opens(j) /\ ~Denied(j)
    BY NewJobOnThread, DeniedJob
  <1>2. Used(j) /\ (jobs'[j] = jobs[j] \/ Handled(j))
    <2>1. ASSUME jobs[j] \in Job,
                 jobs'[j] = [jobs[j] EXCEPT !.stage = "done", !.answer = "dead"]
          PROVE  FALSE
      BY <2>1 DEF Job
    <2> QED BY <1>1, <2>1, JobFate, HandledSteps DEF Used
  <1>3. /\ jobs[j] \in Job /\ jobs[j].other \in L2s /\ jobs[j].thread \in Jobs
        /\ jobs'[j].other = jobs[j].other /\ jobs'[j].thread = jobs[j].thread
        /\ jobs[j].kind # "close" /\ Home(j)' = Home(j) /\ Home(j) \in L2s
    BY <1>2, JobsKept, HomesKept DEF Job
  <1>4. /\ Exists(jobs[j].other, jobs[j].thread)
        /\ messages'[jobs[j].other][j] # NoMessage \/ unlogged
    <2>1. CASE jobs[j].answer = "ok"
      <3>1. /\ Exists(jobs[j].other, jobs[j].thread)
            /\ messages[jobs[j].other][j] # NoMessage \/ unlogged
        BY <1>2, <1>3, <2>1 DEF ConsultInv, OkMeansMirrored, Used
      <3> QED BY <1>3, <3>1, MessagesKept
    <2>2. CASE AppendMessage(j) /\ jobs[j].other = Home(j)
      <3>1. Engaged(j)
        BY <1>2, <2>2 DEF AppendMessage, Engaged
      <3>2. Exists(jobs[j].other, jobs[j].thread)
        BY <2>2, <3>1, EngagedTyped
      <3>3. PICK body : InsertMessage(Home(j), j, jobs[j].thread, jobs[j].user, body)
        BY <2>2 DEF AppendMessage
      <3>4. messages \in [L2s -> [Jobs -> Message \cup {NoMessage}]]
        BY DEF ConsultInv, TypeOK
      <3>5. messages'[Home(j)][j] # NoMessage
        BY <1>3, <3>3, <3>4 DEF InsertMessage, NoMessage
      <3> QED BY <2>2, <3>2, <3>5
    <2>3. CASE \E c \in Copies : forwards[j][c] = "ok"
      <3>1. /\ Exists(There(j), jobs[j].thread)
            /\ messages[There(j)][j] # NoMessage \/ Unlogged(j)
        BY <2>3 DEF ConsultInv, ForwardsKept
      <3>2. Exists(jobs[j].other, jobs[j].thread)
        BY <3>1 DEF There
      <3>3. messages[jobs[j].other][j] # NoMessage \/ unlogged
        BY <3>1 DEF There, Unlogged
      <3> QED BY <1>3, <3>2, <3>3, MessagesKept
    <2>4. Handled(j) => jobs[j].stage \notin {"close", "event"}
      BY <1>2, <1>3 DEF ConsultInv, StagesMatchKinds
    <2> QED BY <1>2, <2>1, <2>2, <2>3, <2>4, HandledSteps
  <1>5. unlogged' <=> unlogged
    BY <1>3, PolicyKept DEF PolicyBetween
  <1>6. consults'[jobs[j].other][jobs[j].thread] # NoConsult
    BY <1>3, <1>4, ConsultsKept
  <1> QED BY <1>3, <1>4, <1>5, <1>6

LEMMA OneClosedEventStep ==
    ASSUME ConsultInv, [Next]_vars
    PROVE  OneClosedEvent'
  <1> SUFFICES ASSUME NEW l2 \in L2s, NEW t \in Jobs, events'[l2][t] > 0
               PROVE  events'[l2][t] = 1 /\ consults'[l2][t].status = "closed"
    BY DEF OneClosedEvent
  <1>1. /\ events \in [L2s -> [Jobs -> Nat]]
        /\ events[l2][t] > 0 => events[l2][t] = 1 /\ consults[l2][t].status = "closed"
    BY DEF ConsultInv, TypeOK, OneClosedEvent
  <1>2. consults[l2][t].status = "closed" => consults'[l2][t].status = "closed"
    <2>1. consults[l2][t].status = "closed" => Exists(l2, t)
      BY DEF Exists, NoConsult
    <2> QED BY <2>1, ConsultsKept
  <1>3. CASE events'[l2][t] = events[l2][t]
    BY <1>1, <1>2, <1>3
  <1>4. CASE events'[l2][t] # events[l2][t]
    <2>1. PICK j \in Jobs : RecordClosed(j)
      BY <1>4, EventWriters
    <2>2. Used(j) /\ jobs[j].stage = "event" /\ Home(j) \in L2s /\ jobs[j].thread \in Jobs
      BY <2>1, HandledSteps DEF Handled, RecordClosed, Job, Home
    <2>3. events' = [events EXCEPT ![Home(j)][jobs[j].thread] = @ + 1]
      BY <1>4, <2>1 DEF RecordClosed
    <2>4. l2 = Home(j) /\ t = jobs[j].thread
      BY <1>1, <1>4, <2>2, <2>3
    <2>5. events[l2][t] = 0 /\ consults[l2][t].status = "closed"
      BY <2>2, <2>4 DEF ConsultInv, OneRecorder
    <2>6. events'[l2][t] = events[l2][t] + 1
      BY <1>1, <2>2, <2>3, <2>4
    <2> QED BY <1>2, <2>5, <2>6
  <1> QED BY <1>3, <1>4

LEMMA OneRecorderStep ==
    ASSUME ConsultInv, [Next]_vars
    PROVE  OneRecorder'
  <1> DEFINE Recording(j) == Used(j) /\ jobs[j].stage = "event"
  <1>t. /\ events \in [L2s -> [Jobs -> Nat]]
        /\ consults \in [L2s -> [Jobs -> Consult \cup {NoConsult}]]
    BY DEF ConsultInv, TypeOK
  \* Who is to record the event has been, or has just closed the thread.
  <1>1. ASSUME NEW j \in Jobs, jobs'[j] # NoJob, jobs'[j].stage = "event"
        PROVE  /\ Used(j) /\ Home(j) \in L2s /\ jobs[j].thread \in Jobs
               /\ jobs'[j].thread = jobs[j].thread /\ Home(j)' = Home(j)
               /\ \/ jobs'[j] = jobs[j] /\ jobs[j].stage = "event"
                  \/ UpdateClosed(j) /\ consults[Home(j)][jobs[j].thread].status # "closed"
    <2>1. jobs'[j] = jobs[j] \/ Handled(j)
      <3>1. ASSUME jobs[j] \in Job,
                   jobs'[j] = [jobs[j] EXCEPT !.stage = "done", !.answer = "dead"]
            PROVE  FALSE
        BY <1>1, <3>1 DEF Job
      <3> QED BY <1>1, <3>1, JobFate, NewJobOnThread, DeniedJob
    <2>2. Used(j)
      BY <1>1, <2>1, HandledSteps DEF Used
    <2>3. jobs'[j] # jobs[j] =>
              UpdateClosed(j) /\ consults[Home(j)][jobs[j].thread].status # "closed"
      <3>1. SUFFICES ASSUME jobs'[j] # jobs[j]
                     PROVE  UpdateClosed(j) /\ NotYetClosed(consults[Home(j)][jobs[j].thread])
        BY DEF NotYetClosed
      <3>2. UpdateClosed(j)
        BY <1>1, <2>1, <3>1, HandledSteps
      <3>3. jobs[j] \in Job /\ jobs \in [Jobs -> Job \cup {NoJob}]
        BY <2>2, JobOrNone DEF ConsultInv, TypeOK, Used
      <3>4. Answer(j, "ok") => jobs'[j].stage = "done"
        BY <3>3 DEF Answer, Job
      <3> QED BY <1>1, <3>2, <3>4 DEF UpdateClosed
    <2> QED BY <1>1, <2>1, <2>2, <2>3, JobsKept, HomesKept DEF Job
  <1>2. ASSUME NEW j \in Jobs, Recording(j)
        PROVE  /\ events[Home(j)][jobs[j].thread] = 0
               /\ consults[Home(j)][jobs[j].thread].status = "closed"
               /\ \A i \in Jobs : /\ Recording(i) /\ Home(i) = Home(j)
                                   /\ jobs[i].thread = jobs[j].thread
                                  => i = j
    BY <1>2 DEF ConsultInv, OneRecorder
  <1> SUFFICES ASSUME NEW j \in Jobs, jobs'[j] # NoJob, jobs'[j].stage = "event"
               PROVE  (/\ events[Home(j)][jobs[j].thread] = 0
                       /\ consults[Home(j)][jobs[j].thread].status = "closed"
                       /\ \A i \in Jobs :
                            /\ Used(i) /\ jobs[i].stage = "event"
                            /\ Home(i) = Home(j) /\ jobs[i].thread = jobs[j].thread
                            => i = j)'
    BY DEF OneRecorder, Used
  <1> DEFINE h == Home(j)
             t == jobs[j].thread
  <1>3. Used(j) /\ h \in L2s /\ t \in Jobs /\ jobs'[j].thread = t /\ Home(j)' = h
    BY <1>1
  <1>4. events'[h][t] = 0 /\ consults'[h][t].status = "closed"
    <2>1. CASE jobs'[j] = jobs[j] /\ jobs[j].stage = "event"
      <3>1. events[h][t] = 0 /\ consults[h][t].status = "closed"
        BY <1>2, <1>3, <2>1
      <3>2. Exists(h, t)
        BY <3>1 DEF Exists, NoConsult
      <3>3. consults'[h][t].status = "closed"
        BY <1>3, <3>1, <3>2, ConsultsKept
      <3>4. events'[h][t] = 0
        <4>1. SUFFICES ASSUME events'[h][t] # 0 PROVE FALSE
          OBVIOUS
        <4>2. PICK i \in Jobs : RecordClosed(i)
          BY <3>1, <4>1, EventWriters
        <4>3. /\ Recording(i) /\ jobs'[i].stage = "done"
              /\ Home(i) \in L2s /\ jobs[i].thread \in Jobs
          BY <4>2, HandledSteps DEF Handled, RecordClosed, Job, Home
        <4>4. events' = [events EXCEPT ![Home(i)][jobs[i].thread] = @ + 1]
          BY <3>1, <4>1, <4>2 DEF RecordClosed
        <4>5. Home(i) = h /\ jobs[i].thread = t
          BY <1>3, <1>t, <3>1, <4>1, <4>3, <4>4
        <4>6. i = j
          BY <1>2, <1>3, <2>1, <4>3, <4>5
        <4> QED BY <2>1, <4>3, <4>6
      <3> QED BY <3>3, <3>4
    <2>2. CASE UpdateClosed(j) /\ consults[h][t].status # "closed"
      <3>1. events'[h][t] = events[h][t] /\ events[h][t] \in Nat
        BY <1>3, <1>t, <2>2 DEF UpdateClosed
      <3>2. ~(events[h][t] > 0)
        BY <1>3, <2>2 DEF ConsultInv, OneClosedEvent
      <3>3. consults' = [consults EXCEPT ![h][t] = Closed(@)]
        BY <2>2 DEF UpdateClosed, NotYetClosed
      <3>4. consults[h][t] \in Consult
        <4>1. Engaged(j)
          BY <1>3, <2>2 DEF UpdateClosed, Engaged
        <4> QED BY <4>1, EngagedTyped
      <3>5. consults'[h][t] = Closed(consults[h][t])
        BY <1>3, <1>t, <3>3
      <3>6. consults'[h][t].status = "closed"
        BY <3>4, <3>5 DEF Closed, Consult
      <3> QED BY <3>1, <3>2, <3>6
    <2> QED BY <1>1, <2>1, <2>2
  <1>5. ASSUME NEW i \in Jobs, jobs'[i] # NoJob, jobs'[i].stage = "event",
               Home(i)' = h, jobs'[i].thread = t
        PROVE  i = j
    <2>1. Used(i) /\ Home(i) = h /\ jobs[i].thread = t
      BY <1>1, <1>5
    <2>2. ASSUME Recording(i), Recording(j) PROVE i = j
      BY <1>2, <2>1, <2>2
    <2>3. ASSUME Recording(i) PROVE consults[h][t].status = "closed"
      BY <1>2, <2>1, <2>3
    <2>4. ASSUME Recording(j) PROVE consults[h][t].status = "closed"
      BY <1>2, <2>4
    <2>5. ASSUME NEW k \in Jobs, UpdateClosed(k), jobs'[i] # jobs[i] \/ i = k
          PROVE  i = k
      <3>1. jobs \in [Jobs -> Job \cup {NoJob}]
        BY DEF ConsultInv, TypeOK
      <3> QED BY <2>5, <3>1 DEF UpdateClosed, GoTo, Answer
    <2>6. CASE Recording(i)
      BY <1>1, <1>3, <2>2, <2>3, <2>6
    <2>7. CASE Recording(j)
      BY <1>1, <1>5, <2>1, <2>2, <2>4, <2>7
    <2>8. CASE UpdateClosed(i) /\ UpdateClosed(j) /\ ~Recording(i) /\ ~Recording(j)
      <3>1. jobs'[i] # jobs[i]
        BY <1>5, <2>1, <2>8
      <3> QED BY <2>5, <2>8, <3>1
    <2> QED BY <1>1, <1>3, <1>5, <2>1, <2>6, <2>7, <2>8
  <1>6. /\ events'[Home(j)'][jobs'[j].thread] = 0
        /\ consults'[Home(j)'][jobs'[j].thread].status = "closed"
    BY <1>3, <1>4
  <1>7. \A i \in Jobs :
            /\ jobs'[i] # NoJob /\ jobs'[i].stage = "event"
            /\ Home(i)' = Home(j)' /\ jobs'[i].thread = jobs'[j].thread
            => i = j
    BY <1>3, <1>5
  <1> QED BY <1>6, <1>7 DEF Used

-----------------------------------------------------------------------------
(* The theorems.                                                           *)

LEMMA InitInv == Init => ConsultInv
  <1> SUFFICES ASSUME Init PROVE ConsultInv
    OBVIOUS
  <1>1. TypeOK
    BY InitType
  <1>2. /\ \A j \in Jobs : ~Used(j)
        /\ \A j \in Jobs, c \in Copies : forwards[j][c] = "none"
        /\ \A l2 \in L2s, t \in Jobs :
              ~Exists(l2, t) /\ messages[l2][t] = NoMessage /\ events[l2][t] = 0
    BY DEF Init, Used, Exists
  <1>3. \A j \in Jobs : ~Engaged(j) /\ ~Sent(j)
    BY <1>2 DEF Engaged, Sent
  <1>4. ThreadsTraced /\ MessagesTraced /\ JobsOnThread
    BY <1>2, <1>3 DEF ThreadsTraced, MessagesTraced, JobsOnThread
  <1>5. StagesMatchKinds /\ ForwardsTraced /\ ForwardsKept /\ OneRecorder
    BY <1>2, <1>3 DEF StagesMatchKinds, ForwardsTraced, ForwardsKept, OneRecorder, Used
  <1>6. OkMeansMirrored /\ OneClosedEvent
    BY <1>2 DEF OkMeansMirrored, OneClosedEvent, Used
  <1> QED BY <1>1, <1>4, <1>5, <1>6 DEF ConsultInv

\* The inductive invariant: everything stored, forwarded or answered can be
\* traced to the request it came from.
THEOREM EverythingTraced == Spec => []ConsultInv
  <1>1. ConsultInv /\ [Next]_vars => ConsultInv'
    <2> SUFFICES ASSUME ConsultInv, [Next]_vars PROVE ConsultInv'
      OBVIOUS
    <2>1. TypeOK'
      BY StepType
    <2> QED BY <2>1, ThreadsTracedStep, MessagesTracedStep, JobsOnThreadStep,
               StagesMatchKindsStep, ForwardsTracedStep, ForwardsKeptStep,
               OkMeansMirroredStep, OneClosedEventStep, OneRecorderStep DEF ConsultInv
  <1> QED BY InitInv, <1>1, PTL DEF Spec

\* Every variable has its type, in particular every row is a whole one.
THEOREM TypeCorrect == Spec => []TypeOK
  <1>1. ConsultInv => TypeOK
    BY DEF ConsultInv
  <1> QED BY EverythingTraced, <1>1, PTL

\* An answered "ok" can be relied on: the other L2 has the thread and, unless
\* the peering keeps no messages, the message.
THEOREM OkIsMirrored == Spec => []OkMeansMirrored
  <1>1. ConsultInv => OkMeansMirrored
    BY DEF ConsultInv
  <1> QED BY EverythingTraced, <1>1, PTL

\* However many close a thread, its chain gets one consult.closed at most.
THEOREM OneEventPerClose == Spec => []OneClosedEvent
  <1>1. ConsultInv => OneClosedEvent
    BY DEF ConsultInv
  <1> QED BY EverythingTraced, <1>1, PTL

\* No L2 has a message that its author's L2 never recorded, or on a thread whose
\* ends the two L2s tell differently.
THEOREM NoPhantom == Spec => []NoPhantomMessage
  <1>1. ConsultInv => NoPhantomMessage
    <2> SUFFICES ASSUME ConsultInv, NEW l2 \in L2s, NEW m \in Jobs,
                        messages[l2][m] # NoMessage
                 PROVE  LET row    == messages[l2][m]
                            thread == consults[l2][row.thread]
                            origin == HomeOf[row.author]
                        IN  /\ Exists(l2, row.thread)
                            /\ row.author \in {thread.from, thread.to}
                            /\ l2 \in {HomeOf[thread.from], HomeOf[thread.to]}
                            /\ messages[origin][m] # NoMessage
                            /\ messages[origin][m].thread = row.thread
                            /\ Exists(origin, row.thread)
                            /\ consults[origin][row.thread].from = thread.from
                            /\ consults[origin][row.thread].to = thread.to
      BY DEF NoPhantomMessage
    <2> DEFINE t == jobs[m].thread
    <2>1. /\ Engaged(m) /\ messages[l2][m].thread = t
          /\ messages[l2][m].author = jobs[m].user
          /\ Exists(l2, t) /\ messages[Home(m)][m] # NoMessage
      BY DEF ConsultInv, MessagesTraced
    <2>2. /\ Home(m) \in L2s /\ t \in Jobs /\ Exists(Home(m), t)
          /\ Participant(jobs[m].user, consults[Home(m)][t])
      BY <2>1, EngagedTyped
    <2>3. messages[Home(m)][m].thread = t
      BY <2>1, <2>2 DEF ConsultInv, MessagesTraced
    <2>4. ASSUME NEW h \in L2s, Exists(h, t)
          PROVE  /\ consults[h][t].from = jobs[t].user
                 /\ consults[h][t].to = consults[Home(t)][t].to
                 /\ h \in {HomeOf[consults[h][t].from], HomeOf[consults[h][t].to]}
      BY <2>2, <2>4 DEF ConsultInv, ThreadsTraced
    <2>5. /\ consults[Home(m)][t].from = consults[l2][t].from
          /\ consults[Home(m)][t].to = consults[l2][t].to
          /\ l2 \in {HomeOf[consults[l2][t].from], HomeOf[consults[l2][t].to]}
      BY <2>1, <2>2, <2>4
    <2>6. jobs[m].user \in {consults[l2][t].from, consults[l2][t].to}
      BY <2>2, <2>5 DEF Participant
    <2>7. HomeOf[messages[l2][m].author] = Home(m)
      BY <2>1 DEF Home
    <2> HIDE DEF t
    <2> QED BY <2>1, <2>2, <2>3, <2>5, <2>6, <2>7
  <1> QED BY EverythingTraced, <1>1, PTL

-----------------------------------------------------------------------------
(* The logging policy. A reply never leaves its Enterprise, and a request's *)
(* opening message is appended only where it is to be logged; then every   *)
(* copy of a message is as its request's policy has it, and the two ends of *)
(* the thread, which both L2s tell alike, name the same policy.            *)

LoggedOnly ==
    \A j \in Jobs :
        Used(j) =>
            /\ jobs[j].kind = "message" => SameEnterprise(Home(j), There(j))
            /\ jobs[j].stage = "append" => ~Unlogged(j)

RequestPolicy(j) == PolicyBetween(Home(j), There(j))

BodiesFit ==
    \A l2 \in L2s, m \in Jobs :
        messages[l2][m] # NoMessage =>
            /\ RequestPolicy(m) # "no_log_consults"
            /\ messages[l2][m].body = RedactForPolicy(RequestPolicy(m))

PolicyInv == ConsultInv /\ LoggedOnly /\ BodiesFit

LEMMA NewJobLogged ==
    ASSUME ConsultInv, NEW j \in Jobs, Asks(j) \/ Opens(j) \/ Denied(j)
    PROVE  /\ jobs'[j].kind = "message" => SameEnterprise(HomeOf[jobs'[j].user], jobs'[j].other)
           /\ jobs'[j].stage = "append" /\ jobs'[j].kind = "request" =>
                PolicyBetween(HomeOf[jobs'[j].user], jobs'[j].other) # "no_log_consults"
  <1>1. jobs \in [Jobs -> Job \cup {NoJob}]
    BY DEF ConsultInv, TypeOK
  <1>2. ASSUME NEW kind, NEW u, NEW t, NEW other, NEW stage, NEW answer,
               Begin(j, kind, u, t, other, stage, answer)
        PROVE  /\ jobs'[j].kind = kind /\ jobs'[j].user = u /\ jobs'[j].other = other
               /\ jobs'[j].stage = stage
    BY <1>1, <1>2 DEF Begin
  <1>3. CASE Asks(j)
    <2>1. PICK u \in Users, to \in Personas : RequestConsult(j, u, to)
      BY <1>3 DEF Asks
    <2>2. PICK stage \in {"append", "send"} :
             /\ Begin(j, "request", u, j, HomeOf[to], stage, "none")
             /\ stage = "append" =>
                    PolicyBetween(HomeOf[u], HomeOf[to]) # "no_log_consults"
      BY <2>1 DEF RequestConsult
    <2> QED BY <1>2, <2>2
  <1>4. ASSUME NEW u \in Users, NEW kind, NEW t, NEW answer, Refuse(j, kind, u, t, answer)
        PROVE  /\ jobs'[j].other = HomeOf[u] /\ jobs'[j].user = u
               /\ jobs'[j].stage = "done"
    BY <1>2, <1>4 DEF Refuse
  <1>5. CASE Denied(j)
    <2>1. PICK u \in Users : \E kind, t, answer : Refuse(j, kind, u, t, answer)
      BY <1>5 DEF Denied, RequestRefused, PostRefused, PostUnroutable, CloseRefused
    <2> QED BY <1>4, <2>1 DEF SameEnterprise
  <1>6. CASE Opens(j)
    <2>1. PICK u \in Users, t \in Jobs : PostMessage(j, u, t) \/ CloseConsult(j, u, t)
      BY <1>6 DEF Opens
    <2>2. CASE CloseConsult(j, u, t)
      BY <1>2, <2>2 DEF CloseConsult
    <2>3. CASE PostMessage(j, u, t)
      <3>1. PICK there : /\ there = HomeOf[u] \/ ResolvesPeer(HomeOf[u], there)
                         /\ Begin(j, "message", u, t, there, "append", "none")
        BY <2>3 DEF PostMessage
      <3>2. HomeOf[u] \in L2s
        OBVIOUS
      <3>3. SameEnterprise(HomeOf[u], there)
        BY <3>1, <3>2, ConstantsAssumption DEF ResolvesPeer, SameEnterprise
      <3> QED BY <1>2, <3>1, <3>3
    <2> QED BY <2>1, <2>2, <2>3
  <1> QED BY <1>3, <1>5, <1>6

LEMMA LoggedOnlyStep ==
    ASSUME PolicyInv, [Next]_vars
    PROVE  LoggedOnly'
  <1> SUFFICES ASSUME NEW j \in Jobs, jobs'[j] # NoJob
               PROVE  /\ jobs'[j].kind = "message" => SameEnterprise(Home(j)', There(j)')
                      /\ jobs'[j].stage = "append" => ~Unlogged(j)'
    BY DEF LoggedOnly, Used, SameEnterprise
  <1>0. ConsultInv
    BY DEF PolicyInv
  <1>1. CASE Used(j)
    <2>1. /\ jobs'[j].kind = jobs[j].kind /\ Home(j)' = Home(j) /\ There(j)' = There(j)
          /\ Unlogged(j)' = Unlogged(j)
      BY <1>0, <1>1, JobsKept, HomesKept, UnloggedKept
    <2>2. jobs'[j].stage = "append" => jobs[j].stage = "append"
      <3>1. CASE Handled(j)
        BY <1>0, <3>1, HandledSteps
      <3>2. CASE jobs'[j] = [jobs[j] EXCEPT !.stage = "done", !.answer = "dead"] /\ jobs[j] \in Job
        BY <3>2 DEF Job
      <3> QED BY <1>0, <1>1, <3>1, <3>2, JobFate DEF Used
    <2> QED BY <1>1, <2>1, <2>2 DEF PolicyInv, LoggedOnly
  <1>2. CASE ~Used(j)
    <2>1. Asks(j) \/ Opens(j) \/ Denied(j)
      <3>1. jobs[j] \notin Job
        BY <1>0, <1>2, JobOrNone DEF Used, NoJob, Job
      <3> QED BY <1>0, <1>2, <3>1, JobFate DEF Used
    <2> QED BY <1>0, <2>1, NewJobLogged, PolicyKept DEF Home, There, Unlogged, PolicyBetween
  <1> QED BY <1>1, <1>2

\* Who stores a message redacts it by the policy of the request.
LEMMA NewBody ==
    ASSUME PolicyInv, [Next]_vars, NEW l2 \in L2s, NEW m \in Jobs,
           messages[l2][m] = NoMessage, messages'[l2][m] # NoMessage
    PROVE  /\ Used(m)
           /\ RequestPolicy(m) # "no_log_consults"
           /\ messages'[l2][m].body = RedactForPolicy(RequestPolicy(m))
  <1>0. ConsultInv /\ messages \in [L2s -> [Jobs -> Message \cup {NoMessage}]]
    BY DEF PolicyInv, ConsultInv, TypeOK
  <1>1. ASSUME NEW h \in L2s, NEW j \in Jobs, NEW t, NEW author, NEW body,
               InsertMessage(h, j, t, author, body)
        PROVE  m = j /\ messages'[l2][m].body = body
    <2>1. m = j /\ messages'[l2][m] = [thread |-> t, author |-> author, body |-> body]
      BY <1>0, <1>1 DEF InsertMessage
    <2> QED BY <2>1
  \* What the handlers take for the policy is the policy.
  <1>2. ASSUME NEW j \in Jobs, Used(j), jobs[j] \in Job, jobs[j].kind # "close",
               NEW p, p = IF jobs[j].kind = "request" THEN PolicyBetween(Home(j), There(j))
                          ELSE "mutual_log_required"
        PROVE  p = RequestPolicy(j) /\ (p = "no_log_consults" <=> Unlogged(j))
    <2>1. CASE jobs[j].kind = "request"
      BY <1>2, <2>1 DEF RequestPolicy, Unlogged, There
    <2>2. CASE jobs[j].kind = "message"
      BY <1>2, <2>2 DEF RequestPolicy, Unlogged, PolicyInv, LoggedOnly, PolicyBetween
    <2> QED BY <1>2, <2>1, <2>2 DEF Job
  <1>3. ASSUME NEW j \in Jobs, AppendMessage(j)
        PROVE  /\ Used(m) /\ RequestPolicy(m) # "no_log_consults"
               /\ messages'[l2][m].body = RedactForPolicy(RequestPolicy(m))
    <2>1. Used(j) /\ jobs[j] \in Job /\ Home(j) \in L2s /\ jobs[j].stage = "append"
      BY <1>0, <1>3, JobOrNone DEF AppendMessage, ConsultInv, Job, Home, Used
    <2>2. jobs[j].kind # "close" /\ ~Unlogged(j)
      BY <2>1 DEF PolicyInv, LoggedOnly, ConsultInv, StagesMatchKinds
    <2>3. PICK p : /\ p = IF jobs[j].kind = "request" THEN PolicyBetween(Home(j), There(j))
                          ELSE "mutual_log_required"
                   /\ InsertMessage(Home(j), j, jobs[j].thread, jobs[j].user, RedactForPolicy(p))
      BY <1>3 DEF AppendMessage, There
    <2>4. p = RequestPolicy(j) /\ p # "no_log_consults"
      BY <1>2, <2>1, <2>2, <2>3
    <2>5. m = j /\ messages'[l2][m].body = RedactForPolicy(p)
      BY <1>1, <2>1, <2>3
    <2> QED BY <2>1, <2>4, <2>5
  <1>4. ASSUME NEW j \in Jobs, NEW c \in Copies, MirrorMessage(j, c)
        PROVE  /\ Used(m) /\ RequestPolicy(m) # "no_log_consults"
               /\ messages'[l2][m].body = RedactForPolicy(RequestPolicy(m))
    <2>1. /\ Used(j) /\ jobs[j] \in Job /\ jobs[j].kind # "close" /\ There(j) \in L2s
      BY <1>0, <1>4, EndpointsTyped DEF MirrorMessage
    <2>2. PICK p : /\ p = IF jobs[j].kind = "request" THEN PolicyBetween(Home(j), There(j))
                          ELSE "mutual_log_required"
                   /\ IF p = "no_log_consults" THEN UNCHANGED messages
                      ELSE InsertMessage(There(j), j, jobs[j].thread, jobs[j].user,
                                         RedactForPolicy(p))
      BY <1>4 DEF MirrorMessage
    <2>3. p # "no_log_consults"
      BY <2>2
    <2>4. p = RequestPolicy(j)
      BY <1>2, <2>1, <2>2
    <2>5. m = j /\ messages'[l2][m].body = RedactForPolicy(p)
      BY <1>1, <2>1, <2>2, <2>3
    <2> QED BY <2>1, <2>3, <2>4, <2>5
  <1>5. messages' # messages
    OBVIOUS
  <1> QED BY <1>3, <1>4, <1>5, MessageWriters

LEMMA BodiesFitStep ==
    ASSUME PolicyInv, [Next]_vars
    PROVE  BodiesFit'
  <1> SUFFICES ASSUME NEW l2 \in L2s, NEW m \in Jobs, messages'[l2][m] # NoMessage
               PROVE  /\ RequestPolicy(m)' # "no_log_consults"
                      /\ messages'[l2][m].body = RedactForPolicy(RequestPolicy(m)')
    BY DEF BodiesFit, RedactForPolicy
  <1>0. ConsultInv
    BY DEF PolicyInv
  <1>1. /\ Used(m) /\ RequestPolicy(m) # "no_log_consults"
        /\ messages'[l2][m].body = RedactForPolicy(RequestPolicy(m))
    <2>1. CASE messages[l2][m] # NoMessage
      BY <1>0, <2>1, MessagesKept DEF PolicyInv, BodiesFit, ConsultInv, MessagesTraced, Engaged
    <2>2. CASE messages[l2][m] = NoMessage
      BY <2>2, NewBody
    <2> QED BY <2>1, <2>2
  <1>2. RequestPolicy(m)' = RequestPolicy(m)
    BY <1>0, <1>1, HomesKept, PolicyKept DEF RequestPolicy, PolicyBetween
  <1> QED BY <1>1, <1>2

LEMMA PolicyBothWays ==
    ASSUME NEW a, NEW b
    PROVE  PolicyBetween(a, b) = PolicyBetween(b, a)
  <1>1. {EnterpriseOf[a], EnterpriseOf[b]} = {EnterpriseOf[b], EnterpriseOf[a]}
    OBVIOUS
  <1> QED BY <1>1 DEF PolicyBetween, SameEnterprise

LEMMA PolicyInitially == Init => PolicyInv
  <1> SUFFICES ASSUME Init PROVE PolicyInv
    OBVIOUS
  <1>1. LoggedOnly /\ BodiesFit
    BY DEF Init, LoggedOnly, BodiesFit, Used
  <1> QED BY <1>1, InitInv DEF PolicyInv

LEMMA PolicyStep == PolicyInv /\ [Next]_vars /\ ConsultInv' => PolicyInv'
  BY LoggedOnlyStep, BodiesFitStep DEF PolicyInv

\* Both L2s of a thread keep of its messages what the peering's policy has them
\* keep: nothing, the redacted text or the whole of it, replies included, since a
\* reply to another Enterprise is refused.
THEOREM PolicyKeptByBoth == Spec => []PolicyRespected
  <1>1. Init => PolicyInv
    BY PolicyInitially
  <1>2. PolicyInv /\ [Next]_vars /\ ConsultInv' => PolicyInv'
    BY PolicyStep
  <1>3. PolicyInv /\ NoPhantomMessage => PolicyRespected
    <2> SUFFICES ASSUME PolicyInv, NoPhantomMessage, NEW l2 \in L2s, NEW m \in Jobs,
                        messages[l2][m] # NoMessage
                 PROVE  LET row    == messages[l2][m]
                            thread == consults[l2][row.thread]
                            p      == PolicyBetween(HomeOf[thread.from], HomeOf[thread.to])
                        IN  p # "no_log_consults" /\ row.body = RedactForPolicy(p)
      BY DEF PolicyRespected
    <2>1. /\ Engaged(m) /\ jobs[m].kind # "close"
          /\ messages[l2][m].thread = jobs[m].thread /\ messages[l2][m].author = jobs[m].user
      BY DEF PolicyInv, ConsultInv, MessagesTraced
    <2>2. PICK here, there : here = consults[Home(m)][jobs[m].thread]
                             /\ there = consults[l2][jobs[m].thread]
      OBVIOUS
    <2>3. /\ jobs[m].user \in {here.from, here.to}
          /\ There(m) = HomeOf[OtherParty(jobs[m].user, here)]
      BY <2>1, <2>2 DEF PolicyInv, ConsultInv, JobsOnThread, Participant, There
    <2>4. here.from = there.from /\ here.to = there.to
      BY <2>1, <2>2 DEF NoPhantomMessage, Home
    <2>5. PolicyBetween(HomeOf[here.from], HomeOf[here.to]) = RequestPolicy(m)
      <3>1. CASE jobs[m].user = here.from
        BY <2>3, <3>1 DEF RequestPolicy, OtherParty, Home
      <3>2. CASE jobs[m].user # here.from
        <4>1. jobs[m].user = here.to /\ There(m) = HomeOf[here.from]
          BY <2>3, <3>2 DEF OtherParty
        <4> QED BY <4>1, PolicyBothWays DEF RequestPolicy, Home
      <3> QED BY <3>1, <3>2
    <2>6. /\ RequestPolicy(m) # "no_log_consults"
          /\ messages[l2][m].body = RedactForPolicy(RequestPolicy(m))
      BY DEF PolicyInv, BodiesFit
    <2> QED BY <2>1, <2>2, <2>4, <2>5, <2>6
  <1> QED BY <1>1, <1>2, <1>3, EverythingTraced, NoPhantom, PTL DEF Spec

\* The record is durable: no step takes a thread or a message away, reopens a
\* closed thread, or rewrites what was said; a forward that comes again, late
\* or beside another changes nothing that is there.
RecordIsDurable ==
    [][\A l2 \in L2s, i \in Jobs :
          /\ Exists(l2, i) =>
                consults'[l2][i] \in {consults[l2][i], Closed(consults[l2][i])}
          /\ messages[l2][i] # NoMessage => messages'[l2][i] = messages[l2][i]
      ]_vars

\* No step takes a thread or a message away, reopens a thread or rewrites what
\* was said.
THEOREM Durable == Spec => RecordIsDurable
  <1> DEFINE Kept == \A l2 \in L2s, i \in Jobs :
                /\ Exists(l2, i) =>
                      consults'[l2][i] \in {consults[l2][i], Closed(consults[l2][i])}
                /\ messages[l2][i] # NoMessage => messages'[l2][i] = messages[l2][i]
  <1>1. ConsultInv /\ [Next]_vars => [Kept]_vars
    BY ConsultsKept, MessagesKept
  <1> HIDE DEF Kept
  <1>2. Spec => [][Kept]_vars
    BY EverythingTraced, <1>1, PTL DEF Spec
  <1> QED BY <1>2 DEF Kept, RecordIsDurable
-----------------------------------------------------------------------------
(* The refinement: the L2s together keep one ConsultRecord.                *)

\* A request that was told "ok" is over.
OkIsDone ==
    \A j \in Jobs :
        Used(j) /\ jobs[j].kind # "close" /\ jobs[j].answer = "ok" => jobs[j].stage = "done"

RecordInv == PolicyInv /\ OkIsDone

LEMMA OkIsDoneStep ==
    ASSUME RecordInv, [Next]_vars
    PROVE  OkIsDone'
  <1>0. ConsultInv /\ OkIsDone
    BY DEF RecordInv, PolicyInv
  <1> SUFFICES ASSUME NEW j \in Jobs, jobs'[j] # NoJob, jobs'[j].kind # "close",
                      jobs'[j].answer = "ok"
               PROVE  jobs'[j].stage = "done"
    BY DEF OkIsDone, Used
  <1>1. ~Asks(j) /\ ~Opens(j) /\ ~Denied(j)
    BY <1>0, NewJobOnThread, DeniedJob
  <1>2. CASE jobs'[j] = jobs[j]
    BY <1>0, <1>2 DEF OkIsDone, Used
  <1>3. CASE jobs[j] \in Job /\ Handled(j)
    <2>1. Used(j) /\ jobs[j].kind # "close"
      BY <1>0, <1>3, HandledSteps, JobsKept
    <2>2. jobs[j].stage \notin {"close", "event"}
      BY <1>0, <2>1 DEF ConsultInv, StagesMatchKinds
    <2>3. jobs[j].answer = "ok" => jobs[j].stage = "done"
      BY <1>0, <2>1 DEF OkIsDone
    <2> QED BY <1>0, <1>3, <2>2, <2>3, HandledSteps
  <1>4. CASE jobs[j] \in Job /\ jobs'[j] = [jobs[j] EXCEPT !.stage = "done", !.answer = "dead"]
    BY <1>4 DEF Job
  <1> QED BY <1>0, <1>1, <1>2, <1>3, <1>4, JobFate

\* A thread that appears is opened by its request, or copied from there.
LEMMA ThreadsRefined ==
    ASSUME PolicyInv, [Next]_vars, consults' # consults
    PROVE  Record!Recorded
  <1>0. ConsultInv /\ consults \in [L2s -> [Jobs -> Consult \cup {NoConsult}]]
    BY DEF PolicyInv, ConsultInv, TypeOK
  <1>1. ASSUME NEW j \in Jobs, Asks(j) PROVE Record!Recorded
    <2>1. PICK u \in Users, to \in Personas : RequestConsult(j, u, to)
      BY <1>1 DEF Asks
    <2>2. /\ consults' = [consults EXCEPT ![HomeOf[u]][j] = [from |-> u, to |-> to, status |-> "open"]]
          /\ UNCHANGED <<messages, events>> /\ jobs[j] = NoJob
      BY <2>1 DEF RequestConsult, InsertConsult, Begin
    <2>3. \A l2 \in L2s : consults[l2][j] = NoConsult
      BY <1>0, <2>2 DEF ConsultInv, ThreadsTraced, Exists, Used
    <2>4. Record!OpenThread(j, u, to)
      BY <2>2, <2>3 DEF Record!OpenThread, Record!Known
    <2> QED BY <2>4 DEF Record!Recorded
  <1>2. ASSUME NEW j \in Jobs, UpdateClosed(j) PROVE Record!Recorded
    <2> DEFINE h == Home(j)
               t == jobs[j].thread
    <2>1. Engaged(j)
      BY <1>0, <1>2, JobOrNone DEF UpdateClosed, Engaged, Used, ConsultInv
    <2>2. h \in L2s /\ t \in Jobs /\ Exists(h, t) /\ consults[h][t] \in Consult
      BY <1>0, <2>1, EngagedTyped
    <2>3. /\ consults' = [consults EXCEPT ![h][t] = Closed(consults[h][t])]
          /\ consults[h][t].status # "closed" /\ UNCHANGED <<messages, events>>
      BY <1>2 DEF UpdateClosed, NotYetClosed
    <2>4. consults[h][t].status = "open"
      BY <2>2, <2>3 DEF Consult
    <2> HIDE DEF h, t
    <2>5. Record!CloseThread(h, t)
      BY <2>2, <2>3, <2>4 DEF Record!CloseThread, Record!Known, Exists, Closed
    <2> QED BY <2>2, <2>5 DEF Record!Recorded
  <1>3. ASSUME NEW j \in Jobs, NEW c \in Copies, MirrorThread(j, c) PROVE Record!Recorded
    <2> DEFINE row == consults[Home(j)][jobs[j].thread]
               t == jobs[j].thread
               l2 == There(j)
               first == consults[Home(t)][t]
    <2>1. forwards[j][c] # "none"
      BY <1>3 DEF MirrorThread
    <2>2. /\ Engaged(j) /\ Home(j) \in L2s /\ l2 \in L2s /\ t \in Jobs
          /\ Exists(Home(j), t) /\ Endpoints(j) = row /\ jobs[j].kind # "close"
      BY <1>0, <2>1, EndpointsTyped
    <2>3. /\ consults' = [consults EXCEPT ![l2][t] =
                             [from |-> row.from, to |-> row.to, status |-> "open"]]
          /\ ~Exists(l2, t) /\ UNCHANGED <<messages, events>>
      BY <1>3, <2>2 DEF MirrorThread, InsertConsult
    <2>4. /\ Used(t) /\ row.from = jobs[t].user /\ Exists(Home(t), t) /\ row.to = first.to
      BY <1>0, <2>2 DEF ConsultInv, ThreadsTraced
    <2>5. Home(t) \in L2s
      BY <1>0, <2>2, <2>4, JobOrNone DEF ConsultInv, Used, Job, Home
    <2>6. first.from = jobs[t].user
      BY <1>0, <2>2, <2>4, <2>5 DEF ConsultInv, ThreadsTraced
    <2>7. l2 = HomeOf[OtherParty(jobs[j].user, row)]
      BY <1>0, <2>2 DEF ConsultInv, JobsOnThread, There
    <2>8. Home(t) = HomeOf[first.from] /\ l2 \in {HomeOf[first.from], HomeOf[first.to]}
      BY <2>4, <2>6, <2>7 DEF OtherParty, Home
    <2>9. consults' = [consults EXCEPT ![l2][t] =
                          [from |-> first.from, to |-> first.to, status |-> "open"]]
      BY <2>3, <2>4, <2>6
    <2>10. Record!CopyThread(l2, t)
      BY <2>3, <2>4, <2>5, <2>8, <2>9
         DEF Record!CopyThread, Record!Known, Record!HomesOf, Record!Ends, Exists
    <2> QED BY <2>2, <2>10 DEF Record!Recorded
  <1> QED BY <1>1, <1>2, <1>3, ConsultWriters

\* A message that appears is said by its author, or is a copy to the letter.
LEMMA MessagesRefined ==
    ASSUME PolicyInv, PolicyInv', [Next]_vars, messages' # messages
    PROVE  Record!Recorded
  <1>0. ConsultInv /\ messages \in [L2s -> [Jobs -> Message \cup {NoMessage}]]
    BY DEF PolicyInv, ConsultInv, TypeOK
  <1>t. messages' \in [L2s -> [Jobs -> Message \cup {NoMessage}]]
    BY DEF PolicyInv, ConsultInv, TypeOK
  <1>1. ASSUME NEW j \in Jobs, AppendMessage(j) PROVE Record!Recorded
    <2> DEFINE h == Home(j)
               t == jobs[j].thread
    <2>1. Engaged(j)
      BY <1>0, <1>1, JobOrNone DEF AppendMessage, Engaged, Used, ConsultInv
    <2>2. /\ h \in L2s /\ t \in Jobs /\ jobs[j].user \in Personas
          /\ Exists(h, t) /\ Participant(jobs[j].user, consults[h][t])
      BY <1>0, <2>1, EngagedTyped
    <2>3. PICK body \in {"full", "redacted"} : InsertMessage(h, j, t, jobs[j].user, body)
      BY <1>1 DEF AppendMessage, RedactForPolicy
    <2>4. /\ messages[h][j] = NoMessage
          /\ messages' = [messages EXCEPT ![h][j] =
                             [thread |-> t, author |-> jobs[j].user, body |-> body]]
      BY <2>3 DEF InsertMessage
    <2>5. \A l2 \in L2s : messages[l2][j] = NoMessage
      BY <1>0, <2>4 DEF ConsultInv, MessagesTraced
    <2>6. UNCHANGED <<consults, events>>
      BY <1>1 DEF AppendMessage
    <2>7. h = HomeOf[jobs[j].user]
      BY DEF Home
    <2> HIDE DEF h, t
    <2>8. Record!Say(j, t, jobs[j].user)
      BY <2>2, <2>4, <2>5, <2>6, <2>7
         DEF Record!Say, Record!Heard, Record!Known, Record!Ends, Exists, Participant
    <2> QED BY <2>2, <2>8 DEF Record!Recorded
  <1>2. ASSUME NEW j \in Jobs, NEW c \in Copies, MirrorMessage(j, c) PROVE Record!Recorded
    <2> DEFINE h == Home(j)
               l2 == There(j)
               t == jobs[j].thread
    <2>1. /\ Engaged(j) /\ Used(j) /\ h \in L2s /\ l2 \in L2s /\ t \in Jobs
      BY <1>0, <1>2, EndpointsTyped DEF MirrorMessage
    <2>2. PICK x : messages' = [messages EXCEPT ![l2][j] = x]
      BY <1>2 DEF MirrorMessage, InsertMessage
    <2>3. messages[l2][j] = NoMessage
      BY <1>2 DEF MirrorMessage, InsertMessage
    <2>4. messages'[l2][j] = x /\ x # NoMessage
      BY <1>0, <2>1, <2>2, <2>3
    <2>5. x \in Message /\ x.thread = t /\ x.author = jobs[j].user
      BY <1>0, <1>t, <2>1, <2>3, <2>4, NewMessage
    <2>6. /\ RequestPolicy(j) # "no_log_consults"
          /\ x.body = RedactForPolicy(RequestPolicy(j))
      BY <2>1, <2>3, <2>4, NewBody
    <2>7. messages[h][j] # NoMessage
      <3>1. Unlogged(j) => RequestPolicy(j) = "no_log_consults"
        BY DEF Unlogged, RequestPolicy, There
      <3> QED BY <1>0, <1>2, <2>1, <2>6, <3>1, EndpointsTyped
             DEF MirrorMessage, ConsultInv, ForwardsTraced
    <2>8. /\ messages[h][j] \in Message /\ messages[h][j].thread = t
          /\ messages[h][j].author = jobs[j].user
          /\ messages[h][j].body = RedactForPolicy(RequestPolicy(j))
      BY <1>0, <2>1, <2>7 DEF PolicyInv, ConsultInv, MessagesTraced, BodiesFit
    <2>9. x = messages[h][j]
      BY <2>5, <2>6, <2>8 DEF Message
    <2>10. Exists(l2, t) /\ l2 \in {HomeOf[consults[l2][t].from], HomeOf[consults[l2][t].to]}
      BY <1>0, <1>2, <2>1 DEF MirrorMessage, ConsultInv, ForwardsKept, ThreadsTraced
    <2>11. h = HomeOf[messages[h][j].author] /\ UNCHANGED <<consults, events>>
      BY <1>2, <2>8 DEF Home, MirrorMessage
    <2> HIDE DEF h, l2, t
    <2>12. Record!CopyEntry(l2, j)
      BY <2>1, <2>2, <2>3, <2>7, <2>8, <2>9, <2>10, <2>11
         DEF Record!CopyEntry, Record!Heard, Record!Known, Record!HomesOf, Record!Ends, Exists
    <2> QED BY <2>1, <2>12 DEF Record!Recorded
  <1> QED BY <1>1, <1>2, MessageWriters

LEMMA EventsRefined ==
    ASSUME PolicyInv, [Next]_vars, events' # events
    PROVE  Record!Recorded
  <1>0. ConsultInv /\ events \in [L2s -> [Jobs -> Nat]]
    BY DEF PolicyInv, ConsultInv, TypeOK
  <1>1. PICK j \in Jobs : RecordClosed(j)
    BY EventWriters
  <1> DEFINE h == Home(j)
             t == jobs[j].thread
  <1>2. /\ events' = [events EXCEPT ![h][t] = events[h][t] + 1]
        /\ UNCHANGED <<consults, messages>>
    BY <1>1 DEF RecordClosed
  <1>3. Engaged(j) /\ Used(j)
    BY <1>0, <1>1, JobOrNone DEF RecordClosed, Engaged, Used, ConsultInv
  <1>4. h \in L2s /\ t \in Jobs /\ Exists(h, t)
    BY <1>0, <1>3, EngagedTyped
  <1>5. events[h][t] = 0 /\ consults[h][t].status = "closed"
    BY <1>0, <1>1, <1>3 DEF RecordClosed, ConsultInv, OneRecorder
  <1>6. events' = [events EXCEPT ![h][t] = 1]
    BY <1>2, <1>5
  <1> HIDE DEF h, t
  <1>7. Record!RecordClosing(h, t)
    BY <1>2, <1>4, <1>5, <1>6 DEF Record!RecordClosing, Record!Known, Exists
  <1> QED BY <1>4, <1>7 DEF Record!Recorded

\* "ok" is told of what the other side has by then, and is not taken back.
LEMMA ConfirmRefined ==
    ASSUME RecordInv, PolicyInv', [Next]_vars
    PROVE  Record!Confirm
  <1>0. ConsultInv /\ ConsultInv'
    BY DEF RecordInv, PolicyInv
  <1>1. Confirmed \subseteq Confirmed'
    <2> SUFFICES ASSUME NEW j \in Jobs, jobs[j] # NoJob, jobs[j].answer = "ok",
                        jobs[j].kind # "close"
                 PROVE  [message |-> j, thread |-> jobs[j].thread, at |-> jobs[j].other,
                         kept |-> PolicyBetween(Home(j), jobs[j].other) # "no_log_consults"]
                            \in Confirmed'
      BY DEF Confirmed
    <2>1. Used(j) /\ jobs[j].stage = "done"
      BY DEF RecordInv, OkIsDone, Used
    <2>2. jobs'[j] = jobs[j] /\ Home(j)' = Home(j)
      BY <1>0, <2>1, JobsKept, HomesKept
    <2>3. (PolicyBetween(Home(j), jobs[j].other))' = PolicyBetween(Home(j), jobs[j].other)
      BY <2>2, PolicyKept DEF PolicyBetween
    <2> QED BY <2>2, <2>3 DEF Confirmed
  <1>2. \A d \in Confirmed' : Record!Reached(d)'
    <2> SUFFICES ASSUME NEW d \in Confirmed'
                 PROVE  Record!Reached(d)'
      OBVIOUS
    <2>1. PICK j \in Jobs :
             /\ jobs'[j] # NoJob /\ jobs'[j].answer = "ok" /\ jobs'[j].kind # "close"
             /\ d = [message |-> j, thread |-> jobs'[j].thread, at |-> jobs'[j].other,
                     kept |-> PolicyBetween(Home(j), jobs[j].other)' # "no_log_consults"]
      BY DEF Confirmed
    <2>2. Exists(jobs[j].other, jobs[j].thread)'
      BY <1>0, <2>1 DEF ConsultInv, OkMeansMirrored
    <2>3. PolicyBetween(Home(j), jobs[j].other)' # "no_log_consults"
             => messages'[jobs'[j].other][j] # NoMessage
      BY <1>0, <2>1 DEF ConsultInv, OkMeansMirrored
    <2>4. /\ d.at = jobs'[j].other /\ d.thread = jobs'[j].thread /\ d.message = j
          /\ d.kept = (PolicyBetween(Home(j), jobs[j].other)' # "no_log_consults")
      BY <2>1
    <2> QED BY <2>2, <2>3, <2>4 DEF Record!Reached, Record!Known, Record!Heard, Exists
  <1> QED BY <1>1, <1>2 DEF Record!Confirm

LEMMA RecordNextRefined ==
    ASSUME RecordInv, PolicyInv', [Next]_vars
    PROVE  Record!RecordNext
  <1>1. Record!Recorded \/ UNCHANGED <<consults, messages, events>>
    BY ThreadsRefined, MessagesRefined, EventsRefined DEF RecordInv
  <1> QED BY <1>1, ConfirmRefined DEF Record!RecordNext

LEMMA RecordInitially == Init => RecordInv /\ Record!RecordInit
  <1> SUFFICES ASSUME Init PROVE RecordInv /\ Record!RecordInit
    OBVIOUS
  <1>1. \A j \in Jobs : jobs[j] = NoJob
    BY DEF Init
  <1>2. RecordInv
    BY <1>1, PolicyInitially DEF RecordInv, OkIsDone, Used
  <1>3. Confirmed = {}
    BY <1>1 DEF Confirmed
  <1> QED BY <1>2, <1>3 DEF Init, Record!RecordInit

\* The L2s keep one record of what was asked and said: every step of every handler
\* and forward, and every crash, opens a thread, says or copies something, closes
\* a thread, confirms what has arrived, or leaves the record as it was.
THEOREM ConsultsImplementRecord == Spec => ImplementsRecord
  <1>1. RecordInv /\ ConsultInv' /\ [Next]_vars => PolicyInv'
    BY PolicyStep DEF RecordInv
  <1>2. RecordInv /\ PolicyInv' /\ [Next]_vars => RecordInv' /\ [Record!RecordNext]_(Record!rvars)
    BY OkIsDoneStep, RecordNextRefined DEF RecordInv
  <1> QED BY <1>1, <1>2, RecordInitially, EverythingTraced, PTL
         DEF Spec, ImplementsRecord, Record!RecordSpec
=============================================================================
