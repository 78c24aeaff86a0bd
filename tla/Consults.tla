------------------------------- MODULE Consults -------------------------------
(***************************************************************************)
(* Consults between the users of several L2 servers.  A thread and its     *)
(* messages live at the L2 that opens it and, mirrored by HTTP forwards,   *)
(* at the addressee's L2.  Inside one Enterprise a forward follows the     *)
(* AIGRP peer table; to another Enterprise it follows the roster of a      *)
(* directory peering, whose logging policy governs what is stored.         *)
(*                                                                         *)
(* A handler runs from one store call to the next; other handlers of its   *)
(* server run in between, and a crash may come there.  The forward itself  *)
(* is a synchronous call: its server's event loop does nothing else until  *)
(* the answer or the timeout.  (Store calls that were under way when the   *)
(* loop blocks are taken to be finished before.)                           *)
(*                                                                         *)
(* A persona stands for an l2_id and a user name there.  A request job has *)
(* one thread id and one message id, both its own name.                    *)
(***************************************************************************)
EXTENDS Naturals, FiniteSets

CONSTANTS
    L2s,
    EnterpriseOf,   \* [L2s -> an Enterprise]
    Personas,
    HomeOf,         \* [Personas -> L2s]
    Users,          \* the personas that exist as users
    Peers,          \* [L2s -> SUBSET L2s], each L2's AIGRP peer table
    Roster,         \* [L2s -> SUBSET L2s], whom its active peerings list
    Jobs,           \* bound: the requests ever made
    Copies,         \* bound: the deliveries of one forward
    MaxCrashes      \* bound on crashes

Policies == {"mutual_log_required", "summary_only_log", "no_log_consults"}

ASSUME ConstantsAssumption ==
    /\ HomeOf \in [Personas -> L2s] /\ Users \subseteq Personas
    /\ Peers \in [L2s -> SUBSET L2s] /\ Roster \in [L2s -> SUBSET L2s]
    /\ Copies # {} /\ MaxCrashes \in Nat
    /\ \A l2 \in L2s : \A other \in Peers[l2] :
          other # l2 /\ EnterpriseOf[other] = EnterpriseOf[l2]
    /\ \A l2 \in L2s : \A other \in Roster[l2] :
          EnterpriseOf[other] # EnterpriseOf[l2]

NoConsult == [status |-> "none"]
Consult   == [from : Personas, to : Personas, status : {"open", "closed"}]

NoMessage == [body |-> "none"]
Message   == [thread : Jobs, author : Personas, body : {"full", "redacted"}]

\* A request a server handles: who made it, on which thread, to which L2 a
\* forward goes, and how it was answered.
NoJob  == [stage |-> "unused"]
Stages == {"append", "send", "wait", "close", "event", "done"}
Job == [stage  : Stages,
        kind   : {"request", "message", "close"},
        user   : Users,
        thread : Jobs,
        other  : L2s,
        answer : {"none", "ok", "refused", "bad_gateway", "dead"}]

VARIABLES
    consults,   \* [L2s -> [Jobs -> a row of consults or NoConsult]]
    messages,   \* [L2s -> [Jobs -> a row of consult_messages or NoMessage]]
    events,     \* [L2s -> [Jobs -> consult.closed events in the chain]]
    jobs,       \* [Jobs -> Job or NoJob]
    forwards,   \* [Jobs -> [Copies -> where the forward of a job stands]]
    policy,     \* the logging policy of each two Enterprises' peering
    crashes

store == <<consults, messages, events>>
vars  == <<consults, messages, events, jobs, forwards, policy, crashes>>

\* A forward is on the wire; its receiver has seen the thread, or seen that
\* there is none; it has been answered.
ForwardStages == {"none", "wire", "found", "missing", "ok", "refused", "error"}

EnterprisePairs ==
    {{EnterpriseOf[a], EnterpriseOf[b]} : a \in L2s, b \in L2s}

-----------------------------------------------------------------------------
(* What the handlers read.                                                 *)

Home(j)  == HomeOf[jobs[j].user]
Exists(l2, t) == consults[l2][t] # NoConsult

SameEnterprise(a, b) == EnterpriseOf[a] = EnterpriseOf[b]

\* _resolve_peer: the AIGRP peer table has this Enterprise's L2s only.
\* Mutant: replies find the L2s of peered Enterprises as well.
PeerOrRoster(l2, other) == other \in Peers[l2] \cup Roster[l2]
ResolvesPeer(l2, other) == other \in Peers[l2]

\* The three routes of a request: same L2, sibling, peered Enterprise.
Routable(l2, other) ==
    \/ other = l2
    \/ SameEnterprise(l2, other) /\ ResolvesPeer(l2, other)
    \/ ~SameEnterprise(l2, other) /\ other \in Roster[l2]

PolicyBetween(a, b) ==
    IF SameEnterprise(a, b) THEN "mutual_log_required"
    ELSE policy[{EnterpriseOf[a], EnterpriseOf[b]}]

RedactForPolicy(p) == IF p = "mutual_log_required" THEN "full" ELSE "redacted"

Participant(u, row) == u \in {row.from, row.to}

\* Else 404 or 403: the thread is here, and the user one of its two ends.
MayAct(u, t) == Exists(HomeOf[u], t) /\ Participant(u, consults[HomeOf[u]][t])

OtherParty(u, row) == IF u = row.from THEN row.to ELSE row.from

\* A server whose loop waits for a forward's answer runs no other handler.
LoopFree(l2) == \A j \in Jobs : jobs[j].stage = "wait" => Home(j) # l2

-----------------------------------------------------------------------------
(* What the handlers write.                                                *)

\* Mutant: INSERT OR REPLACE.
ReplaceConsult(l2, t, from, to) ==
    consults' = [consults EXCEPT ![l2][t] =
                    [from |-> from, to |-> to, status |-> "open"]]

InsertConsult(l2, t, from, to) ==
    /\ ~Exists(l2, t)
    /\ consults' = [consults EXCEPT ![l2][t] =
                       [from |-> from, to |-> to, status |-> "open"]]

\* A second row of the same message_id fails, which the forwards swallow.
InsertMessage(l2, m, t, author, body) ==
    messages' = IF messages[l2][m] # NoMessage THEN messages
                ELSE [messages EXCEPT ![l2][m] =
                         [thread |-> t, author |-> author, body |-> body]]

GoTo(j, stage) == jobs' = [jobs EXCEPT ![j].stage = stage]

Answer(j, answer) ==
    jobs' = [jobs EXCEPT ![j].stage = "done", ![j].answer = answer]

\* The first store calls of a request: who asks, what it asks for.
Begin(j, kind, u, t, other, stage, answer) ==
    /\ jobs[j] = NoJob
    /\ LoopFree(HomeOf[u])
    /\ jobs' = [jobs EXCEPT ![j] =
                   [stage |-> stage, kind |-> kind, user |-> u, thread |-> t,
                    other |-> other, answer |-> answer]]

Refuse(j, kind, u, t, answer) ==
    /\ Begin(j, kind, u, t, HomeOf[u], "done", answer)
    /\ UNCHANGED <<store, forwards, policy, crashes>>

\* After its local writes a request is forwarded, or done.
Mirror(j) ==
    IF jobs[j].other = Home(j) THEN Answer(j, "ok") ELSE GoTo(j, "send")

-----------------------------------------------------------------------------
(* POST /consults/request.                                                 *)

RequestConsult(j, u, to) ==
    LET here   == HomeOf[u]
        there  == HomeOf[to]
        logged == PolicyBetween(here, there) # "no_log_consults"
    IN  /\ Routable(here, there)
        /\ Begin(j, "request", u, j, there, IF logged THEN "append" ELSE "send", "none")
        /\ InsertConsult(here, j, u, to)
        /\ UNCHANGED <<messages, events, forwards, policy, crashes>>

RequestRefused(j, u, to) ==
    /\ ~Routable(HomeOf[u], HomeOf[to])
    /\ Refuse(j, "request", u, j, "refused")

(* POST /consults/{thread_id}/messages, up to the INSERT.                  *)

PostMessage(j, u, t) ==
    LET here == HomeOf[u]
        row  == consults[here][t]
    IN  /\ MayAct(u, t) /\ row.status = "open"
        /\ LET there == HomeOf[OtherParty(u, row)] IN
              /\ there = here \/ ResolvesPeer(here, there)
              /\ Begin(j, "message", u, t, there, "append", "none")
        /\ UNCHANGED <<store, forwards, policy, crashes>>

\* 404, 403 and 409.
PostRefused(j, u, t) ==
    /\ ~(MayAct(u, t) /\ consults[HomeOf[u]][t].status = "open")
    /\ Refuse(j, "message", u, t, "refused")

\* 502, before anything is written: the other side is no AIGRP peer.
PostUnroutable(j, u, t) ==
    LET here == HomeOf[u]
        row  == consults[here][t]
    IN  /\ MayAct(u, t) /\ row.status = "open"
        /\ LET there == HomeOf[OtherParty(u, row)] IN
              there # here /\ ~ResolvesPeer(here, there)
        /\ Refuse(j, "message", u, t, "bad_gateway")

(* The INSERT of an opening message, redacted by the peering's policy, or  *)
(* of a reply, which is not.                                               *)

\* Mutant: the forward comes first.
AppendAfterSend(j) ==
    /\ jobs[j].stage = "append" /\ LoopFree(Home(j))
    /\ Mirror(j)
    /\ UNCHANGED <<store, forwards, policy, crashes>>

AppendMessage(j) ==
    /\ jobs[j].stage = "append" /\ LoopFree(Home(j))
    /\ LET p == IF jobs[j].kind = "request" THEN PolicyBetween(Home(j), jobs[j].other)
                ELSE "mutual_log_required"
       IN  InsertMessage(Home(j), j, jobs[j].thread, jobs[j].user, RedactForPolicy(p))
    /\ Mirror(j)
    /\ UNCHANGED <<consults, events, forwards, policy, crashes>>

(* The synchronous forward.                                                *)

Send(j) ==
    /\ jobs[j].stage = "send" /\ LoopFree(Home(j))
    /\ \E c \in Copies : forwards' = [forwards EXCEPT ![j][c] = "wire"]
    /\ GoTo(j, "wait")
    /\ UNCHANGED <<store, policy, crashes>>

ForwardAnswered(j) ==
    /\ jobs[j].stage = "wait"
    /\ \E c \in Copies :
          \/ forwards[j][c] = "ok" /\ Answer(j, "ok")
          \/ forwards[j][c] \in {"refused", "error"} /\ Answer(j, "bad_gateway")
    /\ UNCHANGED <<store, forwards, policy, crashes>>

\* Mutant: a transport error is logged and forgotten.
TimeoutIsSuccess(j) ==
    /\ jobs[j].stage = "wait"
    /\ Answer(j, "ok")
    /\ UNCHANGED <<store, forwards, policy, crashes>>

\* Mutant: no timeout.
WaitForEver(j) == FALSE /\ UNCHANGED vars

\* The timeout, or any transport error; the forward itself may still arrive.
ForwardFails(j) ==
    /\ jobs[j].stage = "wait"
    /\ Answer(j, "bad_gateway")
    /\ UNCHANGED <<store, forwards, policy, crashes>>

-----------------------------------------------------------------------------
(* The receiving handlers: /forward-request, /forward-message and          *)
(* /x-enterprise-forward-request.                                          *)

There(j) == jobs[j].other

\* The forward carries the thread's endpoints, as its sender stores them.
Endpoints(j) == consults[Home(j)][jobs[j].thread]

\* Another Enterprise's forward must name an existing user.
Acceptable(j) ==
    SameEnterprise(Home(j), There(j)) \/ Endpoints(j).to \in Users

SetForward(j, c, stage) == forwards' = [forwards EXCEPT ![j][c] = stage]

ForwardArrives(j, c) ==
    /\ forwards[j][c] = "wire" /\ LoopFree(There(j))
    /\ SetForward(j, c, IF ~Acceptable(j) THEN "refused"
                        ELSE IF Exists(There(j), jobs[j].thread) THEN "found"
                        ELSE "missing")
    /\ UNCHANGED <<store, jobs, policy, crashes>>

\* The thread's row is created, from the metadata of a reply if need be.
MirrorThread(j, c) ==
    /\ forwards[j][c] = "missing" /\ LoopFree(There(j))
    /\ InsertConsult(There(j), jobs[j].thread, Endpoints(j).from, Endpoints(j).to)
    /\ SetForward(j, c, "found")
    /\ UNCHANGED <<messages, events, jobs, policy, crashes>>

\* Another handler has created it since: IntegrityError, a 500.
MirrorThreadFails(j, c) ==
    /\ forwards[j][c] = "missing" /\ LoopFree(There(j))
    /\ Exists(There(j), jobs[j].thread)
    /\ SetForward(j, c, "error")
    /\ UNCHANGED <<store, jobs, policy, crashes>>

MirrorMessage(j, c) ==
    /\ forwards[j][c] = "found" /\ LoopFree(There(j))
    /\ LET p == IF jobs[j].kind = "request" THEN PolicyBetween(Home(j), There(j))
                ELSE "mutual_log_required"
       IN  IF p = "no_log_consults" THEN UNCHANGED messages
           ELSE InsertMessage(There(j), j, jobs[j].thread, jobs[j].user, RedactForPolicy(p))
    /\ SetForward(j, c, "ok")
    /\ UNCHANGED <<consults, events, jobs, policy, crashes>>

-----------------------------------------------------------------------------
(* POST /consults/{thread_id}/close: this L2's row only.                   *)

CloseConsult(j, u, t) ==
    /\ MayAct(u, t)
    /\ Begin(j, "close", u, t, HomeOf[u], "close", "none")
    /\ UNCHANGED <<store, forwards, policy, crashes>>

CloseRefused(j, u, t) ==
    /\ ~MayAct(u, t)
    /\ Refuse(j, "close", u, t, "refused")

Closed(row) == [row EXCEPT !.status = "closed"]

\* Mutant: the UPDATE has no status guard.
AlwaysCloses(row) == TRUE
NotYetClosed(row) == row.status # "closed"

UpdateClosed(j) ==
    LET row == consults[Home(j)][jobs[j].thread]
    IN  /\ jobs[j].stage = "close" /\ LoopFree(Home(j))
        /\ IF NotYetClosed(row)
           THEN /\ consults' = [consults EXCEPT ![Home(j)][jobs[j].thread] = Closed(@)]
                /\ GoTo(j, "event")
           ELSE Answer(j, "ok") /\ UNCHANGED consults
        /\ UNCHANGED <<messages, events, forwards, policy, crashes>>

\* record_event("consult.closed"), which may fail unseen.
RecordClosed(j) ==
    /\ jobs[j].stage = "event" /\ LoopFree(Home(j))
    /\ events' \in {events, [events EXCEPT ![Home(j)][jobs[j].thread] = @ + 1]}
    /\ Answer(j, "ok")
    /\ UNCHANGED <<consults, messages, forwards, policy, crashes>>

-----------------------------------------------------------------------------
(* The environment: a forward is delivered once more; a server dies and    *)
(* comes back, which drops its handlers.                                   *)

Redeliver(j, c) ==
    /\ forwards[j][c] = "none" /\ \E d \in Copies : forwards[j][d] # "none"
    /\ SetForward(j, c, "wire")
    /\ UNCHANGED <<store, jobs, policy, crashes>>

Crash(l2) ==
    /\ crashes < MaxCrashes /\ crashes' = crashes + 1
    /\ jobs' = [j \in Jobs |->
                  IF jobs[j].stage \notin {"unused", "done"} /\ Home(j) = l2
                  THEN [jobs[j] EXCEPT !.stage = "done", !.answer = "dead"] ELSE jobs[j]]
    /\ forwards' = [j \in Jobs |-> [c \in Copies |->
                  IF forwards[j][c] \in {"found", "missing"} /\ There(j) = l2
                  THEN "error" ELSE forwards[j][c]]]
    /\ UNCHANGED <<store, policy>>

-----------------------------------------------------------------------------
Init ==
    /\ consults = [l2 \in L2s |-> [t \in Jobs |-> NoConsult]]
    /\ messages = [l2 \in L2s |-> [m \in Jobs |-> NoMessage]]
    /\ events   = [l2 \in L2s |-> [t \in Jobs |-> 0]]
    /\ jobs     = [j \in Jobs |-> NoJob]
    /\ forwards = [j \in Jobs |-> [c \in Copies |-> "none"]]
    /\ policy \in [{pair \in EnterprisePairs : Cardinality(pair) = 2} -> Policies]
    /\ crashes  = 0

Asked(j) ==
    \/ \E u \in Users, to \in Personas :
          RequestConsult(j, u, to) \/ RequestRefused(j, u, to)
    \/ \E u \in Users, t \in Jobs :
          \/ PostMessage(j, u, t) \/ PostRefused(j, u, t) \/ PostUnroutable(j, u, t)
          \/ CloseConsult(j, u, t) \/ CloseRefused(j, u, t)

Handled(j) ==
    \/ AppendMessage(j) \/ Send(j) \/ ForwardAnswered(j) \/ ForwardFails(j)
    \/ UpdateClosed(j) \/ RecordClosed(j)

Received(j, c) ==
    ForwardArrives(j, c) \/ MirrorThread(j, c) \/ MirrorThreadFails(j, c)
        \/ MirrorMessage(j, c)

Next ==
    \/ \E j \in Jobs : Asked(j) \/ Handled(j)
    \/ \E j \in Jobs, c \in Copies : Received(j, c) \/ Redeliver(j, c)
    \/ \E l2 \in L2s : Crash(l2)

\* The event loop serves its handlers in turn, and a forward times out; that
\* a forward arrives is not assumed.
Fairness == \A j \in Jobs : SF_vars(Handled(j))

Spec == Init /\ [][Next]_vars /\ Fairness
-----------------------------------------------------------------------------
(* Properties.                                                             *)

\* Every variable has its type.
TypeOK ==
    /\ consults \in [L2s -> [Jobs -> Consult \cup {NoConsult}]]
    /\ messages \in [L2s -> [Jobs -> Message \cup {NoMessage}]]
    /\ events \in [L2s -> [Jobs -> Nat]]
    /\ jobs \in [Jobs -> Job \cup {NoJob}]
    /\ forwards \in [Jobs -> [Copies -> ForwardStages]]
    /\ crashes \in 0..MaxCrashes

\* An L2 stores a message only on a thread it has, from a participant, and a
\* mirrored one only if its author's own L2 has it too, on the same thread with
\* the same two ends: whatever is lost, repeated or timed out, and wherever a
\* server dies, no record exists of a thing the asker's L2 never recorded.
NoPhantomMessage ==
    \A l2 \in L2s, m \in Jobs :
        LET row == messages[l2][m] IN
        row # NoMessage =>
            LET thread == consults[l2][row.thread]
                origin == HomeOf[row.author]
            IN  /\ Exists(l2, row.thread)
                /\ row.author \in {thread.from, thread.to}
                /\ l2 \in {HomeOf[thread.from], HomeOf[thread.to]}
                /\ messages[origin][m] # NoMessage
                /\ messages[origin][m].thread = row.thread
                /\ Exists(origin, row.thread)
                /\ consults[origin][row.thread].from = thread.from
                /\ consults[origin][row.thread].to = thread.to

\* Who is told that a request or a reply succeeded can rely on it: the other
\* side's L2 has the thread and, unless the policy keeps no messages, the
\* message, through crashes of either server and handlers that race there.
OkMeansMirrored ==
    \A j \in Jobs :
        jobs[j] # NoJob /\ jobs[j].answer = "ok" /\ jobs[j].kind # "close" =>
            /\ Exists(jobs[j].other, jobs[j].thread)
            /\ \/ messages[jobs[j].other][j] # NoMessage
               \/ PolicyBetween(Home(j), jobs[j].other) = "no_log_consults"

\* Both ends honour the peering's logging policy for every message of a thread
\* between two Enterprises, replies included.
PolicyRespected ==
    \A l2 \in L2s, m \in Jobs :
        LET row == messages[l2][m] IN
        row # NoMessage =>
            LET thread == consults[l2][row.thread]
                p      == PolicyBetween(HomeOf[thread.from], HomeOf[thread.to])
            IN  p # "no_log_consults" /\ row.body = RedactForPolicy(p)

\* However many close a thread at once, an L2's chain gets at most one
\* consult.closed event for it, and only when the thread is closed there.
OneClosedEvent ==
    \A l2 \in L2s, t \in Jobs :
        events[l2][t] > 0 => events[l2][t] = 1 /\ consults[l2][t].status = "closed"

\* What requests were told to have succeeded, as the other side would see it.
Confirmed ==
    {[message |-> j, thread |-> jobs[j].thread, at |-> jobs[j].other,
      kept |-> PolicyBetween(Home(j), jobs[j].other) # "no_log_consults"] :
        j \in {i \in Jobs : jobs[i] # NoJob /\ jobs[i].answer = "ok"
                                /\ jobs[i].kind # "close"}}

\* The L2s together keep one record: no step of a handler or forward, lost, late or
\* repeated, and no crash, takes a thread or a message away, rewrites or reopens
\* one, or stores at an L2 what is no exact copy of what the asker's L2 recorded.
Record == INSTANCE ConsultRecord
             WITH threads <- consults, said <- messages, closings <- events,
                  confirmed <- Confirmed, Ids <- Jobs,
                  NoThread <- NoConsult, NoEntry <- NoMessage

ImplementsRecord == Record!RecordSpec

\* Every request is answered or dies with its server, even when two servers
\* forward to each other and neither can serve the other's forward.
EveryRequestAnswered ==
    \A j \in Jobs : jobs[j] # NoJob ~> jobs[j].stage = "done"

=============================================================================
