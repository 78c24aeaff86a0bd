------------------------------ MODULE Crosstalk ------------------------------
(***************************************************************************)
(* Crosstalk threads at an L2 and the clients that write to them.  A       *)
(* client with an outbox (l2-sync.js) has already written an operation in  *)
(* its own database when it posts it; a post that fails is queued, and     *)
(* drain loops, which may overlap, post the queued rows again.  Another    *)
(* client just posts.  The thread and message ids come from the client and *)
(* make a repeated post harmless.                                          *)
(*                                                                         *)
(* A handler of the L2 runs from one store call to the next, with those of *)
(* all other handlers in between, and runs on when its client has given    *)
(* up.  All users belong to one tenant, and a thread has fewer messages    *)
(* than the idempotency check lists (200).                                 *)
(***************************************************************************)
EXTENDS Naturals, Sequences, FiniteSets

CONSTANTS
    Users,
    Recipients,     \* whom messages are sent to: users, or names no user has
    Admins,
    Queueing,       \* the users whose client has an outbox
    Threads,        \* thread ids
    Ops,            \* bound: the operations ever made, each a message id; taken in order
    Drains,         \* bound: the drains that run at once
    DrainedFor,     \* [Drains -> Queueing]
    Calls,          \* bound: the HTTP calls under way at once; a new one takes the lowest
    MaxAttempts,    \* MAX_ATTEMPTS
    PageSize,       \* rows a drain takes (50)
    MaxCrashes      \* bound on crashes of the L2 and of clients

ASSUME ConstantsAssumption ==
    /\ Admins \subseteq Users /\ Queueing \subseteq Users
    /\ Ops \subseteq Nat /\ Calls \subseteq Nat
    /\ IsFiniteSet(Drains) /\ DrainedFor \in [Drains -> Queueing]
    /\ MaxAttempts \in Nat \ {0} /\ PageSize \in Nat \ {0} /\ MaxCrashes \in Nat

\* The participants are the one who opened the thread and the recipient.
NoThread == [status |-> "none"]
Thread   == [status : {"open", "closed"}, participants : Users \X Users]

Nobody    == "nobody"
NoMessage == [thread |-> "none"]
Message   == [thread : Threads, from : Users, to : Users \cup {Nobody}, read : BOOLEAN]

\* An operation as its client knows it: its first post is under way; it is in
\* the outbox; it has been answered with success or, without an outbox, with an
\* error; or its client died during the first post.
NoOp == [stage |-> "unused"]
Op   == [stage : {"first", "queued", "done", "failed", "dead"},
         kind : {"send", "reply", "close"}, user : Users, thread : Threads,
         to : Users \cup Recipients]

\* An HTTP call: the store call its handler makes next (none yet on the wire),
\* or its answer.  Its
\* caller is the first post of the operation, a drain, or gone.
NoCall   == [at |-> "unused"]
First    == "first"
Gone     == "gone"
Handling == {"list", "look", "create", "append", "update"}
Call     == [op : Ops, at : Handling \cup {"wire", "ok", "error"},
             caller : Drains \cup {First, Gone}]

VARIABLES
    threads,    \* [Threads -> a row of crosstalk_threads or NoThread]
    closer,     \* [Threads -> SUBSET Ops], the close that set closed_by, if any
    messages,   \* [Ops -> a row of crosstalk_messages or NoMessage]
    ops,        \* [Ops -> Op or NoOp]
    attempts,   \* [Ops -> attempts of the row of pending_l2_sync]
    drains,     \* [Drains -> the rows it has not posted yet]
    calls,      \* [Calls -> Call or NoCall]
    picked,     \* [Users -> what an inbox request of the user has selected]
    crashes

store  == <<threads, closer, messages>>
client == <<ops, attempts, drains>>
vars   == <<threads, closer, messages, ops, attempts, drains, calls, picked,
            crashes>>

\* A thread may have been opened before.
Init ==
    /\ threads \in [Threads -> [status : {"open"}, participants : Users \X (Users \cap Recipients)] \cup {NoThread}]
    /\ closer = [t \in Threads |-> {}]
    /\ messages = [o \in Ops |-> NoMessage]
    /\ ops = [o \in Ops |-> NoOp]
    /\ attempts = [o \in Ops |-> 0]
    /\ drains = [d \in Drains |-> {}]
    /\ calls = [c \in Calls |-> NoCall]
    /\ picked = [u \in Users |-> {}]
    /\ crashes = 0

-----------------------------------------------------------------------------
(* The client.                                                             *)

Exists(t) == threads[t] # NoThread
Queued(o) == ops[o].stage = "queued"
Busy(d)   == \E c \in Calls : calls[c] # NoCall /\ calls[c].caller = d

Post(c, o, caller) ==
    /\ calls[c] = NoCall /\ \A b \in Calls : b < c => calls[b] # NoCall
    /\ calls' = [calls EXCEPT ![c] = [op |-> o, at |-> "wire", caller |-> caller]]

Close(c) == calls' = [calls EXCEPT ![c] = NoCall]

\* After the local write: syncMessageToL2, syncReplyToL2, syncCloseToL2.  One
\* replies to and closes threads that somebody has opened.
Perform(o, kind, u, t, to, c) ==
    /\ ops[o] = NoOp /\ \A p \in Ops : p < o => ops[p] # NoOp
    /\ kind \in {"reply", "close"} =>
          Exists(t) \/ \E p \in Ops : ops[p] # NoOp /\ ops[p].kind = "send" /\ ops[p].thread = t
    /\ ops' = [ops EXCEPT ![o] =
                  [stage |-> "first", kind |-> kind, user |-> u, thread |-> t, to |-> to]]
    /\ Post(c, o, First)
    /\ UNCHANGED <<store, attempts, drains, picked, crashes>>

\* Mutant: most attempts first.
WornFirst(p, o) == attempts[p] >= attempts[o]
\* ORDER BY attempts ASC; ties, which created_at breaks, are left open.
NoWorse(p, o) == attempts[p] <= attempts[o]

\* listPendingL2Sync.
IsPage(S, rows) ==
    /\ Cardinality(S) <= PageSize
    /\ Cardinality(S) = PageSize \/ S = rows
    /\ \A p \in S, o \in rows \ S : NoWorse(p, o)

\* A drain skips the rows that have used up their attempts.
NotWorn(o) == attempts[o] < MaxAttempts

StartDrain(d) ==
    LET rows == {o \in Ops : Queued(o) /\ ops[o].user = DrainedFor[d]}
    IN  /\ drains[d] = {} /\ ~Busy(d)
        /\ \E S \in SUBSET rows :
              /\ IsPage(S, rows)
              /\ \E o \in S : NotWorn(o)
              /\ drains' = [drains EXCEPT ![d] = {o \in S : NotWorn(o)}]
        /\ UNCHANGED <<store, ops, attempts, calls, picked, crashes>>

\* It posts its rows one after the other, whatever has become of them since.
PostAgain(d, o, c) ==
    /\ o \in drains[d] /\ ~Busy(d)
    /\ drains' = [drains EXCEPT ![d] = @ \ {o}]
    /\ Post(c, o, d)
    /\ UNCHANGED <<store, ops, attempts, picked, crashes>>

SetStage(o, stage) == ops' = [ops EXCEPT ![o].stage = stage]

\* A 2xx answer: nothing to queue, or deletePendingL2Sync.
Succeeds(c) ==
    /\ calls[c].at = "ok"
    /\ SetStage(calls[c].op, "done")
    /\ Close(c)
    /\ UNCHANGED <<store, attempts, drains, picked, crashes>>

\* Mutant: the row goes whatever the answer.
Forget(c) == SetStage(calls[c].op, "done") /\ UNCHANGED attempts

\* enqueuePendingL2Sync after a first post, bumpPendingL2SyncAttempt after a
\* drain's; the row may have gone since, and then nothing is updated.
Retry(c) ==
    LET o == calls[c].op IN
    \/ /\ calls[c].caller = First /\ ops[o].user \in Queueing
       /\ SetStage(o, "queued")
       /\ attempts' = [attempts EXCEPT ![o] = 1]
    \/ /\ calls[c].caller = First /\ ops[o].user \notin Queueing
       /\ SetStage(o, "failed")
       /\ UNCHANGED attempts
    \/ /\ calls[c].caller \in Drains
       /\ attempts' = IF Queued(o) THEN [attempts EXCEPT ![o] = @ + 1] ELSE attempts
       /\ UNCHANGED ops

\* An error, or no answer in time: then the request or the answer is lost, or
\* the L2 handles the request all the same.
Fails(c) ==
    /\ calls[c] # NoCall /\ calls[c].caller # Gone
    /\ Retry(c)
    /\ \/ calls[c].at \notin Handling /\ Close(c)
       \/ /\ calls[c].at \in Handling \cup {"wire"}
          /\ calls' = [calls EXCEPT ![c].caller = Gone]
    /\ UNCHANGED <<store, drains, picked, crashes>>

-----------------------------------------------------------------------------
(* The handlers of the L2: send_message (list, look, create, append),      *)
(* reply_on_thread (list, append) and close_thread (update), which all read*)
(* the thread when they arrive.                                            *)

Request(c) == ops[calls[c].op]
Row(c)     == threads[Request(c).thread]

At(c, place, kinds) ==
    calls[c] # NoCall /\ calls[c].at = place /\ Request(c).kind \in kinds

GoTo(c, place) ==
    IF calls[c].caller = Gone /\ place \notin Handling
    THEN Close(c)
    ELSE calls' = [calls EXCEPT ![c].at = place]

Participants(r) == {r.participants[1], r.participants[2]}
MayWrite(u, r) == u \in Participants(r) \cup Admins

\* The recipient of a reply: the first participant who is not its author.
Other(u, r) ==
    LET p == r.participants
    IN  IF p[1] # u THEN p[1] ELSE IF p[2] # u THEN p[2] ELSE Nobody

\* Is the message of this id there already?
SendArrives(c) ==
    /\ At(c, "wire", {"send"})
    /\ GoTo(c, IF Request(c).to \notin Users THEN "error"
               ELSE IF Row(c) = NoThread THEN "look" ELSE "list")
    /\ UNCHANGED <<store, client, picked, crashes>>

ReplyArrives(c) ==
    /\ At(c, "wire", {"reply"})
    /\ GoTo(c, IF Row(c).status = "open" /\ MayWrite(Request(c).user, Row(c))
               THEN "list" ELSE "error")
    /\ UNCHANGED <<store, client, picked, crashes>>

\* A closed thread is left to the update to refuse.
CloseArrives(c) ==
    /\ At(c, "wire", {"close"})
    /\ GoTo(c, IF Row(c) # NoThread /\ MayWrite(Request(c).user, Row(c))
               THEN "update" ELSE "error")
    /\ UNCHANGED <<store, client, picked, crashes>>

ListMessages(c) ==
    /\ At(c, "list", {"send", "reply"})
    /\ GoTo(c, IF messages[calls[c].op] # NoMessage THEN "ok"
               ELSE IF Request(c).kind = "send" THEN "look" ELSE "append")
    /\ UNCHANGED <<store, client, picked, crashes>>

LookForThread(c) ==
    /\ At(c, "look", {"send"})
    /\ GoTo(c, IF Row(c) = NoThread THEN "create"
               ELSE IF Row(c).status = "open" /\ Request(c).user \in Participants(Row(c))
               THEN "append" ELSE "error")
    /\ UNCHANGED <<store, client, picked, crashes>>

\* Mutant: INSERT OR IGNORE INTO crosstalk_threads.
ThreadOrIgnore(c) == TRUE
\* The thread id is the primary key: the second insert fails, with a 500.
IdFree(c) == Row(c) = NoThread

CreateThread(c) ==
    /\ At(c, "create", {"send"})
    /\ threads' = IF Row(c) # NoThread THEN threads
                  ELSE [threads EXCEPT ![Request(c).thread] =
                          [status |-> "open",
                           participants |-> <<Request(c).user, Request(c).to>>]]
    /\ GoTo(c, IF IdFree(c) THEN "append" ELSE "error")
    /\ UNCHANGED <<closer, messages, client, picked, crashes>>

\* The message id is the primary key.
AppendMessage(c) ==
    LET o == calls[c].op
        to == IF Request(c).kind = "send" THEN Request(c).to
              ELSE Other(Request(c).user, Row(c))
    IN  /\ At(c, "append", {"send", "reply"})
        /\ messages' = IF messages[o] # NoMessage THEN messages
                       ELSE [messages EXCEPT ![o] =
                               [thread |-> Request(c).thread, from |-> Request(c).user,
                                to |-> to, read |-> FALSE]]
        /\ GoTo(c, IF messages[o] = NoMessage THEN "ok" ELSE "error")
        /\ UNCHANGED <<threads, closer, client, picked, crashes>>

\* Mutant: no "AND status = 'open'".
WhateverStatus(c) == TRUE
StillOpen(c) == Row(c).status = "open"

UpdateClosed(c) ==
    LET t == Request(c).thread
    IN  /\ At(c, "update", {"close"})
        /\ IF StillOpen(c)
           THEN /\ threads' = [threads EXCEPT ![t].status = "closed"]
                /\ closer' = [closer EXCEPT ![t] = {calls[c].op}]
                /\ GoTo(c, "ok")
           ELSE UNCHANGED <<threads, closer>> /\ GoTo(c, "error")
        /\ UNCHANGED <<messages, client, picked, crashes>>

Handle(c) ==
    \/ SendArrives(c) \/ ReplyArrives(c) \/ CloseArrives(c)
    \/ ListMessages(c) \/ LookForThread(c)
    \/ CreateThread(c) \/ AppendMessage(c) \/ UpdateClosed(c)

Unread(u) == {o \in Ops : messages[o] # NoMessage /\ messages[o].to = u /\ ~messages[o].read}

\* GET /inbox with mark_read: the SELECT (fewer messages are unread than it
\* takes), then the UPDATE.  SQLite lets other connections write in between.
InboxSelect(u) ==
    /\ picked[u] = {} /\ Unread(u) # {}
    /\ picked' = [picked EXCEPT ![u] = Unread(u)]
    /\ UNCHANGED <<store, client, calls, crashes>>

\* Mutant: WHERE to_username = :username AND read_at IS NULL.
MarkByRecipient(u) == Unread(u)
\* WHERE id IN (...)
Marked(u) == picked[u]

InboxMark(u) ==
    /\ picked[u] # {}
    /\ messages' = [o \in Ops |-> IF o \in Marked(u)
                                  THEN [messages[o] EXCEPT !.read = TRUE] ELSE messages[o]]
    /\ picked' = [picked EXCEPT ![u] = {}]
    /\ UNCHANGED <<threads, closer, client, calls, crashes>>

-----------------------------------------------------------------------------
(* Crashes: every database survives them.                                  *)

CrashOnce == crashes < MaxCrashes /\ crashes' = crashes + 1

CrashServer ==
    /\ CrashOnce
    /\ calls' = [c \in Calls |->
                    IF calls[c].at \notin Handling THEN calls[c]
                    ELSE IF calls[c].caller = Gone THEN NoCall
                    ELSE [calls[c] EXCEPT !.at = "error"]]
    /\ picked' = [u \in Users |-> {}]
    /\ UNCHANGED <<store, client>>

\* Its process held what it was posting for the first time, and its drains.
CrashClient(u) ==
    LET its(c) == calls[c] # NoCall /\ Request(c).user = u
    IN  /\ CrashOnce
        /\ ops' = [o \in Ops |-> IF ops[o].stage = "first" /\ ops[o].user = u
                                THEN [ops[o] EXCEPT !.stage = "dead"] ELSE ops[o]]
        /\ drains' = [d \in Drains |-> IF DrainedFor[d] = u THEN {} ELSE drains[d]]
        /\ calls' = [c \in Calls |->
                        IF ~its(c) THEN calls[c]
                        ELSE IF calls[c].at \in {"ok", "error"} THEN NoCall
                        ELSE [calls[c] EXCEPT !.caller = Gone]]
        /\ UNCHANGED <<store, attempts, picked>>

Next ==
    \/ \E o \in Ops, kind \in {"send", "reply", "close"}, u \in Users, t \in Threads, c \in Calls :
          \E to \in IF kind = "send" THEN Recipients ELSE {u} : Perform(o, kind, u, t, to, c)
    \/ \E d \in Drains : StartDrain(d) \/ \E o \in Ops, c \in Calls : PostAgain(d, o, c)
    \/ \E c \in Calls : Succeeds(c) \/ Fails(c) \/ Handle(c)
    \/ \E u \in Users : InboxSelect(u) \/ InboxMark(u)
    \/ CrashServer \/ \E u \in Queueing : CrashClient(u)

\* Handlers run on, calls are answered or time out, and the timer starts drains:
\* as long as one of them can, one of them does.
Progress ==
    \/ \E c \in Calls : Handle(c) \/ Succeeds(c) \/ Fails(c)
    \/ \E d \in Drains : StartDrain(d) \/ \E o \in Ops, c \in Calls : PostAgain(d, o, c)

Fairness == WF_vars(Progress)

Spec == Init /\ [][Next]_vars /\ Fairness

-----------------------------------------------------------------------------

\* What a client has crossed off, because it was answered with success, the L2
\* has: the message as it was made, or the closing of the thread by this close,
\* whatever was lost, repeated or handled after a timeout.
NothingForgotten ==
    \A o \in Ops : ops[o].stage = "done" =>
        IF ops[o].kind = "close"
        THEN closer[ops[o].thread] = {o}
        ELSE /\ messages[o] # NoMessage
             /\ messages[o].thread = ops[o].thread /\ messages[o].from = ops[o].user

\* Every author takes part in the thread or, of a reply, is an admin, also when
\* two users open a thread of the same id at once.
AuthorTakesPart ==
    \A o \in Ops : messages[o] # NoMessage =>
        LET u == messages[o].from
            r == threads[messages[o].thread]
        IN  /\ r # NoThread
            /\ u \in Participants(r) \/ (ops[o].kind = "reply" /\ u \in Admins)

\* What a step marks read, the recipient's inbox request has selected and is
\* about to return, also when a message arrives between its SELECT and its UPDATE.
OnlyShownIsRead ==
    [][\A o \in Ops : messages[o] # NoMessage /\ ~messages[o].read /\ messages'[o].read =>
          o \in picked[messages[o].to]]_vars

Settled(o) == ops[o].stage = "done" \/ attempts[o] >= MaxAttempts

\* Whatever is queued is answered with success in the end or has used up its
\* attempts, also next to rows that have, on a page of one row: of the bounded
\* operations, from some time on, none is left in the queue with attempts to go.
QueueDrains == <>[](\A o \in Ops : Queued(o) => Settled(o))
=============================================================================
