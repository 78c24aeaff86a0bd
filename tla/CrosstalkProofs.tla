--------------------------- MODULE CrosstalkProofs ---------------------------
(***************************************************************************)
(* Theorems about Crosstalk, for any users, threads, operations, drains    *)
(* and calls, and any losses, timeouts and crashes.                        *)
(*                                                                         *)
(* The inductive invariant says of each call what its handler has found    *)
(* out so far.  It holds on while other handlers run because nothing the   *)
(* handlers find out is ever taken back: a thread keeps its participants,  *)
(* a message its place, a closed thread its closer, and an operation the   *)
(* request it makes.                                                       *)
(***************************************************************************)
EXTENDS Crosstalk, TLAPS

TypeOK ==
    /\ threads \in [Threads -> Thread \cup {NoThread}]
    /\ closer \in [Threads -> SUBSET Ops]
    /\ messages \in [Ops -> Message \cup {NoMessage}]
    /\ ops \in [Ops -> Op \cup {NoOp}]
    /\ drains \in [Drains -> SUBSET Ops]
    /\ calls \in [Calls -> Call \cup {NoCall}]
    /\ picked \in [Users -> SUBSET Ops]

\* What the L2 has done of an operation it answers with success.
Done(o) ==
    IF ops[o].kind = "close" THEN closer[ops[o].thread] = {o} ELSE messages[o] # NoMessage

\* What holds of the thread a handler is about to write to.
MayAppend(o) ==
    LET r == threads[ops[o].thread] IN
    /\ ops[o].kind \in {"send", "reply"}
    /\ r # NoThread
    /\ ops[o].kind = "send"  => ops[o].user \in Participants(r) /\ ops[o].to \in Users
    /\ ops[o].kind = "reply" => MayWrite(ops[o].user, r)

\* What the handler of a call knows.
Knows(q) ==
    /\ ops[q.op] # NoOp
    /\ q.at \in {"list", "look", "create"} /\ ops[q.op].kind = "send" => ops[q.op].to \in Users
    /\ q.at = "list" /\ ops[q.op].kind = "reply" => MayAppend(q.op)
    /\ q.at = "append" => MayAppend(q.op)
    /\ q.at = "ok" => Done(q.op)

\* A message is the one its operation made, and its author may have written it.
Written(o) ==
    /\ ops[o] # NoOp /\ ops[o].kind \in {"send", "reply"}
    /\ messages[o].thread = ops[o].thread /\ messages[o].from = ops[o].user
    /\ threads[ops[o].thread] # NoThread
    /\ \/ ops[o].user \in Participants(threads[ops[o].thread])
       \/ ops[o].kind = "reply" /\ ops[o].user \in Admins

CallsKnow     == \A c \in Calls : calls[c] # NoCall => Knows(calls[c])
DrainsHoldOps == \A d \in Drains : \A o \in drains[d] : ops[o] # NoOp
DoneIsDone    == \A o \in Ops : ops[o].stage = "done" => Done(o)
AllWritten    == \A o \in Ops : messages[o] # NoMessage => Written(o)
ClosedByOne   == \A t \in Threads : closer[t] # {} => threads[t].status = "closed"
PickedOwn     == \A u \in Users : \A o \in picked[u] : messages[o] # NoMessage /\ messages[o].to = u

CrosstalkInv ==
    TypeOK /\ CallsKnow /\ DrainsHoldOps /\ DoneIsDone /\ AllWritten /\ ClosedByOne /\ PickedOwn

-----------------------------------------------------------------------------
(* Nothing a handler finds out is taken back.                              *)

OpsKept ==
    \A o \in Ops : ops[o] # NoOp =>
        /\ ops'[o] # NoOp
        /\ ops'[o].kind = ops[o].kind /\ ops'[o].user = ops[o].user
        /\ ops'[o].thread = ops[o].thread /\ ops'[o].to = ops[o].to

StoreKept ==
    /\ \A t \in Threads : threads[t] # NoThread =>
          threads'[t] # NoThread /\ threads'[t].participants = threads[t].participants
    /\ \A t \in Threads : closer[t] # {} => closer'[t] = closer[t]
    /\ \A o \in Ops : messages[o] # NoMessage =>
          /\ messages'[o] # NoMessage
          /\ messages'[o].thread = messages[o].thread /\ messages'[o].from = messages[o].from
          /\ messages'[o].to = messages[o].to

\* What OnlyShownIsRead says of a step.
OnlyShown ==
    \A o \in Ops : messages[o] # NoMessage /\ ~messages[o].read /\ messages'[o].read =>
        o \in picked[messages[o].to]

LEMMA RequestTyped ==
    ASSUME TypeOK, NEW o \in Ops, ops[o] # NoOp
    PROVE  /\ ops[o].thread \in Threads /\ ops[o].user \in Users
           /\ ops[o].kind \in {"send", "reply", "close"}
  BY DEF TypeOK, Op

LEMMA DoneKept ==
    ASSUME TypeOK, OpsKept, StoreKept, NEW o \in Ops, ops[o] # NoOp, Done(o)
    PROVE  Done(o)'
  <1>1. ops'[o].kind = ops[o].kind /\ ops'[o].thread = ops[o].thread /\ ops[o].thread \in Threads
    BY RequestTyped DEF OpsKept
  <1>2. CASE ops[o].kind = "close"
    BY <1>1, <1>2 DEF Done, StoreKept
  <1>3. CASE ops[o].kind # "close"
    BY <1>1, <1>3 DEF Done, StoreKept
  <1> QED BY <1>2, <1>3

LEMMA MayAppendKept ==
    ASSUME TypeOK, OpsKept, StoreKept, NEW o \in Ops, ops[o] # NoOp, MayAppend(o)
    PROVE  MayAppend(o)'
  <1>1. /\ ops'[o].kind = ops[o].kind /\ ops'[o].thread = ops[o].thread /\ ops[o].thread \in Threads
        /\ ops'[o].user = ops[o].user /\ ops'[o].to = ops[o].to
    BY RequestTyped DEF OpsKept
  <1>2. /\ threads'[ops[o].thread] # NoThread
        /\ threads'[ops[o].thread].participants = threads[ops[o].thread].participants
    BY <1>1 DEF MayAppend, StoreKept
  <1> QED BY <1>1, <1>2 DEF MayAppend, MayWrite, Participants

LEMMA WrittenKept ==
    ASSUME TypeOK, OpsKept, StoreKept, NEW o \in Ops, messages[o] # NoMessage, Written(o)
    PROVE  Written(o)'
  <1>1. /\ ops[o] # NoOp /\ ops'[o] # NoOp
        /\ ops'[o].kind = ops[o].kind /\ ops'[o].thread = ops[o].thread /\ ops[o].thread \in Threads
        /\ ops'[o].user = ops[o].user
    BY RequestTyped DEF OpsKept, Written
  <1>2. /\ threads'[ops[o].thread] # NoThread
        /\ threads'[ops[o].thread].participants = threads[ops[o].thread].participants
    BY <1>1 DEF Written, StoreKept
  <1>3. messages'[o].thread = messages[o].thread /\ messages'[o].from = messages[o].from
    BY DEF StoreKept
  <1> QED BY <1>1, <1>2, <1>3 DEF Written, Participants

LEMMA KnowsKept ==
    ASSUME TypeOK, OpsKept, StoreKept, NEW q \in Call, Knows(q)
    PROVE  Knows(q)'
  <1>1. q.op \in Ops /\ ops[q.op] # NoOp
    BY DEF Knows, Call
  <1>2. /\ ops'[q.op] # NoOp /\ ops'[q.op].kind = ops[q.op].kind
        /\ ops'[q.op].to = ops[q.op].to
    BY <1>1 DEF OpsKept
  <1>3. MayAppend(q.op) => MayAppend(q.op)'
    BY <1>1, MayAppendKept
  <1>4. Done(q.op) => Done(q.op)'
    BY <1>1, DoneKept
  <1> QED BY <1>2, <1>3, <1>4 DEF Knows

-----------------------------------------------------------------------------
(* A step of a client, and one of a handler.                               *)

\* The calls that are new or have moved know what they must.
CallsMove ==
    \A c \in Calls : calls'[c] # NoCall =>
        \E q \in Call : Knows(q)' /\ calls'[c] = q

\* The L2's tables stay, and operations move on.
LEMMA ClientStep ==
    ASSUME CrosstalkInv, TypeOK', OpsKept, UNCHANGED <<store, picked>>, CallsMove,
           \A d \in Drains : \A o \in drains'[d] : ops[o] # NoOp,
           \A o \in Ops : ops'[o].stage = "done" => ops[o] # NoOp /\ Done(o)
    PROVE  CrosstalkInv' /\ OnlyShown
  <1>1. StoreKept /\ threads' = threads /\ closer' = closer /\ messages' = messages /\ picked' = picked
    BY DEF StoreKept, store
  <1>2. CallsKnow'
    BY DEF CallsMove, CallsKnow
  <1>3. DrainsHoldOps'
    <2> SUFFICES ASSUME NEW d \in Drains, NEW o \in drains'[d] PROVE ops'[o] # NoOp
      BY DEF DrainsHoldOps
    <2>1. o \in Ops
      BY DEF TypeOK
    <2> QED BY <2>1 DEF OpsKept
  <1>4. DoneIsDone'
    BY <1>1, DoneKept DEF DoneIsDone, CrosstalkInv
  <1>5. AllWritten'
    BY <1>1, WrittenKept DEF AllWritten, CrosstalkInv
  <1>6. ClosedByOne' /\ PickedOwn' /\ OnlyShown
    BY <1>1 DEF CrosstalkInv, ClosedByOne, PickedOwn, OnlyShown
  <1> QED BY <1>2, <1>3, <1>4, <1>5, <1>6 DEF CrosstalkInv

\* The clients stay as they are.
LEMMA ServerStep ==
    ASSUME CrosstalkInv, TypeOK', StoreKept, UNCHANGED <<ops, drains>>, CallsMove,
           AllWritten', ClosedByOne', PickedOwn'
    PROVE  CrosstalkInv'
  <1>1. OpsKept /\ ops' = ops /\ drains' = drains
    BY DEF OpsKept
  <1>2. CallsKnow'
    BY DEF CallsMove, CallsKnow
  <1>3. DrainsHoldOps'
    BY <1>1 DEF DrainsHoldOps, CrosstalkInv
  <1>4. DoneIsDone'
    <2> SUFFICES ASSUME NEW o \in Ops, ops[o].stage = "done" PROVE Done(o)'
      BY <1>1 DEF DoneIsDone
    <2>1. ops[o] # NoOp
      BY DEF NoOp
    <2> QED BY <1>1, <2>1, DoneKept DEF DoneIsDone, CrosstalkInv
  <1> QED BY <1>2, <1>3, <1>4 DEF CrosstalkInv

\* Calls that did not move know what they knew.
LEMMA CallsStay ==
    ASSUME CrosstalkInv, OpsKept, StoreKept, NEW b \in Calls, calls'[b] = calls[b], calls'[b] # NoCall
    PROVE  \E q \in Call : Knows(q)' /\ calls'[b] = q
  <1>1. calls[b] \in Call /\ Knows(calls[b])
    BY DEF CrosstalkInv, TypeOK, CallsKnow
  <1>2. PICK q \in Call : q = calls[b]
    BY <1>1
  <1>3. Knows(q)
    BY <1>1, <1>2
  <1>4. Knows(q)'
    BY <1>3, KnowsKept DEF CrosstalkInv
  <1> QED BY <1>2, <1>4

LEMMA CallFields ==
    ASSUME NEW q \in Call, NEW place \in Handling \cup {"wire", "ok", "error"}
    PROVE  /\ [q EXCEPT !.at = place] = [op |-> q.op, at |-> place, caller |-> q.caller]
           /\ [q EXCEPT !.caller = Gone] = [op |-> q.op, at |-> q.at, caller |-> Gone]
           /\ [op |-> q.op, at |-> place, caller |-> q.caller] \in Call
           /\ [op |-> q.op, at |-> q.at, caller |-> Gone] \in Call
  BY DEF Call

LEMMA KnowsUpTo ==
    ASSUME NEW o, NEW place, NEW x, NEW y, Knows([op |-> o, at |-> place, caller |-> x])
    PROVE  Knows([op |-> o, at |-> place, caller |-> y])
  BY DEF Knows

\* A handler goes on to its next store call, or answers.
LEMMA GoToStep ==
    ASSUME CrosstalkInv, OpsKept, StoreKept, NEW c \in Calls, calls[c] # NoCall,
           NEW o \in Ops, o = calls[c].op,
           NEW place \in Handling \cup {"ok", "error"}, GoTo(c, place),
           place = "append" => MayAppend(o)',
           place = "ok" => Done(o)',
           place \in {"list", "look", "create"} /\ ops[o].kind = "send" => ops[o].to \in Users,
           place = "list" /\ ops[o].kind = "reply" => MayAppend(o)'
    PROVE  CallsMove /\ calls' \in [Calls -> Call \cup {NoCall}]
  <1>1. /\ calls \in [Calls -> Call \cup {NoCall}] /\ calls[c] \in Call /\ Knows(calls[c])
        /\ \A b \in Calls \ {c} : calls'[b] = calls[b]
    BY DEF CrosstalkInv, TypeOK, CallsKnow, GoTo, Close
  <1>2. PICK q \in Call : q = calls[c] /\ q.op = o
    BY <1>1
  <1> DEFINE m == [op |-> q.op, at |-> place, caller |-> q.caller]
  <1>3. m \in Call /\ [q EXCEPT !.at = place] = m /\ m.op = q.op /\ m.at = place
    BY CallFields
  <1> HIDE DEF m
  <1>4. calls' = [calls EXCEPT ![c] = NoCall] \/ calls' = [calls EXCEPT ![c] = m]
    BY <1>2, <1>3 DEF GoTo, Close
  <1>5. Knows(m)'
    <2>1. q.op \in Ops /\ ops[q.op] # NoOp
      BY <1>1, <1>2 DEF Call, Knows
    <2>2. /\ ops'[q.op] # NoOp /\ ops'[q.op].kind = ops[q.op].kind
          /\ ops'[q.op].to = ops[q.op].to
      BY <2>1 DEF OpsKept
    <2>3. /\ place = "append" => MayAppend(q.op)'
          /\ place = "ok" => Done(q.op)'
          /\ place = "list" /\ ops[q.op].kind = "reply" => MayAppend(q.op)'
      BY <1>2
    <2>4. place \in {"list", "look", "create"} /\ ops[q.op].kind = "send" => ops[q.op].to \in Users
      BY <1>2
    <2> QED BY <1>3, <2>2, <2>3, <2>4 DEF Knows
  <1>6. calls' \in [Calls -> Call \cup {NoCall}]
    BY <1>1, <1>3, <1>4
  <1>7. CallsMove
    <2> SUFFICES ASSUME NEW b \in Calls, calls'[b] # NoCall
                 PROVE  \E x \in Call : Knows(x)' /\ calls'[b] = x
      BY DEF CallsMove
    <2>1. CASE b = c
      <3>1. calls'[b] = m
        BY <1>1, <1>4, <2>1
      <3> QED BY <1>3, <1>5, <3>1
    <2>2. CASE b # c
      BY <1>1, <2>2, CallsStay
    <2> QED BY <2>1, <2>2
  <1> QED BY <1>6, <1>7

-----------------------------------------------------------------------------
(* The clients' actions.                                                   *)

LEMMA StageSet ==
    ASSUME TypeOK, NEW o \in Ops, ops[o] # NoOp,
           NEW stage \in {"first", "queued", "done", "failed", "dead"}, SetStage(o, stage)
    PROVE  /\ ops' \in [Ops -> Op \cup {NoOp}] /\ OpsKept
           /\ \A p \in Ops : ops'[p].stage = "done" => ops[p].stage = "done" \/ (p = o /\ stage = "done")
  <1>1. ops \in [Ops -> Op \cup {NoOp}] /\ ops[o] \in Op
    BY DEF TypeOK
  <1>2. PICK q \in Op : q = ops[o]
    BY <1>1
  <1> DEFINE m == [q EXCEPT !.stage = stage]
  <1>3. /\ m \in Op /\ m.stage = stage /\ m # NoOp
        /\ m.kind = q.kind /\ m.user = q.user /\ m.thread = q.thread /\ m.to = q.to
    BY DEF Op, NoOp
  <1>4. ops' = [ops EXCEPT ![o] = m]
    BY <1>2 DEF SetStage
  <1> HIDE DEF m
  <1> QED BY <1>1, <1>2, <1>3, <1>4 DEF OpsKept

\* A call in a free place.
LEMMA PostStep ==
    ASSUME CrosstalkInv, OpsKept, StoreKept, NEW c \in Calls, NEW o \in Ops, ops'[o] # NoOp,
           NEW caller \in Drains \cup {First, Gone}, Post(c, o, caller)
    PROVE  CallsMove /\ calls' \in [Calls -> Call \cup {NoCall}]
  <1> DEFINE m == [op |-> o, at |-> "wire", caller |-> caller]
  <1>1. m \in Call /\ m.op = o /\ m.at = "wire"
    BY DEF Call
  <1>2. calls' = [calls EXCEPT ![c] = m] /\ calls \in [Calls -> Call \cup {NoCall}]
    BY DEF Post, CrosstalkInv, TypeOK
  <1> HIDE DEF m
  <1>3. Knows(m)'
    BY <1>1 DEF Knows
  <1>4. ASSUME NEW b \in Calls, calls'[b] # NoCall
        PROVE  \E q \in Call : Knows(q)' /\ calls'[b] = q
    <2>1. CASE b = c
      BY <1>1, <1>2, <1>3, <2>1
    <2>2. CASE b # c
      <3>1. calls'[b] = calls[b]
        BY <1>2, <2>2
      <3> QED BY <1>4, <3>1, CallsStay
    <2> QED BY <2>1, <2>2
  <1> QED BY <1>1, <1>2, <1>4 DEF CallsMove

LEMMA CloseStep ==
    ASSUME CrosstalkInv, OpsKept, StoreKept, NEW c \in Calls, Close(c)
    PROVE  CallsMove /\ calls' \in [Calls -> Call \cup {NoCall}]
  <1>1. calls' = [calls EXCEPT ![c] = NoCall] /\ calls \in [Calls -> Call \cup {NoCall}]
    BY DEF Close, CrosstalkInv, TypeOK
  <1>2. ASSUME NEW b \in Calls, calls'[b] # NoCall
        PROVE  \E q \in Call : Knows(q)' /\ calls'[b] = q
    <2>1. calls'[b] = calls[b]
      BY <1>1, <1>2
    <2> QED BY <1>2, <2>1, CallsStay
  <1> QED BY <1>1, <1>2 DEF CallsMove

\* A call whose caller is gone, or that has failed, knows no more than before.
LEMMA CallGone ==
    ASSUME CrosstalkInv, OpsKept, StoreKept, NEW b \in Calls, calls[b] # NoCall,
           \/ calls'[b] = [calls[b] EXCEPT !.caller = Gone]
           \/ calls'[b] = [calls[b] EXCEPT !.at = "error"]
    PROVE  \E q \in Call : Knows(q)' /\ calls'[b] = q
  <1>1. calls[b] \in Call /\ Knows(calls[b])
    BY DEF CrosstalkInv, TypeOK, CallsKnow
  <1>2. PICK q \in Call : q = calls[b]
    BY <1>1
  <1>3. Knows(q)'
    BY <1>1, <1>2, KnowsKept DEF CrosstalkInv
  <1> DEFINE g == [op |-> q.op, at |-> q.at, caller |-> Gone]
             e == [op |-> q.op, at |-> "error", caller |-> q.caller]
  <1>4. /\ g \in Call /\ [q EXCEPT !.caller = Gone] = g /\ g.op = q.op /\ g.at = q.at
        /\ e \in Call /\ [q EXCEPT !.at = "error"] = e /\ e.op = q.op /\ e.at = "error"
    BY CallFields
  <1> HIDE DEF g, e
  <1>5. Knows(g)' /\ Knows(e)'
    BY <1>3, <1>4 DEF Knows
  <1> QED BY <1>2, <1>4, <1>5

LEMMA SameStore ==
    ASSUME UNCHANGED store
    PROVE  StoreKept
  BY DEF StoreKept, store

LEMMA PerformStep ==
    ASSUME CrosstalkInv, NEW o \in Ops, NEW kind \in {"send", "reply", "close"}, NEW u \in Users,
           NEW t \in Threads, NEW c \in Calls,
           NEW to \in IF kind = "send" THEN Recipients ELSE {u}, Perform(o, kind, u, t, to, c)
    PROVE  CrosstalkInv' /\ OnlyShown
  <1> DEFINE m == [stage |-> "first", kind |-> kind, user |-> u, thread |-> t, to |-> to]
  <1>1. m \in Op /\ m # NoOp /\ m.stage = "first"
    BY DEF Op, NoOp
  <1>2. /\ ops' = [ops EXCEPT ![o] = m] /\ ops[o] = NoOp /\ Post(c, o, First)
        /\ UNCHANGED <<store, drains, picked>> /\ UNCHANGED <<threads, closer, messages>>
    BY DEF Perform, store
  <1> HIDE DEF m
  <1>3. ops \in [Ops -> Op \cup {NoOp}]
    BY DEF CrosstalkInv, TypeOK
  <1>4. OpsKept /\ ops'[o] # NoOp
    BY <1>1, <1>2, <1>3 DEF OpsKept
  <1>5. CallsMove /\ calls' \in [Calls -> Call \cup {NoCall}]
    BY <1>2, <1>4, SameStore, PostStep
  <1>6. ops' \in [Ops -> Op \cup {NoOp}]
    BY <1>1, <1>2, <1>3
  <1>7. TypeOK'
    BY <1>2, <1>5, <1>6 DEF CrosstalkInv, TypeOK
  <1>8. \A d \in Drains : \A p \in drains'[d] : ops[p] # NoOp
    BY <1>2 DEF CrosstalkInv, DrainsHoldOps
  <1>9. \A p \in Ops : ops'[p].stage = "done" => ops[p] # NoOp /\ Done(p)
    <2> SUFFICES ASSUME NEW p \in Ops, ops'[p].stage = "done" PROVE ops[p] # NoOp /\ Done(p)
      OBVIOUS
    <2>1. ops[p].stage = "done"
      BY <1>1, <1>2, <1>3
    <2> QED BY <2>1 DEF CrosstalkInv, DoneIsDone, NoOp
  <1> QED BY <1>2, <1>4, <1>5, <1>7, <1>8, <1>9, ClientStep

\* The operations are as they were.
LEMMA SameOps ==
    ASSUME CrosstalkInv, ops' = ops
    PROVE  OpsKept /\ \A p \in Ops : ops'[p].stage = "done" => ops[p] # NoOp /\ Done(p)
  BY DEF OpsKept, CrosstalkInv, DoneIsDone, NoOp

LEMMA DrainStep ==
    ASSUME CrosstalkInv, NEW d \in Drains,
           \/ StartDrain(d)
           \/ \E o \in Ops, c \in Calls : PostAgain(d, o, c)
    PROVE  CrosstalkInv' /\ OnlyShown
  <1>1. CASE StartDrain(d)
    <2>1. PICK S \in SUBSET Ops : drains' = [drains EXCEPT ![d] = S] /\ \A o \in S : ops[o] # NoOp
      <3> DEFINE rows == {o \in Ops : Queued(o) /\ ops[o].user = DrainedFor[d]}
      <3>1. PICK S \in SUBSET rows : drains' = [drains EXCEPT ![d] = {o \in S : NotWorn(o)}]
        BY <1>1 DEF StartDrain
      <3>2. \A o \in S : o \in Ops /\ ops[o] # NoOp
        BY DEF Queued, NoOp
      <3>3. {o \in S : NotWorn(o)} \in SUBSET Ops
        BY <3>2
      <3> HIDE DEF rows
      <3> QED BY <3>1, <3>2, <3>3
    <2>2. /\ UNCHANGED <<store, ops, calls, picked>> /\ UNCHANGED <<threads, closer, messages>>
      BY <1>1 DEF StartDrain, store
    <2>3. \A e \in Drains : \A p \in drains'[e] : ops[p] # NoOp
      BY <2>1 DEF CrosstalkInv, TypeOK, DrainsHoldOps
    <2>4. TypeOK'
      BY <2>1, <2>2 DEF CrosstalkInv, TypeOK
    <2>5. OpsKept /\ StoreKept /\ \A p \in Ops : ops'[p].stage = "done" => ops[p] # NoOp /\ Done(p)
      BY <2>2, SameOps, SameStore
    <2>6. CallsMove
      BY <2>2, <2>5, CallsStay DEF CallsMove
    <2> QED BY <2>2, <2>3, <2>4, <2>5, <2>6, ClientStep
  <1>2. ASSUME NEW o \in Ops, NEW c \in Calls, PostAgain(d, o, c) PROVE CrosstalkInv' /\ OnlyShown
    <2>1. /\ o \in drains[d] /\ drains' = [drains EXCEPT ![d] = @ \ {o}] /\ Post(c, o, d)
          /\ UNCHANGED <<store, ops, picked>> /\ UNCHANGED <<threads, closer, messages>>
      BY <1>2 DEF PostAgain, store
    <2>2. OpsKept /\ StoreKept /\ \A p \in Ops : ops'[p].stage = "done" => ops[p] # NoOp /\ Done(p)
      BY <2>1, SameOps, SameStore
    <2>3. ops'[o] # NoOp
      BY <2>1 DEF CrosstalkInv, DrainsHoldOps
    <2>4. CallsMove /\ calls' \in [Calls -> Call \cup {NoCall}]
      BY <2>1, <2>2, <2>3, PostStep
    <2>5. drains' \in [Drains -> SUBSET Ops] /\ \A e \in Drains : drains'[e] \subseteq drains[e]
      BY <2>1 DEF CrosstalkInv, TypeOK
    <2>6. TypeOK'
      BY <2>1, <2>4, <2>5 DEF CrosstalkInv, TypeOK
    <2>7. \A e \in Drains : \A p \in drains'[e] : ops[p] # NoOp
      BY <2>5 DEF CrosstalkInv, DrainsHoldOps
    <2> QED BY <2>1, <2>2, <2>4, <2>6, <2>7, ClientStep
  <1> QED BY <1>1, <1>2

LEMMA AnswerStep ==
    ASSUME CrosstalkInv, NEW c \in Calls, Succeeds(c) \/ Fails(c)
    PROVE  CrosstalkInv' /\ OnlyShown
  <1>1. /\ UNCHANGED <<store, drains, picked>> /\ UNCHANGED <<threads, closer, messages>>
    BY DEF Succeeds, Fails, store
  <1>2. calls[c] # NoCall
    BY DEF Succeeds, Fails, NoCall
  <1>3. PICK o \in Ops : o = calls[c].op /\ ops[o] # NoOp /\ (calls[c].at = "ok" => Done(o))
    BY <1>2 DEF CrosstalkInv, TypeOK, CallsKnow, Knows, Call
  <1>4. /\ ops' \in [Ops -> Op \cup {NoOp}] /\ OpsKept
        /\ \A p \in Ops : ops'[p].stage = "done" => ops[p] # NoOp /\ Done(p)
    <2>0. /\ ops \in [Ops -> Op \cup {NoOp}]
          /\ \A p \in Ops : ops[p].stage = "done" => ops[p] # NoOp /\ Done(p)
      BY DEF CrosstalkInv, TypeOK, DoneIsDone, NoOp
    <2>1. CASE Succeeds(c)
      <3>1. SetStage(o, "done") /\ Done(o)
        BY <1>3, <2>1 DEF Succeeds
      <3>2. /\ ops' \in [Ops -> Op \cup {NoOp}] /\ OpsKept
            /\ \A p \in Ops : ops'[p].stage = "done" => ops[p].stage = "done" \/ p = o
        BY <1>3, <3>1, StageSet DEF CrosstalkInv
      <3> QED BY <1>3, <2>0, <3>1, <3>2
    <2>2. CASE Fails(c)
      <3>1. CASE SetStage(o, "queued") \/ SetStage(o, "failed")
        <4>1. /\ ops' \in [Ops -> Op \cup {NoOp}] /\ OpsKept
              /\ \A p \in Ops : ops'[p].stage = "done" => ops[p].stage = "done"
          BY <1>3, <3>1, StageSet DEF CrosstalkInv
        <4> QED BY <2>0, <4>1
      <3>2. CASE ops' = ops
        BY <2>0, <3>2, SameOps
      <3>3. SetStage(o, "queued") \/ SetStage(o, "failed") \/ ops' = ops
        BY <1>3, <2>2 DEF Fails, Retry
      <3> QED BY <3>1, <3>2, <3>3
    <2> QED BY <2>1, <2>2
  <1>5. CallsMove /\ calls' \in [Calls -> Call \cup {NoCall}]
    <2>1. CASE Close(c)
      BY <1>1, <1>4, <2>1, SameStore, CloseStep
    <2>2. CASE calls' = [calls EXCEPT ![c].caller = Gone]
      <3>0. calls \in [Calls -> Call \cup {NoCall}]
        BY DEF CrosstalkInv, TypeOK
      <3>1. \A b \in Calls : calls'[b] # NoCall => \E q \in Call : Knows(q)' /\ calls'[b] = q
        <4> SUFFICES ASSUME NEW b \in Calls, calls'[b] # NoCall
                     PROVE  \E q \in Call : Knows(q)' /\ calls'[b] = q
          OBVIOUS
        <4>1. CASE b = c
          <5>1. calls'[b] = [calls[b] EXCEPT !.caller = Gone]
            BY <2>2, <3>0, <4>1
          <5> QED BY <1>1, <1>2, <1>4, <4>1, <5>1, SameStore, CallGone
        <4>2. CASE b # c
          <5>1. calls'[b] = calls[b]
            BY <2>2, <3>0, <4>2
          <5> QED BY <1>1, <1>4, <5>1, SameStore, CallsStay
        <4> QED BY <4>1, <4>2
      <3>2. calls' \in [Calls -> Call \cup {NoCall}]
        <4>1. \A b \in Calls : calls'[b] \in Call \cup {NoCall}
          BY <3>1
        <4>2. DOMAIN calls' = Calls /\ calls' = [b \in Calls |-> calls'[b]]
          BY <2>2, <3>0
        <4> QED BY <4>1, <4>2
      <3> QED BY <3>1, <3>2 DEF CallsMove
    <2> QED BY <2>1, <2>2 DEF Succeeds, Fails
  <1>6. TypeOK'
    BY <1>1, <1>4, <1>5 DEF CrosstalkInv, TypeOK
  <1>7. \A d \in Drains : \A p \in drains'[d] : ops[p] # NoOp
    BY <1>1 DEF CrosstalkInv, DrainsHoldOps
  <1> QED BY <1>1, <1>4, <1>5, <1>6, <1>7, ClientStep

-----------------------------------------------------------------------------
(* The handlers' actions.                                                  *)

\* What a handler that has got to its next store call knows.
LEMMA Arrived ==
    ASSUME CrosstalkInv, NEW c \in Calls, calls[c] # NoCall
    PROVE  \E o \in Ops : /\ o = calls[c].op /\ ops[o] # NoOp /\ Request(c) = ops[o]
                          /\ Row(c) = threads[ops[o].thread] /\ Row(c) \in Thread \cup {NoThread}
                          /\ ops[o].thread \in Threads /\ ops[o].user \in Users
                          /\ calls[c].at \in {"list", "look", "create"} /\ ops[o].kind = "send" =>
                                ops[o].to \in Users
                          /\ calls[c].at = "list" /\ ops[o].kind = "reply" => MayAppend(o)
                          /\ calls[c].at = "append" => MayAppend(o)
  <1>1. calls[c] \in Call /\ Knows(calls[c])
    BY DEF CrosstalkInv, TypeOK, CallsKnow
  <1>2. PICK o \in Ops : o = calls[c].op
    BY <1>1 DEF Call
  <1>3. ops[o] # NoOp /\ Request(c) = ops[o] /\ Row(c) = threads[ops[o].thread]
    BY <1>1, <1>2 DEF Knows, Request, Row
  <1>4. ops[o].thread \in Threads /\ ops[o].user \in Users
    BY <1>3, RequestTyped DEF CrosstalkInv
  <1>5. threads[ops[o].thread] \in Thread \cup {NoThread}
    BY <1>4 DEF CrosstalkInv, TypeOK
  <1> QED BY <1>1, <1>2, <1>3, <1>4, <1>5 DEF Knows

LEMMA ReadingStep ==
    ASSUME CrosstalkInv, NEW c \in Calls,
           \/ SendArrives(c) \/ ReplyArrives(c) \/ CloseArrives(c)
           \/ ListMessages(c) \/ LookForThread(c)
    PROVE  CrosstalkInv' /\ OnlyShown
  <1>1. /\ calls[c] # NoCall /\ UNCHANGED <<store, ops, drains, picked>>
        /\ UNCHANGED <<threads, closer, messages>>
    BY DEF SendArrives, ReplyArrives, CloseArrives, ListMessages, LookForThread, At, store, client
  <1>2. PICK o \in Ops : /\ o = calls[c].op /\ ops[o] # NoOp /\ Request(c) = ops[o]
                         /\ Row(c) = threads[ops[o].thread] /\ Row(c) \in Thread \cup {NoThread}
                         /\ calls[c].at \in {"list", "look", "create"} /\ ops[o].kind = "send" =>
                               ops[o].to \in Users
                         /\ calls[c].at = "list" /\ ops[o].kind = "reply" => MayAppend(o)
    BY <1>1, Arrived
  <1>3. /\ OpsKept /\ StoreKept /\ (MayAppend(o) => MayAppend(o)') /\ (Done(o) => Done(o)')
        /\ \A p \in Ops : ops'[p].stage = "done" => ops[p] # NoOp /\ Done(p)
    BY <1>1, <1>2, SameOps, SameStore, MayAppendKept, DoneKept DEF CrosstalkInv
  <1>4. \E place \in Handling \cup {"ok", "error"} :
           /\ GoTo(c, place)
           /\ place = "append" => MayAppend(o)
           /\ place = "ok" => Done(o)
           /\ place \in {"list", "look", "create"} /\ ops[o].kind = "send" => ops[o].to \in Users
           /\ place = "list" /\ ops[o].kind = "reply" => MayAppend(o)
    <2>1. CASE SendArrives(c)
      <3>1. ops[o].kind = "send"
        BY <1>2, <2>1 DEF SendArrives, At
      <3>2. CASE ops[o].to \notin Users
        BY <1>2, <2>1, <3>2 DEF SendArrives, Handling
      <3>3. CASE ops[o].to \in Users /\ Row(c) = NoThread
        BY <1>2, <2>1, <3>1, <3>3 DEF SendArrives, Handling
      <3>4. CASE ops[o].to \in Users /\ Row(c) # NoThread
        BY <1>2, <2>1, <3>1, <3>4 DEF SendArrives, Handling
      <3> QED BY <3>2, <3>3, <3>4
    <2>2. CASE ReplyArrives(c)
      <3>1. ops[o].kind = "reply"
        BY <1>2, <2>2 DEF ReplyArrives, At
      <3>2. CASE Row(c).status = "open" /\ MayWrite(ops[o].user, Row(c))
        <4>1. MayAppend(o)
          <5>1. threads[ops[o].thread].status = "open" /\ MayWrite(ops[o].user, threads[ops[o].thread])
            BY <1>2, <3>2
          <5>2. threads[ops[o].thread] # NoThread
            BY <1>2, <5>1 DEF NoThread
          <5> QED BY <3>1, <5>1, <5>2 DEF MayAppend
        <4>2. GoTo(c, "list")
          BY <1>2, <2>2, <3>2 DEF ReplyArrives
        <4> QED BY <3>1, <4>1, <4>2 DEF Handling
      <3>3. CASE ~(Row(c).status = "open" /\ MayWrite(ops[o].user, Row(c)))
        <4>1. GoTo(c, "error")
          BY <1>2, <2>2, <3>3 DEF ReplyArrives
        <4> QED BY <4>1 DEF Handling
      <3> QED BY <3>2, <3>3
    <2>3. CASE CloseArrives(c)
      <3>1. CASE Row(c) # NoThread /\ MayWrite(ops[o].user, Row(c))
        <4>1. GoTo(c, "update")
          BY <1>2, <2>3, <3>1 DEF CloseArrives
        <4> QED BY <4>1 DEF Handling
      <3>2. CASE ~(Row(c) # NoThread /\ MayWrite(ops[o].user, Row(c)))
        <4>1. GoTo(c, "error")
          BY <1>2, <2>3, <3>2 DEF CloseArrives
        <4> QED BY <4>1 DEF Handling
      <3> QED BY <3>1, <3>2
    <2>4. CASE ListMessages(c)
      <3>1. calls[c].at = "list" /\ ops[o].kind \in {"send", "reply"}
        BY <1>2, <2>4 DEF ListMessages, At
      <3>2. CASE messages[o] # NoMessage
        BY <1>2, <2>4, <3>1, <3>2 DEF ListMessages, Handling, Done
      <3>3. CASE messages[o] = NoMessage /\ ops[o].kind = "send"
        BY <1>2, <2>4, <3>1, <3>3 DEF ListMessages, Handling
      <3>4. CASE messages[o] = NoMessage /\ ops[o].kind # "send"
        BY <1>2, <2>4, <3>1, <3>4 DEF ListMessages, Handling
      <3> QED BY <3>2, <3>3, <3>4
    <2>5. CASE LookForThread(c)
      <3>1. calls[c].at = "look" /\ ops[o].kind = "send" /\ ops[o].to \in Users
        BY <1>2, <2>5 DEF LookForThread, At
      <3>2. CASE Row(c) = NoThread
        BY <1>2, <2>5, <3>1, <3>2 DEF LookForThread, Handling
      <3>3. CASE Row(c) # NoThread /\ Row(c).status = "open" /\ ops[o].user \in Participants(Row(c))
        <4>1. MayAppend(o)
          BY <1>2, <3>1, <3>3 DEF MayAppend
        <4> QED BY <1>2, <2>5, <3>1, <3>3, <4>1 DEF LookForThread, Handling
      <3>4. CASE Row(c) # NoThread /\ ~(Row(c).status = "open" /\ ops[o].user \in Participants(Row(c)))
        <4>1. GoTo(c, "error")
          BY <1>2, <2>5, <3>4 DEF LookForThread
        <4> QED BY <4>1 DEF Handling
      <3> QED BY <3>2, <3>3, <3>4
    <2> QED BY <2>1, <2>2, <2>3, <2>4, <2>5
  <1>5. CallsMove /\ calls' \in [Calls -> Call \cup {NoCall}]
    BY <1>1, <1>2, <1>3, <1>4, GoToStep
  <1>6. TypeOK'
    BY <1>1, <1>5 DEF CrosstalkInv, TypeOK
  <1>7. \A d \in Drains : \A p \in drains'[d] : ops[p] # NoOp
    BY <1>1 DEF CrosstalkInv, DrainsHoldOps
  <1> QED BY <1>1, <1>3, <1>5, <1>6, <1>7, ClientStep

LEMMA CreateStep ==
    ASSUME CrosstalkInv, NEW c \in Calls, CreateThread(c)
    PROVE  CrosstalkInv' /\ OnlyShown
  <1>1. /\ calls[c] # NoCall /\ UNCHANGED <<closer, messages, ops, drains, picked>>
        /\ calls[c].at = "create" /\ Request(c).kind = "send"
    BY DEF CreateThread, At, client
  <1>2. PICK o \in Ops : /\ o = calls[c].op /\ ops[o] # NoOp /\ Request(c) = ops[o]
                         /\ Row(c) = threads[ops[o].thread]
                         /\ ops[o].thread \in Threads /\ ops[o].user \in Users /\ ops[o].to \in Users
    BY <1>1, Arrived
  <1> DEFINE t == ops[o].thread
             new == [status |-> "open", participants |-> <<ops[o].user, ops[o].to>>]
  <1>3. threads \in [Threads -> Thread \cup {NoThread}]
    BY DEF CrosstalkInv, TypeOK
  <1>4. /\ new \in Thread /\ new # NoThread /\ Participants(new) = {ops[o].user, ops[o].to}
    BY <1>2 DEF Thread, NoThread, Participants
  <1>5. IF threads[t] # NoThread
        THEN threads' = threads /\ GoTo(c, "error")
        ELSE threads' = [threads EXCEPT ![t] = new] /\ GoTo(c, "append")
    BY <1>2 DEF CreateThread, IdFree
  <1> HIDE DEF new
  <1>6. /\ \A x \in Threads : threads[x] # NoThread => threads'[x] = threads[x]
        /\ threads' \in [Threads -> Thread \cup {NoThread}]
    BY <1>2, <1>3, <1>4, <1>5
  <1>7. OpsKept /\ StoreKept
    BY <1>1, <1>6, SameOps DEF StoreKept
  <1>8. threads[t] = NoThread => MayAppend(o)'
    <2>1. threads[t] = NoThread => threads'[t] = new
      BY <1>2, <1>3, <1>5
    <2> QED BY <1>1, <1>2, <1>4, <2>1 DEF MayAppend
  <1>9. CallsMove /\ calls' \in [Calls -> Call \cup {NoCall}]
    <2>1. CASE threads[t] # NoThread
      BY <1>1, <1>2, <1>5, <1>7, <2>1, GoToStep DEF Handling
    <2>2. CASE threads[t] = NoThread
      BY <1>1, <1>2, <1>5, <1>7, <1>8, <2>2, GoToStep DEF Handling
    <2> QED BY <2>1, <2>2
  <1>10. TypeOK'
    BY <1>1, <1>6, <1>9 DEF CrosstalkInv, TypeOK
  <1>11. AllWritten'
    BY <1>1, <1>7, WrittenKept DEF CrosstalkInv, AllWritten
  <1>12. ClosedByOne'
    BY <1>1, <1>6 DEF CrosstalkInv, ClosedByOne, NoThread
  <1>13. PickedOwn' /\ OnlyShown
    BY <1>1 DEF CrosstalkInv, PickedOwn, OnlyShown
  <1> QED BY <1>1, <1>7, <1>9, <1>10, <1>11, <1>12, <1>13, ServerStep

LEMMA MessageFields ==
    ASSUME NEW t \in Threads, NEW u \in Users, NEW to \in Users \cup {Nobody}
    PROVE  LET new == [thread |-> t, from |-> u, to |-> to, read |-> FALSE] IN
           /\ new \in Message /\ new # NoMessage
           /\ new.thread = t /\ new.from = u
  <1> DEFINE new == [thread |-> t, from |-> u, to |-> to, read |-> FALSE]
  <1>1. new \in Message
    BY DEF Message
  <1>2. new # NoMessage
    <2>1. DOMAIN new = {"thread", "from", "to", "read"} /\ DOMAIN NoMessage = {"thread"}
      BY DEF NoMessage
    <2>2. "from" \notin DOMAIN NoMessage /\ "from" \in DOMAIN new
      BY <2>1
    <2> QED BY <2>2
  <1> QED BY <1>1, <1>2

LEMMA AppendStep ==
    ASSUME CrosstalkInv, NEW c \in Calls, AppendMessage(c)
    PROVE  CrosstalkInv' /\ OnlyShown
  <1>1. /\ calls[c] # NoCall /\ UNCHANGED <<threads, closer, ops, drains, picked>>
        /\ calls[c].at = "append"
    BY DEF AppendMessage, At, client
  <1>2. PICK o \in Ops : /\ o = calls[c].op /\ ops[o] # NoOp /\ Request(c) = ops[o]
                         /\ Row(c) = threads[ops[o].thread] /\ Row(c) \in Thread \cup {NoThread}
                         /\ ops[o].thread \in Threads /\ ops[o].user \in Users /\ MayAppend(o)
    BY <1>1, Arrived
  <1> DEFINE to == IF ops[o].kind = "send" THEN ops[o].to ELSE Other(ops[o].user, Row(c))
             new == [thread |-> ops[o].thread, from |-> ops[o].user, to |-> to, read |-> FALSE]
  <1>3. to \in Users \cup {Nobody}
    <2>1. Row(c) \in Thread
      BY <1>2 DEF MayAppend
    <2>2. Other(ops[o].user, Row(c)) \in Users \cup {Nobody}
      BY <2>1 DEF Other, Thread
    <2> QED BY <1>2, <2>2 DEF MayAppend
  <1>4. new \in Message /\ new # NoMessage /\ new.thread = ops[o].thread /\ new.from = ops[o].user
    BY <1>2, <1>3, MessageFields
  <1>5. IF messages[o] # NoMessage
        THEN messages' = messages /\ GoTo(c, "error")
        ELSE messages' = [messages EXCEPT ![o] = new] /\ GoTo(c, "ok")
    BY <1>2 DEF AppendMessage
  <1> HIDE DEF new
  <1>6. messages \in [Ops -> Message \cup {NoMessage}]
    BY DEF CrosstalkInv, TypeOK
  <1>7. /\ messages' \in [Ops -> Message \cup {NoMessage}]
        /\ \A p \in Ops : messages[p] # NoMessage => messages'[p] = messages[p]
        /\ \A p \in Ops : messages'[p] # NoMessage =>
              messages[p] # NoMessage \/ (p = o /\ messages'[p] = new)
        /\ messages'[o] # NoMessage
    BY <1>4, <1>5, <1>6
  <1>8. OpsKept /\ StoreKept
    BY <1>1, <1>7, SameOps DEF StoreKept
  <1>9. messages[o] = NoMessage => Done(o)'
    BY <1>1, <1>2, <1>7 DEF Done, MayAppend
  <1>10. CallsMove /\ calls' \in [Calls -> Call \cup {NoCall}]
    <2>1. CASE messages[o] # NoMessage
      BY <1>1, <1>2, <1>5, <1>8, <2>1, GoToStep DEF Handling
    <2>2. CASE messages[o] = NoMessage
      BY <1>1, <1>2, <1>5, <1>8, <1>9, <2>2, GoToStep DEF Handling
    <2> QED BY <2>1, <2>2
  <1>11. TypeOK'
    BY <1>1, <1>7, <1>10 DEF CrosstalkInv, TypeOK
  <1>12. AllWritten'
    <2> SUFFICES ASSUME NEW p \in Ops, messages'[p] # NoMessage PROVE Written(p)'
      BY DEF AllWritten
    <2>1. CASE messages[p] # NoMessage
      BY <1>8, <2>1, WrittenKept DEF CrosstalkInv, AllWritten
    <2>2. CASE p = o /\ messages'[p] = new
      BY <1>1, <1>2, <1>4, <2>2 DEF Written, MayAppend, MayWrite
    <2> QED BY <1>7, <2>1, <2>2
  <1>13. ClosedByOne' /\ PickedOwn' /\ OnlyShown
    <2>1. PickedOwn'
      <3> SUFFICES ASSUME NEW u \in Users, NEW p \in picked[u]
                   PROVE  messages'[p] # NoMessage /\ messages'[p].to = u
        BY <1>1 DEF PickedOwn
      <3>1. p \in Ops /\ messages[p] # NoMessage /\ messages[p].to = u
        BY DEF CrosstalkInv, TypeOK, PickedOwn
      <3> QED BY <1>7, <3>1
    <2> QED BY <1>1, <1>7, <2>1 DEF CrosstalkInv, ClosedByOne, OnlyShown
  <1> QED BY <1>1, <1>8, <1>10, <1>11, <1>12, <1>13, ServerStep

LEMMA UpdateStep ==
    ASSUME CrosstalkInv, NEW c \in Calls, UpdateClosed(c)
    PROVE  CrosstalkInv' /\ OnlyShown
  <1>1. /\ calls[c] # NoCall /\ UNCHANGED <<messages, ops, drains, picked>>
        /\ calls[c].at = "update" /\ Request(c).kind = "close"
    BY DEF UpdateClosed, At, client
  <1>2. PICK o \in Ops : /\ o = calls[c].op /\ ops[o] # NoOp /\ Request(c) = ops[o]
                         /\ Row(c) = threads[ops[o].thread] /\ Row(c) \in Thread \cup {NoThread}
                         /\ ops[o].thread \in Threads
    BY <1>1, Arrived
  <1> DEFINE t == ops[o].thread
             new == [threads[t] EXCEPT !.status = "closed"]
  <1>3. /\ threads \in [Threads -> Thread \cup {NoThread}] /\ closer \in [Threads -> SUBSET Ops]
    BY DEF CrosstalkInv, TypeOK
  <1>4. IF threads[t].status = "open"
        THEN threads' = [threads EXCEPT ![t] = new] /\ closer' = [closer EXCEPT ![t] = {o}] /\ GoTo(c, "ok")
        ELSE threads' = threads /\ closer' = closer /\ GoTo(c, "error")
    BY <1>2 DEF UpdateClosed, StillOpen
  <1>5. threads[t].status = "open" =>
           /\ closer[t] = {} /\ new \in Thread /\ new # NoThread /\ new.status = "closed"
           /\ new.participants = threads[t].participants
    <2>1. ASSUME threads[t].status = "open"
          PROVE  closer[t] = {} /\ threads[t] \in Thread
      BY <1>2, <2>1 DEF CrosstalkInv, ClosedByOne, NoThread
    <2>2. ASSUME NEW r \in Thread
          PROVE  /\ [r EXCEPT !.status = "closed"] \in Thread
                 /\ [r EXCEPT !.status = "closed"].status = "closed"
                 /\ [r EXCEPT !.status = "closed"].participants = r.participants
                 /\ [r EXCEPT !.status = "closed"] # NoThread
      BY DEF Thread, NoThread
    <2> QED BY <2>1, <2>2
  <1> HIDE DEF new
  <1>6. /\ threads' \in [Threads -> Thread \cup {NoThread}] /\ closer' \in [Threads -> SUBSET Ops]
        /\ \A x \in Threads : threads[x] # NoThread =>
              threads'[x] # NoThread /\ threads'[x].participants = threads[x].participants
        /\ \A x \in Threads : closer[x] # {} => closer'[x] = closer[x]
        /\ \A x \in Threads : closer'[x] # {} => threads'[x].status = "closed"
    <2>1. CASE threads[t].status = "open"
      BY <1>2, <1>3, <1>4, <1>5, <2>1 DEF CrosstalkInv, ClosedByOne
    <2>2. CASE threads[t].status # "open"
      BY <1>3, <1>4, <2>2 DEF CrosstalkInv, ClosedByOne
    <2> QED BY <2>1, <2>2
  <1>7. OpsKept /\ StoreKept
    BY <1>1, <1>6, SameOps DEF StoreKept
  <1>8. threads[t].status = "open" => Done(o)'
    BY <1>1, <1>2, <1>3, <1>4 DEF Done
  <1>9. CallsMove /\ calls' \in [Calls -> Call \cup {NoCall}]
    <2>1. CASE threads[t].status # "open"
      BY <1>1, <1>2, <1>4, <1>7, <2>1, GoToStep DEF Handling
    <2>2. CASE threads[t].status = "open"
      BY <1>1, <1>2, <1>4, <1>7, <1>8, <2>2, GoToStep DEF Handling
    <2> QED BY <2>1, <2>2
  <1>10. TypeOK'
    BY <1>1, <1>6, <1>9 DEF CrosstalkInv, TypeOK
  <1>11. AllWritten'
    BY <1>1, <1>7, WrittenKept DEF CrosstalkInv, AllWritten
  <1>12. ClosedByOne' /\ PickedOwn' /\ OnlyShown
    BY <1>1, <1>6 DEF CrosstalkInv, ClosedByOne, PickedOwn, OnlyShown
  <1> QED BY <1>1, <1>7, <1>9, <1>10, <1>11, <1>12, ServerStep

\* The SELECT and the UPDATE of an inbox request.
LEMMA InboxStep ==
    ASSUME CrosstalkInv, NEW u \in Users, InboxSelect(u) \/ InboxMark(u)
    PROVE  CrosstalkInv' /\ OnlyShown
  <1>1. /\ UNCHANGED <<threads, closer, ops, drains, calls>>
        /\ messages \in [Ops -> Message \cup {NoMessage}] /\ picked \in [Users -> SUBSET Ops]
    BY DEF InboxSelect, InboxMark, store, client, CrosstalkInv, TypeOK
  <1>2. /\ messages' \in [Ops -> Message \cup {NoMessage}]
        /\ \A o \in Ops : messages[o] # NoMessage =>
              /\ messages'[o] # NoMessage
              /\ messages'[o].thread = messages[o].thread /\ messages'[o].from = messages[o].from
              /\ messages'[o].to = messages[o].to
        /\ \A o \in Ops : messages'[o] # NoMessage => messages[o] # NoMessage
        /\ OnlyShown
    <2>1. CASE InboxSelect(u)
      <3>1. messages' = messages
        BY <2>1 DEF InboxSelect, store
      <3> QED BY <1>1, <3>1 DEF OnlyShown
    <2>2. CASE InboxMark(u)
      <3>1. messages' = [o \in Ops |-> IF o \in picked[u]
                                       THEN [messages[o] EXCEPT !.read = TRUE] ELSE messages[o]]
        BY <2>2 DEF InboxMark, Marked
      <3>2. ASSUME NEW m \in Message
            PROVE  /\ [m EXCEPT !.read = TRUE] \in Message
                   /\ [m EXCEPT !.read = TRUE] # NoMessage
                   /\ [m EXCEPT !.read = TRUE].thread = m.thread
                   /\ [m EXCEPT !.read = TRUE].from = m.from
                   /\ [m EXCEPT !.read = TRUE].to = m.to
        <4>1. /\ [m EXCEPT !.read = TRUE] \in Message
              /\ [m EXCEPT !.read = TRUE].thread = m.thread
              /\ [m EXCEPT !.read = TRUE].from = m.from
              /\ [m EXCEPT !.read = TRUE].to = m.to
          BY DEF Message
        <4>2. ASSUME NEW x \in Message PROVE x # NoMessage
          <5>1. DOMAIN x = {"thread", "from", "to", "read"} /\ DOMAIN NoMessage = {"thread"}
            BY DEF Message, NoMessage
          <5>2. "from" \in DOMAIN x /\ "from" \notin DOMAIN NoMessage
            BY <5>1
          <5> QED BY <5>2
        <4> QED BY <4>1, <4>2
      <3>3. \A o \in picked[u] : /\ o \in Ops /\ messages[o] \in Message /\ messages[o].to = u
                                 /\ messages[o] # NoMessage
        BY <1>1 DEF CrosstalkInv, PickedOwn
      <3>4. ASSUME NEW o \in Ops
            PROVE  /\ messages'[o] \in Message \cup {NoMessage}
                   /\ messages[o] # NoMessage =>
                         /\ messages'[o] # NoMessage
                         /\ messages'[o].thread = messages[o].thread /\ messages'[o].from = messages[o].from
                         /\ messages'[o].to = messages[o].to
                   /\ messages'[o] # NoMessage => messages[o] # NoMessage
        <4>1. CASE o \in picked[u]
          <5>1. PICK m \in Message : m = messages[o]
            BY <3>3, <4>1
          <5> DEFINE x == [m EXCEPT !.read = TRUE]
          <5>2. messages'[o] = x
            BY <3>1, <4>1, <5>1
          <5>3. /\ x \in Message /\ x # NoMessage
                /\ x.thread = m.thread /\ x.from = m.from /\ x.to = m.to
            BY <3>2
          <5> HIDE DEF x
          <5> QED BY <3>3, <4>1, <5>1, <5>2, <5>3
        <4>2. CASE o \notin picked[u]
          BY <1>1, <3>1, <4>2
        <4> QED BY <4>1, <4>2
      <3>5. OnlyShown
        <4> SUFFICES ASSUME NEW o \in Ops, ~messages[o].read, messages'[o].read
                     PROVE  o \in picked[messages[o].to]
          BY DEF OnlyShown
        <4>1. o \in picked[u]
          BY <3>1
        <4> QED BY <3>3, <4>1
      <3> QED BY <3>1, <3>4, <3>5
    <2> QED BY <2>1, <2>2
  <1>3. /\ picked' \in [Users -> SUBSET Ops]
        /\ \A v \in Users : picked'[v] \subseteq picked[v] \cup (IF v = u THEN Unread(u) ELSE {})
    <2>1. CASE InboxSelect(u)
      <3>1. picked' = [picked EXCEPT ![u] = Unread(u)] /\ Unread(u) \in SUBSET Ops
        BY <2>1 DEF InboxSelect, Unread
      <3> QED BY <1>1, <3>1
    <2>2. CASE InboxMark(u)
      <3>1. picked' = [picked EXCEPT ![u] = {}]
        BY <2>2 DEF InboxMark
      <3> QED BY <1>1, <3>1
    <2> QED BY <2>1, <2>2
  <1>4. OpsKept /\ StoreKept
    BY <1>1, <1>2, SameOps DEF StoreKept
  <1>5. TypeOK'
    BY <1>1, <1>2, <1>3 DEF CrosstalkInv, TypeOK
  <1>6. CallsMove
    BY <1>1, <1>4, CallsStay DEF CallsMove
  <1>7. AllWritten'
    BY <1>2, <1>4, WrittenKept DEF CrosstalkInv, AllWritten
  <1>8. PickedOwn'
    <2> SUFFICES ASSUME NEW v \in Users, NEW o \in picked'[v]
                 PROVE  messages'[o] # NoMessage /\ messages'[o].to = v
      BY DEF PickedOwn
    <2>1. o \in Ops /\ messages[o] # NoMessage /\ messages[o].to = v
      <3>1. CASE o \in picked[v]
        BY <1>1, <3>1 DEF CrosstalkInv, PickedOwn
      <3>2. CASE v = u /\ o \in Unread(u)
        BY <3>2 DEF Unread
      <3> QED BY <1>3, <3>1, <3>2
    <2> QED BY <1>2, <2>1
  <1>9. ClosedByOne'
    BY <1>1 DEF CrosstalkInv, ClosedByOne
  <1> QED BY <1>1, <1>2, <1>4, <1>5, <1>6, <1>7, <1>8, <1>9, ServerStep

-----------------------------------------------------------------------------
(* Crashes.                                                                *)

LEMMA CrashServerStep ==
    ASSUME CrosstalkInv, CrashServer
    PROVE  CrosstalkInv' /\ OnlyShown
  <1>1. /\ UNCHANGED <<threads, closer, messages, ops, drains>> /\ picked' = [u \in Users |-> {}]
        /\ DOMAIN calls' = Calls /\ calls' = [c \in Calls |-> calls'[c]]
    BY DEF CrashServer, store, client
  <1>2. OpsKept /\ StoreKept
    BY <1>1, SameOps DEF StoreKept
  <1>3. CallsMove
    <2> SUFFICES ASSUME NEW c \in Calls, calls'[c] # NoCall
                 PROVE  \E q \in Call : Knows(q)' /\ calls'[c] = q
      BY DEF CallsMove
    <2>1. \/ calls'[c] = calls[c]
          \/ calls[c] # NoCall /\ calls'[c] = [calls[c] EXCEPT !.at = "error"]
      BY DEF CrashServer, Handling, NoCall
    <2> QED BY <1>2, <2>1, CallsStay, CallGone
  <1>4. calls' \in [Calls -> Call \cup {NoCall}]
    <2>1. \A c \in Calls : calls'[c] \in Call \cup {NoCall}
      BY <1>3 DEF CallsMove
    <2> QED BY <1>1, <2>1
  <1>5. TypeOK'
    BY <1>1, <1>4 DEF CrosstalkInv, TypeOK
  <1>6. AllWritten'
    BY <1>1, <1>2, WrittenKept DEF CrosstalkInv, AllWritten
  <1>7. ClosedByOne' /\ PickedOwn' /\ OnlyShown
    BY <1>1 DEF CrosstalkInv, ClosedByOne, PickedOwn, OnlyShown
  <1> QED BY <1>1, <1>2, <1>3, <1>5, <1>6, <1>7, ServerStep

LEMMA CrashClientStep ==
    ASSUME CrosstalkInv, NEW u \in Queueing, CrashClient(u)
    PROVE  CrosstalkInv' /\ OnlyShown
  <1>1. /\ UNCHANGED <<store, picked>> /\ UNCHANGED <<threads, closer, messages>>
        /\ DOMAIN calls' = Calls /\ calls' = [c \in Calls |-> calls'[c]]
        /\ ops' = [o \in Ops |-> IF ops[o].stage = "first" /\ ops[o].user = u
                                 THEN [ops[o] EXCEPT !.stage = "dead"] ELSE ops[o]]
        /\ drains' = [d \in Drains |-> IF DrainedFor[d] = u THEN {} ELSE drains[d]]
        /\ ops \in [Ops -> Op \cup {NoOp}] /\ drains \in [Drains -> SUBSET Ops]
    BY DEF CrashClient, store, CrosstalkInv, TypeOK
  <1>2. ASSUME NEW o \in Ops
        PROVE  /\ ops'[o] \in Op \cup {NoOp}
               /\ ops[o] # NoOp =>
                     /\ ops'[o] # NoOp /\ ops'[o].kind = ops[o].kind /\ ops'[o].user = ops[o].user
                     /\ ops'[o].thread = ops[o].thread /\ ops'[o].to = ops[o].to
               /\ ops'[o].stage = "done" => ops[o].stage = "done"
    <2>1. CASE ops[o].stage = "first" /\ ops[o].user = u
      <3>1. ops[o] \in Op /\ ops'[o] = [ops[o] EXCEPT !.stage = "dead"]
        BY <1>1, <2>1 DEF NoOp
      <3>2. ASSUME NEW p \in Op
            PROVE  LET m == [p EXCEPT !.stage = "dead"] IN
                   /\ m \in Op /\ m # NoOp /\ m.stage = "dead" /\ m.kind = p.kind
                   /\ m.user = p.user /\ m.thread = p.thread /\ m.to = p.to
        BY DEF Op, NoOp
      <3> QED BY <3>1, <3>2
    <2>2. CASE ~(ops[o].stage = "first" /\ ops[o].user = u)
      BY <1>1, <2>2
    <2> QED BY <2>1, <2>2
  <1>3. OpsKept /\ StoreKept
    BY <1>1, <1>2, SameStore DEF OpsKept
  <1>4. \A o \in Ops : ops'[o].stage = "done" => ops[o] # NoOp /\ Done(o)
    BY <1>2 DEF CrosstalkInv, DoneIsDone, NoOp
  <1>5. CallsMove
    <2> SUFFICES ASSUME NEW c \in Calls, calls'[c] # NoCall
                 PROVE  \E q \in Call : Knows(q)' /\ calls'[c] = q
      BY DEF CallsMove
    <2>1. \/ calls'[c] = calls[c]
          \/ calls[c] # NoCall /\ calls'[c] = [calls[c] EXCEPT !.caller = Gone]
      BY DEF CrashClient
    <2> QED BY <1>3, <2>1, CallsStay, CallGone
  <1>6. calls' \in [Calls -> Call \cup {NoCall}]
    <2>1. \A c \in Calls : calls'[c] \in Call \cup {NoCall}
      BY <1>5 DEF CallsMove
    <2> QED BY <1>1, <2>1
  <1>7. ops' \in [Ops -> Op \cup {NoOp}]
    BY <1>1, <1>2
  <1>8. drains' \in [Drains -> SUBSET Ops] /\ \A d \in Drains : drains'[d] \subseteq drains[d]
    BY <1>1
  <1>9. TypeOK'
    BY <1>1, <1>6, <1>7, <1>8 DEF CrosstalkInv, TypeOK
  <1>10. \A d \in Drains : \A o \in drains'[d] : ops[o] # NoOp
    BY <1>8 DEF CrosstalkInv, DrainsHoldOps
  <1> QED BY <1>1, <1>3, <1>4, <1>5, <1>9, <1>10, ClientStep

-----------------------------------------------------------------------------
(* The theorems.                                                           *)

LEMMA CrosstalkInitially == Init => CrosstalkInv
  <1> SUFFICES ASSUME Init PROVE CrosstalkInv
    OBVIOUS
  <1>1. threads \in [Threads -> Thread \cup {NoThread}]
    <2>1. [status : {"open"}, participants : Users \X (Users \cap Recipients)] \subseteq Thread
      BY DEF Thread
    <2> HIDE DEF Thread
    <2> QED BY <2>1 DEF Init
  <1>2. TypeOK
    BY <1>1 DEF Init, TypeOK
  <1>3. CallsKnow /\ DrainsHoldOps /\ DoneIsDone /\ AllWritten /\ ClosedByOne /\ PickedOwn
    BY DEF Init, CallsKnow, DrainsHoldOps, DoneIsDone, AllWritten, ClosedByOne, PickedOwn, NoOp
  <1> QED BY <1>2, <1>3 DEF CrosstalkInv

LEMMA CrosstalkNext ==
    ASSUME CrosstalkInv, [Next]_vars
    PROVE  CrosstalkInv' /\ OnlyShown
  <1>1. CASE UNCHANGED vars
    <2>1. /\ UNCHANGED <<store, ops, drains, calls, picked>> /\ UNCHANGED <<threads, closer, messages>>
      BY <1>1 DEF vars, store
    <2>2. OpsKept /\ StoreKept /\ \A p \in Ops : ops'[p].stage = "done" => ops[p] # NoOp /\ Done(p)
      BY <2>1, SameOps, SameStore
    <2>3. CallsMove
      BY <2>1, <2>2, CallsStay DEF CallsMove
    <2>4. TypeOK'
      BY <2>1 DEF CrosstalkInv, TypeOK
    <2>5. \A d \in Drains : \A p \in drains'[d] : ops[p] # NoOp
      BY <2>1 DEF CrosstalkInv, DrainsHoldOps
    <2> QED BY <2>1, <2>2, <2>3, <2>4, <2>5, ClientStep
  <1>2. ASSUME NEW c \in Calls, Handle(c) PROVE CrosstalkInv' /\ OnlyShown
    BY <1>2, ReadingStep, CreateStep, AppendStep, UpdateStep DEF Handle
  <1> QED BY <1>1, <1>2, PerformStep, DrainStep, AnswerStep, InboxStep, CrashServerStep,
             CrashClientStep DEF Next

\* What the handlers have found out stays so while the others run, and the
\* clients' rows name operations, through losses, timeouts and crashes.
THEOREM CrosstalkCorrect == Spec => []CrosstalkInv
  BY CrosstalkInitially, CrosstalkNext, PTL DEF Spec

\* A row leaves the outbox only when the L2 has the message, or the closing of the
\* thread by this very request, though posts are lost, repeated and overtaken.
THEOREM OutboxLosesNothing == Spec => []NothingForgotten
  <1>1. CrosstalkInv => NothingForgotten
    <2> SUFFICES ASSUME CrosstalkInv, NEW o \in Ops, ops[o].stage = "done"
                 PROVE  IF ops[o].kind = "close"
                        THEN closer[ops[o].thread] = {o}
                        ELSE /\ messages[o] # NoMessage
                             /\ messages[o].thread = ops[o].thread /\ messages[o].from = ops[o].user
      BY DEF NothingForgotten
    <2>1. Done(o) /\ (messages[o] # NoMessage => Written(o))
      BY DEF CrosstalkInv, DoneIsDone, AllWritten
    <2> QED BY <2>1 DEF Done, Written
  <1> QED BY <1>1, CrosstalkCorrect, PTL

\* send_message and reply_on_thread check the author against a thread they read
\* store calls earlier, and two users may open one thread id at once: still every
\* author takes part in the thread or, of a reply, is an admin.
THEOREM AuthorsTakePart == Spec => []AuthorTakesPart
  <1>1. CrosstalkInv => AuthorTakesPart
    BY DEF CrosstalkInv, AllWritten, Written, AuthorTakesPart
  <1> QED BY <1>1, CrosstalkCorrect, PTL

\* The inbox marks as read what its SELECT returned, not what arrived since.
THEOREM ShownIsRead == Spec => OnlyShownIsRead
  <1>1. CrosstalkInv /\ [Next]_vars => OnlyShown
    BY CrosstalkNext
  <1>2. CrosstalkInv /\ [Next]_vars =>
           [\A o \in Ops : messages[o] # NoMessage /\ ~messages[o].read /\ messages'[o].read =>
               o \in picked[messages[o].to]]_vars
    BY <1>1 DEF OnlyShown
  <1> QED BY <1>2, CrosstalkCorrect, PTL DEF Spec, OnlyShownIsRead
==============================================================================
