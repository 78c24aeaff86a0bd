--------------------------- MODULE ReputationChain ---------------------------
(***************************************************************************)
(* The reputation chain of one L2 server: record_event appends hash-linked *)
(* events, a daily loop and an admin route roll a day's events up into one *)
(* root, and a publish loop posts the roots to the directory.              *)
(*                                                                         *)
(* All of it runs on the event loop, but over three kinds of connection.   *)
(* record_event and the admin route share the cached connection            *)
(* SqliteStore._conn; the two loops open a fresh one; the pool's threads   *)
(* and other processes write the same file.  db is what is committed, view *)
(* what _conn sees while it has a transaction open, lock SQLite's one      *)
(* write lock.                                                             *)
(*                                                                         *)
(* A hash is abstracted to what it is the hash of: an event's to its id, a *)
(* root's to the set of its events (their order, by ts and event_id, is a  *)
(* function of the set; the tree over it is MerkleTree).                   *)
(***************************************************************************)
EXTENDS Naturals, Sequences, FiniteSets

CONSTANTS
    Enterprises,
    EventIds,       \* random event ids, as naturals: they order ties of ts
    LastDay,        \* bound: days are 0..LastDay
    LastSecond,     \* bound: a day's seconds are 0..LastSecond
    PageSize,       \* roots the publish loop takes per iteration (LIMIT 50)
    Refused,        \* Enterprises whose roots the directory refuses
    AdminComputes   \* admins call POST /reputation/roots/compute

\* GENESIS_PREV_HASH, sixty-four zeros.
Genesis == 0

Days    == 0..LastDay
Seconds == 0..LastSecond

ASSUME ConstantsAssumption ==
    /\ EventIds \subseteq Nat \ {0}
    /\ LastDay \in Nat /\ LastSecond \in Nat /\ PageSize \in Nat \ {0}
    /\ Refused \subseteq Enterprises
    /\ AdminComputes \in BOOLEAN

Event == [id : EventIds, day : Days, sec : Seconds, prev : EventIds \cup {Genesis}]

\* asOf is the day of computed_at.
Root == [ent : Enterprises, day : Days, leaves : SUBSET EventIds,
         asOf : Days, published : BOOLEAN]

\* reputation_events in rowid order, reputation_chain_meta, reputation_roots.
Database == [log   : [Enterprises -> Seq(Event)],
             tail  : [Enterprises -> EventIds \cup {Genesis}],
             roots : SUBSET Root]

VARIABLES
    faults,     \* another writer may hold the lock beyond busy_timeout, and the server die
    db,         \* what is committed
    view,       \* what store._conn sees, once its transaction has a snapshot
    txn,        \* the state of store._conn's transaction
    lock,       \* who holds the write lock
    clock,      \* the UTC day and second
    up,         \* the server runs
    loopDay,    \* the day on which the daily loop last went to sleep
    rolling,    \* Enterprises left in the iteration the daily loop is in
    page,       \* roots left in the publish loop's iteration
    posting,    \* the root it has posted and awaits an answer for, if any
    marking,    \* the root whose 2xx answer it writes to the table, if any
    delivered   \* what the directory has stored

chainVars   == <<db, view, txn, lock>>
loopVars    == <<loopDay, rolling>>
publishVars == <<page, posting, marking, delivered>>
vars == <<db, view, txn, lock, clock, up, loopDay, rolling, page, posting,
          marking, delivered>>

\* The event loop is free: the server is up, and neither the daily loop's
\* iteration, which has no await, nor an UPDATE that waits for the lock blocks it.
Idle == up /\ rolling = {} /\ marking = {}

-----------------------------------------------------------------------------
(* The tables.                                                             *)

EmptyDatabase == [log   |-> [ent \in Enterprises |-> <<>>],
                  tail  |-> [ent \in Enterprises |-> Genesis],
                  roots |-> {}]

Ids(d) == UNION {{d.log[ent][i].id : i \in DOMAIN d.log[ent]} : ent \in Enterprises}

\* Mutant: the window is half open.
ShortDay(e, day) == e.day = day /\ e.sec < LastSecond
OnDay(e, day) == e.day = day

\* _read_day_events: every event of the day, [00:00:00Z, 23:59:59Z].
DayEvents(d, ent, day) ==
    LET log == d.log[ent]
    IN  {log[i].id : i \in {j \in DOMAIN log : OnDay(log[j], day)}}

\* Mutant: a root is computed again each time it is asked for.
NeverStored(d, ent, day) == FALSE
HasRoot(d, ent, day) == \E r \in d.roots : r.ent = ent /\ r.day = day

NewEvent(d, ent, id) ==
    [id |-> id, day |-> clock.day, sec |-> clock.sec, prev |-> d.tail[ent]]

\* The INSERT of the event and the upsert of the chain's meta row.
AppendEvent(d, ent, id) ==
    [d EXCEPT !.log  = [d.log EXCEPT ![ent] = Append(@, NewEvent(d, ent, id))],
              !.tail = [d.tail EXCEPT ![ent] = id]]

\* Mutant: no savepoint, a failed upsert leaves the event behind.
KeepEvent(d, ent, id) ==
    [d EXCEPT !.log = [d.log EXCEPT ![ent] = Append(@, NewEvent(d, ent, id))]]

\* ROLLBACK TO SAVEPOINT rep_write after the upsert failed.
UndoEvent(d, ent, id) == d

InsertRoot(d, ent, day) ==
    [d EXCEPT !.roots = @ \cup
        {[ent |-> ent, day |-> day, leaves |-> DayEvents(d, ent, day),
          asOf |-> clock.day, published |-> FALSE]}]

-----------------------------------------------------------------------------
(* store._conn.  Outside a transaction each statement commits, and so does *)
(* the RELEASE of an outermost savepoint.  Inside one, the first read      *)
(* takes a snapshot; a write needs the lock and a snapshot nobody has      *)
(* written past, and then holds the lock until commit.                     *)

Seen == IF txn \in {"none", "begun"} THEN db ELSE view

\* Mutant: a stale snapshot does not fail the write.
LockOnly == lock \in {"free", "conn"}
CanWrite == lock \in {"free", "conn"} /\ txn # "stale"

Write(d) ==
    IF txn = "none"
    THEN db' = d /\ UNCHANGED <<view, txn, lock>>
    ELSE view' = d /\ txn' = "writing" /\ lock' = "conn" /\ UNCHANGED db

Read ==
    IF txn = "begun"
    THEN view' = db /\ txn' = "snapshot" /\ UNCHANGED <<db, lock>>
    ELSE UNCHANGED chainVars

Commit(d) ==
    /\ db' = d
    /\ txn' = "none"
    /\ lock' = IF lock = "conn" THEN "free" ELSE lock
    /\ view' = EmptyDatabase

\* What a commit of another connection does to _conn's snapshot.
Overtaken == IF txn = "snapshot" THEN "stale" ELSE txn

-----------------------------------------------------------------------------
(* record_event, as every hook calls it; a failure is swallowed.           *)

RecordEvent(ent) ==
    /\ Idle
    /\ CanWrite
    /\ \E id \in EventIds \ (Ids(db) \cup Ids(Seen)) :
          \/ Write(AppendEvent(Seen, ent, id))
          \/ Write(UndoEvent(Seen, ent, id))
    /\ UNCHANGED <<clock, up, loopVars, publishVars>>

\* The INSERT finds the database locked.  Waiting does not help: the savepoint
\* has read the chain's meta row, and the other writer's commit overtakes it.
RecordFails ==
    /\ Idle
    /\ ~CanWrite
    /\ Read
    /\ UNCHANGED <<clock, up, loopVars, publishVars>>

\* GET /reputation/events and /roots read on the same connection.
ListEvents ==
    /\ Idle
    /\ Read
    /\ UNCHANGED <<clock, up, loopVars, publishVars>>

-----------------------------------------------------------------------------
(* compute_root_for_day on store._conn, for any day an admin names.        *)

ComputeRoot(ent, day) ==
    /\ AdminComputes /\ Idle
    /\ \/ HasRoot(Seen, ent, day) /\ Commit(IF txn = "writing" THEN view ELSE db)
       \/ ~HasRoot(Seen, ent, day) /\ CanWrite /\ Commit(InsertRoot(Seen, ent, day))
    /\ UNCHANGED <<clock, up, loopVars, publishVars>>

\* The INSERT times out: sqlite3 has sent BEGIN, and nothing rolls it back.
ComputeRootFails(ent, day) ==
    /\ AdminComputes /\ faults /\ Idle
    /\ ~HasRoot(Seen, ent, day) /\ ~CanWrite
    /\ IF txn = "none"
       THEN txn' = "begun" /\ UNCHANGED <<db, view, lock>>
       ELSE Read
    /\ UNCHANGED <<clock, up, loopVars, publishVars>>

-----------------------------------------------------------------------------
(* daily_root_loop: at midnight, yesterday's root of every Enterprise that *)
(* has a chain, each in a transaction of the loop's own connection.        *)

WakeDailyLoop ==
    /\ Idle
    /\ clock.day > loopDay
    /\ loopDay' = clock.day
    /\ rolling' = {ent \in Enterprises : db.tail[ent] # Genesis}
    /\ UNCHANGED <<chainVars, clock, up, publishVars>>

RollUp(ent) ==
    /\ up /\ ent \in rolling
    /\ rolling' = rolling \ {ent}
    /\ \/ HasRoot(db, ent, loopDay - 1) /\ UNCHANGED <<db, txn>>
       \/ /\ ~HasRoot(db, ent, loopDay - 1)
          /\ lock = "free"
          /\ db' = InsertRoot(db, ent, loopDay - 1)
          /\ txn' = Overtaken
    /\ UNCHANGED <<view, lock, clock, up, loopDay, publishVars>>

\* A connection waits for a writer that finishes within busy_timeout; one the
\* event loop itself keeps open outlasts it.
LockTimesOut == lock = "conn" \/ (lock = "other" /\ faults)

\* The failure is rolled back and logged; that day is not tried again.
RollUpFails(ent) ==
    /\ up /\ ent \in rolling
    /\ ~HasRoot(db, ent, loopDay - 1)
    /\ LockTimesOut
    /\ rolling' = rolling \ {ent}
    /\ UNCHANGED <<chainVars, clock, up, loopDay, publishVars>>

-----------------------------------------------------------------------------
(* reputation_publish_loop.                                                *)

Unpublished == {r \in db.roots : ~r.published}
Content(r)  == [ent |-> r.ent, day |-> r.day, leaves |-> r.leaves]

\* ORDER BY root_date ASC LIMIT PageSize.
IsPage(S) ==
    /\ S \subseteq Unpublished
    /\ S # {}
    /\ Cardinality(S) <= PageSize
    /\ \A r \in S, q \in Unpublished \ S : r.day <= q.day
    /\ Cardinality(S) = PageSize \/ S = Unpublished

FetchPage ==
    /\ Idle /\ page = {} /\ posting = {}
    /\ \E S \in SUBSET Unpublished : IsPage(S) /\ page' = S
    /\ UNCHANGED <<chainVars, clock, up, loopVars, posting, marking, delivered>>

Post(r) ==
    /\ Idle /\ posting = {}
    /\ r \in page /\ \A q \in page : r.day <= q.day
    /\ page' = page \ {r}
    /\ posting' = {r}
    /\ UNCHANGED <<chainVars, clock, up, loopVars, marking, delivered>>

\* The directory, which verifies the sender and stores the root; storing it
\* once more changes nothing.
DirectoryStores(r) ==
    /\ r \in posting /\ r.ent \notin Refused
    /\ delivered' = delivered \cup {Content(r)}
    /\ UNCHANGED <<chainVars, clock, up, loopVars, page, posting, marking>>

\* Mutant: status 0 counts as success.
AnyAnswer(r) == TRUE
Answered2xx(r) == Content(r) \in delivered

PostSucceeds(r) ==
    /\ Idle
    /\ r \in posting /\ Answered2xx(r)
    /\ posting' = {} /\ marking' = {r}
    /\ UNCHANGED <<chainVars, clock, up, loopVars, page, delivered>>

\* No 2xx answer: refused, never delivered, or the answer is lost.
PostFails(r) ==
    /\ Idle
    /\ r \in posting
    /\ posting' = {}
    /\ UNCHANGED <<chainVars, clock, up, loopVars, page, marking, delivered>>

\* Mutant: the UPDATE is not committed.
NotCommitted(r) == db

SetPublished(r) ==
    [db EXCEPT !.roots = {IF q.ent = r.ent /\ q.day = r.day
                          THEN [q EXCEPT !.published = TRUE] ELSE q : q \in @}]

MarkPublished(r) ==
    /\ up /\ r \in marking
    /\ lock = "free"
    /\ db' = SetPublished(r)
    /\ txn' = Overtaken
    /\ marking' = {}
    /\ UNCHANGED <<view, lock, clock, up, loopVars, page, posting, delivered>>

\* The UPDATE times out: the exception ends the iteration.
MarkFails(r) ==
    /\ up /\ r \in marking
    /\ LockTimesOut
    /\ marking' = {} /\ page' = {}
    /\ UNCHANGED <<chainVars, clock, up, loopVars, posting, delivered>>

-----------------------------------------------------------------------------
(* The environment.                                                        *)

OtherWriterBegins ==
    /\ lock = "free"
    /\ lock' = "other"
    /\ UNCHANGED <<db, view, txn, clock, up, loopVars, publishVars>>

OtherWriterEnds ==
    /\ lock = "other"
    /\ lock' = "free"
    /\ txn' = Overtaken
    /\ UNCHANGED <<db, view, clock, up, loopVars, publishVars>>

NextSecond ==
    /\ clock.sec < LastSecond
    /\ clock' = [clock EXCEPT !.sec = @ + 1]
    /\ UNCHANGED <<chainVars, up, loopVars, publishVars>>

\* A server that runs is not a whole day late with its midnight work.
NextDay ==
    /\ clock.day < LastDay
    /\ up => loopDay = clock.day /\ rolling = {}
    /\ clock' = [day |-> clock.day + 1, sec |-> 0]
    /\ UNCHANGED <<chainVars, up, loopVars, publishVars>>

Crash ==
    /\ faults /\ up
    /\ up' = FALSE
    /\ txn' = "none" /\ view' = EmptyDatabase
    /\ lock' = IF lock = "conn" THEN "free" ELSE lock
    /\ rolling' = {} /\ page' = {} /\ posting' = {} /\ marking' = {}
    /\ UNCHANGED <<db, clock, loopDay, delivered>>

\* The daily loop of the new process sleeps until the next midnight.
Restart ==
    /\ ~up
    /\ up' = TRUE
    /\ loopDay' = clock.day
    /\ UNCHANGED <<chainVars, clock, rolling, publishVars>>

-----------------------------------------------------------------------------
Init ==
    /\ faults \in BOOLEAN
    /\ db = EmptyDatabase /\ view = EmptyDatabase
    /\ txn = "none" /\ lock = "free"
    /\ clock = [day |-> 0, sec |-> 0]
    /\ up = TRUE /\ loopDay = 0 /\ rolling = {}
    /\ page = {} /\ posting = {} /\ marking = {} /\ delivered = {}

Chain ==
    \/ RecordFails \/ ListEvents
    \/ \E ent \in Enterprises : RecordEvent(ent)
    \/ \E ent \in Enterprises, day \in Days :
          ComputeRoot(ent, day) \/ ComputeRootFails(ent, day)

DailyLoop ==
    \/ WakeDailyLoop
    \/ \E ent \in Enterprises : RollUp(ent) \/ RollUpFails(ent)

PublishLoop ==
    \/ FetchPage
    \/ \E r \in page : Post(r)
    \/ \E r \in posting : DirectoryStores(r) \/ PostSucceeds(r) \/ PostFails(r)
    \/ \E r \in marking : MarkPublished(r) \/ MarkFails(r)

Environment ==
    \/ OtherWriterBegins \/ OtherWriterEnds
    \/ NextSecond \/ NextDay \/ Crash \/ Restart

Next == Chain \/ DailyLoop \/ PublishLoop \/ Environment

\* The loops run for ever; a writer ends its transaction, and one that waits
\* for the lock gets it in its turn or times out; a post repeated for ever is
\* stored, and answered, in the end.
Fairness ==
    /\ WF_vars(OtherWriterEnds)
    /\ WF_vars(WakeDailyLoop)
    /\ SF_vars(\E ent \in Enterprises : RollUp(ent) \/ RollUpFails(ent))
    /\ WF_vars(FetchPage) /\ WF_vars(\E r \in page : Post(r))
    /\ WF_vars(\E r \in posting : PostFails(r))
    /\ SF_vars(\E r \in marking : MarkPublished(r) \/ MarkFails(r))
    /\ \A ent \in Enterprises, day \in Days :
          LET OfRoot(r) == r.ent = ent /\ r.day = day IN
          /\ SF_vars(\E r \in posting : OfRoot(r) /\ DirectoryStores(r))
          /\ SF_vars(\E r \in posting : OfRoot(r) /\ PostSucceeds(r))

Spec == Init /\ [][Next /\ UNCHANGED faults]_<<faults, vars>> /\ Fairness

-----------------------------------------------------------------------------
(* Properties.                                                             *)

\* Each event names the one inserted before it, the first names Genesis, and
\* the chain's meta row names the last: however record_event fails, and
\* whatever a crash discards, no chain forks ("silently forking the chain").
Linked(d) ==
    \A ent \in Enterprises :
        LET log == d.log[ent] IN
        /\ \A i \in DOMAIN log :
              log[i].prev = IF i = 1 THEN Genesis ELSE log[i - 1].id
        /\ d.tail[ent] = IF log = <<>> THEN Genesis ELSE log[Len(log)].id

ChainNeverForks == Linked(db)

\* What is committed, delivered and published, seen without connections and
\* faults, is a ledger: no step on any connection, and no crash, takes an event or
\* a root away, changes one, or adds an event to a day that a root has closed.
Ledger == INSTANCE ReputationLedger
             WITH log <- db.log, roots <- db.roots, held <- delivered, today <- clock.day

ImplementsLedger == Ledger!LedgerSpec

\* A root computed after its day is over covers the day's events, all of them
\* and for ever: no event of the day is committed later, on any connection.
LateRootIsComplete ==
    \A r \in db.roots :
        r.asOf > r.day =>
            LET log == db.log[r.ent]
            IN  r.leaves = {log[i].id : i \in {j \in DOMAIN log : log[j].day = r.day}}

\* The directory never holds two different roots of one Enterprise and day,
\* though the loop posts a root again after a crash or a lost answer; and a root
\* is marked published only when the directory has exactly that root.
DirectoryAgrees ==
    /\ \A p, q \in delivered : p.ent = q.ent /\ p.day = q.day => p = q
    /\ \A r \in db.roots : r.published => Content(r) \in delivered

\* "publishes each" of the unpublished roots (directory_client.py): a committed
\* root that the directory does not refuse is published in the end, when no write
\* waits for the lock in vain.
EveryRootPublished ==
    \A ent \in Enterprises \ Refused, day \in Days :
        ~faults /\ HasRoot(db, ent, day)
            ~> \E r \in db.roots : r.ent = ent /\ r.day = day /\ r.published

-----------------------------------------------------------------------------
(* What the code's own text says and the code does not do.                 *)

\* "the caller's original operation is not affected" (reputation.py): the
\* chain's own connection never keeps the write lock from other writers.
WritersNotBlocked == lock # "conn"
=============================================================================
