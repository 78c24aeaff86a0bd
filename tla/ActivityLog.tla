---------------------------- MODULE ActivityLog ----------------------------
(***************************************************************************)
(* The activity log: the rows that background tasks append once the        *)
(* response has left (activity_logger.py), and a reader that walks them    *)
(* page by page with a cursor (activity_routes.py).                        *)
(*                                                                         *)
(* A task stamps its row on the event loop and inserts it from a worker    *)
(* thread: rows may be inserted in another order than that of their        *)
(* stamps, and two may bear one stamp; then the random part of their ids   *)
(* tells them apart. Nothing calls the store's purge.                      *)
(***************************************************************************)
EXTENDS Naturals, FiniteSets

CONSTANTS
    Events,         \* events to be logged
    Personas,
    Tags,           \* the random parts of ids, in their order
    PageLimit,      \* limit of a page
    MaxStamp        \* bound: the clock

ASSUME ActivityAssumption == Tags \subseteq Nat /\ PageLimit \in Nat \ {0} /\ MaxStamp \in Nat

VARIABLES
    stamp,      \* now_iso_z
    home,       \* enterprise_id of each persona's user row
    ownEnterprise, \* CQ_ENTERPRISE, or "" where it is not set
    task,       \* background tasks
    rows,       \* activity_log
    walk        \* the reader: filter, cursor, rows it got, and those it got
                \* again; rows there when it began

activityVars == <<stamp, home, ownEnterprise, task, rows, walk>>

Default == "default-enterprise"
NoRow == [ts |-> 0, tag |-> 0, tenant |-> "", persona |-> ""]
Walk(tenant, persona, start) ==
    [pc |-> "idle", tenant |-> tenant, persona |-> persona, cursor |-> NoRow,
     got |-> {}, again |-> {}, start |-> start]

ActivityInit ==
    /\ stamp = 1
    /\ home \in [Personas -> {Default, "acme"}] /\ ownEnterprise \in {"", "acme"}
    /\ task = [e \in Events |-> [pc |-> "idle", row |-> NoRow]]
    /\ rows = {}
    /\ walk = Walk("", "", {})

(* resolve_tenancy: the user's row if it says anything, or this L2's own.   *)
Tenancy(p) == IF home[p] # Default \/ ownEnterprise = "" THEN home[p] ELSE ownEnterprise

(* log_activity, some time after its handler answered: tenancy, id, time.   *)
StampRow(e, p, tag) ==
    /\ task[e].pc = "idle"
    /\ \A f \in Events : task[f].row.tag # tag
    /\ task' = [task EXCEPT ![e] = [pc |-> "insert", row |-> [ts |-> stamp, tag |-> tag,
                                                            tenant |-> Tenancy(p), persona |-> p]]]
    /\ UNCHANGED <<stamp, home, ownEnterprise, rows, walk>>

AppendRow(e) ==
    /\ task[e].pc = "insert"
    /\ rows' = rows \cup {task[e].row}
    /\ task' = [task EXCEPT ![e].pc = "done"]
    /\ UNCHANGED <<stamp, home, ownEnterprise, walk>>

(* Any failure is swallowed, and a process that dies takes its tasks along. *)
TaskLost(e) ==
    /\ task[e].pc = "insert"
    /\ task' = [task EXCEPT ![e].pc = "done"]
    /\ UNCHANGED <<stamp, home, ownEnterprise, rows, walk>>

StampAdvances ==
    /\ stamp < MaxStamp
    /\ stamp' = stamp + 1
    /\ UNCHANGED <<home, ownEnterprise, task, rows, walk>>

-----------------------------------------------------------------------------
\* Mutant: the cursor without the id that breaks ties.
StampBelow(r, c) == r.ts < c.ts

(* The rows after the cursor are those below it.                            *)
Below(r, c) == r.ts < c.ts \/ (r.ts = c.ts /\ r.tag < c.tag)

(* ORDER BY ts DESC, id DESC                                                *)
Newer(r, s) == r.ts > s.ts \/ (r.ts = s.ts /\ r.tag > s.tag)

Matching(tenant, persona) == {r \in rows : r.tenant = tenant /\ persona \in {"", r.persona}}

(* _list_activity_sync: the newest rows under the cursor, up to the limit.  *)
Rest(w) == {r \in Matching(w.tenant, w.persona) : w.cursor = NoRow \/ Below(r, w.cursor)}
Page(w, page) ==
    /\ page \subseteq Rest(w) /\ Cardinality(page) <= PageLimit
    /\ \A r \in page, s \in Rest(w) \ page : Newer(r, s)
    /\ page = Rest(w) \/ Cardinality(page) = PageLimit

(* GET /activity: a page that is full names the cursor of the next.         *)
Turn(w) ==
    \E page \in SUBSET Rest(w), last \in rows \cup {NoRow} :
        /\ Page(w, page)
        /\ IF Cardinality(page) = PageLimit
           THEN last \in page /\ \A r \in page \ {last} : Newer(r, last)
           ELSE last = NoRow
        /\ walk' = [pc      |-> IF last = NoRow THEN "ended" ELSE "reading",
                    tenant  |-> w.tenant,
                    persona |-> w.persona,
                    cursor  |-> last,
                    got     |-> w.got \cup page,
                    again   |-> w.again \cup (w.got \cap page),
                    start   |-> w.start]

(* The reader's Enterprise is that of the user's row; anyone but an admin   *)
(* sees their own events only. "start" is history.                          *)
OpenLog(p, admin) ==
    LET whose == IF admin THEN "" ELSE p IN
    /\ walk.pc = "idle"
    /\ Turn(Walk(home[p], whose, Matching(home[p], whose)))
    /\ UNCHANGED <<stamp, home, ownEnterprise, task, rows>>

NextPage ==
    /\ walk.pc = "reading"
    /\ Turn(walk)
    /\ UNCHANGED <<stamp, home, ownEnterprise, task, rows>>

ActivityNext ==
    \/ \E e \in Events :
          \/ AppendRow(e) \/ TaskLost(e)
          \/ \E p \in Personas, tag \in Tags : StampRow(e, p, tag)
    \/ \E p \in Personas, admin \in BOOLEAN : OpenLog(p, admin)
    \/ NextPage \/ StampAdvances

ActivitySpec == ActivityInit /\ [][ActivityNext]_activityVars

(* A reader that walks the log to its end has every row that was there when *)
(* it began, and none twice, though rows are inserted meanwhile, above,     *)
(* below and between those it has seen, and stamps are equal.               *)
PagesAreWhole ==
    /\ walk.again = {}
    /\ walk.pc = "ended" => walk.start \subseteq walk.got
=============================================================================
