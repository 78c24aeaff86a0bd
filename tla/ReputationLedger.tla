--------------------------- MODULE ReputationLedger ---------------------------
(***************************************************************************)
(* What the reputation chain promises those who rely on it, with no        *)
(* connection, transaction, lock or crash: a ledger per Enterprise that    *)
(* only grows, by linked events; a root per Enterprise and day, which is   *)
(* for good and, once its day is over, closes the day; and a directory     *)
(* that holds roots of the ledger and nothing else.                        *)
(***************************************************************************)
EXTENDS Naturals, Sequences

CONSTANTS Enterprises, Genesis

VARIABLES
    log,    \* the events of each Enterprise, in order
    roots,  \* the roots of its days
    held,   \* what the directory holds
    today

lvars == <<log, roots, held, today>>

-----------------------------------------------------------------------------
Chained(s) ==
    \A i \in DOMAIN s : s[i].prev = IF i = 1 THEN Genesis ELSE s[i - 1].id

Continues(s, t) == Len(s) <= Len(t) /\ \A i \in DOMAIN s : t[i] = s[i]

Leaves(s, day) == {s[i].id : i \in {j \in DOMAIN s : s[j].day = day}}

\* The day is over and has its root: it takes no more events.
ClosedFor(ent, day) ==
    \E r \in roots : r.ent = ent /\ r.day = day /\ r.asOf > day

Entry(r) == [ent |-> r.ent, day |-> r.day, leaves |-> r.leaves]

-----------------------------------------------------------------------------
LedgerInit ==
    /\ log = [ent \in Enterprises |-> <<>>]
    /\ roots = {} /\ held = {} /\ today = 0

\* Events are entered, each for a day that has come and is not closed.
Enter ==
    \A ent \in Enterprises :
        /\ Continues(log[ent], log'[ent]) /\ Chained(log'[ent])
        /\ \A i \in DOMAIN log'[ent] \ DOMAIN log[ent] :
              /\ log'[ent][i].day <= today
              /\ ~ClosedFor(ent, log'[ent][i].day)

\* A day that has no root gets one, over its events as they stand now.
Seal ==
    \E root \in roots' :
        /\ \A r \in roots : ~(r.ent = root.ent /\ r.day = root.day)
        /\ roots' = roots \cup {root}
        /\ root.leaves = Leaves(log'[root.ent], root.day)
        /\ root.asOf = today /\ ~root.published

\* A transaction enters events, any number, and seals at most one day.
Commit ==
    /\ Enter
    /\ Seal \/ UNCHANGED roots
    /\ UNCHANGED <<held, today>>

Deliver ==
    /\ \E r \in roots : held' = held \cup {Entry(r)}
    /\ UNCHANGED <<log, roots, today>>

\* Only what the directory holds is marked as published.
Publish ==
    /\ \E r \in roots :
          /\ Entry(r) \in held
          /\ roots' = (roots \ {r}) \cup {[r EXCEPT !.published = TRUE]}
    /\ UNCHANGED <<log, held, today>>

Tomorrow == today' = today + 1 /\ UNCHANGED <<log, roots, held>>

LedgerNext == Commit \/ Deliver \/ Publish \/ Tomorrow

LedgerSpec == LedgerInit /\ [][LedgerNext]_lvars
=============================================================================
