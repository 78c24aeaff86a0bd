---------------------------- MODULE ConsultRecord ----------------------------
(***************************************************************************)
(* What consults promise their participants, with no request, forward,     *)
(* timeout, repetition or crash: one record, of which each L2 has a part.  *)
(* A thread is opened once, at its opener's L2, and a message said once,   *)
(* at its author's L2; what any other L2 has is a copy of that.  Nothing   *)
(* leaves the record or changes in it, but for a thread that is closed     *)
(* where it is closed.  What is confirmed has reached the other side.      *)
(***************************************************************************)
EXTENDS Naturals

CONSTANTS L2s, Ids, Personas, HomeOf, NoThread, NoEntry

VARIABLES
    threads,    \* each L2's part of the threads
    said,       \* each L2's part of the messages
    closings,   \* each L2's count of the closings it has recorded of a thread
    confirmed   \* what somebody has been told that it reached the other side

rvars == <<threads, said, closings, confirmed>>

-----------------------------------------------------------------------------
Known(l2, t) == threads[l2][t] # NoThread
Heard(l2, m) == said[l2][m] # NoEntry

Ends(row)   == {row.from, row.to}
HomesOf(row) == {HomeOf[p] : p \in Ends(row)}

\* The other side has the thread and, if it keeps messages, the message.
Reached(c) ==
    /\ Known(c.at, c.thread)
    /\ c.kept => Heard(c.at, c.message)

-----------------------------------------------------------------------------
RecordInit ==
    /\ threads = [l2 \in L2s |-> [t \in Ids |-> NoThread]]
    /\ said = [l2 \in L2s |-> [m \in Ids |-> NoEntry]]
    /\ closings = [l2 \in L2s |-> [t \in Ids |-> 0]]
    /\ confirmed = {}

OpenThread(t, from, to) ==
    /\ \A l2 \in L2s : ~Known(l2, t)
    /\ threads' = [threads EXCEPT ![HomeOf[from]][t] =
                      [from |-> from, to |-> to, status |-> "open"]]
    /\ UNCHANGED <<said, closings>>

\* A copy of the opener's thread, at one of its two ends, as it was opened.
CopyThread(l2, t) ==
    /\ ~Known(l2, t)
    /\ \E origin \in L2s :
          LET row == threads[origin][t] IN
          /\ Known(origin, t) /\ origin = HomeOf[row.from] /\ l2 \in HomesOf(row)
          /\ threads' = [threads EXCEPT ![l2][t] =
                            [from |-> row.from, to |-> row.to, status |-> "open"]]
    /\ UNCHANGED <<said, closings>>

CloseThread(l2, t) ==
    /\ Known(l2, t) /\ threads[l2][t].status = "open"
    /\ threads' = [threads EXCEPT ![l2][t].status = "closed"]
    /\ UNCHANGED <<said, closings>>

RecordClosing(l2, t) ==
    /\ Known(l2, t) /\ threads[l2][t].status = "closed"
    /\ closings[l2][t] = 0
    /\ closings' = [closings EXCEPT ![l2][t] = 1]
    /\ UNCHANGED <<threads, said>>

\* One end of a thread says something on it.
Say(m, t, author) ==
    LET l2 == HomeOf[author] IN
    /\ \A other \in L2s : ~Heard(other, m)
    /\ Known(l2, t) /\ author \in Ends(threads[l2][t])
    /\ \E body \in {"full", "redacted"} :
          said' = [said EXCEPT ![l2][m] = [thread |-> t, author |-> author, body |-> body]]
    /\ UNCHANGED <<threads, closings>>

\* A copy of the author's message, at one of the two ends of its thread.
CopyEntry(l2, m) ==
    /\ ~Heard(l2, m)
    /\ \E origin \in L2s :
          LET row == said[origin][m] IN
          /\ Heard(origin, m) /\ origin = HomeOf[row.author]
          /\ Known(l2, row.thread) /\ l2 \in HomesOf(threads[l2][row.thread])
          /\ said' = [said EXCEPT ![l2][m] = row]
    /\ UNCHANGED <<threads, closings>>

\* Only what has reached the other side is confirmed, and no confirmation is
\* taken back.
Confirm ==
    /\ confirmed \subseteq confirmed'
    /\ \A c \in confirmed' \ confirmed : Reached(c)'

Recorded ==
    \/ \E t \in Ids, from \in Personas, to \in Personas : OpenThread(t, from, to)
    \/ \E l2 \in L2s, t \in Ids :
          CopyThread(l2, t) \/ CloseThread(l2, t) \/ RecordClosing(l2, t)
    \/ \E m \in Ids, t \in Ids, author \in Personas : Say(m, t, author)
    \/ \E l2 \in L2s, m \in Ids : CopyEntry(l2, m)

RecordNext == Confirm /\ (Recorded \/ UNCHANGED <<threads, said, closings>>)

RecordSpec == RecordInit /\ [][RecordNext]_rvars
=============================================================================
