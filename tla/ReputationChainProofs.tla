----------------------- MODULE ReputationChainProofs -----------------------
(***************************************************************************)
(* Theorems about ReputationChain, for any Enterprises, event ids, days    *)
(* and seconds, and any pages, refusals, faults and crashes.               *)
(*                                                                         *)
(* The inductive invariant is about the two databases the server can write *)
(* from: what is committed, and what store._conn sees when it still can    *)
(* write.  Both are whole, and the second holds everything the first does: *)
(* nobody commits while _conn has written, and a commit while it has only  *)
(* read makes its snapshot too old to write from.                          *)
(***************************************************************************)
EXTENDS ReputationChain, TLAPS

Clocks   == [day : Days, sec : Seconds]
Contents == [ent : Enterprises, day : Days, leaves : SUBSET EventIds]

StoreTypeOK ==
    /\ db \in Database /\ view \in Database
    /\ txn \in {"none", "begun", "snapshot", "stale", "writing"}
    /\ lock \in {"free", "conn", "other"}
    /\ clock \in Clocks

LoopTypeOK ==
    /\ loopDay \in Days /\ rolling \subseteq Enterprises /\ (rolling # {} => up /\ loopDay > 0)
    /\ page \subseteq Root /\ posting \subseteq Root /\ marking \subseteq Root
    /\ delivered \subseteq Contents

\* One root at most of an Enterprise and day, none of it from the future, and
\* one computed after its day has all of the day's events.
OneRoot(d) == \A r, q \in d.roots : r.ent = q.ent /\ r.day = q.day => r = q
Timely(d)  == \A r \in d.roots : r.asOf <= clock.day
Complete(d) ==
    \A r \in d.roots : r.asOf > r.day => r.leaves = DayEvents(d, r.ent, r.day)

Whole(d) == Linked(d) /\ OneRoot(d) /\ Timely(d) /\ Complete(d)

\* e has what d has.
Extended(d, e) ==
    /\ \A ent \in Enterprises :
          /\ Len(d.log[ent]) <= Len(e.log[ent])
          /\ \A i \in DOMAIN d.log[ent] : e.log[ent][i] = d.log[ent][i]
    /\ d.roots \subseteq e.roots

StoreInv ==
    /\ Whole(db)
    /\ txn = "snapshot" => view = db
    /\ txn = "writing" <=> lock = "conn"
    /\ txn = "writing" => Whole(view) /\ Extended(db, view) /\ view.roots = db.roots

\* Whatever the publish loop holds, and the directory has, is a committed root.
Committed(c) == \E r \in db.roots : Content(r) = c

PublishInv ==
    /\ \A r \in page \cup posting \cup marking : Committed(Content(r))
    /\ \A c \in delivered : Committed(c)
    /\ \A r \in marking : Content(r) \in delivered
    /\ \A r \in db.roots : r.published => Content(r) \in delivered

ChainInv ==
    /\ StoreTypeOK /\ LoopTypeOK
    /\ StoreInv /\ PublishInv

-----------------------------------------------------------------------------
(* The tables.                                                             *)

LEMMA EmptyWhole == EmptyDatabase \in Database /\ Whole(EmptyDatabase) /\ EmptyDatabase.roots = {}
  <1>1. EmptyDatabase \in Database /\ EmptyDatabase.roots = {}
    BY DEF EmptyDatabase, Database
  <1>2. Linked(EmptyDatabase)
    BY DEF EmptyDatabase, Linked
  <1> QED BY <1>1, <1>2 DEF Whole, OneRoot, Timely, Complete

LEMMA ExtendedTransitive ==
    ASSUME NEW c \in Database, NEW d \in Database, NEW e \in Database, Extended(c, d), Extended(d, e)
    PROVE  Extended(c, e)
  <1>1. \A ent \in Enterprises : /\ c.log[ent] \in Seq(Event) /\ d.log[ent] \in Seq(Event)
                                 /\ e.log[ent] \in Seq(Event)
    BY DEF Database
  <1>2. ASSUME NEW ent \in Enterprises
        PROVE  /\ Len(c.log[ent]) <= Len(e.log[ent])
               /\ \A i \in DOMAIN c.log[ent] : e.log[ent][i] = c.log[ent][i]
    <2>1. /\ Len(c.log[ent]) <= Len(d.log[ent]) /\ Len(d.log[ent]) <= Len(e.log[ent])
          /\ \A i \in DOMAIN c.log[ent] : d.log[ent][i] = c.log[ent][i]
          /\ \A i \in DOMAIN d.log[ent] : e.log[ent][i] = d.log[ent][i]
      BY DEF Extended
    <2>2. \A i \in DOMAIN c.log[ent] : i \in DOMAIN d.log[ent]
      BY <1>1, <2>1
    <2>3. Len(c.log[ent]) <= Len(e.log[ent])
      BY <1>1, <2>1
    <2> QED BY <2>1, <2>2, <2>3
  <1>3. c.roots \subseteq e.roots
    BY DEF Extended
  <1> QED BY <1>2, <1>3 DEF Extended

LEMMA ExtendedReflexive ==
    ASSUME NEW d \in Database
    PROVE  Extended(d, d)
  <1>1. \A ent \in Enterprises : d.log[ent] \in Seq(Event)
    BY DEF Database
  <1> QED BY <1>1 DEF Extended

\* A database is the record of its three tables.
LEMMA LogUpdates ==
    ASSUME NEW d \in Database, NEW x \in [Enterprises -> Seq(Event)],
           NEW y \in [Enterprises -> EventIds \cup {Genesis}]
    PROVE  [d EXCEPT !.log = x, !.tail = y] = [log |-> x, tail |-> y, roots |-> d.roots]
  <1>1. [d EXCEPT !.log = x] = [log |-> x, tail |-> d.tail, roots |-> d.roots]
    <2>1. d = [log |-> d.log, tail |-> d.tail, roots |-> d.roots]
      BY DEF Database
    <2> QED BY <2>1
  <1>2. [[log |-> x, tail |-> d.tail, roots |-> d.roots] EXCEPT !.tail = y] =
           [log |-> x, tail |-> y, roots |-> d.roots]
    OBVIOUS
  <1> QED BY <1>1, <1>2

LEMMA RootsUpdates ==
    ASSUME NEW d \in Database, NEW x \in SUBSET Root
    PROVE  [d EXCEPT !.roots = x] = [log |-> d.log, tail |-> d.tail, roots |-> x]
  BY DEF Database

\* What record_event writes.
LEMMA AppendedFields ==
    ASSUME clock \in Clocks,
           NEW d \in Database, NEW ent \in Enterprises, NEW id \in EventIds
    PROVE  /\ AppendEvent(d, ent, id) \in Database
           /\ AppendEvent(d, ent, id).roots = d.roots
           /\ AppendEvent(d, ent, id).log = [d.log EXCEPT ![ent] = Append(d.log[ent], NewEvent(d, ent, id))]
           /\ AppendEvent(d, ent, id).tail = [d.tail EXCEPT ![ent] = id]
           /\ NewEvent(d, ent, id) \in Event /\ NewEvent(d, ent, id).id = id
           /\ NewEvent(d, ent, id).prev = d.tail[ent] /\ NewEvent(d, ent, id).day = clock.day
  <1>1. /\ NewEvent(d, ent, id) \in Event /\ NewEvent(d, ent, id).id = id
        /\ NewEvent(d, ent, id).prev = d.tail[ent] /\ NewEvent(d, ent, id).day = clock.day
    BY DEF NewEvent, Event, Database, Clocks
  <1>2. /\ d.log \in [Enterprises -> Seq(Event)] /\ d.roots \in SUBSET Root
        /\ d.tail \in [Enterprises -> EventIds \cup {Genesis}]
    BY DEF Database
  <1>3. Append(d.log[ent], NewEvent(d, ent, id)) \in Seq(Event)
    BY <1>1, <1>2
  <1>4. [d.log EXCEPT ![ent] = Append(d.log[ent], NewEvent(d, ent, id))] \in [Enterprises -> Seq(Event)]
    BY <1>2, <1>3
  <1>5. [d.tail EXCEPT ![ent] = id] \in [Enterprises -> EventIds \cup {Genesis}]
    BY <1>2
  <1>6. AppendEvent(d, ent, id) =
           [log |-> [d.log EXCEPT ![ent] = Append(d.log[ent], NewEvent(d, ent, id))],
            tail |-> [d.tail EXCEPT ![ent] = id], roots |-> d.roots]
    BY <1>4, <1>5, LogUpdates DEF AppendEvent
  <1> QED BY <1>1, <1>2, <1>4, <1>5, <1>6 DEF Database

LEMMA AppendedWhole ==
    ASSUME clock \in Clocks, NEW d \in Database, Whole(d),
           NEW ent \in Enterprises, NEW id \in EventIds
    PROVE  /\ Whole(AppendEvent(d, ent, id)) /\ Extended(d, AppendEvent(d, ent, id))
  <1> DEFINE e == AppendEvent(d, ent, id)
             new == NewEvent(d, ent, id)
             old == d.log[ent]
  <1>1. /\ e \in Database /\ e.roots = d.roots
        /\ e.log[ent] = Append(old, new) /\ e.tail[ent] = id
        /\ \A x \in Enterprises \ {ent} : e.log[x] = d.log[x] /\ e.tail[x] = d.tail[x]
        /\ new \in Event /\ new.id = id /\ new.prev = d.tail[ent] /\ new.day = clock.day
    <2>1. d.log \in [Enterprises -> Seq(Event)] /\ d.tail \in [Enterprises -> EventIds \cup {Genesis}]
      BY DEF Database
    <2>2. e.log = [d.log EXCEPT ![ent] = Append(old, new)] /\ e.tail = [d.tail EXCEPT ![ent] = id]
      BY AppendedFields
    <2>3. e \in Database /\ new \in Event
      BY AppendedFields
    <2>4. e.roots = d.roots
      BY DEF AppendEvent, Database
    <2>5. new.id = id /\ new.prev = d.tail[ent] /\ new.day = clock.day
      BY DEF NewEvent
    <2> HIDE DEF e, new
    <2> QED BY <2>1, <2>2, <2>3, <2>4, <2>5
  <1>2. /\ old \in Seq(Event) /\ Len(old) \in Nat /\ DOMAIN old = 1 .. Len(old)
        /\ \A x \in Enterprises : d.log[x] \in Seq(Event) /\ Len(d.log[x]) \in Nat
    BY DEF Database
  <1> HIDE DEF e, new
  <1>3. /\ Len(e.log[ent]) = Len(old) + 1 /\ DOMAIN e.log[ent] = 1 .. Len(old) + 1
        /\ e.log[ent][Len(old) + 1] = new /\ \A i \in 1 .. Len(old) : e.log[ent][i] = old[i]
        /\ e.log[ent] # <<>>
    BY <1>1, <1>2
  <1>4. Extended(d, e)
    <2>1. ASSUME NEW x \in Enterprises
          PROVE  /\ Len(d.log[x]) <= Len(e.log[x])
                 /\ \A i \in DOMAIN d.log[x] : e.log[x][i] = d.log[x][i]
      <3>1. CASE x = ent
        <4>1. d.log[x] = old /\ Len(old) <= Len(old) + 1
          BY <1>2, <3>1
        <4> QED BY <1>2, <1>3, <3>1, <4>1
      <3>2. CASE x # ent
        <4>1. e.log[x] = d.log[x]
          BY <1>1, <3>2
        <4> QED BY <1>2, <4>1
      <3> QED BY <3>1, <3>2
    <2> QED BY <1>1, <2>1 DEF Extended
  <1>5. /\ \A i \in DOMAIN old : old[i].prev = IF i = 1 THEN Genesis ELSE old[i - 1].id
        /\ d.tail[ent] = IF old = <<>> THEN Genesis ELSE old[Len(old)].id
    BY DEF Whole, Linked
  <1>6. \A i \in DOMAIN e.log[ent] :
           e.log[ent][i].prev = IF i = 1 THEN Genesis ELSE e.log[ent][i - 1].id
    <2> SUFFICES ASSUME NEW i \in 1 .. Len(old) + 1
                 PROVE  e.log[ent][i].prev = IF i = 1 THEN Genesis ELSE e.log[ent][i - 1].id
      BY <1>3
    <2>1. CASE i \in 1 .. Len(old)
      <3>1. e.log[ent][i] = old[i] /\ (i # 1 => e.log[ent][i - 1] = old[i - 1])
        <4>1. i # 1 => i - 1 \in 1 .. Len(old)
          BY <1>2, <2>1
        <4> QED BY <1>3, <2>1, <4>1
      <3> QED BY <1>2, <1>5, <2>1, <3>1
    <2>2. CASE i = Len(old) + 1
      <3>1. e.log[ent][i].prev = d.tail[ent]
        BY <1>1, <1>3, <2>2
      <3>2. CASE old = <<>>
        BY <1>5, <2>2, <3>1, <3>2
      <3>3. CASE old # <<>>
        <4>1. Len(old) \in 1 .. Len(old) /\ i - 1 = Len(old) /\ i # 1
          BY <1>2, <2>2, <3>3
        <4> QED BY <1>3, <1>5, <3>1, <3>3, <4>1
      <3> QED BY <3>2, <3>3
    <2>3. i \in 1 .. Len(old) \/ i = Len(old) + 1
      BY <1>2
    <2> QED BY <2>1, <2>2, <2>3, Zenon
  <1>7. Linked(e)
    <2>1. ASSUME NEW x \in Enterprises
          PROVE  /\ \A i \in DOMAIN e.log[x] :
                        e.log[x][i].prev = IF i = 1 THEN Genesis ELSE e.log[x][i - 1].id
                 /\ e.tail[x] = IF e.log[x] = <<>> THEN Genesis ELSE e.log[x][Len(e.log[x])].id
      <3>1. CASE x = ent
        BY <1>1, <1>3, <1>6, <3>1
      <3>2. CASE x # ent
        BY <1>1, <3>2 DEF Whole, Linked
      <3> QED BY <3>1, <3>2
    <2> QED BY <2>1 DEF Linked
  <1>8. ASSUME NEW x \in Enterprises, NEW day \in Days, day # clock.day
        PROVE  DayEvents(e, x, day) = DayEvents(d, x, day)
    <2>1. CASE x # ent
      BY <1>1, <2>1 DEF DayEvents
    <2>2. CASE x = ent
      <3>1. {j \in DOMAIN e.log[ent] : e.log[ent][j].day = day} = {j \in DOMAIN old : old[j].day = day}
        <4>1. \A j \in 1 .. Len(old) + 1 : j \in 1 .. Len(old) \/ j = Len(old) + 1
          BY <1>2
        <4>2. \A j \in 1 .. Len(old) : j \in 1 .. Len(old) + 1
          BY <1>2
        <4> QED BY <1>1, <1>2, <1>3, <1>8, <4>1, <4>2
      <3>2. \A j \in DOMAIN old : e.log[ent][j].id = old[j].id
        BY <1>2, <1>3
      <3> HIDE DEF old
      <3>3. DayEvents(e, ent, day) = {e.log[ent][j].id : j \in {k \in DOMAIN old : old[k].day = day}}
        BY <3>1 DEF DayEvents, OnDay
      <3>4. DayEvents(d, ent, day) = {old[j].id : j \in {k \in DOMAIN old : old[k].day = day}}
        BY DEF DayEvents, OnDay, old
      <3> QED BY <2>2, <3>2, <3>3, <3>4
    <2> QED BY <2>1, <2>2
  <1>9. \A r \in e.roots : r.ent \in Enterprises /\ r.day \in Days /\ r.asOf \in Days
    BY <1>1 DEF Database, Root
  <1>10. OneRoot(e) /\ Timely(e)
    BY <1>1 DEF Whole, OneRoot, Timely
  <1>11. Complete(e)
    BY <1>1, <1>8, <1>9, <1>10, ConstantsAssumption DEF Whole, Timely, Complete, Days, Clocks
  <1> QED BY <1>4, <1>7, <1>10, <1>11 DEF Whole, e

\* What compute_root_for_day writes.
LEMMA InsertedWhole ==
    ASSUME clock \in Clocks, NEW d \in Database, Whole(d),
           NEW ent \in Enterprises, NEW day \in Days, ~HasRoot(d, ent, day)
    PROVE  /\ InsertRoot(d, ent, day) \in Database
           /\ Whole(InsertRoot(d, ent, day)) /\ Extended(d, InsertRoot(d, ent, day))
           /\ \A r \in InsertRoot(d, ent, day).roots : r \in d.roots \/ ~r.published
  <1> DEFINE new == [ent |-> ent, day |-> day, leaves |-> DayEvents(d, ent, day),
                     asOf |-> clock.day, published |-> FALSE]
             e == InsertRoot(d, ent, day)
  <1>1. /\ d.log \in [Enterprises -> Seq(Event)] /\ d.roots \in SUBSET Root
        /\ d.tail \in [Enterprises -> EventIds \cup {Genesis}]
    BY DEF Database
  <1>3. DayEvents(d, ent, day) \subseteq EventIds
    <2>1. \A j \in DOMAIN d.log[ent] : d.log[ent][j].id \in EventIds
      <3>1. \A j \in DOMAIN d.log[ent] : d.log[ent][j] \in Event
        BY <1>1
      <3> QED BY <3>1 DEF Event
    <2> QED BY <2>1 DEF DayEvents
  <1>4. new \in Root
    BY <1>3 DEF Root, Clocks
  <1>2. e = [log |-> d.log, tail |-> d.tail, roots |-> d.roots \cup {new}]
    <2>1. d.roots \cup {new} \in SUBSET Root BY <1>1, <1>4
    <2> QED BY <2>1, RootsUpdates DEF InsertRoot
  <1>5. e \in Database
    <2>1. d.roots \cup {new} \in SUBSET Root BY <1>1, <1>4
    <2> HIDE DEF new
    <2> QED BY <1>1, <1>2, <2>1 DEF Database
  <1>6. /\ new.ent = ent /\ new.day = day /\ new.leaves = DayEvents(d, ent, day)
        /\ new.asOf = clock.day /\ ~new.published
    OBVIOUS
  <1>7. e.log = d.log /\ e.tail = d.tail /\ e.roots = d.roots \cup {new}
    BY <1>2
  <1> HIDE DEF new, e
  <1>8. Linked(e)
    BY <1>7 DEF Whole, Linked
  <1>9. OneRoot(e)
    BY <1>6, <1>7 DEF Whole, OneRoot, HasRoot
  <1>10. Timely(e)
    BY <1>6, <1>7, ConstantsAssumption DEF Whole, Timely, Days, Clocks
  <1>11. Complete(e)
    BY <1>6, <1>7 DEF Whole, Complete, DayEvents
  <1>12. Extended(d, e)
    BY <1>1, <1>7 DEF Extended
  <1> QED BY <1>5, <1>6, <1>7, <1>8, <1>9, <1>10, <1>11, <1>12 DEF Whole, e

-----------------------------------------------------------------------------
(* Steps of the store. Each leaves it whole, and what is committed stays.   *)

StoreOK == StoreTypeOK /\ StoreInv

\* Committed rows stay, and new roots are not published.
Advance ==
    /\ Extended(db, db')
    /\ \A r \in db'.roots : r \in db.roots \/ ~r.published

LEMMA SeenWhole ==
    ASSUME StoreOK, CanWrite
    PROVE  /\ Seen \in Database /\ Whole(Seen)
           /\ Extended(db, Seen) /\ Seen.roots = db.roots
  <1>1. db \in Database /\ Whole(db) /\ Extended(db, db) /\ txn # "stale"
    BY ExtendedReflexive DEF StoreOK, StoreTypeOK, StoreInv, CanWrite
  <1>2. CASE txn = "writing"
    BY <1>2 DEF StoreOK, StoreTypeOK, StoreInv, Seen
  <1>3. CASE txn # "writing"
    BY <1>1, <1>3 DEF StoreOK, StoreTypeOK, StoreInv, Seen
  <1> QED BY <1>2, <1>3

\* A commit of _conn, or a statement of it outside a transaction.
LEMMA CommitStep ==
    ASSUME StoreOK, clock' = clock, NEW d \in Database, Whole(d), Extended(db, d),
           \A r \in d.roots : r \in db.roots \/ ~r.published,
           \/ Commit(d)
           \/ txn = "none" /\ db' = d /\ UNCHANGED <<view, txn, lock>>
    PROVE  StoreOK' /\ Advance /\ txn' = "none"
  <1>1. db' = d /\ txn' = "none" /\ lock' \in {"free", "other"} /\ view' \in Database
    BY EmptyWhole DEF StoreOK, StoreTypeOK, StoreInv, Commit
  <1>2. StoreTypeOK'
    BY <1>1 DEF StoreOK, StoreTypeOK
  <1>3. Whole(db)'
    BY <1>1 DEF Whole, Timely
  <1>4. StoreInv'
    BY <1>1, <1>3 DEF StoreInv
  <1> QED BY <1>1, <1>2, <1>4 DEF StoreOK, Advance

LEMMA WriteStep ==
    ASSUME StoreOK, clock' = clock, CanWrite, NEW d \in Database, Whole(d), Extended(db, d),
           d.roots = db.roots, Write(d)
    PROVE  StoreOK' /\ Advance
  <1>1. CASE txn = "none"
    <2>1. \A r \in d.roots : r \in db.roots \/ ~r.published
      OBVIOUS
    <2> QED BY <1>1, <2>1, CommitStep DEF Write
  <1>2. CASE txn # "none"
    <2>1. view' = d /\ txn' = "writing" /\ lock' = "conn" /\ db' = db
      BY <1>2 DEF Write
    <2>2. Whole(db)' /\ Whole(view)'
      BY <2>1 DEF StoreOK, StoreInv, Whole, Timely
    <2>3. StoreTypeOK'
      BY <2>1 DEF StoreOK, StoreTypeOK
    <2>4. StoreInv'
      BY <2>1, <2>2 DEF StoreInv
    <2>5. Advance
      BY <2>1, ExtendedReflexive DEF Advance, StoreOK, StoreTypeOK
    <2> QED BY <1>2, <2>3, <2>4, <2>5 DEF StoreOK
  <1> QED BY <1>1, <1>2

LEMMA ReadStep ==
    ASSUME StoreOK, clock' = clock, Read
    PROVE  StoreOK' /\ Advance
  <1>1. db' = db /\ lock' = lock
    BY DEF Read, chainVars
  <1>2. Advance
    BY <1>1, ExtendedReflexive DEF Advance, StoreOK, StoreTypeOK
  <1>3. CASE txn = "begun"
    <2>1. view' = db /\ txn' = "snapshot"
      BY <1>3 DEF Read
    <2>2. Whole(db)'
      BY <1>1 DEF StoreOK, StoreInv, Whole, Timely
    <2>3. StoreTypeOK' /\ StoreInv'
      BY <1>1, <1>3, <2>1, <2>2 DEF StoreOK, StoreTypeOK, StoreInv
    <2> QED BY <1>2, <1>3, <2>3 DEF StoreOK
  <1>4. CASE txn # "begun"
    <2>1. view' = view /\ txn' = txn
      BY <1>4 DEF Read, chainVars
    <2>2. Whole(db)' /\ (Whole(view) => Whole(view)')
      BY <1>1, <2>1 DEF StoreOK, StoreInv, Whole, Timely
    <2>3. StoreTypeOK' /\ StoreInv'
      BY <1>1, <2>1, <2>2 DEF StoreOK, StoreTypeOK, StoreInv
    <2> QED BY <1>2, <2>1, <2>3 DEF StoreOK
  <1> QED BY <1>3, <1>4

\* A commit of another connection, which has the lock: _conn has not written.
LEMMA OvertakeStep ==
    ASSUME StoreOK, clock' = clock, lock # "conn", lock' # "conn", lock' \in {"free", "other"},
           NEW d \in Database, db' = d, Whole(d), view' = view, txn' = Overtaken
    PROVE  StoreOK'
  <1>1. /\ txn \in {"none", "begun", "snapshot", "stale"}
        /\ txn' \in {"none", "begun", "stale"}
    BY DEF StoreOK, StoreTypeOK, StoreInv, Overtaken
  <1>2. Whole(db)'
    BY DEF Whole, Timely
  <1>3. StoreTypeOK' /\ StoreInv'
    BY <1>1, <1>2 DEF StoreOK, StoreTypeOK, StoreInv
  <1> QED BY <1>1, <1>3 DEF StoreOK

\* Time passes, or nothing happens to the store.
LEMMA QuietStore ==
    ASSUME StoreOK, UNCHANGED chainVars, clock' \in Clocks, clock.day <= clock'.day
    PROVE  StoreOK' /\ Advance /\ txn' = txn
  <1>1. \A d \in Database : \A r \in d.roots : r.asOf \in Days
    BY DEF Database, Root
  <1>2. ASSUME NEW d \in Database, Timely(d), NEW r \in d.roots PROVE r.asOf <= clock'.day
    BY <1>1, <1>2, ConstantsAssumption DEF Timely, StoreOK, StoreTypeOK, Clocks, Days
  <1>3. Whole(db)' /\ (Whole(view) => Whole(view)')
    BY <1>2 DEF StoreOK, StoreTypeOK, StoreInv, Whole, Timely, chainVars
  <1>4. StoreTypeOK' /\ StoreInv'
    BY <1>3 DEF StoreOK, StoreTypeOK, StoreInv, chainVars
  <1>5. Advance
    BY ExtendedReflexive DEF Advance, StoreOK, StoreTypeOK, chainVars
  <1> QED BY <1>4, <1>5 DEF StoreOK, chainVars

-----------------------------------------------------------------------------
(* Steps of the system.                                                     *)

\* What is committed stays, but for a root that becomes published.
Grew ==
    /\ \A ent \in Enterprises :
          /\ Len(db.log[ent]) <= Len(db'.log[ent])
          /\ \A i \in DOMAIN db.log[ent] : db'.log[ent][i] = db.log[ent][i]
    /\ \A r \in db.roots :
          \/ r \in db'.roots
          \/ ~r.published /\ [r EXCEPT !.published = TRUE] \in db'.roots

\* A step that gives the publish loop nothing new.
LEMMA PublishKept ==
    ASSUME PublishInv, Advance, UNCHANGED delivered,
           \A r \in page' \cup posting' \cup marking' :
              r \in page \cup posting \cup marking \cup db.roots,
           marking' \subseteq marking
    PROVE  PublishInv'
  <1>1. \A c : Committed(c) => Committed(c)'
    BY DEF Committed, Advance, Extended
  <1>2. \A r \in db.roots : Committed(Content(r))
    BY DEF Committed
  <1>3. \A r \in page' \cup posting' \cup marking' : Committed(Content(r))'
    BY <1>1, <1>2 DEF PublishInv
  <1>4. \A c \in delivered' : Committed(c)'
    BY <1>1 DEF PublishInv
  <1>5. \A r \in db'.roots : r.published => Content(r) \in delivered'
    BY DEF PublishInv, Advance
  <1>6. \A r \in marking' : Content(r) \in delivered'
    BY DEF PublishInv
  <1> QED BY <1>3, <1>4, <1>5, <1>6 DEF PublishInv

LEMMA StoreStep ==
    ASSUME ChainInv, StoreOK', Advance, UNCHANGED <<faults, up, loopVars, publishVars>>
    PROVE  ChainInv' /\ Grew
  <1>1. LoopTypeOK'
    BY DEF ChainInv, LoopTypeOK, loopVars, publishVars
  <1>2. PublishInv'
    BY PublishKept DEF ChainInv, publishVars
  <1> QED BY <1>1, <1>2 DEF ChainInv, StoreOK, Grew, Advance, Extended

LEMMA ChainStep ==
    ASSUME ChainInv, Chain, faults' = faults
    PROVE  ChainInv' /\ Grew
  <1>1. StoreOK /\ db \in Database /\ Whole(db) /\ Extended(db, db)
    BY ExtendedReflexive DEF ChainInv, StoreOK, StoreTypeOK, StoreInv
  <1>2. UNCHANGED <<faults, clock, up, loopVars, publishVars>>
    BY DEF Chain, RecordFails, ListEvents, RecordEvent, ComputeRoot, ComputeRootFails
  <1>3. CASE RecordFails \/ ListEvents
    <2>1. Read BY <1>3 DEF RecordFails, ListEvents
    <2> QED BY <1>1, <1>2, <2>1, ReadStep, StoreStep
  <1>4. ASSUME NEW ent \in Enterprises, RecordEvent(ent) PROVE ChainInv' /\ Grew
    <2>1. CanWrite /\ Seen \in Database /\ Whole(Seen) /\ Extended(db, Seen) /\ Seen.roots = db.roots
      BY <1>1, <1>4, SeenWhole DEF RecordEvent
    <2>2. PICK id \in EventIds : Write(AppendEvent(Seen, ent, id)) \/ Write(Seen)
      BY <1>4 DEF RecordEvent, UndoEvent
    <2>3. CASE Write(Seen)
      BY <1>1, <1>2, <2>1, <2>3, WriteStep, StoreStep
    <2>4. CASE Write(AppendEvent(Seen, ent, id))
      <3> DEFINE d == AppendEvent(Seen, ent, id)
      <3>1. clock \in Clocks
        BY DEF ChainInv, StoreTypeOK
      <3>2. d \in Database
        BY <2>1, <3>1, AppendedFields
      <3>3. d.roots = db.roots
        BY <2>1 DEF AppendEvent, Database
      <3>4. Whole(d) /\ Extended(Seen, d)
        BY <2>1, <3>1, AppendedWhole
      <3>5. Extended(db, d)
        BY <1>1, <2>1, <3>2, <3>4, ExtendedTransitive
      <3> HIDE DEF d
      <3> QED BY <1>1, <1>2, <2>1, <2>4, <3>2, <3>3, <3>4, <3>5, WriteStep, StoreStep DEF d
    <2> QED BY <2>2, <2>3, <2>4
  <1>5. ASSUME NEW ent \in Enterprises, NEW day \in Days, ComputeRoot(ent, day)
        PROVE  ChainInv' /\ Grew
    <2>1. CASE HasRoot(Seen, ent, day) /\ Commit(IF txn = "writing" THEN view ELSE db)
      <3>1. PICK d \in Database : /\ Commit(d) /\ Whole(d) /\ Extended(db, d)
                                  /\ d.roots = db.roots
        BY <1>1, <2>1 DEF StoreOK, StoreTypeOK, StoreInv
      <3>2. \A r \in d.roots : r \in db.roots \/ ~r.published
        BY <3>1
      <3> QED BY <1>1, <1>2, <3>1, <3>2, CommitStep, StoreStep
    <2>2. CASE ~HasRoot(Seen, ent, day) /\ CanWrite /\ Commit(InsertRoot(Seen, ent, day))
      <3> DEFINE d == InsertRoot(Seen, ent, day)
      <3>1. Seen \in Database /\ Whole(Seen) /\ Extended(db, Seen) /\ Seen.roots = db.roots
        BY <1>1, <2>2, SeenWhole
      <3>2. clock \in Clocks
        BY DEF ChainInv, StoreTypeOK
      <3>3. /\ d \in Database /\ Whole(d) /\ Extended(Seen, d)
            /\ \A r \in d.roots : r \in Seen.roots \/ ~r.published
        BY <2>2, <3>1, <3>2, InsertedWhole
      <3>4. Extended(db, d)
        BY <1>1, <3>1, <3>3, ExtendedTransitive
      <3> HIDE DEF d
      <3> QED BY <1>1, <1>2, <2>2, <3>1, <3>3, <3>4, CommitStep, StoreStep DEF d
    <2> QED BY <1>5, <2>1, <2>2 DEF ComputeRoot
  <1>6. ASSUME NEW ent \in Enterprises, NEW day \in Days, ComputeRootFails(ent, day)
        PROVE  ChainInv' /\ Grew
    <2>1. CASE txn = "none"
      <3>1. txn' = "begun" /\ UNCHANGED <<db, view, lock, clock>>
        BY <1>6, <2>1 DEF ComputeRootFails
      <3>2. Whole(db)'
        BY <1>1, <3>1 DEF Whole, Timely
      <3>3. StoreOK' /\ Advance
        BY <1>1, <2>1, <3>1, <3>2 DEF StoreOK, StoreTypeOK, StoreInv, Advance
      <3> QED BY <1>2, <3>1, <3>3, StoreStep
    <2>2. CASE txn # "none"
      <3>1. Read
        BY <1>6, <2>2 DEF ComputeRootFails
      <3> QED BY <1>1, <1>2, <3>1, ReadStep, StoreStep
    <2> QED BY <2>1, <2>2
  <1> QED BY <1>3, <1>4, <1>5, <1>6 DEF Chain

LEMMA DailyLoopStep ==
    ASSUME ChainInv, DailyLoop, faults' = faults
    PROVE  ChainInv' /\ Grew
  <1>1. StoreOK /\ clock \in Clocks /\ clock.day \in Days
        /\ db \in Database /\ Whole(db)
    BY DEF ChainInv, StoreOK, StoreTypeOK, StoreInv, Clocks
  <1>2. UNCHANGED <<faults, clock, publishVars>> /\ clock.day <= clock'.day
    BY <1>1, ConstantsAssumption
       DEF DailyLoop, WakeDailyLoop, RollUp, RollUpFails, Days
  <1>3. LoopTypeOK'
    <2>1. CASE WakeDailyLoop
      <3>1. /\ loopDay' = clock.day /\ clock.day > loopDay /\ rolling' \subseteq Enterprises
            /\ up /\ up' = up
        BY <2>1 DEF WakeDailyLoop, Idle
      <3>2. loopDay' \in Days /\ loopDay' > 0
        BY <1>1, <3>1, ConstantsAssumption DEF ChainInv, LoopTypeOK, Days
      <3> QED BY <1>2, <3>1, <3>2 DEF ChainInv, LoopTypeOK, publishVars
    <2>2. ASSUME NEW ent \in Enterprises, RollUp(ent) \/ RollUpFails(ent) PROVE LoopTypeOK'
      BY <1>2, <2>2 DEF RollUp, RollUpFails, ChainInv, LoopTypeOK, publishVars
    <2> QED BY <2>1, <2>2 DEF DailyLoop
  <1>4. StoreOK' /\ Advance
    <2>1. CASE UNCHANGED chainVars
      BY <1>1, <1>2, <2>1, QuietStore
    <2>2. ASSUME NEW ent \in Enterprises, RollUp(ent), ~HasRoot(db, ent, loopDay - 1)
          PROVE  StoreOK' /\ Advance
      <3> DEFINE d == InsertRoot(db, ent, loopDay - 1)
      <3>1. loopDay - 1 \in Days
        BY <2>2, ConstantsAssumption DEF RollUp, ChainInv, LoopTypeOK, Days
      <3>2. /\ d \in Database /\ Whole(d) /\ Extended(db, d)
            /\ \A r \in d.roots : r \in db.roots \/ ~r.published
        BY <1>1, <2>2, <3>1, InsertedWhole
      <3>3. db' = d /\ txn' = Overtaken /\ lock = "free" /\ view' = view /\ lock' = lock
        BY <2>2 DEF RollUp
      <3> HIDE DEF d
      <3> QED BY <1>1, <1>2, <3>2, <3>3, OvertakeStep DEF Advance
    <2>3. ASSUME NEW ent \in Enterprises, RollUp(ent), HasRoot(db, ent, loopDay - 1)
          PROVE  UNCHANGED chainVars
      BY <2>3 DEF RollUp, chainVars
    <2> QED BY <2>1, <2>2, <2>3 DEF DailyLoop, WakeDailyLoop, RollUpFails
  <1>5. PublishInv'
    BY <1>2, <1>4, PublishKept DEF ChainInv, publishVars
  <1> QED BY <1>1, <1>2, <1>3, <1>4, <1>5 DEF ChainInv, StoreOK, Grew, Advance, Extended

\* The UPDATE of the publish loop, after the directory has answered 2xx.
LEMMA SetPublishedFields ==
    ASSUME NEW r \in Root, db \in Database
    PROVE  /\ SetPublished(r) \in Database
           /\ SetPublished(r).log = db.log /\ SetPublished(r).tail = db.tail
           /\ SetPublished(r).roots = {IF q.ent = r.ent /\ q.day = r.day
                                       THEN [q EXCEPT !.published = TRUE] ELSE q : q \in db.roots}
  <1> DEFINE S == {IF q.ent = r.ent /\ q.day = r.day
                   THEN [q EXCEPT !.published = TRUE] ELSE q : q \in db.roots}
  <1>1. \A q \in Root : [q EXCEPT !.published = TRUE] \in Root
    BY DEF Root
  <1>2. /\ db.log \in [Enterprises -> Seq(Event)] /\ db.roots \in SUBSET Root
        /\ db.tail \in [Enterprises -> EventIds \cup {Genesis}]
    BY DEF Database
  <1>3. S \in SUBSET Root
    BY <1>1, <1>2
  <1>4. SetPublished(r) = [db EXCEPT !.roots = S]
    BY DEF SetPublished
  <1> HIDE DEF S
  <1>5. SetPublished(r) = [log |-> db.log, tail |-> db.tail, roots |-> S]
    BY <1>3, <1>4, RootsUpdates
  <1>6. SetPublished(r) \in Database
    BY <1>2, <1>3, <1>5 DEF Database
  <1> QED BY <1>5, <1>6 DEF S

\* A root that becomes published is the same root in everything else.
LEMMA PublishedRoot ==
    ASSUME NEW q \in Root
    PROVE  LET m == [q EXCEPT !.published = TRUE] IN
           /\ m \in Root /\ m.published /\ (q.published => m = q)
           /\ m.ent = q.ent /\ m.day = q.day /\ m.leaves = q.leaves /\ m.asOf = q.asOf
  BY DEF Root

LEMMA MarkStep ==
    ASSUME ChainInv, NEW r \in marking, MarkPublished(r), faults' = faults
    PROVE  ChainInv' /\ Grew
  <1> DEFINE d == SetPublished(r)
             Marked(q) == [q EXCEPT !.published = TRUE]
             Image(q) == IF q.ent = r.ent /\ q.day = r.day THEN Marked(q) ELSE q
  <1>1. /\ StoreOK /\ db \in Database /\ Whole(db) /\ db.roots \subseteq Root /\ r \in Root
        /\ Content(r) \in delivered /\ Committed(Content(r))
    BY DEF ChainInv, StoreOK, StoreTypeOK, StoreInv, LoopTypeOK, PublishInv, Database
  <1>2. /\ db' = d /\ txn' = Overtaken /\ lock = "free" /\ marking' = {}
        /\ UNCHANGED <<view, lock, clock, up, loopVars, page, posting, delivered>>
    BY DEF MarkPublished
  <1>3. /\ d \in Database /\ d.log = db.log /\ d.tail = db.tail
        /\ d.roots = {Image(q) : q \in db.roots}
    BY <1>1, SetPublishedFields
  <1> HIDE DEF d
  <1>4. ASSUME NEW q \in db.roots
        PROVE  /\ Marked(q) \in Root /\ Marked(q).published /\ (q.published => Marked(q) = q)
               /\ Marked(q).ent = q.ent /\ Marked(q).day = q.day
               /\ Marked(q).leaves = q.leaves /\ Marked(q).asOf = q.asOf
    BY <1>1, PublishedRoot
  <1> HIDE DEF Marked
  <1>5. \A q \in db.roots :
           /\ Image(q).ent = q.ent /\ Image(q).day = q.day
           /\ Image(q).leaves = q.leaves /\ Image(q).asOf = q.asOf
           /\ Image(q) = q \/ (Image(q) = Marked(q) /\ q.ent = r.ent /\ q.day = r.day)
    BY <1>4
  <1> HIDE DEF Image
  <1>6. \A e \in d.roots : \E q \in db.roots : e = Image(q)
    BY <1>3
  <1>7. OneRoot(d)
    BY <1>1, <1>5, <1>6 DEF Whole, OneRoot
  <1>8. Timely(d)
    BY <1>1, <1>5, <1>6 DEF Whole, Timely
  <1>9. Complete(d)
    <2>1. \A ent, day : DayEvents(d, ent, day) = DayEvents(db, ent, day)
      BY <1>3 DEF DayEvents
    <2>2. Complete(db)
      BY <1>1 DEF Whole
    <2> SUFFICES ASSUME NEW e \in d.roots, e.asOf > e.day PROVE e.leaves = DayEvents(d, e.ent, e.day)
      BY DEF Complete
    <2>3. PICK q \in db.roots : e = Image(q)
      BY <1>6
    <2>4. e.ent = q.ent /\ e.day = q.day /\ e.leaves = q.leaves /\ e.asOf = q.asOf
      BY <1>5, <2>3
    <2>5. q.leaves = DayEvents(db, q.ent, q.day)
      BY <2>2, <2>4 DEF Complete
    <2> QED BY <2>1, <2>4, <2>5
  <1>10. Linked(d)
    BY <1>1, <1>3 DEF Whole, Linked
  <1>11. StoreOK'
    BY <1>1, <1>2, <1>3, <1>7, <1>8, <1>9, <1>10, OvertakeStep DEF Whole
  <1>12. Grew
    <2>1. \A ent \in Enterprises : Len(db.log[ent]) \in Nat
      BY <1>1 DEF Database
    <2>2. ASSUME NEW q \in db.roots, q \notin db'.roots
          PROVE  ~q.published /\ [q EXCEPT !.published = TRUE] \in db'.roots
      <3>1. Image(q) \in db'.roots /\ Image(q) = Marked(q) /\ ~q.published
        BY <1>2, <1>3, <1>4, <1>5, <2>2
      <3> QED BY <3>1 DEF Marked
    <2> QED BY <1>2, <1>3, <2>1, <2>2 DEF Grew
  <1>13. \A c : Committed(c) => Committed(c)'
    <2>1. ASSUME NEW q \in db.roots
          PROVE  Image(q) \in db'.roots /\ Content(Image(q)) = Content(q)
      BY <1>2, <1>3, <1>5 DEF Content
    <2> QED BY <2>1 DEF Committed
  <1>14. \A q \in db'.roots : q.published => Content(q) \in delivered
    <2> SUFFICES ASSUME NEW q \in db.roots, Image(q).published
                 PROVE  Content(Image(q)) \in delivered
      BY <1>2, <1>6
    <2>1. Content(Image(q)) = Content(q)
      BY <1>5 DEF Content
    <2>2. CASE Image(q) = q
      BY <2>2 DEF ChainInv, PublishInv
    <2>3. CASE q.ent = r.ent /\ q.day = r.day
      <3>1. PICK x \in db.roots : Content(x) = Content(r)
        BY <1>1 DEF Committed
      <3>2. x.ent = r.ent /\ x.day = r.day
        BY <3>1 DEF Content
      <3>3. x = q
        BY <1>1, <2>3, <3>2 DEF Whole, OneRoot
      <3> QED BY <1>1, <2>1, <3>1, <3>3
    <2> QED BY <1>5, <2>2, <2>3
  <1>15. PublishInv'
    <2>1. \A q \in page' \cup posting' \cup marking' : Committed(Content(q))'
      BY <1>2, <1>13 DEF ChainInv, PublishInv
    <2>2. \A c \in delivered' : Committed(c)'
      BY <1>2, <1>13 DEF ChainInv, PublishInv
    <2> QED BY <1>2, <1>14, <2>1, <2>2 DEF PublishInv
  <1>16. LoopTypeOK'
    BY <1>2 DEF ChainInv, LoopTypeOK, loopVars
  <1> QED BY <1>11, <1>12, <1>15, <1>16 DEF ChainInv, StoreOK

\* The store as it was, in a step of a loop or of time.
LEMMA RestStep ==
    ASSUME ChainInv, faults' = faults, UNCHANGED chainVars,
           clock' \in Clocks, clock.day <= clock'.day,
           LoopTypeOK', PublishInv'
    PROVE  ChainInv' /\ Grew
  <1>1. StoreOK' /\ Advance /\ txn' = txn
    BY QuietStore DEF ChainInv, StoreOK
  <1> QED BY <1>1 DEF ChainInv, StoreOK, Grew, Advance, Extended

LEMMA PublishLoopStep ==
    ASSUME ChainInv, PublishLoop, faults' = faults
    PROVE  ChainInv' /\ Grew
  <1>1. /\ clock \in Clocks /\ clock.day \in Days /\ clock.day <= clock.day
        /\ db.roots \subseteq Root /\ (UNCHANGED chainVars => Advance)
    <2>1. clock \in Clocks /\ db \in Database /\ Extended(db, db)
      BY ExtendedReflexive DEF ChainInv, StoreTypeOK
    <2>2. clock.day \in Days /\ clock.day <= clock.day
      BY <2>1, ConstantsAssumption DEF Clocks, Days
    <2> QED BY <2>1, <2>2 DEF Database, Advance, chainVars
  <1>2. CASE FetchPage
    <2>1. PICK S \in SUBSET Unpublished : page' = S
      BY <1>2 DEF FetchPage
    <2>2. page' \subseteq db.roots /\ UNCHANGED <<chainVars, clock, up, loopVars, posting, marking, delivered>>
      BY <1>2, <2>1 DEF FetchPage, Unpublished
    <2>3. LoopTypeOK'
      BY <1>1, <2>2 DEF ChainInv, StoreTypeOK, Database, LoopTypeOK, loopVars
    <2>4. PublishInv'
      BY <1>1, <2>2, PublishKept DEF ChainInv
    <2> QED BY <1>1, <2>2, <2>3, <2>4, RestStep
  <1>3. ASSUME NEW r \in page, Post(r) PROVE ChainInv' /\ Grew
    <2>1. /\ page' = page \ {r} /\ posting' = {r}
          /\ UNCHANGED <<chainVars, clock, up, loopVars, marking, delivered>>
      BY <1>3 DEF Post
    <2>2. LoopTypeOK'
      BY <2>1 DEF ChainInv, LoopTypeOK, loopVars
    <2>3. PublishInv'
      BY <1>1, <2>1, PublishKept DEF ChainInv
    <2> QED BY <1>1, <2>1, <2>2, <2>3, RestStep
  <1>4. ASSUME NEW r \in posting, DirectoryStores(r) PROVE ChainInv' /\ Grew
    <2>1. /\ delivered' = delivered \cup {Content(r)}
          /\ UNCHANGED <<chainVars, clock, up, loopVars, page, posting, marking>>
      BY <1>4 DEF DirectoryStores
    <2>2. Content(r) \in Contents /\ Committed(Content(r))
      BY DEF ChainInv, LoopTypeOK, PublishInv, Root, Content, Contents
    <2>3. LoopTypeOK'
      BY <2>1, <2>2 DEF ChainInv, LoopTypeOK, loopVars
    <2>4. db' = db
      BY <2>1 DEF chainVars
    <2>5. \A c : Committed(c)' <=> Committed(c)
      BY <2>4 DEF Committed
    <2>6. PublishInv'
      BY <2>1, <2>2, <2>4, <2>5 DEF ChainInv, PublishInv
    <2> QED BY <1>1, <2>1, <2>3, <2>6, RestStep
  <1>5. ASSUME NEW r \in posting, PostSucceeds(r) PROVE ChainInv' /\ Grew
    <2>1. /\ Content(r) \in delivered /\ posting' = {} /\ marking' = {r}
          /\ UNCHANGED <<chainVars, clock, up, loopVars, page, delivered>>
      BY <1>5 DEF PostSucceeds, Answered2xx
    <2>2. LoopTypeOK'
      BY <2>1 DEF ChainInv, LoopTypeOK, loopVars
    <2>3. db' = db
      BY <2>1 DEF chainVars
    <2>4. \A c : Committed(c)' <=> Committed(c)
      BY <2>3 DEF Committed
    <2>5. PublishInv'
      BY <2>1, <2>3, <2>4 DEF ChainInv, PublishInv
    <2> QED BY <1>1, <2>1, <2>2, <2>5, RestStep
  <1>6. ASSUME NEW r \in posting, PostFails(r) PROVE ChainInv' /\ Grew
    <2>1. posting' = {} /\ UNCHANGED <<chainVars, clock, up, loopVars, page, marking, delivered>>
      BY <1>6 DEF PostFails
    <2>2. LoopTypeOK'
      BY <2>1 DEF ChainInv, LoopTypeOK, loopVars
    <2>3. PublishInv'
      BY <1>1, <2>1, PublishKept DEF ChainInv
    <2> QED BY <1>1, <2>1, <2>2, <2>3, RestStep
  <1>7. ASSUME NEW r \in marking, MarkFails(r) PROVE ChainInv' /\ Grew
    <2>1. /\ marking' = {} /\ page' = {}
          /\ UNCHANGED <<chainVars, clock, up, loopVars, posting, delivered>>
      BY <1>7 DEF MarkFails
    <2>2. LoopTypeOK'
      BY <2>1 DEF ChainInv, LoopTypeOK, loopVars
    <2>3. PublishInv'
      BY <1>1, <2>1, PublishKept DEF ChainInv
    <2> QED BY <1>1, <2>1, <2>2, <2>3, RestStep
  <1> QED BY <1>2, <1>3, <1>4, <1>5, <1>6, <1>7, MarkStep DEF PublishLoop

LEMMA EnvironmentStep ==
    ASSUME ChainInv, Environment, faults' = faults
    PROVE  ChainInv' /\ Grew
  <1>1. /\ StoreOK /\ db \in Database /\ Whole(db) /\ Extended(db, db) /\ clock \in Clocks
        /\ clock.day \in Days /\ clock.sec \in Seconds
    BY ExtendedReflexive DEF ChainInv, StoreOK, StoreTypeOK, StoreInv, Clocks
  <1>2. CASE OtherWriterBegins
    <2>1. lock = "free" /\ lock' = "other" /\ UNCHANGED <<db, view, txn, clock, up, loopVars, publishVars>>
      BY <1>2 DEF OtherWriterBegins
    <2>2. Whole(db)'
      BY <1>1, <2>1 DEF Whole, Timely
    <2>3. StoreOK' /\ Advance
      BY <1>1, <2>1, <2>2 DEF StoreOK, StoreTypeOK, StoreInv, Advance
    <2> QED BY <1>1, <2>1, <2>3, StoreStep
  <1>3. CASE OtherWriterEnds
    <2>1. /\ lock = "other" /\ lock' = "free" /\ txn' = Overtaken
          /\ UNCHANGED <<db, view, clock, up, loopVars, publishVars>>
      BY <1>3 DEF OtherWriterEnds
    <2>2. StoreOK'
      BY <1>1, <2>1, OvertakeStep
    <2>3. Advance
      BY <1>1, <2>1 DEF Advance
    <2> QED BY <1>1, <2>1, <2>2, <2>3, StoreStep
  <1>4. CASE NextSecond \/ NextDay
    <2>1. UNCHANGED <<chainVars, up, loopVars, publishVars>>
      BY <1>4 DEF NextSecond, NextDay
    <2>2. clock' \in Clocks /\ clock.day <= clock'.day
      <3>1. CASE NextSecond
        <4>1. clock' = [clock EXCEPT !.sec = clock.sec + 1] /\ clock.sec + 1 \in Seconds
          BY <1>1, <3>1, ConstantsAssumption DEF NextSecond, Seconds
        <4>2. clock' \in Clocks /\ clock'.day = clock.day
          BY <1>1, <4>1 DEF Clocks
        <4> QED BY <1>1, <4>2, ConstantsAssumption DEF Days
      <3>2. CASE NextDay
        <4>1. clock' = [day |-> clock.day + 1, sec |-> 0] /\ clock.day + 1 \in Days /\ 0 \in Seconds
          BY <1>1, <3>2, ConstantsAssumption DEF NextDay, Days, Seconds
        <4> QED BY <1>1, <4>1, ConstantsAssumption DEF Clocks, Days
      <3> QED BY <1>4, <3>1, <3>2
    <2>3. LoopTypeOK'
      BY <2>1 DEF ChainInv, LoopTypeOK, loopVars, publishVars
    <2>4. Advance
      BY <1>1, <2>1 DEF Advance, chainVars
    <2>5. PublishInv'
      BY <2>1, <2>4, PublishKept DEF ChainInv, publishVars
    <2> QED BY <2>1, <2>2, <2>3, <2>5, RestStep
  <1>5. CASE Crash
    <2>1. /\ txn' = "none" /\ view' = EmptyDatabase
          /\ lock' = IF lock = "conn" THEN "free" ELSE lock
          /\ rolling' = {} /\ page' = {} /\ posting' = {} /\ marking' = {}
          /\ UNCHANGED <<db, clock, loopDay, delivered>>
      BY <1>5 DEF Crash
    <2>2. Whole(db)'
      BY <1>1, <2>1 DEF Whole, Timely
    <2>3. StoreOK' /\ Advance
      BY <1>1, <2>1, <2>2, EmptyWhole DEF StoreOK, StoreTypeOK, StoreInv, Advance
    <2>4. LoopTypeOK'
      BY <2>1 DEF ChainInv, LoopTypeOK
    <2>5. PublishInv'
      BY <2>1, <2>3, PublishKept DEF ChainInv
    <2> QED BY <2>1, <2>3, <2>4, <2>5 DEF ChainInv, StoreOK, Grew, Advance, Extended
  <1>6. CASE Restart
    <2>1. up' /\ loopDay' = clock.day /\ UNCHANGED <<chainVars, clock, rolling, publishVars>> /\ ~up
      BY <1>6 DEF Restart
    <2>2. LoopTypeOK'
      BY <1>1, <2>1 DEF ChainInv, LoopTypeOK, publishVars
    <2>3. Advance /\ clock.day <= clock'.day /\ clock' \in Clocks
      BY <1>1, <2>1, ConstantsAssumption DEF Advance, chainVars, Days
    <2>4. PublishInv'
      BY <2>1, <2>3, PublishKept DEF ChainInv, publishVars
    <2> QED BY <2>1, <2>2, <2>3, <2>4, RestStep
  <1> QED BY <1>2, <1>3, <1>4, <1>5, <1>6 DEF Environment

LEMMA ChainInitially == Init => ChainInv
  <1> SUFFICES ASSUME Init PROVE ChainInv
    OBVIOUS
  <1>1. clock = [day |-> 0, sec |-> 0] /\ clock \in Clocks
    BY ConstantsAssumption DEF Init, Clocks, Days, Seconds
  <1>2. StoreTypeOK
    BY <1>1, EmptyWhole DEF Init, StoreTypeOK
  <1>3. StoreInv
    BY EmptyWhole DEF Init, StoreInv
  <1>4. LoopTypeOK
    BY ConstantsAssumption DEF Init, LoopTypeOK, Days
  <1>5. PublishInv
    BY EmptyWhole DEF Init, PublishInv
  <1> QED BY <1>2, <1>3, <1>4, <1>5 DEF Init, ChainInv

LEMMA ChainNext ==
    ASSUME ChainInv, [Next /\ UNCHANGED faults]_<<faults, vars>>
    PROVE  ChainInv' /\ Grew
  <1>1. CASE UNCHANGED <<faults, vars>>
    <2>1. clock \in Clocks /\ clock.day \in Days
      BY DEF ChainInv, StoreTypeOK, Clocks
    <2>2. /\ UNCHANGED <<chainVars, up, loopVars, publishVars, faults>>
          /\ clock' \in Clocks /\ clock.day <= clock'.day
      BY <1>1, <2>1, ConstantsAssumption DEF vars, chainVars, loopVars, publishVars, Days
    <2>3. StoreOK' /\ Advance /\ txn' = txn
      BY <2>2, QuietStore DEF ChainInv, StoreOK
    <2> QED BY <2>2, <2>3, StoreStep DEF ChainInv
  <1> QED BY <1>1, ChainStep, DailyLoopStep, PublishLoopStep, EnvironmentStep DEF Next

-----------------------------------------------------------------------------
(* The refinement: what is committed is a ReputationLedger.                 *)

\* The events d has beyond the committed ones may still be entered: no root of
\* their day has closed it.
Enterable(d) ==
    \A ent \in Enterprises :
        \A i \in DOMAIN d.log[ent] \ DOMAIN db.log[ent] :
            /\ d.log[ent][i].day <= clock.day
            /\ ~Ledger!ClosedFor(ent, d.log[ent][i].day)

\* _conn may hold an event of yesterday past midnight; while it does it has the
\* lock, so that no loop closes the day.
Pending == txn = "writing" => Enterable(view)

LedgerInv == ChainInv /\ Pending

LEMMA SeenEnterable ==
    ASSUME StoreOK, Pending, CanWrite PROVE Enterable(Seen)
  <1>1. Enterable(db)
    BY DEF Enterable
  <1>2. CASE txn = "writing"
    BY <1>2 DEF Seen, Pending
  <1>3. CASE txn # "writing"
    <2>1. Seen = db
      BY <1>3 DEF Seen, CanWrite, StoreOK, StoreTypeOK, StoreInv
    <2> QED BY <1>1, <2>1
  <1> QED BY <1>2, <1>3

\* Today is never closed, so that record_event may add to it.
LEMMA AppendedEnterable ==
    ASSUME clock \in Clocks, db \in Database, Timely(db), NEW d \in Database, Enterable(d),
           NEW ent \in Enterprises, NEW id \in EventIds
    PROVE  Enterable(AppendEvent(d, ent, id))
  <1> DEFINE e == AppendEvent(d, ent, id)
             new == NewEvent(d, ent, id)
  <1>1. /\ e.log = [d.log EXCEPT ![ent] = Append(d.log[ent], new)]
        /\ new \in Event /\ new.day = clock.day
        /\ d.log \in [Enterprises -> Seq(Event)]
    <2>1. d.log \in [Enterprises -> Seq(Event)]
      BY DEF Database
    <2>2. e.log = [d.log EXCEPT ![ent] = Append(d.log[ent], new)] /\ e.tail = [d.tail EXCEPT ![ent] = id]
      BY AppendedFields
    <2>3. e \in Database /\ new \in Event
      BY AppendedFields
    <2>4. new.day = clock.day
      BY DEF NewEvent
    <2> HIDE DEF e, new
    <2> QED BY <2>1, <2>2, <2>3, <2>4
  <1>2. clock.day \in Nat /\ \A r \in db.roots : r.asOf <= clock.day
    BY ConstantsAssumption DEF Clocks, Days, Timely
  <1> HIDE DEF e, new
  <1> SUFFICES ASSUME NEW x \in Enterprises, NEW i \in DOMAIN e.log[x] \ DOMAIN db.log[x]
               PROVE  e.log[x][i].day <= clock.day /\ ~Ledger!ClosedFor(x, e.log[x][i].day)
    BY DEF Enterable, e
  <1>3. CASE e.log[x][i] = new
    <2>1. ASSUME NEW r \in db.roots, r.day = clock.day, r.asOf > r.day PROVE FALSE
      BY <1>2, <2>1, ConstantsAssumption DEF Database, Root, Days
    <2> QED BY <1>1, <1>2, <1>3, <2>1 DEF Ledger!ClosedFor
  <1>4. CASE i \in DOMAIN d.log[x] /\ e.log[x][i] = d.log[x][i]
    BY <1>4 DEF Enterable
  <1>5. (i \in DOMAIN d.log[x] /\ e.log[x][i] = d.log[x][i]) \/ e.log[x][i] = new
    <2>1. CASE x # ent
      BY <1>1, <2>1
    <2>2. CASE x = ent
      <3>1. e.log[ent] = Append(d.log[ent], new) /\ d.log[ent] \in Seq(Event)
        BY <1>1
      <3> QED BY <1>1, <2>2, <3>1
    <2> QED BY <2>1, <2>2
  <1> QED BY <1>3, <1>4, <1>5

\* A commit, on any connection, is one of the ledger.
LEMMA EnterRefined ==
    ASSUME NEW d \in Database, Whole(d), Extended(db, d), Enterable(d), db' = d
    PROVE  Ledger!Enter
  <1> SUFFICES ASSUME NEW ent \in Enterprises
               PROVE  /\ Ledger!Continues(db.log[ent], d.log[ent])
                      /\ Ledger!Chained(d.log[ent])
                      /\ \A i \in DOMAIN d.log[ent] \ DOMAIN db.log[ent] :
                            /\ d.log[ent][i].day <= clock.day
                            /\ ~Ledger!ClosedFor(ent, d.log[ent][i].day)
    BY DEF Ledger!Enter
  <1>1. Ledger!Continues(db.log[ent], d.log[ent])
    BY DEF Extended, Ledger!Continues
  <1>2. Ledger!Chained(d.log[ent])
    BY DEF Whole, Linked, Ledger!Chained
  <1> QED BY <1>1, <1>2 DEF Enterable

LEMMA EventsRefined ==
    ASSUME NEW d \in Database, Whole(d), Extended(db, d), Enterable(d), db' = d,
           d.roots = db.roots, UNCHANGED <<clock, delivered>>
    PROVE  Ledger!LedgerNext
  BY EnterRefined DEF Ledger!LedgerNext, Ledger!Commit

LEMMA RootRefined ==
    ASSUME clock \in Clocks, db \in Database,
           NEW d \in Database, Whole(d), Extended(db, d), Enterable(d),
           d.roots = db.roots, NEW ent \in Enterprises, NEW day \in Days,
           ~HasRoot(d, ent, day), db' = InsertRoot(d, ent, day), UNCHANGED <<clock, delivered>>
    PROVE  Ledger!LedgerNext
  <1> DEFINE new == [ent |-> ent, day |-> day, leaves |-> DayEvents(d, ent, day),
                     asOf |-> clock.day, published |-> FALSE]
             e == InsertRoot(d, ent, day)
  <1>1. e \in Database /\ Whole(e) /\ Extended(d, e)
    BY InsertedWhole
  <1>2. Extended(db, e)
    BY <1>1, ExtendedTransitive
  <1>3. e.log = d.log /\ e.roots = db.roots \cup {new}
    BY DEF InsertRoot, Database
  <1>4. Enterable(e)
    BY <1>3 DEF Enterable
  <1>5. Ledger!Enter
    BY <1>1, <1>2, <1>4, EnterRefined
  <1>6. Ledger!Seal
    <2>1. /\ new.ent = ent /\ new.day = day /\ new.asOf = clock.day /\ ~new.published
          /\ new.leaves = Ledger!Leaves(d.log[ent], day)
      BY DEF DayEvents, OnDay, Ledger!Leaves
    <2>2. \A r \in db.roots : ~(r.ent = ent /\ r.day = day)
      BY DEF HasRoot
    <2> HIDE DEF new, e
    <2> QED BY <1>3, <2>1, <2>2 DEF Ledger!Seal, e
  <1> QED BY <1>5, <1>6 DEF Ledger!LedgerNext, Ledger!Commit

\* A step that commits nothing and delivers nothing, on the same day.
LEMMA QuietRefined ==
    ASSUME Pending, UNCHANGED <<db, clock, delivered>>, txn' = "writing" => txn = "writing" /\ view' = view
    PROVE  Pending' /\ UNCHANGED Ledger!lvars
  BY DEF Pending, Enterable, Ledger!ClosedFor, Ledger!lvars

\* What a step of the handlers and loops is to the ledger.
Refined == Pending' /\ [Ledger!LedgerNext]_(Ledger!lvars)

LEMMA ReadRefined ==
    ASSUME Pending, Read, UNCHANGED <<clock, delivered>> PROVE Refined
  <1>1. UNCHANGED db /\ (txn' = "writing" => txn = "writing" /\ view' = view)
    BY DEF Read, chainVars
  <1> QED BY <1>1, QuietRefined DEF Refined

LEMMA WriteRefined ==
    ASSUME NEW d \in Database, Whole(d), Extended(db, d), Enterable(d), d.roots = db.roots,
           Write(d), UNCHANGED <<clock, delivered>>
    PROVE  Refined
  <1>1. CASE txn = "none"
    <2>1. db' = d /\ txn' = "none"
      BY <1>1 DEF Write
    <2> QED BY <2>1, EventsRefined DEF Refined, Pending
  <1>2. CASE txn # "none"
    <2>1. view' = d /\ db' = db
      BY <1>2 DEF Write
    <2>2. Pending' /\ UNCHANGED Ledger!lvars
      BY <2>1 DEF Pending, Enterable, Ledger!ClosedFor, Ledger!lvars
    <2> QED BY <2>2 DEF Refined
  <1> QED BY <1>1, <1>2

LEMMA ChainRefined ==
    ASSUME LedgerInv, Chain PROVE Refined
  <1>1. StoreOK /\ db \in Database /\ clock \in Clocks /\ Whole(db) /\ Extended(db, db) /\ Pending
    BY ExtendedReflexive DEF LedgerInv, ChainInv, StoreOK, StoreTypeOK, StoreInv
  <1>2. UNCHANGED <<clock, delivered>>
    BY DEF Chain, RecordFails, ListEvents, RecordEvent, ComputeRoot, ComputeRootFails, publishVars
  <1>3. CASE RecordFails \/ ListEvents
    <2>1. Read BY <1>3 DEF RecordFails, ListEvents
    <2> QED BY <1>1, <1>2, <2>1, ReadRefined
  <1>4. ASSUME NEW ent \in Enterprises, RecordEvent(ent) PROVE Refined
    <2>1. CanWrite /\ Seen \in Database /\ Whole(Seen) /\ Extended(db, Seen) /\ Seen.roots = db.roots
      BY <1>1, <1>4, SeenWhole DEF RecordEvent
    <2>2. Enterable(Seen)
      BY <1>1, <2>1, SeenEnterable
    <2>3. PICK id \in EventIds : Write(AppendEvent(Seen, ent, id)) \/ Write(Seen)
      BY <1>4 DEF RecordEvent, UndoEvent
    <2>4. CASE Write(Seen)
      BY <1>2, <2>1, <2>2, <2>4, WriteRefined
    <2>5. CASE Write(AppendEvent(Seen, ent, id))
      <3> DEFINE d == AppendEvent(Seen, ent, id)
      <3>1. d \in Database /\ d.roots = db.roots
        <4>1. d \in Database
          BY <1>1, <2>1, AppendedFields
        <4>2. d.roots = db.roots
          BY <2>1 DEF AppendEvent, Database
        <4> QED BY <4>1, <4>2
      <3>2. Whole(d) /\ Extended(Seen, d)
        BY <1>1, <2>1, AppendedWhole
      <3>3. Extended(db, d)
        BY <1>1, <2>1, <3>1, <3>2, ExtendedTransitive
      <3>4. Enterable(d)
        BY <1>1, <2>1, <2>2, AppendedEnterable DEF Whole
      <3> HIDE DEF d
      <3> QED BY <1>2, <2>5, <3>1, <3>2, <3>3, <3>4, WriteRefined DEF d
    <2> QED BY <2>3, <2>4, <2>5
  <1>5. ASSUME NEW ent \in Enterprises, NEW day \in Days, ComputeRoot(ent, day) PROVE Refined
    <2>1. CASE HasRoot(Seen, ent, day) /\ Commit(IF txn = "writing" THEN view ELSE db)
      <3>1. PICK d \in Database : /\ Commit(d) /\ Whole(d) /\ Extended(db, d)
                                  /\ Enterable(d) /\ d.roots = db.roots
        BY <1>1, <2>1 DEF StoreOK, StoreTypeOK, StoreInv, Pending, Enterable
      <3>2. db' = d /\ txn' = "none"
        BY <3>1 DEF Commit
      <3> QED BY <1>2, <3>1, <3>2, EventsRefined DEF Refined, Pending
    <2>2. CASE ~HasRoot(Seen, ent, day) /\ CanWrite /\ Commit(InsertRoot(Seen, ent, day))
      <3>1. Seen \in Database /\ Whole(Seen) /\ Extended(db, Seen) /\ Seen.roots = db.roots
        BY <1>1, <2>2, SeenWhole
      <3>2. Enterable(Seen)
        BY <1>1, <2>2, SeenEnterable
      <3>3. db' = InsertRoot(Seen, ent, day) /\ txn' = "none"
        BY <2>2 DEF Commit
      <3> QED BY <1>1, <1>2, <2>2, <3>1, <3>2, <3>3, RootRefined DEF Refined, Pending
    <2> QED BY <1>5, <2>1, <2>2 DEF ComputeRoot
  <1>6. ASSUME NEW ent \in Enterprises, NEW day \in Days, ComputeRootFails(ent, day) PROVE Refined
    <2>1. CASE txn = "none"
      <3>1. txn' = "begun" /\ UNCHANGED <<db, view>>
        BY <1>6, <2>1 DEF ComputeRootFails
      <3> QED BY <1>1, <1>2, <3>1, QuietRefined DEF Refined
    <2>2. CASE txn # "none"
      <3>1. Read BY <1>6, <2>2 DEF ComputeRootFails
      <3> QED BY <1>1, <1>2, <3>1, ReadRefined
    <2> QED BY <2>1, <2>2
  <1> QED BY <1>3, <1>4, <1>5, <1>6 DEF Chain

LEMMA DailyLoopRefined ==
    ASSUME LedgerInv, DailyLoop PROVE Refined
  <1>1. StoreOK /\ db \in Database /\ clock \in Clocks /\ Whole(db) /\ Extended(db, db) /\ Pending
    BY ExtendedReflexive DEF LedgerInv, ChainInv, StoreOK, StoreTypeOK, StoreInv
  <1>2. UNCHANGED <<clock, delivered>>
    BY DEF DailyLoop, WakeDailyLoop, RollUp, RollUpFails, publishVars
  <1>3. CASE UNCHANGED chainVars
    BY <1>1, <1>2, <1>3, QuietRefined DEF Refined, chainVars
  <1>4. ASSUME NEW ent \in Enterprises, RollUp(ent), ~HasRoot(db, ent, loopDay - 1)
        PROVE  Refined
    <2>1. loopDay - 1 \in Days
      BY <1>4, ConstantsAssumption DEF RollUp, LedgerInv, ChainInv, LoopTypeOK, Days
    <2>2. db' = InsertRoot(db, ent, loopDay - 1) /\ txn' = Overtaken /\ lock = "free"
      BY <1>4 DEF RollUp
    <2>3. txn' # "writing"
      BY <1>1, <2>2 DEF StoreOK, StoreInv, Overtaken
    <2>4. Enterable(db)
      BY DEF Enterable
    <2> QED BY <1>1, <1>2, <1>4, <2>1, <2>2, <2>3, <2>4, RootRefined DEF Refined, Pending
  <1>5. ASSUME NEW ent \in Enterprises, RollUp(ent), HasRoot(db, ent, loopDay - 1)
        PROVE  UNCHANGED chainVars
    BY <1>5 DEF RollUp, chainVars
  <1> QED BY <1>3, <1>4, <1>5 DEF DailyLoop, WakeDailyLoop, RollUpFails

\* The UPDATE marks one root, and the directory holds it.
LEMMA MarkRefined ==
    ASSUME LedgerInv, NEW r \in marking, MarkPublished(r) PROVE Refined
  <1> DEFINE Marked(q) == [q EXCEPT !.published = TRUE]
             Image(q) == IF q.ent = r.ent /\ q.day = r.day THEN Marked(q) ELSE q
  <1>1. /\ StoreOK /\ db \in Database /\ OneRoot(db) /\ r \in Root
        /\ Content(r) \in delivered /\ Committed(Content(r)) /\ Pending
    BY DEF LedgerInv, ChainInv, StoreOK, StoreTypeOK, StoreInv, LoopTypeOK, PublishInv, Whole
  <1>2. /\ db' = SetPublished(r) /\ txn' = Overtaken /\ lock = "free"
        /\ UNCHANGED <<clock, delivered>>
    BY DEF MarkPublished
  <1>3. db'.log = db.log /\ db'.roots = {Image(q) : q \in db.roots}
    BY <1>1, <1>2, SetPublishedFields
  <1>4. PICK x \in db.roots : Content(x) = Content(r)
    BY <1>1 DEF Committed
  <1>5. x.ent = r.ent /\ x.day = r.day
    BY <1>4 DEF Content
  <1> HIDE DEF Marked
  <1>6. \A q \in db.roots : Image(q) = IF q = x THEN Marked(x) ELSE q
    BY <1>1, <1>5 DEF OneRoot
  <1> HIDE DEF Image
  <1>7. db'.roots = (db.roots \ {x}) \cup {Marked(x)}
    BY <1>3, <1>6
  <1>8. Ledger!Entry(x) \in delivered
    BY <1>1, <1>4 DEF Ledger!Entry, Content
  <1>9. Ledger!Publish
    BY <1>2, <1>3, <1>7, <1>8 DEF Ledger!Publish, Marked
  <1>10. txn' # "writing"
    BY <1>1, <1>2 DEF StoreOK, StoreInv, Overtaken
  <1> QED BY <1>9, <1>10 DEF Refined, Pending, Ledger!LedgerNext

LEMMA PublishLoopRefined ==
    ASSUME LedgerInv, PublishLoop PROVE Refined
  <1>1. Pending
    BY DEF LedgerInv
  <1>2. ASSUME NEW r \in posting, DirectoryStores(r) PROVE Refined
    <2>1. /\ delivered' = delivered \cup {Content(r)}
          /\ UNCHANGED <<chainVars, clock>>
      BY <1>2 DEF DirectoryStores
    <2>2. PICK x \in db.roots : Content(x) = Content(r)
      BY DEF LedgerInv, ChainInv, PublishInv, Committed
    <2>3. Ledger!Deliver
      BY <2>1, <2>2 DEF Ledger!Deliver, Ledger!Entry, Content, chainVars
    <2>4. Pending'
      BY <1>1, <2>1 DEF Pending, Enterable, Ledger!ClosedFor, chainVars
    <2> QED BY <2>3, <2>4 DEF Refined, Ledger!LedgerNext
  <1>3. CASE UNCHANGED <<chainVars, clock, delivered>>
    BY <1>1, <1>3, QuietRefined DEF Refined, chainVars
  <1>4. \/ UNCHANGED <<chainVars, clock, delivered>>
        \/ \E r \in posting : DirectoryStores(r)
        \/ \E r \in marking : MarkPublished(r)
    BY DEF PublishLoop, FetchPage, Post, PostSucceeds, PostFails, MarkFails
  <1> QED BY <1>2, <1>3, <1>4, MarkRefined

LEMMA EnvironmentRefined ==
    ASSUME LedgerInv, Environment PROVE Refined
  <1>1. Pending /\ clock \in Clocks /\ clock.day \in Nat /\ db \in Database
    BY ConstantsAssumption DEF LedgerInv, ChainInv, StoreTypeOK, Clocks, Days
  <1>2. CASE NextDay
    <2>1. clock'.day = clock.day + 1 /\ UNCHANGED <<chainVars, delivered>>
      BY <1>2 DEF NextDay, publishVars
    <2>2. Ledger!Tomorrow
      BY <2>1 DEF Ledger!Tomorrow, chainVars
    <2>3. Pending'
      <3> SUFFICES ASSUME txn' = "writing" PROVE Enterable(view)'
        BY DEF Pending
      <3>1. Enterable(view) /\ db' = db /\ view' = view
        BY <1>1, <2>1 DEF Pending, chainVars
      <3> SUFFICES ASSUME NEW ent \in Enterprises, NEW i \in DOMAIN view.log[ent] \ DOMAIN db.log[ent]
                   PROVE  /\ view.log[ent][i].day <= clock'.day
                          /\ ~(\E r \in db.roots : r.ent = ent /\ r.day = view.log[ent][i].day
                                                  /\ r.asOf > view.log[ent][i].day)
        BY <3>1 DEF Enterable, Ledger!ClosedFor
      <3>2. view.log[ent][i] \in Event
        BY DEF LedgerInv, ChainInv, StoreTypeOK, Database
      <3>3. view.log[ent][i].day \in Nat
        BY <3>2, ConstantsAssumption DEF Event, Days
      <3> QED BY <1>1, <2>1, <3>1, <3>3 DEF Enterable, Ledger!ClosedFor
    <2> QED BY <2>2, <2>3 DEF Refined, Ledger!LedgerNext
  <1>3. CASE NextSecond
    <2>1. clock'.day = clock.day /\ UNCHANGED <<chainVars, delivered>>
      BY <1>1, <1>3 DEF NextSecond, publishVars, Clocks
    <2> QED BY <1>1, <2>1 DEF Refined, Pending, Enterable, Ledger!ClosedFor, Ledger!lvars, chainVars
  <1>4. CASE OtherWriterBegins \/ OtherWriterEnds \/ Crash \/ Restart
    <2>1. UNCHANGED <<db, clock, delivered>>
      BY <1>4 DEF OtherWriterBegins, OtherWriterEnds, Crash, Restart, publishVars, chainVars
    <2>2. txn' = "writing" => txn = "writing" /\ view' = view
      BY <1>4 DEF OtherWriterBegins, OtherWriterEnds, Crash, Restart, chainVars, Overtaken
    <2> QED BY <1>1, <2>1, <2>2, QuietRefined DEF Refined
  <1> QED BY <1>2, <1>3, <1>4 DEF Environment

LEMMA LedgerInitially == Init => LedgerInv /\ Ledger!LedgerInit
  <1> SUFFICES ASSUME Init PROVE LedgerInv /\ Ledger!LedgerInit
    OBVIOUS
  <1>1. LedgerInv
    BY ChainInitially DEF Init, LedgerInv, Pending
  <1>2. Ledger!LedgerInit
    BY DEF Init, EmptyDatabase, Ledger!LedgerInit
  <1> QED BY <1>1, <1>2

LEMMA LedgerNextRefined ==
    ASSUME LedgerInv, [Next /\ UNCHANGED faults]_<<faults, vars>>
    PROVE  LedgerInv' /\ [Ledger!LedgerNext]_(Ledger!lvars)
  <1>1. ChainInv'
    BY ChainNext DEF LedgerInv
  <1>2. Refined
    <2>1. CASE UNCHANGED <<faults, vars>>
      BY <2>1, QuietRefined DEF Refined, LedgerInv, vars
    <2> QED BY <2>1, ChainRefined, DailyLoopRefined, PublishLoopRefined, EnvironmentRefined DEF Next
  <1> QED BY <1>1, <1>2 DEF LedgerInv, Refined

-----------------------------------------------------------------------------
(* The theorems.                                                           *)

\* Both databases the server writes from stay whole, whatever fails: a write is
\* refused when its snapshot is stale, when the lock is another's, or when the
\* upsert fails, and then it has changed nothing.
THEOREM ChainCorrect == Spec => []ChainInv
  BY ChainInitially, ChainNext, PTL DEF Spec

\* record_event never forks a chain: each event names its predecessor's hash,
\* though its savepoint, a stale snapshot or a crash may take back any write.
THEOREM ChainsLinked == Spec => []ChainNeverForks
  <1>1. ChainInv => ChainNeverForks
    BY DEF ChainInv, StoreInv, Whole, ChainNeverForks
  <1> QED BY <1>1, ChainCorrect, PTL

\* What is committed, delivered and published is a ledger: record_event, the two
\* loops and the admin route only ever enter linked events for days that no root
\* has closed, seal a day once with all its events, and publish what the
\* directory holds, whatever the locks, snapshots, failures and crashes.
THEOREM ChainImplementsLedger == Spec => ImplementsLedger
  <1>1. LedgerInv /\ [Next /\ UNCHANGED faults]_<<faults, vars>>
           => LedgerInv' /\ [Ledger!LedgerNext]_(Ledger!lvars)
    BY LedgerNextRefined
  <1> QED BY <1>1, LedgerInitially, PTL DEF Spec, ImplementsLedger, Ledger!LedgerSpec

\* What is committed stays: a step appends to the chains and adds roots; the
\* one thing it changes of a root is that it becomes published.
AppendOnly ==
    [][/\ \A ent \in Enterprises :
             /\ Len(db.log[ent]) <= Len(db'.log[ent])
             /\ \A i \in DOMAIN db.log[ent] : db'.log[ent][i] = db.log[ent][i]
       /\ \A r \in db.roots :
             \/ r \in db'.roots
             \/ ~r.published /\ [r EXCEPT !.published = TRUE] \in db'.roots
      ]_vars

\* No step of any handler or loop, and no crash, loses a committed event or a
\* root, or changes one but to mark it published.
THEOREM CommittedStays == Spec => AppendOnly
  <1>1. ChainInv /\ [Next /\ UNCHANGED faults]_<<faults, vars>> => Grew
    BY ChainNext
  <1>2. ChainInv /\ [Next /\ UNCHANGED faults]_<<faults, vars>> =>
           [/\ \A ent \in Enterprises :
                  /\ Len(db.log[ent]) <= Len(db'.log[ent])
                  /\ \A i \in DOMAIN db.log[ent] : db'.log[ent][i] = db.log[ent][i]
            /\ \A r \in db.roots :
                  \/ r \in db'.roots
                  \/ ~r.published /\ [r EXCEPT !.published = TRUE] \in db'.roots]_vars
    BY <1>1 DEF Grew
  <1> QED BY <1>2, ChainCorrect, PTL DEF Spec, AppendOnly

\* compute_root_for_day, called after midnight, has every event of the day.
THEOREM LateRootsComplete == Spec => []LateRootIsComplete
  <1>1. ChainInv => LateRootIsComplete
    BY DEF ChainInv, StoreInv, Whole, Complete, DayEvents, OnDay, LateRootIsComplete
  <1> QED BY <1>1, ChainCorrect, PTL

\* The publish loop, which posts a root again after a crash or a lost answer,
\* never shows the directory two roots of one day, and marks as published only
\* what the directory has.
THEOREM DirectoryConsistent == Spec => []DirectoryAgrees
  <1>1. ChainInv => DirectoryAgrees
    <2> SUFFICES ASSUME ChainInv PROVE DirectoryAgrees
      OBVIOUS
    <2>1. ASSUME NEW p \in delivered, NEW q \in delivered, p.ent = q.ent, p.day = q.day
          PROVE  p = q
      <3>1. PICK x \in db.roots : Content(x) = p
        BY DEF ChainInv, PublishInv, Committed
      <3>2. PICK y \in db.roots : Content(y) = q
        BY DEF ChainInv, PublishInv, Committed
      <3>3. x.ent = y.ent /\ x.day = y.day
        BY <2>1, <3>1, <3>2 DEF Content
      <3>4. x = y
        BY <3>3 DEF ChainInv, StoreInv, Whole, OneRoot
      <3> QED BY <3>1, <3>2, <3>4
    <2> QED BY <2>1 DEF ChainInv, PublishInv, DirectoryAgrees
  <1> QED BY <1>1, ChainCorrect, PTL
=============================================================================
