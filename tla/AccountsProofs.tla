--------------------------- MODULE AccountsProofs ---------------------------
(***************************************************************************)
(* Theorems about who gets into an L2: Accounts, for any users, invites    *)
(* and requests; Credentials, for any authenticators, challenges and       *)
(* requests; Bootstrap, for any number of boots; InviteMail, for any        *)
(* invites, window and clock.                                              *)
(***************************************************************************)
EXTENDS Accounts, Credentials, Bootstrap, InviteMail, FiniteSetTheorems, TLAPS

-----------------------------------------------------------------------------
(* Accounts. A request carries what it read to a later transaction; the     *)
(* invariant says, for each point a request can have reached, what of it    *)
(* still holds.                                                             *)

PersonaRows == [kind : Kinds \cup {"none"}, disabled : BOOLEAN]
InviteRows == [email : Users, role : InviteRoles, minted : BOOLEAN,
               claimed : BOOLEAN, revoked : BOOLEAN, expired : BOOLEAN]
JobRows == [op : {"none", "login", "claim", "persona", "patch", "disable", "agent"},
            pc : {"idle", "assignment", "mint", "provision", "claim", "lookup", "create",
                  "upsert", "invite", "count", "update", "key", "done"},
            user : Users, kind : Kinds \cup {"none"}, invite : Invites \cup {"none"},
            session : BOOLEAN]

AccountsTypeOK ==
    /\ role \in [Users -> AdminRoles \cup InviteRoles \cup {"absent"}]
    /\ persona \in [Users -> PersonaRows]
    /\ invite \in [Invites -> InviteRows]
    /\ job \in [Jobs -> JobRows]

\* An assignment has a user, and a claimed invite has one.
RowsBacked ==
    /\ \A u \in Users : /\ persona[u].disabled => persona[u].kind # "none"
                        /\ persona[u].kind # "none" => Exists(u)
    /\ \A i \in Invites : invite[i].claimed => invite[i].minted /\ Exists(invite[i].email)

\* A claim that has spent its invite.
Won(r) == r.op = "claim" /\ (r.session \/ r.pc \in {"assignment", "mint"})

JobOK(r) ==
    /\ r.session => r.pc = "done"
    /\ r.op = "claim" /\ r.pc \in {"provision", "claim"} =>
          /\ r.invite \in Invites /\ invite[r.invite].minted
          /\ r.user = invite[r.invite].email
          /\ r.pc = "claim" => Exists(r.user)
    /\ Won(r) => r.invite \in Invites /\ invite[r.invite].claimed
    /\ r.pc \in {"lookup", "create", "upsert"} => r.kind # "none"
    /\ r.pc = "upsert" => Exists(r.user)
    /\ r.pc \in {"count", "update"} => persona[r.user].kind # "none"

OneWins ==
    \A i \in Jobs, j \in Jobs :
        Won(job[i]) /\ Won(job[j]) /\ job[i].invite = job[j].invite => i = j

AccountsInv ==
    /\ AccountsTypeOK /\ RowsBacked
    /\ \A j \in Jobs : JobOK(job[j])
    /\ OneWins

StaysOut == \A u \in Users : ShutOut(u) => ShutOut(u)' /\ Sessions(u)' = Sessions(u)

\* What no step takes back.
Kept ==
    /\ \A u \in Users : Exists(u) => Exists(u)'
    /\ \A u \in Users : persona[u].kind # "none" => persona'[u].kind # "none"
    /\ \A i \in Invites : invite[i].minted =>
          /\ invite'[i].minted /\ invite'[i].email = invite[i].email
          /\ invite[i].claimed => invite'[i].claimed

LEMMA JobKept ==
    ASSUME AccountsTypeOK, Kept, NEW r \in JobRows, JobOK(r), RowsBacked
    PROVE  JobOK(r)'
  <1>1. r.user \in Users
    BY DEF JobRows
  <1> QED BY <1>1 DEF JobOK, Kept, Won, RowsBacked

\* A step of one request: j becomes r, the tables grow.
LEMMA JobStep ==
    ASSUME AccountsInv, NEW j \in Jobs, NEW r \in JobRows,
           job' = [job EXCEPT ![j] = r],
           role' \in [Users -> AdminRoles \cup InviteRoles \cup {"absent"}],
           persona' \in [Users -> PersonaRows], invite' \in [Invites -> InviteRows],
           RowsBacked', Kept, JobOK(r)',
           \A i \in Jobs \ {j} : Won(r) /\ Won(job[i]) => job[i].invite # r.invite,
           \A u \in Users : persona[u].disabled /\ persona'[u] # persona[u] =>
              persona'[u].disabled \/ (job[j].user = u /\ job[j].pc = "upsert"),
           r.pc \in {"mint", "lookup", "create", "upsert"} =>
              ~persona[r.user].disabled \/ ActsOnOldAssignment(j, r.user),
           job[j].session => r.session /\ r.user = job[j].user,
           r.session /\ ~job[j].session => ActsOnOldAssignment(j, r.user)
    PROVE  AccountsInv' /\ StaysOut
  <1>1. AccountsTypeOK'
    BY DEF AccountsInv, AccountsTypeOK
  <1>2. job'[j] = r /\ \A i \in Jobs \ {j} : job'[i] = job[i]
    BY DEF AccountsInv, AccountsTypeOK
  <1>3. \A i \in Jobs : JobOK(job[i])'
    BY <1>2, JobKept DEF AccountsInv, AccountsTypeOK
  <1>4. OneWins'
    BY <1>2 DEF AccountsInv, OneWins, Won
  <1>5. StaysOut
    <2> SUFFICES ASSUME NEW u \in Users, ShutOut(u)
                 PROVE  ShutOut(u)' /\ Sessions(u)' = Sessions(u)
      BY DEF StaysOut
    <2>1. ~ActsOnOldAssignment(j, u) /\ persona[u].disabled
      BY DEF ShutOut
    <2>2. persona'[u].disabled
      BY <2>1 DEF ActsOnOldAssignment
    <2>3. \A i \in Jobs : ~ActsOnOldAssignment(i, u)'
      BY <2>1, <1>2 DEF ShutOut, ActsOnOldAssignment
    <2>4. \A i \in Jobs : (job'[i].session /\ job'[i].user = u) <=> (job[i].session /\ job[i].user = u)
      BY <2>1, <1>2
    <2> QED BY <2>2, <2>3, <2>4 DEF ShutOut, Sessions
  <1> QED BY <1>1, <1>3, <1>4, <1>5 DEF AccountsInv


\* A step that writes no table.
LEMMA QuietStep ==
    ASSUME AccountsInv, NEW j \in Jobs, NEW r \in JobRows,
           job' = [job EXCEPT ![j] = r], UNCHANGED <<role, persona, invite>>, JobOK(r),
           Won(r) => Won(job[j]) /\ job[j].invite = r.invite,
           r.pc \in {"mint", "lookup", "create", "upsert"} =>
              ~persona[r.user].disabled \/ ActsOnOldAssignment(j, r.user),
           job[j].session => r.session /\ r.user = job[j].user,
           r.session /\ ~job[j].session => ActsOnOldAssignment(j, r.user)
    PROVE  AccountsInv' /\ StaysOut
  <1>1. RowsBacked' /\ Kept
    BY DEF AccountsInv, RowsBacked, Kept, Exists
  <1>2. JobOK(r)'
    BY DEF JobOK, Won, Exists
  <1>3. \A i \in Jobs \ {j} : Won(r) /\ Won(job[i]) => job[i].invite # r.invite
    BY DEF AccountsInv, OneWins
  <1>4. /\ role' \in [Users -> AdminRoles \cup InviteRoles \cup {"absent"}]
        /\ persona' \in [Users -> PersonaRows] /\ invite' \in [Invites -> InviteRows]
    BY DEF AccountsInv, AccountsTypeOK
  <1>5. \A u \in Users : persona'[u] = persona[u]
    OBVIOUS
  <1> QED BY <1>1, <1>2, <1>3, <1>4, <1>5, JobStep

LEMMA LoginBeginStep ==
    ASSUME AccountsInv, NEW j \in Jobs, NEW u \in Users, LoginBegin(j, u)
    PROVE  AccountsInv' /\ StaysOut
  <1> DEFINE r == [job[j] EXCEPT !.op = "login", !.user = u, !.pc = "assignment"]
  <1>1. r \in JobRows /\ job' = [job EXCEPT ![j] = r] /\ UNCHANGED <<role, persona, invite>>
    BY DEF LoginBegin, Start, AccountsInv, AccountsTypeOK, JobRows, Kinds
  <1>2. JobOK(r)
    BY DEF LoginBegin, Start, AccountsInv, AccountsTypeOK, RowsBacked, JobOK, JobRows, Won
  <1>3. Won(r) => Won(job[j]) /\ job[j].invite = r.invite
    BY DEF LoginBegin, Start, AccountsInv, AccountsTypeOK, JobRows, Won, JobOK
  <1>4. /\ r.pc \in {"mint", "lookup", "create", "upsert"} =>
              ~persona[r.user].disabled \/ ActsOnOldAssignment(j, r.user)
        /\ job[j].session => r.session /\ r.user = job[j].user
        /\ r.session /\ ~job[j].session => ActsOnOldAssignment(j, r.user)
    BY DEF LoginBegin, Start, AccountsInv, AccountsTypeOK, RowsBacked, JobRows, JobOK, ActsOnOldAssignment
  <1> HIDE DEF r
  <1> QED BY <1>1, <1>2, <1>3, <1>4, QuietStep

LEMMA CheckAssignmentStep ==
    ASSUME AccountsInv, NEW j \in Jobs, CheckAssignment(j)
    PROVE  AccountsInv' /\ StaysOut
  <1> DEFINE r == [job[j] EXCEPT !.pc = IF persona[job[j].user].disabled THEN "done" ELSE "mint"]
  <1>1. r \in JobRows /\ job' = [job EXCEPT ![j] = r] /\ UNCHANGED <<role, persona, invite>>
    BY DEF CheckAssignment, Goto, AccountsInv, AccountsTypeOK, JobRows, Kinds
  <1>2. JobOK(r)
    BY DEF CheckAssignment, Goto, AccountsInv, AccountsTypeOK, RowsBacked, JobOK, JobRows, Won
  <1>3. Won(r) => Won(job[j]) /\ job[j].invite = r.invite
    BY DEF CheckAssignment, Goto, AccountsInv, AccountsTypeOK, JobRows, Won, JobOK
  <1>4. /\ r.pc \in {"mint", "lookup", "create", "upsert"} =>
              ~persona[r.user].disabled \/ ActsOnOldAssignment(j, r.user)
        /\ job[j].session => r.session /\ r.user = job[j].user
        /\ r.session /\ ~job[j].session => ActsOnOldAssignment(j, r.user)
    BY DEF CheckAssignment, Goto, AccountsInv, AccountsTypeOK, RowsBacked, JobRows, JobOK, ActsOnOldAssignment
  <1> HIDE DEF r
  <1> QED BY <1>1, <1>2, <1>3, <1>4, QuietStep

LEMMA MintSessionStep ==
    ASSUME AccountsInv, NEW j \in Jobs, MintSession(j)
    PROVE  AccountsInv' /\ StaysOut
  <1> DEFINE r == [job[j] EXCEPT !.pc = "done", !.session = TRUE]
  <1>1. r \in JobRows /\ job' = [job EXCEPT ![j] = r] /\ UNCHANGED <<role, persona, invite>>
    BY DEF MintSession, AccountsInv, AccountsTypeOK, JobRows, Kinds
  <1>2. JobOK(r)
    BY DEF MintSession, AccountsInv, AccountsTypeOK, RowsBacked, JobOK, JobRows, Won
  <1>3. Won(r) => Won(job[j]) /\ job[j].invite = r.invite
    BY DEF MintSession, AccountsInv, AccountsTypeOK, JobRows, Won, JobOK
  <1>4. /\ r.pc \in {"mint", "lookup", "create", "upsert"} =>
              ~persona[r.user].disabled \/ ActsOnOldAssignment(j, r.user)
        /\ job[j].session => r.session /\ r.user = job[j].user
        /\ r.session /\ ~job[j].session => ActsOnOldAssignment(j, r.user)
    BY DEF MintSession, AccountsInv, AccountsTypeOK, RowsBacked, JobRows, JobOK, ActsOnOldAssignment
  <1> HIDE DEF r
  <1> QED BY <1>1, <1>2, <1>3, <1>4, QuietStep

LEMMA ClaimBeginStep ==
    ASSUME AccountsInv, NEW j \in Jobs, NEW i \in Invites, ClaimBegin(j, i)
    PROVE  AccountsInv' /\ StaysOut
  <1> DEFINE r == [job[j] EXCEPT !.op = "claim", !.invite = i, !.user = invite[i].email,
                                !.pc = IF Exists(invite[i].email) THEN "claim" ELSE "provision"]
  <1>1. r \in JobRows /\ job' = [job EXCEPT ![j] = r] /\ UNCHANGED <<role, persona, invite>>
    BY DEF ClaimBegin, InviteRows, Pending, AccountsInv, AccountsTypeOK, JobRows, Kinds
  <1>2. JobOK(r)
    BY DEF ClaimBegin, InviteRows, Pending, AccountsInv, AccountsTypeOK, RowsBacked, JobOK, JobRows, Won
  <1>3. Won(r) => Won(job[j]) /\ job[j].invite = r.invite
    BY DEF ClaimBegin, InviteRows, Pending, AccountsInv, AccountsTypeOK, JobRows, Won, JobOK
  <1>4. /\ r.pc \in {"mint", "lookup", "create", "upsert"} =>
              ~persona[r.user].disabled \/ ActsOnOldAssignment(j, r.user)
        /\ job[j].session => r.session /\ r.user = job[j].user
        /\ r.session /\ ~job[j].session => ActsOnOldAssignment(j, r.user)
    BY DEF ClaimBegin, InviteRows, Pending, AccountsInv, AccountsTypeOK, RowsBacked, JobRows, JobOK, ActsOnOldAssignment
  <1> HIDE DEF r
  <1> QED BY <1>1, <1>2, <1>3, <1>4, QuietStep

LEMMA PersonaBeginStep ==
    ASSUME AccountsInv, NEW j \in Jobs, NEW u \in Users, NEW k \in {"admin", "viewer"}, PersonaBegin(j, u, k)
    PROVE  AccountsInv' /\ StaysOut
  <1> DEFINE r == [job[j] EXCEPT !.op = "persona", !.user = u, !.kind = k, !.pc = "lookup"]
  <1>1. r \in JobRows /\ job' = [job EXCEPT ![j] = r] /\ UNCHANGED <<role, persona, invite>>
    BY DEF PersonaBegin, AccountsInv, AccountsTypeOK, JobRows, Kinds
  <1>2. JobOK(r)
    BY DEF PersonaBegin, AccountsInv, AccountsTypeOK, RowsBacked, JobOK, JobRows, Won
  <1>3. Won(r) => Won(job[j]) /\ job[j].invite = r.invite
    BY DEF PersonaBegin, AccountsInv, AccountsTypeOK, JobRows, Won, JobOK
  <1>4. /\ r.pc \in {"mint", "lookup", "create", "upsert"} =>
              ~persona[r.user].disabled \/ ActsOnOldAssignment(j, r.user)
        /\ job[j].session => r.session /\ r.user = job[j].user
        /\ r.session /\ ~job[j].session => ActsOnOldAssignment(j, r.user)
    BY DEF PersonaBegin, AccountsInv, AccountsTypeOK, RowsBacked, JobRows, JobOK, ActsOnOldAssignment
  <1> HIDE DEF r
  <1> QED BY <1>1, <1>2, <1>3, <1>4, QuietStep

LEMMA PersonaLookupStep ==
    ASSUME AccountsInv, NEW j \in Jobs, PersonaLookup(j)
    PROVE  AccountsInv' /\ StaysOut
  <1> DEFINE r == [job[j] EXCEPT !.pc = IF Exists(job[j].user) THEN "upsert" ELSE "create"]
  <1>1. r \in JobRows /\ job' = [job EXCEPT ![j] = r] /\ UNCHANGED <<role, persona, invite>>
    BY DEF PersonaLookup, At, Goto, AccountsInv, AccountsTypeOK, JobRows, Kinds
  <1>2. JobOK(r)
    BY DEF PersonaLookup, At, Goto, AccountsInv, AccountsTypeOK, RowsBacked, JobOK, JobRows, Won
  <1>3. Won(r) => Won(job[j]) /\ job[j].invite = r.invite
    BY DEF PersonaLookup, At, Goto, AccountsInv, AccountsTypeOK, JobRows, Won, JobOK
  <1>4. /\ r.pc \in {"mint", "lookup", "create", "upsert"} =>
              ~persona[r.user].disabled \/ ActsOnOldAssignment(j, r.user)
        /\ job[j].session => r.session /\ r.user = job[j].user
        /\ r.session /\ ~job[j].session => ActsOnOldAssignment(j, r.user)
    BY DEF PersonaLookup, At, Goto, AccountsInv, AccountsTypeOK, RowsBacked, JobRows, JobOK, ActsOnOldAssignment
  <1> HIDE DEF r
  <1> QED BY <1>1, <1>2, <1>3, <1>4, QuietStep

LEMMA PatchBeginStep ==
    ASSUME AccountsInv, NEW j \in Jobs, NEW u \in Users, NEW k \in {"admin", "viewer"}, PatchBegin(j, u, k)
    PROVE  AccountsInv' /\ StaysOut
  <1> DEFINE r == [job[j] EXCEPT !.op = "patch", !.user = u, !.kind = k, !.pc = "upsert"]
  <1>1. r \in JobRows /\ job' = [job EXCEPT ![j] = r] /\ UNCHANGED <<role, persona, invite>>
    BY DEF PatchBegin, Patchable, AccountsInv, AccountsTypeOK, JobRows, Kinds
  <1>2. JobOK(r)
    BY DEF PatchBegin, Patchable, AccountsInv, AccountsTypeOK, RowsBacked, JobOK, JobRows, Won
  <1>3. Won(r) => Won(job[j]) /\ job[j].invite = r.invite
    BY DEF PatchBegin, Patchable, AccountsInv, AccountsTypeOK, JobRows, Won, JobOK
  <1>4. /\ r.pc \in {"mint", "lookup", "create", "upsert"} =>
              ~persona[r.user].disabled \/ ActsOnOldAssignment(j, r.user)
        /\ job[j].session => r.session /\ r.user = job[j].user
        /\ r.session /\ ~job[j].session => ActsOnOldAssignment(j, r.user)
    BY DEF PatchBegin, Patchable, AccountsInv, AccountsTypeOK, RowsBacked, JobRows, JobOK, ActsOnOldAssignment
  <1> HIDE DEF r
  <1> QED BY <1>1, <1>2, <1>3, <1>4, QuietStep

LEMMA DisableBeginStep ==
    ASSUME AccountsInv, NEW j \in Jobs, NEW u \in Users, DisableBegin(j, u)
    PROVE  AccountsInv' /\ StaysOut
  <1> DEFINE r == [job[j] EXCEPT !.op = "disable", !.user = u,
                                !.pc = IF persona[u].kind = "admin" THEN "count" ELSE "update"]
  <1>1. r \in JobRows /\ job' = [job EXCEPT ![j] = r] /\ UNCHANGED <<role, persona, invite>>
    BY DEF DisableBegin, Start, AccountsInv, AccountsTypeOK, JobRows, Kinds
  <1>2. JobOK(r)
    BY DEF DisableBegin, Start, AccountsInv, AccountsTypeOK, RowsBacked, JobOK, JobRows, Won
  <1>3. Won(r) => Won(job[j]) /\ job[j].invite = r.invite
    BY DEF DisableBegin, Start, AccountsInv, AccountsTypeOK, JobRows, Won, JobOK
  <1>4. /\ r.pc \in {"mint", "lookup", "create", "upsert"} =>
              ~persona[r.user].disabled \/ ActsOnOldAssignment(j, r.user)
        /\ job[j].session => r.session /\ r.user = job[j].user
        /\ r.session /\ ~job[j].session => ActsOnOldAssignment(j, r.user)
    BY DEF DisableBegin, Start, AccountsInv, AccountsTypeOK, RowsBacked, JobRows, JobOK, ActsOnOldAssignment
  <1> HIDE DEF r
  <1> QED BY <1>1, <1>2, <1>3, <1>4, QuietStep

LEMMA CountAdminsStep ==
    ASSUME AccountsInv, NEW j \in Jobs, CountAdmins(j)
    PROVE  AccountsInv' /\ StaysOut
  <1> DEFINE r == [job[j] EXCEPT !.pc = IF Cardinality(ActiveAdmins) <= 1 THEN "done" ELSE "update"]
  <1>1. r \in JobRows /\ job' = [job EXCEPT ![j] = r] /\ UNCHANGED <<role, persona, invite>>
    BY DEF CountAdmins, At, Goto, AccountsInv, AccountsTypeOK, JobRows, Kinds
  <1>2. JobOK(r)
    BY DEF CountAdmins, At, Goto, AccountsInv, AccountsTypeOK, RowsBacked, JobOK, JobRows, Won
  <1>3. Won(r) => Won(job[j]) /\ job[j].invite = r.invite
    BY DEF CountAdmins, At, Goto, AccountsInv, AccountsTypeOK, JobRows, Won, JobOK
  <1>4. /\ r.pc \in {"mint", "lookup", "create", "upsert"} =>
              ~persona[r.user].disabled \/ ActsOnOldAssignment(j, r.user)
        /\ job[j].session => r.session /\ r.user = job[j].user
        /\ r.session /\ ~job[j].session => ActsOnOldAssignment(j, r.user)
    BY DEF CountAdmins, At, Goto, AccountsInv, AccountsTypeOK, RowsBacked, JobRows, JobOK, ActsOnOldAssignment
  <1> HIDE DEF r
  <1> QED BY <1>1, <1>2, <1>3, <1>4, QuietStep

LEMMA AgentBeginStep ==
    ASSUME AccountsInv, NEW j \in Jobs, NEW u \in Users, AgentBegin(j, u)
    PROVE  AccountsInv' /\ StaysOut
  <1> DEFINE r == [job[j] EXCEPT !.op = "agent", !.user = u, !.kind = "agent", !.pc = "create"]
  <1>1. r \in JobRows /\ job' = [job EXCEPT ![j] = r] /\ UNCHANGED <<role, persona, invite>>
    BY DEF AgentBegin, AccountsInv, AccountsTypeOK, JobRows, Kinds
  <1>2. JobOK(r)
    BY DEF AgentBegin, AccountsInv, AccountsTypeOK, RowsBacked, JobOK, JobRows, Won
  <1>3. Won(r) => Won(job[j]) /\ job[j].invite = r.invite
    BY DEF AgentBegin, AccountsInv, AccountsTypeOK, JobRows, Won, JobOK
  <1>4. /\ r.pc \in {"mint", "lookup", "create", "upsert"} =>
              ~persona[r.user].disabled \/ ActsOnOldAssignment(j, r.user)
        /\ job[j].session => r.session /\ r.user = job[j].user
        /\ r.session /\ ~job[j].session => ActsOnOldAssignment(j, r.user)
    BY DEF AgentBegin, AccountsInv, AccountsTypeOK, RowsBacked, JobRows, JobOK, ActsOnOldAssignment
  <1> HIDE DEF r
  <1> QED BY <1>1, <1>2, <1>3, <1>4, QuietStep

LEMMA InsertKeyStep ==
    ASSUME AccountsInv, NEW j \in Jobs, InsertKey(j)
    PROVE  AccountsInv' /\ StaysOut
  <1> DEFINE r == [job[j] EXCEPT !.pc = "done"]
  <1>1. r \in JobRows /\ job' = [job EXCEPT ![j] = r] /\ UNCHANGED <<role, persona, invite>>
    BY DEF InsertKey, At, Goto, AccountsInv, AccountsTypeOK, JobRows, Kinds
  <1>2. JobOK(r)
    BY DEF InsertKey, At, Goto, AccountsInv, AccountsTypeOK, RowsBacked, JobOK, JobRows, Won
  <1>3. Won(r) => Won(job[j]) /\ job[j].invite = r.invite
    BY DEF InsertKey, At, Goto, AccountsInv, AccountsTypeOK, JobRows, Won, JobOK
  <1>4. /\ r.pc \in {"mint", "lookup", "create", "upsert"} =>
              ~persona[r.user].disabled \/ ActsOnOldAssignment(j, r.user)
        /\ job[j].session => r.session /\ r.user = job[j].user
        /\ r.session /\ ~job[j].session => ActsOnOldAssignment(j, r.user)
    BY DEF InsertKey, At, Goto, AccountsInv, AccountsTypeOK, RowsBacked, JobRows, JobOK, ActsOnOldAssignment
  <1> HIDE DEF r
  <1> QED BY <1>1, <1>2, <1>3, <1>4, QuietStep

\* A new user takes no name that is taken.
LEMMA UserStep ==
    ASSUME AccountsInv, NEW j \in Jobs, NEW r \in JobRows, NEW u \in Users,
           NEW w \in InviteRoles, ~Exists(u), CreateUser(u, w), UNCHANGED <<persona, invite>>,
           job' = [job EXCEPT ![j] = r], JobOK(r)', ~Won(r),
           ~job[j].session, ~r.session,
           r.pc \in {"mint", "lookup", "create", "upsert"} => ActsOnOldAssignment(j, r.user)
    PROVE  AccountsInv' /\ StaysOut
  <1>1. role' \in [Users -> AdminRoles \cup InviteRoles \cup {"absent"}] /\ role'[u] = w
        /\ \A v \in Users \ {u} : role'[v] = role[v]
    BY DEF CreateUser, AccountsInv, AccountsTypeOK
  <1>2. w # "absent"
    BY DEF InviteRoles
  <1>3. Kept
    BY <1>1, <1>2 DEF Kept, Exists
  <1>4. RowsBacked'
    BY <1>3 DEF AccountsInv, AccountsTypeOK, InviteRows, RowsBacked, Kept
  <1>5. /\ persona' \in [Users -> PersonaRows] /\ invite' \in [Invites -> InviteRows]
        /\ \A v \in Users : persona'[v] = persona[v]
    BY DEF AccountsInv, AccountsTypeOK
  <1> QED BY <1>1, <1>3, <1>4, <1>5, JobStep

LEMMA ClaimProvisionStep ==
    ASSUME AccountsInv, NEW j \in Jobs, ClaimProvision(j)
    PROVE  AccountsInv' /\ StaysOut
  <1> DEFINE u == job[j].user
             i == job[j].invite
             r == [job[j] EXCEPT !.pc = IF Exists(u) THEN "done" ELSE "claim"]
  <1>1. job[j] \in JobRows /\ job[j].op = "claim" /\ job[j].pc = "provision" /\ JobOK(job[j])
    BY DEF ClaimProvision, At, AccountsInv, AccountsTypeOK
  <1>2. /\ u \in Users /\ i \in Invites /\ invite[i].minted /\ u = invite[i].email
        /\ ~job[j].session
    BY <1>1 DEF JobOK, JobRows
  <1>3. invite[i].role \in InviteRoles
    BY <1>2 DEF AccountsInv, AccountsTypeOK, InviteRows
  <1>4. /\ r \in JobRows /\ r.op = "claim" /\ r.invite = i /\ r.user = u /\ ~r.session
        /\ r.pc = IF Exists(u) THEN "done" ELSE "claim"
    BY <1>1, <1>2 DEF JobRows
  <1>5. job' = [job EXCEPT ![j] = r] /\ UNCHANGED <<persona, invite>>
    BY DEF ClaimProvision, Goto
  <1>6. ~Won(r)
    BY <1>4 DEF Won
  <1>7. CASE Exists(u)
    <2>1. JobOK(r) BY <1>4, <1>7, <1>6 DEF JobOK
    <2>2. UNCHANGED role BY <1>7 DEF ClaimProvision
    <2> HIDE DEF r
    <2> QED BY <1>2, <1>4, <1>5, <1>6, <1>7, <2>1, <2>2, QuietStep
  <1>8. CASE ~Exists(u)
    <2>1. CreateUser(u, invite[i].role) BY <1>8 DEF ClaimProvision
    <2>2. role'[u] # "absent"
      BY <1>2, <1>3, <2>1 DEF CreateUser, AccountsInv, AccountsTypeOK, InviteRoles
    <2>3. ASSUME NEW q \in JobRows, q = r PROVE JobOK(q)'
      <3> HIDE DEF r
      <3> QED BY <2>3, <1>2, <1>4, <1>5, <1>8, <1>6, <2>2 DEF JobOK, Exists, Won
    <2> HIDE DEF r, u
    <2> QED BY <1>2, <1>3, <1>4, <1>5, <1>6, <1>8, <2>1, <2>3, UserStep
  <1> QED BY <1>7, <1>8

LEMMA CreateStubStep ==
    ASSUME AccountsInv, NEW j \in Jobs, CreateStub(j)
    PROVE  AccountsInv' /\ StaysOut
  <1> DEFINE u == job[j].user
             r == [job[j] EXCEPT !.pc = IF Exists(u) THEN "done" ELSE "upsert"]
  <1>1. job[j] \in JobRows /\ job[j].pc = "create" /\ JobOK(job[j])
    BY DEF CreateStub, AccountsInv, AccountsTypeOK
  <1>2. u \in Users /\ ~job[j].session /\ job[j].kind # "none"
    BY <1>1 DEF JobOK, JobRows
  <1>3. /\ r \in JobRows /\ r.op = job[j].op /\ r.kind = job[j].kind /\ r.user = u /\ ~r.session
        /\ r.pc = IF Exists(u) THEN "done" ELSE "upsert"
    BY <1>1, <1>2 DEF JobRows
  <1>4. job' = [job EXCEPT ![j] = r] /\ UNCHANGED <<persona, invite>>
    BY DEF CreateStub, Goto
  <1>5. ~Won(r) /\ ActsOnOldAssignment(j, u)
    BY <1>1, <1>3 DEF Won, ActsOnOldAssignment
  <1>6. CASE Exists(u)
    <2>1. JobOK(r) BY <1>3, <1>5, <1>6 DEF JobOK
    <2>2. UNCHANGED role BY <1>6 DEF CreateStub
    <2> HIDE DEF r
    <2> QED BY <1>2, <1>3, <1>4, <1>5, <1>6, <2>1, <2>2, QuietStep
  <1>7. CASE ~Exists(u)
    <2>1. CreateUser(u, "user") BY <1>7 DEF CreateStub
    <2>2. role'[u] # "absent" /\ "user" \in InviteRoles
      BY <1>2, <2>1 DEF CreateUser, AccountsInv, AccountsTypeOK, InviteRoles
    <2>3. ASSUME NEW q \in JobRows, q = r PROVE JobOK(q)'
      <3> HIDE DEF r
      <3> QED BY <2>3, <1>2, <1>3, <1>4, <1>7, <1>5, <2>2 DEF JobOK, Exists, Won
    <2> HIDE DEF r, u
    <2> QED BY <1>2, <1>3, <1>4, <1>5, <1>7, <2>1, <2>2, <2>3, UserStep
  <1> QED BY <1>6, <1>7

\* Writes to persona_assignments: an upsert, or a disable.
LEMMA PersonaStep ==
    ASSUME AccountsInv, NEW j \in Jobs, NEW r \in JobRows, NEW x \in PersonaRows,
           UNCHANGED <<role, invite>>, persona' = [persona EXCEPT ![job[j].user] = x],
           x.kind # "none", Exists(job[j].user), x.disabled \/ job[j].pc = "upsert",
           job' = [job EXCEPT ![j] = r], r.user = job[j].user,
           r.pc \in {"done", "invite", "key"}, ~r.session, ~job[j].session
    PROVE  AccountsInv' /\ StaysOut
  <1> DEFINE u == job[j].user
  <1>1. /\ u \in Users /\ persona' \in [Users -> PersonaRows] /\ persona'[u] = x
        /\ \A v \in Users \ {u} : persona'[v] = persona[v]
    BY DEF AccountsInv, AccountsTypeOK, JobRows
  <1>2. RowsBacked' /\ Kept
    BY <1>1 DEF AccountsInv, RowsBacked, Kept, Exists
  <1>3. JobOK(r)' /\ ~Won(r)
    BY DEF JobOK, Won
  <1>4. /\ role' \in [Users -> AdminRoles \cup InviteRoles \cup {"absent"}]
        /\ invite' \in [Invites -> InviteRows]
    BY DEF AccountsInv, AccountsTypeOK
  <1>5. \A v \in Users : persona[v].disabled /\ persona'[v] # persona[v] =>
           persona'[v].disabled \/ (job[j].user = v /\ job[j].pc = "upsert")
    BY <1>1
  <1> QED BY <1>1, <1>2, <1>3, <1>4, <1>5, JobStep

LEMMA UpsertAssignmentStep ==
    ASSUME AccountsInv, NEW j \in Jobs, UpsertAssignment(j)
    PROVE  AccountsInv' /\ StaysOut
  <1> DEFINE x == [kind |-> job[j].kind, disabled |-> FALSE]
             pc == CASE job[j].op = "persona" -> "invite"
                     [] job[j].op = "agent" -> "key"
                     [] OTHER -> "done"
             r == [job[j] EXCEPT !.pc = pc]
  <1>1. job[j] \in JobRows /\ job[j].pc = "upsert" /\ JobOK(job[j])
    BY DEF UpsertAssignment, AccountsInv, AccountsTypeOK
  <1>2. x \in PersonaRows /\ x.kind # "none" /\ Exists(job[j].user) /\ ~job[j].session
    BY <1>1 DEF JobOK, JobRows, PersonaRows
  <1>3. pc \in {"done", "invite", "key"}
    OBVIOUS
  <1>4. /\ job' = [job EXCEPT ![j] = r] /\ persona' = [persona EXCEPT ![job[j].user] = x]
        /\ UNCHANGED <<role, invite>>
    BY DEF UpsertAssignment, Goto, Upsert
  <1> HIDE DEF pc
  <1>5. r \in JobRows /\ r.user = job[j].user /\ r.pc = pc /\ ~r.session
    BY <1>1, <1>2, <1>3 DEF JobRows
  <1> HIDE DEF r, x
  <1> QED BY <1>1, <1>2, <1>3, <1>4, <1>5, PersonaStep

LEMMA DisableStep ==
    ASSUME AccountsInv, NEW j \in Jobs, Disable(j)
    PROVE  AccountsInv' /\ StaysOut
  <1> DEFINE u == job[j].user
             x == [persona[u] EXCEPT !.disabled = TRUE]
             r == [job[j] EXCEPT !.pc = "done"]
  <1>1. job[j] \in JobRows /\ job[j].pc = "update" /\ JobOK(job[j])
    BY DEF Disable, At, AccountsInv, AccountsTypeOK
  <1>2. u \in Users /\ persona[u].kind # "none" /\ ~job[j].session
    BY <1>1 DEF JobOK, JobRows
  <1>3. x \in PersonaRows /\ x.kind # "none" /\ x.disabled /\ Exists(u)
    BY <1>2 DEF AccountsInv, AccountsTypeOK, PersonaRows, RowsBacked
  <1>4. /\ job' = [job EXCEPT ![j] = r] /\ persona' = [persona EXCEPT ![u] = x]
        /\ UNCHANGED <<role, invite>>
    BY DEF Disable, Goto
  <1>5. r \in JobRows /\ r.user = u /\ r.pc = "done" /\ ~r.session
    BY <1>1, <1>2 DEF JobRows
  <1> HIDE DEF r, x
  <1> QED BY <1>2, <1>3, <1>4, <1>5, PersonaStep

\* A write to an invite mints it, or leaves its address and spends it once.
Follows(x, i) ==
    \/ ~invite[i].minted /\ ~x.claimed
    \/ /\ x.minted /\ x.email = invite[i].email
       /\ invite[i].claimed => x.claimed
       /\ x.claimed => Exists(x.email)

LEMMA InviteKept ==
    ASSUME AccountsInv, NEW i \in Invites, NEW x \in InviteRows, Follows(x, i),
           invite' = [invite EXCEPT ![i] = x], UNCHANGED <<role, persona>>
    PROVE  /\ role' \in [Users -> AdminRoles \cup InviteRoles \cup {"absent"}]
           /\ persona' \in [Users -> PersonaRows] /\ invite' \in [Invites -> InviteRows]
           /\ \A u \in Users : persona'[u] = persona[u]
           /\ invite'[i] = x /\ RowsBacked' /\ Kept
  <1>1. invite' \in [Invites -> InviteRows] /\ invite'[i] = x
        /\ \A k \in Invites \ {i} : invite'[k] = invite[k]
    BY DEF AccountsInv, AccountsTypeOK
  <1>2. Kept
    BY <1>1 DEF AccountsInv, RowsBacked, Kept, Exists, Follows
  <1>3. RowsBacked'
    BY <1>1 DEF AccountsInv, RowsBacked, Exists, Follows
  <1> QED BY <1>1, <1>2, <1>3 DEF AccountsInv, AccountsTypeOK

LEMMA InviteStep ==
    ASSUME AccountsInv, NEW i \in Invites, NEW x \in InviteRows, Follows(x, i),
           invite' = [invite EXCEPT ![i] = x], UNCHANGED <<role, persona, job>>
    PROVE  AccountsInv' /\ StaysOut
  <1>1. RowsBacked' /\ Kept /\ AccountsTypeOK'
    BY InviteKept DEF AccountsInv, AccountsTypeOK
  <1>2. \A j \in Jobs : JobOK(job[j])'
    BY <1>1, JobKept DEF AccountsInv, AccountsTypeOK
  <1>3. OneWins'
    BY DEF AccountsInv, OneWins, Won
  <1>4. StaysOut
    BY DEF StaysOut, ShutOut, Sessions, ActsOnOldAssignment
  <1> QED BY <1>1, <1>2, <1>3, <1>4 DEF AccountsInv

LEMMA Minted ==
    ASSUME NEW i \in Invites, NEW e \in Users, NEW w \in InviteRoles, Mint(i, e, w)
    PROVE  \E x \in InviteRows : Follows(x, i) /\ invite' = [invite EXCEPT ![i] = x]
  <1> DEFINE x == [Unminted EXCEPT !.email = e, !.role = w, !.minted = TRUE]
  <1>1. x \in InviteRows /\ ~x.claimed
    BY AccountsAssumption DEF Unminted, InviteRows, InviteRoles
  <1> QED BY <1>1 DEF Mint, Follows

LEMMA CreateInviteStep ==
    ASSUME AccountsInv, NEW i \in Invites, NEW e \in Users, NEW w \in InviteRoles,
           CreateInvite(i, e, w)
    PROVE  AccountsInv' /\ StaysOut
  <1>1. Mint(i, e, w) /\ UNCHANGED <<role, persona, job>>
    BY DEF CreateInvite
  <1>2. PICK x \in InviteRows : Follows(x, i) /\ invite' = [invite EXCEPT ![i] = x]
    BY <1>1, Minted
  <1> QED BY <1>1, <1>2, InviteStep

LEMMA PersonaInviteStep ==
    ASSUME AccountsInv, NEW j \in Jobs, NEW i \in Invites, NEW e \in Users,
           PersonaInvite(j, i, e)
    PROVE  AccountsInv' /\ StaysOut
  <1> DEFINE r == [job[j] EXCEPT !.pc = "done"]
  <1>1. /\ Mint(i, e, "enterprise_admin") /\ UNCHANGED <<role, persona>>
        /\ job' = [job EXCEPT ![j] = r]
    BY DEF PersonaInvite, Goto
  <1>2. PICK x \in InviteRows : Follows(x, i) /\ invite' = [invite EXCEPT ![i] = x]
    BY <1>1, Minted DEF InviteRoles
  <1>3. /\ r \in JobRows /\ r.op = "persona" /\ r.pc = "done" /\ r.user = job[j].user
        /\ ~r.session /\ ~job[j].session
    BY DEF PersonaInvite, At, AccountsInv, AccountsTypeOK, JobRows, JobOK
  <1>4. ~Won(r)
    BY <1>3 DEF Won
  <1> HIDE DEF r
  <1>5. ASSUME NEW q \in JobRows, q = r PROVE JobOK(q)'
    BY <1>3, <1>4, <1>5 DEF JobOK, Won
  <1> QED BY <1>1, <1>2, <1>3, <1>4, <1>5, InviteKept, JobStep

LEMMA ClaimInviteStep ==
    ASSUME AccountsInv, NEW j \in Jobs, ClaimInvite(j)
    PROVE  AccountsInv' /\ StaysOut
  <1> DEFINE i == job[j].invite
             r == [job[j] EXCEPT !.pc = IF Pending(i) THEN "assignment" ELSE "done"]
             x == [invite[i] EXCEPT !.claimed = TRUE]
  <1>1. job[j] \in JobRows /\ job[j].op = "claim" /\ job[j].pc = "claim" /\ JobOK(job[j])
    BY DEF ClaimInvite, At, AccountsInv, AccountsTypeOK
  <1>2. /\ i \in Invites /\ invite[i].minted /\ job[j].user = invite[i].email
        /\ Exists(job[j].user) /\ ~job[j].session
    BY <1>1 DEF JobOK
  <1>3. /\ r \in JobRows /\ r.op = "claim" /\ r.invite = i /\ r.user = job[j].user /\ ~r.session
        /\ r.pc = IF Pending(i) THEN "assignment" ELSE "done"
    BY <1>1, <1>2 DEF JobRows
  <1>4. job' = [job EXCEPT ![j] = r] /\ UNCHANGED <<role, persona>>
    BY DEF ClaimInvite, Goto, Claimable
  <1>5. CASE ~Pending(i)
    <2>1. ~Won(r) BY <1>3, <1>5 DEF Won
    <2>2. JobOK(r) BY <1>3, <1>5, <2>1 DEF JobOK
    <2>3. UNCHANGED invite BY <1>5 DEF ClaimInvite, Claimable
    <2> HIDE DEF r
    <2> QED BY <1>2, <1>3, <1>4, <1>5, <2>1, <2>2, <2>3, QuietStep
  <1>6. CASE Pending(i)
    <2>1. /\ x \in InviteRows /\ x.claimed /\ x.minted /\ x.email = invite[i].email
          /\ ~invite[i].claimed
      BY <1>2, <1>6 DEF AccountsInv, AccountsTypeOK, InviteRows, Pending
    <2>2. invite' = [invite EXCEPT ![i] = x] /\ Follows(x, i)
      BY <1>2, <1>6, <2>1 DEF ClaimInvite, Claimable, Follows
    <2> HIDE DEF x
    <2>3. /\ role' \in [Users -> AdminRoles \cup InviteRoles \cup {"absent"}]
          /\ persona' \in [Users -> PersonaRows] /\ invite' \in [Invites -> InviteRows]
          /\ \A u \in Users : persona'[u] = persona[u]
          /\ invite'[i] = x /\ RowsBacked' /\ Kept
      BY <1>2, <1>4, <2>1, <2>2, InviteKept
    <2>4. Exists(job[j].user)' /\ r.pc = "assignment"
      BY <1>2, <1>3, <1>4, <1>6 DEF Exists
    <2>5. \A k \in Jobs \ {j} : Won(job[k]) => job[k].invite # i
      BY <2>1 DEF AccountsInv, JobOK
    <2> HIDE DEF r
    <2>6. ASSUME NEW q \in JobRows, q = r PROVE JobOK(q)'
      BY <1>2, <1>3, <2>1, <2>3, <2>4, <2>6 DEF JobOK, Won
    <2>7. /\ \A k \in Jobs \ {j} : Won(r) /\ Won(job[k]) => job[k].invite # r.invite
          /\ r \in JobRows /\ ~r.session /\ ~job[j].session /\ r.pc = "assignment"
          /\ job' = [job EXCEPT ![j] = r]
      BY <1>2, <1>3, <1>4, <2>4, <2>5
    <2> HIDE DEF i
    <2> QED BY <2>3, <2>6, <2>7, JobStep
  <1> QED BY <1>5, <1>6

LEMMA RevokeExpireStep ==
    ASSUME AccountsInv, NEW i \in Invites, RevokeInvite(i) \/ ExpireInvite(i)
    PROVE  AccountsInv' /\ StaysOut
  <1> DEFINE gone == [invite[i] EXCEPT !.revoked = TRUE]
             late == [invite[i] EXCEPT !.expired = TRUE]
  <1>1. /\ gone \in InviteRows /\ late \in InviteRows
        /\ \A x \in {gone, late} : x.minted = invite[i].minted /\ x.email = invite[i].email
                                   /\ x.claimed = invite[i].claimed
    BY DEF AccountsInv, AccountsTypeOK, InviteRows
  <1>2. /\ \E x \in {gone, late} : invite' = [invite EXCEPT ![i] = x]
        /\ invite[i].minted /\ UNCHANGED <<role, persona, job>>
    BY DEF RevokeInvite, ExpireInvite, Pending
  <1>3. \A x \in {gone, late} : Follows(x, i)
    BY <1>1, <1>2 DEF AccountsInv, RowsBacked, Follows
  <1> HIDE DEF gone, late
  <1> QED BY <1>1, <1>2, <1>3, InviteStep

LEMMA RestartStep ==
    ASSUME AccountsInv, Restart
    PROVE  AccountsInv' /\ StaysOut
  <1>1. UNCHANGED <<role, persona, invite>> /\ AccountsTypeOK'
    BY DEF Restart, AccountsInv, AccountsTypeOK, JobRows
  <1>2. \A j \in Jobs : /\ job'[j].op = job[j].op /\ job'[j].user = job[j].user
                        /\ job'[j].invite = job[j].invite /\ job'[j].session = job[j].session
                        /\ job'[j].pc \in {"idle", "done"}
                        /\ job[j].pc \in {"idle", "done"} => job'[j].pc = job[j].pc
                        /\ job'[j].pc = "idle" => job'[j] = job[j]
    BY DEF Restart, AccountsInv, AccountsTypeOK, JobRows
  <1>3. \A j \in Jobs : Won(job[j])' => Won(job[j])
    BY <1>2 DEF Won
  <1>4. RowsBacked'
    BY <1>1 DEF AccountsInv, RowsBacked, Exists
  <1>5. \A j \in Jobs : JobOK(job[j])'
    BY <1>1, <1>2, <1>3 DEF AccountsInv, JobOK, Exists
  <1>6. OneWins'
    BY <1>2, <1>3 DEF AccountsInv, OneWins
  <1>7. StaysOut
    BY <1>1, <1>2 DEF StaysOut, ShutOut, Sessions, ActsOnOldAssignment
  <1> QED BY <1>1, <1>4, <1>5, <1>6, <1>7 DEF AccountsInv

LEMMA AccountsInitInv == AccountsInit => AccountsInv
  <1> SUFFICES ASSUME AccountsInit PROVE AccountsInv
    OBVIOUS
  <1>1. Unminted \in InviteRows /\ ~Unminted.claimed /\ Idle \in JobRows
    BY AccountsAssumption DEF Unminted, Idle, InviteRows, JobRows, InviteRoles
  <1>2. persona \in [Users -> PersonaRows]
    <2>1. persona \in [Users -> {Unassigned} \cup [kind : {"admin", "viewer"}, disabled : BOOLEAN]]
      BY DEF AccountsInit
    <2>2. {Unassigned} \cup [kind : {"admin", "viewer"}, disabled : BOOLEAN] \subseteq PersonaRows
      <3>1. ASSUME NEW x \in [kind : {"admin", "viewer"}, disabled : BOOLEAN]
            PROVE  x \in PersonaRows
        BY DEF PersonaRows, Kinds
      <3>2. Unassigned \in PersonaRows
        BY DEF Unassigned, PersonaRows
      <3> QED BY <3>1, <3>2
    <2> QED BY <2>1, <2>2
  <1>3. AccountsTypeOK
    BY <1>1, <1>2 DEF AccountsInit, AccountsTypeOK, AdminRoles, InviteRoles
  <1>4. \A j \in Jobs : JobOK(job[j]) /\ ~Won(job[j])
    BY DEF AccountsInit, Idle, JobOK, Won
  <1>5. \A u \in Users : persona[u] = Unassigned \/ Exists(u)
    BY DEF AccountsInit, Exists
  <1>6. \A u \in Users : persona[u] \in {Unassigned} \cup [kind : {"admin", "viewer"}, disabled : BOOLEAN]
    BY DEF AccountsInit
  <1>7. RowsBacked
    BY <1>1, <1>5, <1>6 DEF AccountsInit, RowsBacked, Unassigned
  <1> QED BY <1>3, <1>4, <1>7 DEF AccountsInv, OneWins

LEMMA AccountsStep ==
    ASSUME AccountsInv, [AccountsNext]_accountVars
    PROVE  AccountsInv' /\ StaysOut
  <1>1. CASE UNCHANGED accountVars
    BY <1>1 DEF accountVars, AccountsInv, AccountsTypeOK, RowsBacked, JobOK, Won, OneWins,
                Exists, StaysOut, ShutOut, Sessions, ActsOnOldAssignment
  <1>2. CASE AccountsNext
    BY <1>2, LoginBeginStep, CheckAssignmentStep, MintSessionStep, ClaimBeginStep,
       ClaimProvisionStep, ClaimInviteStep, PersonaBeginStep, PersonaLookupStep, CreateStubStep,
       UpsertAssignmentStep, PersonaInviteStep, PatchBeginStep, DisableBeginStep, CountAdminsStep,
       DisableStep, AgentBeginStep, InsertKeyStep, CreateInviteStep, RevokeExpireStep, RestartStep
       DEF AccountsNext
  <1> QED BY <1>1, <1>2

(* Rows and requests stay of their types, an assignment and a spent invite  *)
(* have a user, what a request read still bounds what it may do, and one    *)
(* claim of an invite at most is past claim_invite.                         *)
THEOREM AccountsCorrect == AccountsSpec => []AccountsInv
  <1>1. AccountsInv /\ [AccountsNext]_accountVars => AccountsInv'
    BY AccountsStep
  <1> QED BY <1>1, AccountsInitInv, PTL DEF AccountsSpec

(* An invite lets one claim in at most, only when it is recorded as spent,  *)
(* and is spent only once its account exists (claim_invite).                *)
THEOREM InvitesSettled == AccountsSpec => []InvitesSettle
  <1>1. ASSUME AccountsInv PROVE InvitesSettle
    <2> SUFFICES ASSUME NEW i \in Invites
                 PROVE  LET won == {j \in Jobs : /\ job[j].op = "claim" /\ job[j].invite = i
                                                 /\ job[j].session \/ job[j].pc \in {"assignment", "mint"}}
                        IN  /\ Cardinality(won) <= 1
                            /\ won # {} => invite[i].claimed
                            /\ invite[i].claimed => Exists(invite[i].email)
      BY DEF InvitesSettle
    <2> DEFINE won == {j \in Jobs : /\ job[j].op = "claim" /\ job[j].invite = i
                                    /\ job[j].session \/ job[j].pc \in {"assignment", "mint"}}
    <2>1. \A j \in won : j \in Jobs /\ Won(job[j]) /\ job[j].invite = i
      BY DEF Won
    <2>2. \A j \in won, k \in won : j = k
      BY <1>1, <2>1 DEF AccountsInv, OneWins
    <2>3. won # {} => invite[i].claimed
      BY <1>1, <2>1 DEF AccountsInv, JobOK
    <2>4. invite[i].claimed => Exists(invite[i].email)
      BY <1>1 DEF AccountsInv, RowsBacked
    <2> HIDE DEF won
    <2>5. Cardinality(won) <= 1
      <3>1. CASE won = {}
        BY <3>1, FS_EmptySet
      <3>2. CASE won # {}
        <4>1. PICK j \in won : won = {j}
          BY <2>2, <3>2
        <4> QED BY <4>1, FS_Singleton
      <3> QED BY <3>1, <3>2
    <2> QED BY <2>3, <2>4, <2>5 DEF won
  <1> QED BY <1>1, AccountsCorrect, PTL

(* A user who is disabled, with no request left that saw the assignment     *)
(* before, stays disabled and gets no session (M-2 and H-1).                *)
THEOREM DisabledStayOut == AccountsSpec => DisabledStaysOut
  <1>1. AccountsInv /\ [AccountsNext]_accountVars =>
           \A u \in Users : ShutOut(u) => ShutOut(u)' /\ Sessions(u)' = Sessions(u)
    BY AccountsStep DEF StaysOut
  <1> QED BY <1>1, AccountsCorrect, PTL DEF AccountsSpec, DisabledStaysOut

-----------------------------------------------------------------------------
(* Credentials. A challenge that succeeded has left the cache for good: new *)
(* ones have new numbers.                                                   *)

Answers == [kind : {"create", "get"}, challenge : Challenges, authenticator : Authenticators,
            count : Nat]
Requests == [pc : {"idle", "verify", "store", "key"}, answer : Answers \cup {NoAnswer}, known : Nat]

CredentialsTypeOK ==
    /\ begun \in 0 .. MaxChallenges
    /\ cache \in 0 .. begun
    /\ device \in [Authenticators -> Nat]
    /\ stored \in [Authenticators -> Nat]
    /\ answers \subseteq Answers
    /\ wjob \in [CredJobs -> Requests]
    /\ opened \in [Challenges -> Nat]

CredentialsInv ==
    /\ CredentialsTypeOK
    /\ \A x \in answers : x.challenge <= begun
    /\ \A j \in CredJobs : wjob[j].pc \in {"verify", "store"} =>
          wjob[j].answer \in Answers /\ wjob[j].answer.challenge <= begun
    /\ \A c \in Challenges : opened[c] <= 1
    /\ \A c \in Challenges : opened[c] = 1 => c <= begun /\ c # cache

LEMMA CredentialsInitInv == CredentialsInit => CredentialsInv
  BY CredentialsAssumption DEF CredentialsInit, CredentialsInv, CredentialsTypeOK, Requests,
     NoRequest, Challenges

LEMMA CeremonyInv ==
    ASSUME CredentialsInv, NEW kind \in {"create", "get"}, NEW a \in Authenticators,
           Ceremony(kind, a)
    PROVE  CredentialsInv'
  <1> DEFINE x == [kind |-> kind, challenge |-> begun + 1, authenticator |-> a, count |-> device'[a]]
  <1>1. /\ begun \in Nat /\ begun < MaxChallenges /\ begun' = begun + 1 /\ cache' = begun'
        /\ UNCHANGED <<stored, wjob, opened>> /\ answers' = answers \cup {x}
    BY CredentialsAssumption DEF Ceremony, CredentialsInv, CredentialsTypeOK
  <1>2. device' \in [Authenticators -> Nat]
    BY DEF Ceremony, CredentialsInv, CredentialsTypeOK
  <1>3. x \in Answers /\ x.challenge = begun'
    BY <1>1, <1>2, CredentialsAssumption DEF Answers, Challenges
  <1> HIDE DEF x
  <1>4. CredentialsTypeOK'
    BY <1>1, <1>2, <1>3, CredentialsAssumption DEF CredentialsInv, CredentialsTypeOK
  <1>5. \A c \in Nat : c <= begun => c <= begun' /\ c # cache'
    BY <1>1
  <1>6. \A y \in Answers : y.challenge \in Nat
    BY DEF Answers, Challenges
  <1>7. (\A y \in answers : y.challenge <= begun)'
    BY <1>1, <1>3, <1>5, <1>6 DEF CredentialsInv, CredentialsTypeOK
  <1>8. (\A j \in CredJobs : wjob[j].pc \in {"verify", "store"} =>
          wjob[j].answer \in Answers /\ wjob[j].answer.challenge <= begun)'
    BY <1>1, <1>5, <1>6 DEF CredentialsInv
  <1>9. (\A c \in Challenges : opened[c] = 1 => c <= begun /\ c # cache)'
    BY <1>1, <1>5 DEF CredentialsInv, Challenges
  <1> QED BY <1>1, <1>4, <1>7, <1>8, <1>9 DEF CredentialsInv

LEMMA FinishLoadInv ==
    ASSUME CredentialsInv, NEW j \in CredJobs, NEW x \in answers, FinishLoad(j, x)
    PROVE  CredentialsInv'
  <1> DEFINE r == [pc |-> "verify", answer |-> x, known |-> stored[x.authenticator]]
  <1>1. x \in Answers /\ x.challenge <= begun /\ r \in Requests
    BY DEF CredentialsInv, CredentialsTypeOK, Answers, Requests
  <1> QED BY <1>1 DEF FinishLoad, passkeyVars, CredentialsInv, CredentialsTypeOK

LEMMA FinishVerifyInv ==
    ASSUME CredentialsInv, NEW j \in CredJobs, FinishVerify(j)
    PROVE  CredentialsInv'
  <1> DEFINE x == wjob[j].answer
             r == IF Verifies(x, wjob[j].known) THEN [wjob[j] EXCEPT !.pc = "store"] ELSE NoRequest
  <1>1. /\ x \in Answers /\ x.challenge <= begun /\ x.challenge \in Challenges
        /\ wjob[j] \in Requests /\ wjob[j].pc = "verify"
    BY DEF FinishVerify, CredentialsInv, CredentialsTypeOK, Answers
  <1>2. /\ r \in Requests
        /\ r.pc \in {"verify", "store"} => r.answer \in Answers /\ r.answer.challenge <= begun
    BY <1>1 DEF Requests, NoRequest
  <1>3. /\ wjob' = [wjob EXCEPT ![j] = r] /\ cache' = 0
        /\ UNCHANGED <<begun, device, stored, answers>>
    BY DEF FinishVerify, ConsumeChallenge
  <1> HIDE DEF r
  <1>4. wjob' \in [CredJobs -> Requests] /\ wjob'[j] = r /\ \A i \in CredJobs \ {j} : wjob'[i] = wjob[i]
    BY <1>2, <1>3 DEF CredentialsInv, CredentialsTypeOK
  <1>5. \/ opened' = opened
        \/ opened' = [opened EXCEPT ![x.challenge] = @ + 1] /\ x.challenge = cache
    BY DEF FinishVerify, Verifies
  <1>6. /\ opened' \in [Challenges -> Nat]
        /\ \A c \in Challenges : opened'[c] = opened[c] \/ (c = cache /\ opened'[c] = opened[c] + 1)
    BY <1>1, <1>5 DEF CredentialsInv, CredentialsTypeOK
  <1>7. \A c \in Challenges : c \in Nat /\ c # 0 /\ (c = cache => opened[c] = 0 /\ c <= begun)
    BY <1>1, CredentialsAssumption DEF CredentialsInv, CredentialsTypeOK, Challenges
  <1>8. /\ \A c \in Challenges : opened'[c] <= 1
        /\ \A c \in Challenges : opened'[c] = 1 => c <= begun /\ c # 0
    BY <1>6, <1>7 DEF CredentialsInv, CredentialsTypeOK
  <1> QED BY <1>2, <1>3, <1>4, <1>6, <1>8 DEF CredentialsInv, CredentialsTypeOK

LEMMA FinishStoreInv ==
    ASSUME CredentialsInv, NEW j \in CredJobs, FinishStore(j)
    PROVE  CredentialsInv'
  <1>1. NoRequest \in Requests /\ NoRequest.pc = "idle"
    BY DEF NoRequest, Requests
  <1>2. wjob' \in [CredJobs -> Requests] /\ wjob'[j].pc = "idle"
        /\ \A i \in CredJobs \ {j} : wjob'[i] = wjob[i]
    BY <1>1 DEF FinishStore, CredentialsInv, CredentialsTypeOK
  <1>3. wjob[j].answer \in Answers
    BY DEF FinishStore, CredentialsInv
  <1>4. stored' \in [Authenticators -> Nat]
    BY <1>3 DEF FinishStore, CredentialsInv, CredentialsTypeOK, Answers
  <1> QED BY <1>2, <1>4 DEF FinishStore, CredentialsInv, CredentialsTypeOK

LEMMA KeysInv ==
    ASSUME CredentialsInv, KeyEnds \/ \E j \in CredJobs : KeyCount(j) \/ KeyInsert(j)
    PROVE  CredentialsInv'
  <1>1. UNCHANGED passkeyVars
    BY DEF KeyEnds, KeyCount, KeyInsert
  <1>2. /\ wjob' \in [CredJobs -> Requests]
        /\ \A j \in CredJobs : wjob'[j] = wjob[j] \/ wjob'[j].pc \in {"key", "idle"}
    <2>1. CASE KeyEnds
      BY <2>1 DEF KeyEnds, CredentialsInv, CredentialsTypeOK
    <2>2. ASSUME NEW j \in CredJobs, KeyCount(j) PROVE <1>2
      <3>1. [wjob[j] EXCEPT !.pc = "key"] \in Requests
        BY DEF CredentialsInv, CredentialsTypeOK, Requests
      <3> QED BY <2>2, <3>1 DEF KeyCount, CredentialsInv, CredentialsTypeOK, Requests
    <2>3. ASSUME NEW j \in CredJobs, KeyInsert(j) PROVE <1>2
      <3>1. NoRequest \in Requests /\ NoRequest.pc = "idle"
        BY DEF NoRequest, Requests
      <3> QED BY <2>3, <3>1 DEF KeyInsert, CredentialsInv, CredentialsTypeOK
    <2> QED BY <2>1, <2>2, <2>3
  <1> QED BY <1>1, <1>2 DEF passkeyVars, CredentialsInv, CredentialsTypeOK

LEMMA ForgetInv ==
    ASSUME CredentialsInv, ChallengeExpires \/ CredentialsRestart
    PROVE  CredentialsInv'
  <1>1. NoRequest \in Requests /\ NoRequest.pc = "idle"
    BY DEF NoRequest, Requests
  <1>2. /\ wjob' \in [CredJobs -> Requests]
        /\ \A j \in CredJobs : wjob'[j] = wjob[j] \/ wjob'[j].pc = "idle"
    BY <1>1 DEF ChallengeExpires, CredentialsRestart, CredentialsInv, CredentialsTypeOK
  <1>3. /\ cache' = 0 /\ UNCHANGED <<begun, device, stored, answers, opened>>
        /\ \A c \in Challenges : c # 0
    BY DEF ChallengeExpires, CredentialsRestart, Challenges
  <1> QED BY <1>2, <1>3 DEF CredentialsInv, CredentialsTypeOK

LEMMA CredentialsStep ==
    ASSUME CredentialsInv, [CredentialsNext]_credentialVars
    PROVE  CredentialsInv'
  <1>1. CASE UNCHANGED credentialVars
    BY <1>1 DEF credentialVars, CredentialsInv, CredentialsTypeOK
  <1>2. CASE CredentialsNext
    BY <1>2, CeremonyInv, FinishLoadInv, FinishVerifyInv, FinishStoreInv, KeysInv, ForgetInv
       DEF CredentialsNext
  <1> QED BY <1>1, <1>2

(* However ceremonies of a user overlap and however often an answer is      *)
(* sent, one request at most succeeds on a challenge (consume_challenge).   *)
THEOREM ChallengesSingleUse == CredentialsSpec => []ChallengeSingleUse
  <1>1. CredentialsInv => ChallengeSingleUse
    BY DEF CredentialsInv, ChallengeSingleUse
  <1>2. CredentialsInv /\ [CredentialsNext]_credentialVars => CredentialsInv'
    BY CredentialsStep
  <1> QED BY <1>1, <1>2, CredentialsInitInv, PTL DEF CredentialsSpec

-----------------------------------------------------------------------------
(* Bootstrap. The marker row is written before the founder's invite, and    *)
(* the boot that writes it is the only one that mints.                      *)

BootstrapInv ==
    /\ founderInvites \in 0 .. 1
    /\ system \in BOOLEAN /\ admin \in BOOLEAN /\ env \in Settings
    /\ ~(system /\ admin)
    /\ step = "invite" => system /\ founderInvites = 0
    /\ founderInvites > 0 => system

(* In any sequence of boots, environments and crashes, the bootstraps leave *)
(* one administrator at most: a founder's invite or the password's          *)
(* (bootstrap_admin.py).                                                    *)
THEOREM OneAdministrator == BootstrapSpec => []OneBootstrapAdmin
  <1>1. ASSUME BootstrapInit PROVE BootstrapInv
    <2>1. founderInvites = 0 /\ step = "email" /\ env \in Settings
      BY <1>1 DEF BootstrapInit
    <2>2. system = FALSE /\ admin = FALSE
      BY <1>1 DEF BootstrapInit
    <2>3. founderInvites \in 0 .. 1 /\ ~(founderInvites > 0) /\ step # "invite"
      BY <2>1
    <2>4. system \in BOOLEAN /\ admin \in BOOLEAN /\ ~(system /\ admin)
      BY <2>2
    <2> QED BY <2>1, <2>3, <2>4, Zenon DEF BootstrapInv
  <1>2. ASSUME BootstrapInv, [BootstrapNext]_bootVars PROVE BootstrapInv'
    <2>1. CASE FirstAdminUser
      BY <1>2, <2>1 DEF FirstAdminUser, BootstrapInv, UsersExist, Settings
    <2>2. CASE FirstAdminInvite
      BY <1>2, <2>2 DEF FirstAdminInvite, BootstrapInv
    <2>3. CASE PasswordAdmin
      BY <1>2, <2>3 DEF PasswordAdmin, SeedsAdmin, BootstrapInv, UsersExist, Settings
    <2>4. CASE LiaisonUser \/ LiaisonSeed \/ ClaimFounder \/ Reboot
      BY <1>2, <2>4 DEF LiaisonUser, LiaisonSeed, ClaimFounder, Reboot, BootstrapInv
    <2>5. CASE UNCHANGED bootVars
      BY <1>2, <2>5 DEF bootVars, BootstrapInv
    <2> QED BY <1>2, <2>1, <2>2, <2>3, <2>4, <2>5 DEF BootstrapNext
  <1>3. BootstrapInv => OneBootstrapAdmin
    BY DEF BootstrapInv, OneBootstrapAdmin
  <1> QED BY <1>1, <1>2, <1>3, PTL DEF BootstrapSpec

-----------------------------------------------------------------------------
(* InviteMail. What the service remembers under a key was once done for an  *)
(* invite of that key.                                                      *)
MailTypeOK ==
    /\ invitation \in [InviteIds -> {"none", "posting", "legacy", "sent", "suppressed", "error"}]
    /\ replies \in [Keys -> [outcome : {"none", "sent", "suppressed"}, at : Nat]]
    /\ seconds \in Nat
    /\ mailed \subseteq InviteIds

SentFor(k) == \E j \in mailed : KeyOf(j) = k

\* Reported sent: this invite's mail was, or that of another with the same key.
SentOnItsKey == \A i \in InviteIds : invitation[i] = "sent" => SentFor(KeyOf(i))

MailInv ==
    /\ MailTypeOK
    /\ \A k \in Keys : replies[k].outcome = "sent" => SentFor(k)
    /\ SentOnItsKey

LEMMA MailInitially == MailInit => MailInv
  BY DEF MailInit, NoEntry, MailInv, MailTypeOK, SentOnItsKey

\* An invite is answered: with what the service did, or with what it remembers.
LEMMA MailStep ==
    ASSUME MailInv, [MailNext]_mailVars
    PROVE  MailInv'
  <1>1. ASSUME mailed \subseteq mailed', mailed' \subseteq InviteIds PROVE \A k \in Keys : SentFor(k) => SentFor(k)'
    BY <1>1 DEF SentFor
  <1>2. \A i \in InviteIds : KeyOf(i) \in Keys
    BY DEF Keys
  <1>3. ASSUME NEW i \in InviteIds, PostInvite(i) \/ RefuseMail(i) PROVE MailInv'
    BY <1>3 DEF PostInvite, RefuseMail, Answered, MailInv, MailTypeOK, SentOnItsKey, SentFor
  <1>4. ASSUME NEW i \in InviteIds, MailFails(i) PROVE MailInv'
    <2>1. mailed \subseteq mailed' /\ mailed' \subseteq InviteIds /\ replies' = replies /\ seconds' = seconds
          /\ invitation' = [invitation EXCEPT ![i] = "error"]
      BY <1>4 DEF MailFails, Answered, MailInv, MailTypeOK
    <2> QED BY <1>1, <1>2, <2>1 DEF MailInv, MailTypeOK, SentOnItsKey
  <1>5. ASSUME NEW i \in InviteIds, NEW heard \in BOOLEAN, ReplayAnswer(i, heard) PROVE MailInv'
    <2>1. /\ replies[KeyOf(i)].outcome \in {"sent", "suppressed"}
          /\ replies' = replies /\ mailed' = mailed /\ seconds' = seconds
          /\ invitation' = [invitation EXCEPT ![i] = IF heard THEN replies[KeyOf(i)].outcome ELSE "error"]
      BY <1>2, <1>5 DEF ReplayAnswer, FreshAnswer, Answered, MailInv, MailTypeOK
    <2> QED BY <1>2, <2>1 DEF MailInv, MailTypeOK, SentOnItsKey, SentFor
  <1>6. ASSUME NEW i \in InviteIds, NEW heard \in BOOLEAN, BlockMail(i, heard) PROVE MailInv'
    BY <1>2, <1>6 DEF BlockMail, Answered, Remember, MailInv, MailTypeOK, SentOnItsKey, SentFor
  <1>7. ASSUME NEW i \in InviteIds, NEW heard \in BOOLEAN, SendMail(i, heard) PROVE MailInv'
    <2>1. /\ mailed' = mailed \cup {i} /\ seconds' = seconds
          /\ replies' = [replies EXCEPT ![KeyOf(i)] = [outcome |-> "sent", at |-> seconds]]
          /\ invitation' = [invitation EXCEPT ![i] = IF heard THEN "sent" ELSE "error"]
      BY <1>7 DEF SendMail, Answered, Remember
    <2>2. SentFor(KeyOf(i))' /\ mailed \subseteq mailed' /\ mailed' \subseteq InviteIds
      BY <2>1 DEF SentFor, MailInv, MailTypeOK
    <2>3. MailTypeOK'
      BY <1>2, <2>1, <2>2 DEF MailInv, MailTypeOK
    <2>4. \A k \in Keys : k # KeyOf(i) => replies'[k] = replies[k]
      BY <2>1 DEF MailInv, MailTypeOK
    <2>5. \A j \in InviteIds : j # i => invitation'[j] = invitation[j]
      BY <2>1 DEF MailInv, MailTypeOK
    <2> QED BY <1>1, <1>2, <2>2, <2>3, <2>4, <2>5 DEF MailInv, SentOnItsKey
  <1>8. ASSUME NEW i \in InviteIds, NEW heard \in BOOLEAN, LegacyMail(i, heard) PROVE MailInv'
    <2>1. /\ mailed' = mailed \cup {i} /\ seconds' = seconds /\ replies' = replies
          /\ invitation' = [invitation EXCEPT ![i] = IF heard THEN "sent" ELSE "error"]
      BY <1>8 DEF LegacyMail
    <2>2. SentFor(KeyOf(i))' /\ mailed \subseteq mailed' /\ mailed' \subseteq InviteIds
      BY <2>1 DEF SentFor, MailInv, MailTypeOK
    <2>3. \A j \in InviteIds : j # i => invitation'[j] = invitation[j]
      BY <2>1 DEF MailInv, MailTypeOK
    <2>4. MailTypeOK'
      BY <2>1, <2>2 DEF MailInv, MailTypeOK
    <2> QED BY <1>1, <1>2, <2>1, <2>2, <2>3, <2>4 DEF MailInv, SentOnItsKey
  <1>9. CASE ServiceRestarts
    BY <1>9 DEF ServiceRestarts, NoEntry, MailInv, MailTypeOK, SentOnItsKey, SentFor
  <1>10. CASE SecondPasses
    BY <1>10 DEF SecondPasses, MailInv, MailTypeOK, SentOnItsKey, SentFor
  <1>11. ASSUME NEW i \in InviteIds, HardBounce(i) PROVE MailInv'
    BY <1>11 DEF HardBounce, MailInv, MailTypeOK, SentOnItsKey, SentFor
  <1>12. CASE UNCHANGED mailVars
    BY <1>12 DEF mailVars, MailInv, MailTypeOK, SentOnItsKey, SentFor
  <1> QED BY <1>3, <1>4, <1>5, <1>6, <1>7, <1>8, <1>9, <1>10, <1>11, <1>12 DEF MailNext

\* What is left of "sent" when keys collide: no invite is reported sent unless some
\* invite with its key was mailed, whatever is lost, bounces, expires or restarts. The
\* proof uses nothing about KeyOf: with a key of its own for each invite, this would
\* be SentMeansSent.
THEOREM SentIsOfItsKey == MailSpec => []SentOnItsKey
  <1>1. MailInv => SentOnItsKey
    BY DEF MailInv
  <1> QED BY <1>1, MailInitially, MailStep, PTL DEF MailSpec
=============================================================================
