------------------------------ MODULE Accounts ------------------------------
(***************************************************************************)
(* The user rows, persona assignments and invites of one L2, as the        *)
(* handlers of auth.py, invite_routes.py, persona_routes.py and            *)
(* agent_key_routes.py change them. API keys and passkeys are in           *)
(* Credentials.                                                            *)
(*                                                                         *)
(* A handler is a coroutine. Each awaited store call is a transaction of   *)
(* its own and other handlers run between two of them; code without an     *)
(* await between two database accesses is one step. A job is one request   *)
(* in progress: what it read earlier is in its record and may be stale     *)
(* when it is used. The functions of invites.py use the engine directly,   *)
(* on the event loop, so each is a single step.                            *)
(***************************************************************************)
EXTENDS Naturals, FiniteSets

CONSTANTS
    Users,      \* user names; an invite's e-mail address is the user name it makes
    Founder,    \* the administrator the first boot left behind
    Invites,    \* invite rows that may be minted
    Jobs        \* requests that may be served, each once

ASSUME AccountsAssumption == Founder \in Users /\ IsFiniteSet(Jobs)

VARIABLES
    role,       \* users.role, "absent" where there is no row
    persona,    \* persona_assignments: kind ("none" for no row) and disabled_at
    invite,     \* invites
    job         \* the requests in progress, and those that ended

accountVars == <<role, persona, invite, job>>

AdminRoles == {"admin", "enterprise_admin", "l2_admin"}
InviteRoles == {"user", "enterprise_admin"}
Kinds == {"admin", "viewer", "agent"}

Unminted == [email |-> Founder, role |-> "user", minted |-> FALSE,
             claimed |-> FALSE, revoked |-> FALSE, expired |-> FALSE]
Unassigned == [kind |-> "none", disabled |-> FALSE]
Idle == [op |-> "none", pc |-> "idle", user |-> Founder, kind |-> "none",
         invite |-> "none", session |-> FALSE]

(* A founder with an admin persona, and other names that may already be     *)
(* users with a persona of some kind.                                       *)
AccountsInit ==
    /\ persona \in {p \in [Users -> {Unassigned} \cup [kind : {"admin", "viewer"}, disabled : BOOLEAN]] :
                        p[Founder] = [kind |-> "admin", disabled |-> FALSE]}
    /\ role = [u \in Users |-> IF u = Founder THEN "admin"
                               ELSE IF persona[u] = Unassigned THEN "absent" ELSE "user"]
    /\ invite = [i \in Invites |-> Unminted]
    /\ job = [j \in Jobs |-> Idle]

-----------------------------------------------------------------------------
(* Store operations.                                                        *)

Exists(u) == role[u] # "absent"

CreateUser(u, r) == role' = [role EXCEPT ![u] = r]

Upsert(u, k) == persona' = [persona EXCEPT ![u] = [kind |-> k, disabled |-> FALSE]]

ActiveAdmins == {u \in Users : persona[u] = [kind |-> "admin", disabled |-> FALSE]}

Pending(i) == invite[i].minted /\ ~invite[i].claimed /\ ~invite[i].revoked /\ ~invite[i].expired

Mint(i, e, r) ==
    /\ ~invite[i].minted
    /\ invite' = [invite EXCEPT ![i] = [Unminted EXCEPT !.email = e, !.role = r, !.minted = TRUE]]

(* require_admin: the caller is a user whose role is an administrator's.    *)
AdminCalls == \E a \in Users : role[a] \in AdminRoles

-----------------------------------------------------------------------------
(* The steps of a request.                                                  *)

At(j, op, pc) == job[j].op = op /\ job[j].pc = pc
Goto(j, pc) == job' = [job EXCEPT ![j].pc = pc]
Start(j, op, u, pc) ==
    /\ job[j].pc = "idle"
    /\ job' = [job EXCEPT ![j].op = op, ![j].user = u, ![j].pc = pc]

(* POST /auth/login: password, then the disabled check, then the session.   *)
LoginBegin(j, u) ==
    /\ Exists(u)
    /\ Start(j, "login", u, "assignment")
    /\ UNCHANGED <<role, persona, invite>>

(* The disabled check login, the passkey login and the claim share.         *)
CheckAssignment(j) ==
    /\ job[j].pc = "assignment"
    /\ Goto(j, IF persona[job[j].user].disabled THEN "done" ELSE "mint")
    /\ UNCHANGED <<role, persona, invite>>

MintSession(j) ==
    /\ job[j].pc = "mint"
    /\ job' = [job EXCEPT ![j].pc = "done", ![j].session = TRUE]
    /\ UNCHANGED <<role, persona, invite>>

\* Mutant: the invite is spent first, the account made when it is spent.
ClaimBeginSpends(j, i) ==
    /\ Pending(i)
    /\ job[j].pc = "idle"
    /\ job' = [job EXCEPT ![j].op = "claim", ![j].invite = i, ![j].user = invite[i].email,
                          ![j].pc = "claim"]
    /\ UNCHANGED <<role, persona, invite>>

(* POST /invites/{token}/claim: validate_invite_jwt and the first lookup of *)
(* ensure_user, the INSERT of the user, then claim_invite.                  *)
ClaimBegin(j, i) ==
    /\ Pending(i)
    /\ job[j].pc = "idle"
    /\ job' = [job EXCEPT ![j].op = "claim", ![j].invite = i, ![j].user = invite[i].email,
                          ![j].pc = IF Exists(invite[i].email) THEN "claim" ELSE "provision"]
    /\ UNCHANGED <<role, persona, invite>>

ClaimProvision(j) ==
    LET u == job[j].user IN
    /\ At(j, "claim", "provision")
    /\ IF Exists(u)
       THEN Goto(j, "done") /\ UNCHANGED role
       ELSE Goto(j, "claim") /\ CreateUser(u, invite[job[j].invite].role)
    /\ UNCHANGED <<persona, invite>>

\* Mutant: the UPDATE without "claimed_at IS NULL".
ClaimableAgain(i) == invite[i].minted /\ ~invite[i].revoked /\ ~invite[i].expired

Claimable(i) == Pending(i)
ClaimInvite(j) ==
    LET i == job[j].invite IN
    /\ At(j, "claim", "claim")
    /\ IF Claimable(i)
       THEN Goto(j, "assignment") /\ invite' = [invite EXCEPT ![i].claimed = TRUE]
       ELSE Goto(j, "done") /\ UNCHANGED invite
    /\ UNCHANGED <<role, persona>>

(* POST /invites keeps the row whether or not the mail goes out; revocation *)
(* is refused only for a row that is revoked already, so it also revokes an *)
(* invite that was claimed. An invite expires by the clock.                 *)
CreateInvite(i, e, r) ==
    /\ AdminCalls
    /\ Mint(i, e, r)
    /\ UNCHANGED <<role, persona, job>>

RevokeInvite(i) ==
    /\ AdminCalls
    /\ invite[i].minted /\ ~invite[i].revoked
    /\ invite' = [invite EXCEPT ![i].revoked = TRUE]
    /\ UNCHANGED <<role, persona, job>>

ExpireInvite(i) ==
    /\ Pending(i)
    /\ invite' = [invite EXCEPT ![i].expired = TRUE]
    /\ UNCHANGED <<role, persona, job>>

(* POST /admin/personas: 409 for a name that has an assignment, a stub user *)
(* unless there is one, the assignment, then an invite to some address. The *)
(* limit of 20 per admin and hour is out of reach of a few requests.        *)
PersonaBegin(j, u, k) ==
    /\ AdminCalls
    /\ persona[u].kind = "none"
    /\ job[j].pc = "idle"
    /\ job' = [job EXCEPT ![j].op = "persona", ![j].user = u, ![j].kind = k, ![j].pc = "lookup"]
    /\ UNCHANGED <<role, persona, invite>>

PersonaLookup(j) ==
    /\ At(j, "persona", "lookup")
    /\ Goto(j, IF Exists(job[j].user) THEN "upsert" ELSE "create")
    /\ UNCHANGED <<role, persona, invite>>

(* The INSERT of a stub user, by the persona and the agent-key handlers:    *)
(* the UNIQUE constraint ends the request that comes second.                *)
CreateStub(j) ==
    LET u == job[j].user IN
    /\ job[j].pc = "create"
    /\ IF Exists(u)
       THEN Goto(j, "done") /\ UNCHANGED role
       ELSE Goto(j, "upsert") /\ CreateUser(u, "user")
    /\ UNCHANGED <<persona, invite>>

UpsertAssignment(j) ==
    /\ job[j].pc = "upsert"
    /\ Upsert(job[j].user, job[j].kind)
    /\ Goto(j, CASE job[j].op = "persona" -> "invite"
                 [] job[j].op = "agent" -> "key"
                 [] OTHER -> "done")
    /\ UNCHANGED <<role, invite>>

PersonaInvite(j, i, e) ==
    /\ At(j, "persona", "invite")
    /\ Mint(i, e, "enterprise_admin")
    /\ Goto(j, "done")
    /\ UNCHANGED <<role, persona>>

\* Mutant: PATCH of any assignment, before M-2.
Assigned(u) == persona[u].kind # "none"

(* PATCH /admin/personas/{username}: refused for a disabled user, then the  *)
(* upsert, which clears disabled_at.                                        *)
Patchable(u) == persona[u].kind # "none" /\ ~persona[u].disabled
PatchBegin(j, u, k) ==
    /\ AdminCalls
    /\ Patchable(u)
    /\ job[j].pc = "idle"
    /\ job' = [job EXCEPT ![j].op = "patch", ![j].user = u, ![j].kind = k, ![j].pc = "upsert"]
    /\ UNCHANGED <<role, persona, invite>>

(* POST /admin/personas/{username}/disable, with the last-admin guard.      *)
DisableBegin(j, u) ==
    /\ AdminCalls
    /\ persona[u].kind # "none" /\ ~persona[u].disabled
    /\ Start(j, "disable", u, IF persona[u].kind = "admin" THEN "count" ELSE "update")
    /\ UNCHANGED <<role, persona, invite>>

CountAdmins(j) ==
    /\ At(j, "disable", "count")
    /\ Goto(j, IF Cardinality(ActiveAdmins) <= 1 THEN "done" ELSE "update")
    /\ UNCHANGED <<role, persona, invite>>

Disable(j) ==
    /\ At(j, "disable", "update")
    /\ persona' = [persona EXCEPT ![job[j].user].disabled = TRUE]
    /\ Goto(j, "done")
    /\ UNCHANGED <<role, invite>>

(* POST /admin/agent-keys: a stub user, an agent assignment, then the key.  *)
AgentBegin(j, u) ==
    /\ AdminCalls
    /\ ~Exists(u)
    /\ job[j].pc = "idle"
    /\ job' = [job EXCEPT ![j].op = "agent", ![j].user = u, ![j].kind = "agent", ![j].pc = "create"]
    /\ UNCHANGED <<role, persona, invite>>

InsertKey(j) ==
    /\ At(j, "agent", "key")
    /\ Goto(j, "done")
    /\ UNCHANGED <<role, persona, invite>>

(* The process stops and restarts: requests in progress are gone, the       *)
(* database is not.                                                         *)
Restart ==
    /\ \E j \in Jobs : job[j].pc \notin {"idle", "done"}
    /\ job' = [j \in Jobs |-> IF job[j].pc = "idle" THEN job[j] ELSE [job[j] EXCEPT !.pc = "done"]]
    /\ UNCHANGED <<role, persona, invite>>

AccountsNext ==
    \/ \E j \in Jobs :
          \/ \E u \in Users :
                \/ LoginBegin(j, u) \/ DisableBegin(j, u) \/ AgentBegin(j, u)
                \/ \E k \in {"admin", "viewer"} : PersonaBegin(j, u, k) \/ PatchBegin(j, u, k)
          \/ \E i \in Invites : ClaimBegin(j, i) \/ \E e \in Users : PersonaInvite(j, i, e)
          \/ CheckAssignment(j) \/ MintSession(j)
          \/ ClaimProvision(j) \/ ClaimInvite(j)
          \/ PersonaLookup(j) \/ CreateStub(j) \/ UpsertAssignment(j)
          \/ CountAdmins(j) \/ Disable(j) \/ InsertKey(j)
    \/ \E i \in Invites :
          \/ \E e \in Users, r \in InviteRoles : CreateInvite(i, e, r)
          \/ RevokeInvite(i) \/ ExpireInvite(i)
    \/ Restart

AccountsSpec == AccountsInit /\ [][AccountsNext]_accountVars

-----------------------------------------------------------------------------
(* Whatever claims, revocations and restarts overlap: of the claims of an   *)
(* invite that validate at once (two tabs, a double click, a retry) one at  *)
(* most ends with a session, and only for an invite recorded as claimed;    *)
(* and an invite that is spent has an account behind it, for the claim      *)
(* makes the account first.                                                 *)
InvitesSettle ==
    \A i \in Invites :
        LET won == {j \in Jobs : /\ job[j].op = "claim" /\ job[j].invite = i
                                 /\ job[j].session \/ job[j].pc \in {"assignment", "mint"}}
        IN  /\ Cardinality(won) <= 1
            /\ won # {} => invite[i].claimed
            /\ invite[i].claimed => Exists(invite[i].email)

(* A request that looked at the user's assignment before it was disabled,   *)
(* and will still act on what it saw.                                       *)
ActsOnOldAssignment(j, u) ==
    job[j].user = u /\ job[j].pc \in {"mint", "lookup", "create", "upsert"}
ShutOut(u) == persona[u].disabled /\ \A j \in Jobs : ~ActsOnOldAssignment(j, u)
Sessions(u) == {j \in Jobs : job[j].session /\ job[j].user = u}

(* Once a user is disabled and no request that saw the earlier assignment   *)
(* is still in progress, the user stays disabled and no login or invite     *)
(* gives out another session: PATCH, the persona and agent handlers and the *)
(* session handlers all leave a disabled user alone (M-2 and H-1).          *)
DisabledStaysOut ==
    [][\A u \in Users : ShutOut(u) => ShutOut(u)' /\ Sessions(u)' = Sessions(u)]_accountVars
=============================================================================
