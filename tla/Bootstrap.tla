----------------------------- MODULE Bootstrap -----------------------------
(***************************************************************************)
(* The three first-boot bootstraps of an L2 (bootstrap_admin.py), run in   *)
(* this order by the lifespan of app.py before requests are served: the    *)
(* founder's invite, the password administrator, the Liaison Server's key. *)
(*                                                                         *)
(* Each is a sequence of store calls that never fails the boot. The        *)
(* process may stop between any two of them, and the operator may start it *)
(* again with another environment.                                         *)
(***************************************************************************)
EXTENDS Naturals

CONSTANT MaxBoots       \* bound: how often the process is started
ASSUME BootstrapAssumption == MaxBoots \in Nat

Settings == [email : BOOLEAN, password : BOOLEAN, liaison : BOOLEAN]

VARIABLES
    boots,          \* starts so far
    env,            \* which CQ_INITIAL_* variables this boot has
    step,           \* where the boot is
    system,         \* the _bootstrap_system row
    admin,          \* the seeded password administrator
    founderInvites, \* invites minted for the founder
    founder,        \* a founder's invite was claimed: a real user
    liaison         \* _liaison_service: rows written so far, user, persona, key

bootVars == <<boots, env, step, system, admin, founderInvites, founder, liaison>>

BootstrapInit ==
    /\ boots = 1
    /\ env \in Settings
    /\ step = "email"
    /\ system = FALSE /\ admin = FALSE /\ founder = FALSE
    /\ founderInvites = 0
    /\ liaison = 0

UsersExist == admin \/ founder

(* bootstrap_first_admin_if_needed: the marker user, then the invite. The   *)
(* INSERT of a marker row that exists raises, and the bootstrap skips.      *)
FirstAdminUser ==
    /\ step = "email"
    /\ LET create == env.email /\ ~UsersExist /\ ~system IN
          /\ system' = (system \/ create)
          /\ step' = IF create THEN "invite" ELSE "password"
    /\ UNCHANGED <<boots, env, admin, founderInvites, founder, liaison>>

FirstAdminInvite ==
    /\ step = "invite"
    /\ founderInvites' = founderInvites + 1
    /\ step' = "password"
    /\ UNCHANGED <<boots, env, system, admin, founder, liaison>>

\* Mutant: the password path looks at real users only.
IgnoresMarker == env.password /\ ~UsersExist

(* bootstrap_password_admin_if_needed defers to the marker row.             *)
SeedsAdmin == env.password /\ ~UsersExist /\ ~system
PasswordAdmin ==
    /\ step = "password"
    /\ admin' = (admin \/ SeedsAdmin)
    /\ step' = "liaison"
    /\ UNCHANGED <<boots, env, system, founderInvites, founder, liaison>>

(* bootstrap_liaison_key_if_needed: user, persona, key, unless the user is  *)
(* there already.                                                           *)
LiaisonUser ==
    /\ step = "liaison"
    /\ liaison' = IF env.liaison /\ liaison = 0 THEN 1 ELSE liaison
    /\ step' = IF env.liaison /\ liaison = 0 THEN "seed" ELSE "serving"
    /\ UNCHANGED <<boots, env, system, admin, founderInvites, founder>>

LiaisonSeed ==
    /\ step = "seed"
    /\ liaison' = liaison + 1
    /\ step' = IF liaison = 2 THEN "serving" ELSE "seed"
    /\ UNCHANGED <<boots, env, system, admin, founderInvites, founder>>

ClaimFounder ==
    /\ step = "serving" /\ founderInvites > 0 /\ ~founder
    /\ founder' = TRUE
    /\ UNCHANGED <<boots, env, step, system, admin, founderInvites, liaison>>

Reboot ==
    /\ boots < MaxBoots
    /\ boots' = boots + 1
    /\ env' \in Settings
    /\ step' = "email"
    /\ UNCHANGED <<system, admin, founderInvites, founder, liaison>>

BootstrapNext ==
    \/ FirstAdminUser \/ FirstAdminInvite \/ PasswordAdmin
    \/ LiaisonUser \/ LiaisonSeed \/ ClaimFounder \/ Reboot

BootstrapSpec == BootstrapInit /\ [][BootstrapNext]_bootVars

(* An L2 never gets two administrators from its bootstraps: at most one of  *)
(* the founder's invite and the password administrator is ever made, in any *)
(* sequence of boots, environments and crashes between two store calls.     *)
OneBootstrapAdmin == founderInvites + (IF admin THEN 1 ELSE 0) <= 1
=============================================================================
