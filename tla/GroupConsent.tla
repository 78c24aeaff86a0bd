---------------------------- MODULE GroupConsent ----------------------------
(***************************************************************************)
(* Consent of two L2s of one Enterprise to share across their groups       *)
(* (xgroup_consent.py behind admin_routes.py): the source L2's admin       *)
(* proposes and signs a grant, the target L2's admin cosigns, either       *)
(* ratifies, and a signer or the recovery operator may revoke.             *)
(*                                                                         *)
(* Every handler first loads a row in one transaction, checks it, and      *)
(* writes in a second one: what it loaded is in its job record. A request  *)
(* whose signature does not verify changes nothing and is left out.        *)
(***************************************************************************)
EXTENDS Naturals, FiniteSets

CONSTANTS
    Grants,         \* grant ids
    Scopes,         \* what a grant body may say; two bodies may share a grant id
    Pendings,       \* pending ids (uuid4), each used once
    TargetKeys,     \* signing keys of the target L2's admins
    ConsentJobs     \* requests in progress

SourceKey == "source"
RecoveryKey == "recovery"
ASSUME ConsentAssumption == TargetKeys \cap {SourceKey, RecoveryKey, "none"} = {}

VARIABLES
    pending,        \* xgroup_consent_pending, with whether its cosign window is over
    grant,          \* xgroup_consent, with whether expires_at has passed
    cjob,           \* requests in progress
    signed          \* the signatures that exist, <<key, body>>

consentVars == <<pending, grant, cjob, signed>>

Bodies == [grant : Grants, scope : Scopes]
SomeBody == CHOOSE b \in Bodies : TRUE
NoPending == [status |-> "unused", body |-> SomeBody, cosigner |-> "none", lapsed |-> FALSE]
NoGrant == [status |-> "absent", body |-> SomeBody, a |-> "none", b |-> "none",
            revoker |-> "none", recovery |-> FALSE, expired |-> FALSE]
NoJob == [op |-> "idle", pending |-> CHOOSE p \in Pendings : TRUE,
          key |-> "none", grant |-> SomeBody.grant, row |-> NoPending]

ConsentInit ==
    /\ pending = [p \in Pendings |-> NoPending]
    /\ grant = [g \in Grants |-> NoGrant]
    /\ cjob = [j \in ConsentJobs |-> NoJob]
    /\ signed = {}

Finish(j) == cjob' = [cjob EXCEPT ![j] = NoJob]

-----------------------------------------------------------------------------
(* POST /propose. Nothing keeps a body from being proposed twice, or two    *)
(* bodies from having the same grant id; build_grant_body keeps source and  *)
(* target apart.                                                            *)
Proposed(b) == [NoPending EXCEPT !.status = "proposed", !.body = b]
Propose(p, b) ==
    /\ pending[p].status = "unused"
    /\ pending' = [pending EXCEPT ![p] = Proposed(b)]
    /\ signed' = signed \cup {<<SourceKey, b>>}
    /\ UNCHANGED <<grant, cjob>>

(* POST /cosign: the target admin signs the stored body.                    *)
Cosignable(p) == pending[p].status = "proposed" /\ ~pending[p].lapsed
CosignLoad(j, p, k) ==
    /\ cjob[j].op = "idle" /\ Cosignable(p)
    /\ cjob' = [cjob EXCEPT ![j] = [NoJob EXCEPT !.op = "cosign", !.pending = p, !.key = k]]
    /\ signed' = signed \cup {<<k, pending[p].body>>}
    /\ UNCHANGED <<pending, grant>>

\* Mutant: the UPDATE without its status guard.
CosignUnguarded(p) == pending[p].status # "unused"

(* The UPDATE finds the row only while it is still 'proposed'; the answer   *)
(* is the same when it finds none.                                          *)
CosignGuard(p) == pending[p].status = "proposed"
CosignUpdate(j) ==
    LET p == cjob[j].pending IN
    /\ cjob[j].op = "cosign"
    /\ pending' = IF CosignGuard(p)
                  THEN [pending EXCEPT ![p].status = "cosigned", ![p].cosigner = cjob[j].key]
                  ELSE pending
    /\ Finish(j)
    /\ UNCHANGED <<grant, signed>>

(* POST /ratify (which may cosign first, as CosignLoad and CosignUpdate do):*)
(* both signatures are verified over the stored body of the row loaded.     *)
Ratifiable(p) == pending[p].status = "cosigned" /\ ~pending[p].lapsed
RatifyLoad(j, p) ==
    /\ cjob[j].op = "idle" /\ Ratifiable(p)
    /\ cjob' = [cjob EXCEPT ![j] = [NoJob EXCEPT !.op = "ratify", !.pending = p, !.row = pending[p]]]
    /\ UNCHANGED <<pending, grant, signed>>

\* Mutant: INSERT OR REPLACE.
ReplaceGrant(g) == TRUE

(* grant_id is the primary key: the INSERT of an id that was ever granted   *)
(* fails, and with it the whole transaction.                                *)
Insertable(g) == grant[g].status = "absent"
RatifyPromote(j) ==
    LET row == cjob[j].row
        p == cjob[j].pending
    IN
    /\ cjob[j].op = "ratify"
    /\ IF Insertable(row.body.grant)
       THEN /\ grant' = [grant EXCEPT ![row.body.grant] =
                            [NoGrant EXCEPT !.status = "active", !.body = row.body,
                                            !.a = SourceKey, !.b = row.cosigner]]
            /\ pending' = [pending EXCEPT ![p].status = "deleted"]
       ELSE UNCHANGED <<grant, pending>>
    /\ Finish(j)
    /\ UNCHANGED signed

(* POST /revoke by a pinned signer, POST /recovery-revoke by the recovery   *)
(* key; a key with neither standing is refused. No key-lineage walker is    *)
(* wired, so a rotated key has no standing.                                 *)
Usable(g) == grant[g].status = "active" /\ ~grant[g].expired
Standing(g, k) == k \in {grant[g].a, grant[g].b, RecoveryKey}
RevokeLoad(j, g, k) ==
    /\ cjob[j].op = "idle" /\ Usable(g) /\ Standing(g, k)
    /\ cjob' = [cjob EXCEPT ![j] = [NoJob EXCEPT !.op = "revoke", !.grant = g, !.key = k]]
    /\ UNCHANGED <<pending, grant, signed>>

RevokeUpdate(j) ==
    LET g == cjob[j].grant IN
    /\ cjob[j].op = "revoke"
    /\ grant' = IF grant[g].status = "active"
                THEN [grant EXCEPT ![g].status = "revoked", ![g].revoker = cjob[j].key,
                                   ![g].recovery = cjob[j].key = RecoveryKey]
                ELSE grant
    /\ Finish(j)
    /\ UNCHANGED <<pending, signed>>

(* The clock: the seven-day cosign window, and the grant's own expiry.      *)
WindowCloses(p) ==
    /\ pending[p].status \in {"proposed", "cosigned"} /\ ~pending[p].lapsed
    /\ pending' = [pending EXCEPT ![p].lapsed = TRUE]
    /\ UNCHANGED <<grant, cjob, signed>>

GrantExpires(g) ==
    /\ grant[g].status = "active" /\ ~grant[g].expired
    /\ grant' = [grant EXCEPT ![g].expired = TRUE]
    /\ UNCHANGED <<pending, cjob, signed>>

(* A restart loses the requests in progress.                                *)
ConsentRestart ==
    /\ cjob # [j \in ConsentJobs |-> NoJob]
    /\ cjob' = [j \in ConsentJobs |-> NoJob]
    /\ UNCHANGED <<pending, grant, signed>>

ConsentNext ==
    \/ \E j \in ConsentJobs :
          \/ \E p \in Pendings : RatifyLoad(j, p) \/ \E k \in TargetKeys : CosignLoad(j, p, k)
          \/ \E g \in Grants, k \in TargetKeys \cup {SourceKey, RecoveryKey} : RevokeLoad(j, g, k)
          \/ CosignUpdate(j) \/ RatifyPromote(j) \/ RevokeUpdate(j)
    \/ \E p \in Pendings : WindowCloses(p) \/ \E b \in Bodies : Propose(p, b)
    \/ \E g \in Grants : GrantExpires(g)
    \/ ConsentRestart

ConsentSpec == ConsentInit /\ [][ConsentNext]_consentVars

-----------------------------------------------------------------------------
(* A ratification checks a row it loaded earlier. When it promotes it, that *)
(* row is still there, unchanged: the grant pins the signers of the pending *)
(* row it replaces, and both of them signed exactly the body it records.    *)
RatifiedIsCurrent ==
    [][\A g \in Grants :
          grant[g].status = "absent" /\ grant'[g].status = "active" =>
             /\ \E p \in Pendings :
                   /\ pending[p].status = "cosigned" /\ pending'[p].status = "deleted"
                   /\ pending[p].body = grant'[g].body /\ pending[p].cosigner = grant'[g].b
             /\ {<<grant'[g].a, grant'[g].body>>, <<grant'[g].b, grant'[g].body>>} \subseteq signed
      ]_consentVars

(* A revoked grant stays revoked, and keeps who revoked it and with which   *)
(* authority: neither a second revocation that loaded the grant while it    *)
(* was active, nor a new round of the same signed body, brings it back.     *)
RevokedForGood ==
    [][\A g \in Grants : grant[g].status = "revoked" => grant'[g] = grant[g]]_consentVars
=============================================================================
