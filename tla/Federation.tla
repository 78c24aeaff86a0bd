----------------------------- MODULE Federation -----------------------------
(***************************************************************************)
(* Queries one L2 answers for others (/aigrp/forward-query in app.py) and  *)
(* the consents an administrator signs for another Enterprise              *)
(* (/consents). A row names the Enterprise it belongs to, which need not   *)
(* be this L2's (rows from before it was configured, say). A caller of the *)
(* row's Enterprise sees it whole if it is of its group or open, and else  *)
(* a summary; to any other it is denied, or a summary under a consent.     *)
(*                                                                         *)
(* Lookup of the consent, search and audit row are three store calls, and  *)
(* so are the check, the insert and the audit row of a signature.          *)
(***************************************************************************)
EXTENDS Naturals, FiniteSets

CONSTANTS
    Queries,        \* forward-query requests, each served once
    Signatures,     \* sign and revoke requests, each served once
    ConsentIds,     \* consent ids (uuid4)
    Enterprises, OwnEnterprise,
    Groups, OwnGroup,
    Units,          \* the approved units here, with their Enterprise and group
    MaxResults      \* max_results of every query

ASSUME FederationAssumption ==
    /\ OwnEnterprise \in Enterprises /\ OwnGroup \in Groups /\ MaxResults \in Nat /\ "none" \notin ConsentIds
    /\ Units \subseteq [enterprise : Enterprises, group : Groups, open : BOOLEAN]

VARIABLES
    consents,   \* cross_enterprise_consents
    query,      \* forward-queries in progress
    signing,    \* sign and revoke requests in progress
    audit,      \* cross_l2_audit
    answered    \* the answers that left

federationVars == <<consents, query, signing, audit, answered>>

AnyGroup == "any"
NoConsent == [status |-> "unused", of |-> OwnEnterprise, from |-> AnyGroup, to |-> AnyGroup]
NoQuery == [pc |-> "idle", enterprise |-> OwnEnterprise, group |-> OwnGroup, consent |-> "none",
            hits |-> {}, over |-> {}]
NoSigning == [pc |-> "idle", consent |-> "none"]

FederationInit ==
    /\ consents = [c \in ConsentIds |-> NoConsent]
    /\ query = [q \in Queries |-> NoQuery]
    /\ signing = [s \in Signatures |-> NoSigning]
    /\ audit = {}
    /\ answered = {}

ActiveConsents == {c \in ConsentIds : consents[c].status = "active"}
Covers(c, e, g) ==
    /\ consents[c].of = e
    /\ consents[c].from \in {AnyGroup, g} /\ consents[c].to \in {AnyGroup, OwnGroup}

(* _score: a named group outweighs "any group"; either side counts.         *)
Specific(c) == Cardinality({side \in {"from", "to"} : consents[c][side] # AnyGroup})

\* Mutant: a consent that expired is found as well.
FoundEver(e, g) == {c \in ConsentIds : consents[c].status # "unused" /\ Covers(c, e, g)}

(* find_cross_enterprise_consent: the most specific of those that are       *)
(* active now.                                                              *)
Found(e, g) == {c \in ActiveConsents : Covers(c, e, g)}

-----------------------------------------------------------------------------
(* POST /aigrp/forward-query from a caller whose key and signature hold.    *)
(* "over" is history: the consents that had ended when the request came.    *)
Arrive(q, e, g) ==
    /\ query[q].pc = "idle"
    /\ query' = [query EXCEPT ![q] =
                    [pc |-> IF e = OwnEnterprise THEN "search" ELSE "consent",
                     enterprise |-> e, group |-> g, consent |-> "none", hits |-> {},
                     over |-> {c \in ConsentIds : consents[c].status = "over"}]]
    /\ UNCHANGED <<consents, signing, audit, answered>>

LookUpConsent(q) ==
    LET found == Found(query[q].enterprise, query[q].group) IN
    /\ query[q].pc = "consent"
    /\ IF found = {} THEN query' = [query EXCEPT ![q].pc = "audit"]
       ELSE \E c \in found :
               /\ \A d \in found : Specific(d) <= Specific(c)
               /\ query' = [query EXCEPT ![q].pc = "search", ![q].consent = c]
    /\ UNCHANGED <<consents, signing, audit, answered>>

\* Mutant: the caller is compared with the L2 that answers, not with the row.
PolicyOfResponder(u, x) ==
    IF x.enterprise # OwnEnterprise THEN "summary_only"
    ELSE IF u.group = x.group \/ u.open THEN "full_body" ELSE "summary_only"

(* _decide_policy_for_ku: the Enterprise that counts is the row's. A        *)
(* consent can be signed for summaries only.                                *)
PolicyFor(u, x) ==
    IF u.enterprise = x.enterprise
    THEN IF u.group = x.group \/ u.open THEN "full_body" ELSE "summary_only"
    ELSE IF x.consent = "none" THEN "denied" ELSE "summary_only"

(* semantic_query_with_scope: the nearest units, three times as many as     *)
(* asked for, whatever Enterprise they are of.                              *)
FewUnits == {near \in SUBSET Units : Cardinality(near) <= 3 * MaxResults}

(* Those denied are skipped, the first of the others returned.              *)
Search(q) ==
    /\ query[q].pc = "search"
    /\ \E near \in FewUnits :
          LET shared == {u \in near : PolicyFor(u, query[q]) # "denied"} IN
          \E first \in SUBSET shared :
             /\ Cardinality(first) = (IF Cardinality(shared) < MaxResults THEN Cardinality(shared)
                                      ELSE MaxResults)
             /\ query' = [query EXCEPT ![q].pc = "audit",
                            ![q].hits = {[unit |-> u, policy |-> PolicyFor(u, query[q])] : u \in first}]
    /\ UNCHANGED <<consents, signing, audit, answered>>

(* The strictest policy of the hits; "denied" for a caller with no consent. *)
Applied(x) ==
    IF x.enterprise # OwnEnterprise /\ x.consent = "none" THEN "denied"
    ELSE IF \E h \in x.hits : h.policy = "summary_only" THEN "summary_only" ELSE "full_body"

Record(q) == [query |-> q, policy |-> Applied(query[q]), count |-> Cardinality(query[q].hits),
              consent |-> query[q].consent]
Reply(q) == [query |-> q, enterprise |-> query[q].enterprise, group |-> query[q].group, hits |-> query[q].hits,
             consent |-> query[q].consent, over |-> query[q].over]

\* Mutant: the audit row is left to a background task.
AuditLater(q) ==
    /\ query[q].pc = "audit"
    /\ query' = [query EXCEPT ![q].pc = "answer"]
    /\ UNCHANGED <<consents, signing, audit, answered>>

AuditQuery(q) ==
    /\ query[q].pc = "audit"
    /\ audit' = audit \cup {Record(q)}
    /\ query' = [query EXCEPT ![q].pc = "answer"]
    /\ UNCHANGED <<consents, signing, answered>>

(* A store call that raises is an error to the caller: nothing leaves.      *)
QueryFails(q) ==
    /\ query[q].pc \in {"consent", "search", "audit"}
    /\ query' = [query EXCEPT ![q].pc = "done"]
    /\ UNCHANGED <<consents, signing, audit, answered>>

AnswerQuery(q) ==
    /\ query[q].pc = "answer"
    /\ answered' = answered \cup {Reply(q)}
    /\ query' = [query EXCEPT ![q].pc = "done"]
    /\ UNCHANGED <<consents, signing, audit>>

-----------------------------------------------------------------------------
(* POST /consents/sign: 409 for an active consent of the same groups; the   *)
(* check and the insert are apart, so two requests may both insert.         *)
SignBegin(s, c, e, from, to) ==
    /\ signing[s].pc = "idle" /\ consents[c].status = "unused" /\ e # OwnEnterprise
    /\ ~ \E d \in ActiveConsents : consents[d].of = e /\ consents[d].from = from /\ consents[d].to = to
    /\ consents' = [consents EXCEPT ![c] = [status |-> "reserved", of |-> e, from |-> from, to |-> to]]
    /\ signing' = [signing EXCEPT ![s] = [pc |-> "insert", consent |-> c]]
    /\ UNCHANGED <<query, audit, answered>>

SignInsert(s) ==
    /\ signing[s].pc = "insert"
    /\ consents' = [consents EXCEPT ![signing[s].consent].status = "active"]
    /\ signing' = [signing EXCEPT ![s].pc = "consent_signed"]
    /\ UNCHANGED <<query, audit, answered>>

(* DELETE /consents/{id} ends the row now, whatever its state.              *)
Revoke(s, c) ==
    /\ signing[s].pc = "idle" /\ consents[c].status \in {"active", "over"}
    /\ consents' = [consents EXCEPT ![c].status = "over"]
    /\ signing' = [signing EXCEPT ![s] = [pc |-> "consent_revoked", consent |-> c]]
    /\ UNCHANGED <<query, audit, answered>>

(* The audit row of either, in a transaction of its own.                    *)
RecordConsent(s) ==
    /\ signing[s].pc \in {"consent_signed", "consent_revoked"}
    /\ audit' = audit \cup {[query |-> "none", policy |-> signing[s].pc,
                             count |-> 0, consent |-> signing[s].consent]}
    /\ signing' = [signing EXCEPT ![s].pc = "done"]
    /\ UNCHANGED <<consents, query, answered>>

ConsentEnds(c) ==
    /\ consents[c].status = "active"
    /\ consents' = [consents EXCEPT ![c].status = "over"]
    /\ UNCHANGED <<query, signing, audit, answered>>

FederationNext ==
    \/ \E q \in Queries :
          \/ \E e \in Enterprises, g \in Groups : Arrive(q, e, g)
          \/ LookUpConsent(q) \/ Search(q) \/ AuditQuery(q) \/ QueryFails(q) \/ AnswerQuery(q)
    \/ \E s \in Signatures :
          \/ \E c \in ConsentIds :
                \/ Revoke(s, c)
                \/ \E e \in Enterprises, from, to \in {AnyGroup, OwnGroup} : SignBegin(s, c, e, from, to)
          \/ SignInsert(s) \/ RecordConsent(s)
    \/ \E c \in ConsentIds : ConsentEnds(c)

FederationSpec == FederationInit /\ [][FederationNext]_federationVars

(* Nothing leaves unaccounted for: an answer has its audit row, with what   *)
(* it holds and under which policy, also when a call failed half way; what  *)
(* went to a caller of another Enterprise went under a consent that covers  *)
(* it and had not ended when the request came; and a unit went to another   *)
(* Enterprise than its own only under a consent, and only as a summary.     *)
AnswersAccounted ==
    \A x \in answered :
        /\ \E a \in audit : /\ a.query = x.query /\ a.count = Cardinality(x.hits)
                            /\ a.consent = x.consent
                            /\ (\E h \in x.hits : h.policy = "summary_only") => a.policy = "summary_only"
        /\ x.enterprise # OwnEnterprise /\ x.hits # {} =>
              x.consent # "none" /\ x.consent \notin x.over /\ Covers(x.consent, x.enterprise, x.group)
        /\ \A h \in x.hits : h.unit.enterprise # x.enterprise =>
              x.consent # "none" /\ h.policy = "summary_only"
=============================================================================
