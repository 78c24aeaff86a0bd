-------------------------- MODULE MCKnowledgeReview --------------------------
(* Small instances of KnowledgeReview for TLC.                              *)
EXTENDS KnowledgeReview, TLC

CONSTANTS u1, u2, r1, r2, r3, ann, bob

\* ann and bob are admins of two L2s (groups) of one Enterprise.
MCEnterprise == [user \in Users |-> "acme"]
MCGroup == [user \in Users |-> IF user = ann THEN "east" ELSE "west"]

Seed(status, ttl, confidence) ==
    [NewRow(ann) EXCEPT !.status = status, !.ttl = ttl,
                        !.evidence.confidence = confidence]

\* What the table may hold when the server starts: open units, and approved
\* ones near both ends of the confidence scale.
MCOpenRows ==
    {NoRow, Seed("pending", "none", 10), Seed("pending_review", "live", 10)}
MCApprovedRows ==
    {[Seed("approved", "none", c) EXCEPT !.by = bob] : c \in {2, 19}}
MCAllRows == MCOpenRows \cup MCApprovedRows

MCUnits == {u1, u2}
MCOneUnit == {u1}
MCUsers == {ann, bob}
MCTwoRequests == {r1, r2}
MCRequests == {r1, r2, r3}
RequestSymmetry == Permutations(Requests)

MCAllKinds == AllKinds
\* No handler of the server calls submit_pending_review.
MCServedKinds == AllKinds \ {"submit"}
MCEvidenceKinds == {"confirm", "flag", "delete"}
=============================================================================
