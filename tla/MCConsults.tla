------------------------------ MODULE MCConsults ------------------------------
(* Small instances of Consults for TLC: a sibling pair of L2s, and an L2 of *)
(* another Enterprise.  ann is a user of eng, bob of ops, cy of lab; nobody *)
(* is a name that no user of lab has.                                       *)
EXTENDS Consults, TLC

CONSTANTS eng, ops, lab, acme, other, ann, bob, cy, nobody, j1, j2, j3

MCSiblings == {eng, ops}
MCAllL2s   == {eng, ops, lab}
MCEnterpriseOf == [l2 \in L2s |-> IF l2 = lab THEN other ELSE acme]

MCSiblingUsers == {ann, bob}
MCAllUsers     == {ann, bob, cy}
MCAllPersonas  == {ann, bob, cy, nobody}
MCHomeOf == [p \in Personas |->
                IF p = ann THEN eng ELSE IF p = bob THEN ops ELSE lab]

MCPeers  == [l2 \in L2s |-> IF l2 = lab THEN {} ELSE L2s \ {l2, lab}]
\* Only the L2 that offered the peering has the other one in its roster.
MCRoster == [l2 \in L2s |-> IF l2 = eng THEN L2s \cap {lab} ELSE {}]

MCTwoJobs   == {j1, j2}
MCThreeJobs == {j1, j2, j3}
MCOneCopy   == {1}
MCTwoCopies == {1, 2}

MCSymmetry == Permutations(Jobs)
=============================================================================
