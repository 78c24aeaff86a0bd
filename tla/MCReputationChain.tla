-------------------------- MODULE MCReputationChain --------------------------
(* Small instances of ReputationChain for TLC.                              *)
EXTENDS ReputationChain, TLC

CONSTANTS acme, other

MCOneEnterprise == {acme}
MCNobody == {}
MCTwoEventIds == 1..2
=============================================================================
