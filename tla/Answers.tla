------------------------------ MODULE Answers ------------------------------
(***************************************************************************)
(* What an L2 tells those who ask it: of the fleet, of its personas, and   *)
(* of its units and those of others. The four parts keep disjoint state;   *)
(* this module joins what each promises its readers.                       *)
(***************************************************************************)
EXTENDS FleetView, Presence, Federation, Lookup

(* What an L2 shows: of the fleet, nothing older than its limits; of its    *)
(* personas, what they last said.                                           *)
ViewsAreTrue == ShownIsFresh /\ LastWordShown

(* The two sides of a query between L2s: the side that answers accounts for *)
(* what it says, and the side that asks has at least its own units.         *)
QueriesHoldUp == AnswersAccounted /\ DegradesToLocal
=============================================================================
