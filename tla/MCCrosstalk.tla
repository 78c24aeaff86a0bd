---------------------------- MODULE MCCrosstalk ----------------------------
(* Ann's client has an outbox, which two drains at once may work through;  *)
(* bob, an admin, has none.  No user is called dan.                        *)
EXTENDS Crosstalk

MCUsers      == {"ann", "bob"}
MCRecipients == {"bob", "dan"}
MCAdmins     == {"bob"}
MCQueueing   == {"ann"}
MCThreads    == {"t"}
MCOps        == 1..2
MCDrains     == {"d1", "d2"}
MCDrainedFor == [d \in MCDrains |-> "ann"]
MCCalls      == 1..2

(* A behaviour has a crash or two drains at once, not both.  (Where the     *)
(* second drain may not start, the first may, or has a call to wait for.)   *)
CrashOrOverlap ==
    crashes' > 0 =>
        /\ drains'["d2"] = {}
        /\ \A c \in Calls : calls'[c] # NoCall => calls'[c].caller # "d2"

MCSpec == Init /\ [][Next /\ CrashOrOverlap]_vars /\ Fairness
=============================================================================
