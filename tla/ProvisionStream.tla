-------------------------- MODULE ProvisionStream --------------------------
(***************************************************************************)
(* The progress stream of a new L2 (l2_provision_routes.py): after the     *)
(* create call was forwarded, the server polls the job at the directory    *)
(* and sends the browser one event per transition, a heartbeat otherwise,  *)
(* and one closing event.                                                  *)
(*                                                                         *)
(* The job is the directory's and moves by itself; a poll sees its row at  *)
(* that moment, fails for the moment, or fails for good (the job is not    *)
(* found, the proof is refused).                                           *)
(***************************************************************************)
EXTENDS Naturals, Sequences, SequencesExt

CONSTANTS
    Phases,         \* phases of the job before it ends
    MaxPolls        \* _STREAM_MAX_SEC / _POLL_INTERVAL_SEC

ASSUME StreamAssumption == Phases \in Nat /\ MaxPolls \in Nat

VARIABLES
    jobRow,     \* the directory's row: a phase, or "COMPLETED", "FAILED"
    stream,     \* "polling", "sleeping", "closed"; "none" before it is opened
    last,       \* last_signature
    polls,      \* elapsed, in polls
    frames      \* what was sent, heartbeats left out

streamVars == <<jobRow, stream, last, polls, frames>>

Ended == {"COMPLETED", "FAILED"}
Row(status, phase) == [status |-> status, phase |-> phase]
Frame(event, row) == [event |-> event, row |-> row]
NoRow == Row("none", 0)

StreamInit ==
    /\ jobRow = Row("PROVISIONING", 0)
    /\ stream = "none"
    /\ last = NoRow
    /\ polls = 0
    /\ frames = <<>>

JobMoves ==
    /\ jobRow.status = "PROVISIONING"
    /\ jobRow' \in {Row("PROVISIONING", jobRow.phase + 1), Row("COMPLETED", jobRow.phase),
                    Row("FAILED", jobRow.phase)}
    /\ jobRow'.phase <= Phases
    /\ UNCHANGED <<stream, last, polls, frames>>

(* stream_l2_job, once create_l2 has relayed the job id.                    *)
OpenStream ==
    /\ stream = "none"
    /\ stream' = "polling"
    /\ frames' = <<Frame("open", NoRow)>>
    /\ UNCHANGED <<jobRow, last, polls>>

(* A row that was read, or the FAILED that stands for a final refusal: an   *)
(* event if it differs from the last, and the closing event if it has ended.*)
Report(row) ==
    /\ frames' = frames \o (IF row = last THEN <<>> ELSE <<Frame("phase", row)>>)
                        \o (CASE row.status = "COMPLETED" -> <<Frame("completed", row)>>
                              [] row.status = "FAILED"    -> <<Frame("failed", row)>>
                              [] OTHER -> <<>>)
    /\ last' = row
    /\ stream' = IF row.status \in Ended THEN "closed" ELSE "sleeping"

PollAnswered ==
    /\ stream = "polling"
    /\ \/ Report(jobRow)
       \/ Report(Row("FAILED", 0))
    /\ UNCHANGED <<jobRow, polls>>

(* A failure of the moment is a heartbeat.                                  *)
PollFails ==
    /\ stream = "polling"
    /\ stream' = "sleeping"
    /\ UNCHANGED <<jobRow, last, polls, frames>>

\* Mutant: a poll that failed does not count towards the ceiling.
CountsAnswersOnly ==
    /\ stream = "sleeping"
    /\ polls' = IF last = NoRow THEN polls ELSE polls + 1
    /\ stream' = IF polls' < MaxPolls THEN "polling" ELSE "closed"
    /\ frames' = IF polls' < MaxPolls THEN frames ELSE Append(frames, Frame("failed", Row("STREAM_TIMEOUT", 0)))
    /\ UNCHANGED <<jobRow, last>>

(* Three seconds later; at the ceiling, the frame that says so.             *)
Wake ==
    /\ stream = "sleeping"
    /\ polls' = polls + 1
    /\ stream' = IF polls' < MaxPolls THEN "polling" ELSE "closed"
    /\ frames' = IF polls' < MaxPolls THEN frames
                 ELSE Append(frames, Frame("failed", Row("STREAM_TIMEOUT", 0)))
    /\ UNCHANGED <<jobRow, last>>

Poll == PollAnswered \/ PollFails

StreamNext == JobMoves \/ OpenStream \/ Poll \/ Wake

StreamFairness == WF_streamVars(OpenStream \/ Poll \/ Wake)

StreamSpec == StreamInit /\ [][StreamNext]_streamVars /\ StreamFairness

Closing(f) == f.event \in {"completed", "failed"}

(* Every stream closes, whatever the directory does, and with one closing   *)
(* event, its last; "completed" only for a job that has completed.          *)
StreamCloses ==
    <>[](/\ stream = "closed"
         /\ Len(SelectSeq(frames, Closing)) = 1
         /\ Closing(Last(frames))
         /\ Last(frames).event = "completed" => jobRow.status = "COMPLETED")
=============================================================================
