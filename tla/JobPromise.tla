----------------------------- MODULE JobPromise -----------------------------
(***************************************************************************)
(* What an agent promises the senders of jobs, without tasks, tunnels or   *)
(* calls to a daemon: a job that was accepted is in processing until some  *)
(* launch under its id ends, it is called done only when a container of it *)
(* has run and was removed, and the record on disk is what was known when  *)
(* a launch last ended, less what was lost.                                *)
(***************************************************************************)
CONSTANTS
  JobId    \* the ids that senders use

VARIABLES
  up,        \* whether the agent runs
  status,    \* what it says of each job
  record,    \* what the disk says of each job
  finished   \* the jobs of which a container was removed

vars == <<up, status, record, finished>>

Unknown == [j \in JobId |-> "unknown"]

Init ==
  /\ up = FALSE
  /\ status = Unknown /\ record = Unknown
  /\ finished = {}

Start ==
  /\ ~up
  /\ up' = TRUE
  /\ UNCHANGED <<status, record, finished>>

\* The agent stops, perhaps while it writes the record.
Stop ==
  /\ up
  /\ up' = FALSE
  /\ status' = Unknown
  /\ record' \in {record, Unknown}
  /\ UNCHANGED finished

\* A job is accepted; one of the same id is forgotten.
Accept(j) ==
  /\ up
  /\ status' = [status EXCEPT ![j] = "processing"]
  /\ UNCHANGED <<up, record, finished>>

\* A container of the job is removed, whether the agent runs or not.
Finish(j) ==
  /\ finished' = finished \cup {j}
  /\ UNCHANGED <<up, status, record>>

\* The record is written, or the write fails, or it leaves nothing.
Save ==
  \/ record' \in {record, Unknown}
  \/ /\ record' \in [JobId -> {"unknown", "processing", "done", "error"}]
     /\ \A k \in JobId : record'[k] \in {"unknown", status'[k]}

\* A launch of the job ends.
Report(j, s) ==
  /\ up /\ status[j] # "unknown"
  /\ s = "done" => j \in finished
  /\ status' = [status EXCEPT ![j] = s]
  /\ Save
  /\ UNCHANGED <<up, finished>>

Next ==
  \/ Start \/ Stop
  \/ \E j \in JobId : Accept(j) \/ Finish(j) \/ \E s \in {"done", "error"} : Report(j, s)

Spec == Init /\ [][Next]_vars
=============================================================================
