------------------------------ MODULE JobStore ------------------------------
(***************************************************************************)
(* The JobManager of src/store/job_manager.rs: what an agent remembers     *)
(* about the jobs it was given, and the operations on it.                  *)
(*                                                                         *)
(* A job is known by the id its sender chose.  Every launch, and with it   *)
(* every call of new_job, makes a new channel to the job and, when all     *)
(* goes well, a new container, so both are known by the launch's number;   *)
(* every tunnel makes a new channel from the job, known by the tunnel's    *)
(* number, with 0 for no tunnel.                                           *)
(***************************************************************************)
EXTENDS Naturals

CONSTANTS
  JobId,        \* the ids that senders use
  MaxLaunches,  \* bound on the launches
  MaxTunnels,   \* bound on the tunnels
  NoJob,        \* no entry for this id
  NoInfo        \* job_info is None

ASSUME JobStoreAssumption ==
  MaxLaunches \in Nat \ {0} /\ MaxTunnels \in Nat /\ NoJob \notin JobId

Launch == 1 .. MaxLaunches
Tunnel == 1 .. MaxTunnels

\* States of a container, in the order it goes through them.
ContainerState == {"absent", "created", "running", "exited", "removed"}

\* DockerJobInfo, less what the launch's arguments determine.
Info == [container : Launch, docker_status : {"unset"} \cup ContainerState]

Status == {"processing", "done", "error"}

\* JobProcess.
Job == [launch : Launch, status : Status, info : Info \cup {NoInfo},
        tunnel : {0} \cup Tunnel]

\* PersistentJobData.
SavedJob == [status : Status, info : Info]

ASSUME JobAssumption == NoJob \notin Job /\ NoJob \notin SavedJob

NoJobs == [j \in JobId |-> NoJob]
-----------------------------------------------------------------------------
\* Variant with a plausible slip: the first tunnel stays.
CreateTunnelOnce(js, j, t) ==
  IF js[j] = NoJob \/ js[j].tunnel # 0 THEN js ELSE [js EXCEPT ![j].tunnel = t]

\* new_job and the set_job_status after it: an entry of the same id, with its
\* channels, is replaced.
NewJob(js, j, l) ==
  [js EXCEPT ![j] = [launch |-> l, status |-> "processing", info |-> NoInfo, tunnel |-> 0]]

\* set_job_info, set_job_status (set_job_result) and create_job_tunnel do
\* nothing without an entry.
SetJobInfo(js, j, i) == IF js[j] = NoJob THEN js ELSE [js EXCEPT ![j].info = i]

SetJobStatus(js, j, s) == IF js[j] = NoJob THEN js ELSE [js EXCEPT ![j].status = s]

CreateTunnel(js, j, t) == IF js[j] = NoJob THEN js ELSE [js EXCEPT ![j].tunnel = t]

\* What save_jobs_to_disk writes, and load_jobs_from_disk reads back: only
\* the jobs with a container.
Dump(js) ==
  [j \in JobId |-> IF js[j] = NoJob \/ js[j].info = NoInfo
                   THEN NoJob
                   ELSE [status |-> js[j].status, info |-> js[j].info]]
=============================================================================
