----------------------------- MODULE JobRunner -----------------------------
(***************************************************************************)
(* How an agent runs jobs: src/commands/mod.rs, src/commands/docker.rs and *)
(* the branches of src/core/core.rs that call them.                        *)
(*                                                                         *)
(* The core task handles one message at a time.  Each launch is a task of  *)
(* its own that talks to the Docker daemon (execute_launch), with a second *)
(* task that samples the container's status for as long as the process     *)
(* lives and, for a shell, a third that carries input to the container.    *)
(* Each tunnel is a task that passes on output to a client.  They share    *)
(* the JobManager behind one std::sync::Mutex: a task that panics while it *)
(* holds the mutex poisons it, and every later lock().unwrap() panics.  An *)
(* action goes from one await or unlock to the next.                       *)
(*                                                                         *)
(* The Docker daemon may refuse or fail any call, also after having        *)
(* carried it out; containers and jobs.json outlive the process.           *)
(***************************************************************************)
EXTENDS JobStore, Sequences

CONSTANTS
  Kind,       \* the kinds of StartJob messages that are sent
  MaxOutput,  \* bound on the pieces of output of one shell
  MaxInput,   \* bound on the pieces of input sent to one launch
  OutputCap,  \* capacity of a channel from a job (100 in job_manager.rs)
  InputCap,   \* capacity of a channel to a job (100 in job_manager.rs)
  Monitors,   \* the launches whose monitor takes steps (a bound)
  Stops       \* whether the process may stop and be started again

\* "shell": a container launch with custom_cmd; "batch": one without;
\* "malformed": one whose args do not parse; "unknown": another job_type.
ASSUME JobRunnerAssumption ==
  /\ Kind \subseteq {"shell", "batch", "malformed", "unknown"}
  /\ MaxOutput \in Nat /\ MaxInput \in Nat
  /\ OutputCap \in Nat \ {0} /\ InputCap \in Nat \ {0}
  /\ Monitors \subseteq Launch
  /\ Stops \in BOOLEAN

VARIABLES
  up,         \* whether the process runs
  poisoned,   \* whether a task panicked while it held the JobManager
  jobs,       \* the core's JobManager
  restored,   \* the JobManager of main, filled by restore_jobs
  disk,       \* jobs.json, as load_jobs_from_disk would return it
  job, kind,  \* of each launch
  pc,         \* where the launch's task is
  container,  \* the container of each launch, in the daemon
  monitor,    \* "off", "idle", or the status it has read but not yet stored
  shown,      \* how many pieces of output each shell has produced
  sent,       \* how many pieces of input were sent to each launch's channel
  stdin,      \* the task that carries input into a launch's container
  tunnel      \* the task behind each tunnel

taskVars == <<job, kind, pc, container, monitor, shown, sent, stdin, tunnel>>
vars == <<up, poisoned, jobs, restored, disk,
          job, kind, pc, container, monitor, shown, sent, stdin, tunnel>>

\* A launch's task is between the calls to the daemon named by its pc:
\* spawned, pulled (image), created (container), started, recorded (in the
\* JobManager), opened (exec), attached (input), streaming, finishing, removed;
\* ok and failed: about to report; done and error: reported.
Ended == {"unused", "ignored", "done", "error", "panicked", "gone"}
PC == Ended \cup {"spawned", "pulled", "created", "started", "recorded", "opened",
                  "attached", "streaming", "finishing", "removed", "ok", "failed"}
-----------------------------------------------------------------------------
(* A receiver of a tokio broadcast channel, and the task that reads it. *)

\* What goes through the channels, by launch and number.
Piece == Launch \X Nat

Reader == [pc : {"unused", "spawned", "reading", "dead"},
           queue : Seq(Piece), lagged : BOOLEAN, taken : Seq(Piece)]

NewReader(p) == [pc |-> p, queue |-> <<>>, lagged |-> FALSE, taken |-> <<>>]

\* Variant: a channel without a limit.
ReceiveUnbounded(r, x, cap) ==
  IF r.pc # "reading" THEN r ELSE [r EXCEPT !.queue = Append(@, x)]

\* Variant: the receiver is not told that it missed something.
ReceiveSilently(r, x, cap) ==
  IF r.pc # "reading" THEN r
  ELSE [r EXCEPT !.queue = Append(IF Len(@) < cap THEN @ ELSE Tail(@), x)]

\* broadcast::Sender::send, at one receiver: a full ring overwrites the oldest
\* item and the receiver's next recv returns Lagged.  Before it has subscribed
\* and after it is dropped a receiver gets nothing.
Receive(r, x, cap) ==
  IF r.pc # "reading" THEN r
  ELSE IF Len(r.queue) < cap THEN [r EXCEPT !.queue = Append(@, x)]
  ELSE [r EXCEPT !.queue = Append(Tail(@), x), !.lagged = TRUE]

Subscribe(r) == [r EXCEPT !.pc = "reading"]

CanTake(r) == r.pc = "reading" /\ ~r.lagged /\ r.queue # <<>>

Take(r) == [r EXCEPT !.queue = Tail(@), !.taken = Append(@, Head(r.queue))]

\* recv().await.unwrap() after Lagged: the task panics, the receiver goes.
CanPanic(r) == r.pc = "reading" /\ r.lagged

Drop(r) == [r EXCEPT !.pc = "dead", !.queue = <<>>, !.lagged = FALSE]

\* What a process that stops leaves of its readers: what they took.
Abandon(r) == IF r.pc = "unused" THEN r ELSE Drop(r)
-----------------------------------------------------------------------------
Init ==
  /\ up = FALSE
  /\ poisoned = FALSE
  /\ jobs = NoJobs /\ restored = NoJobs /\ disk = NoJobs
  /\ job = [l \in Launch |-> NoJob] /\ kind = [l \in Launch |-> "none"]
  /\ pc = [l \in Launch |-> "unused"]
  /\ container = [l \in Launch |-> "absent"]
  /\ monitor = [l \in Launch |-> "off"]
  /\ shown = [l \in Launch |-> 0]
  /\ sent = [l \in Launch |-> 0]
  /\ stdin = [l \in Launch |-> [reader |-> NewReader("unused"), channel |-> l]]
  /\ tunnel = [t \in Tunnel |-> [reader |-> NewReader("unused"), job |-> NoJob,
                                 since |-> shown]]

\* main and main_normal: restore_jobs fills main's JobManager, and the core
\* begins with one of its own.
StartProcess ==
  /\ ~up
  /\ up' = TRUE
  /\ restored' = disk
  /\ UNCHANGED <<poisoned, jobs, disk, taskVars>>

\* The process ends, by itself or not; jobs.json stays as "to".
StopProcess(to) ==
  /\ up' = FALSE /\ poisoned' = FALSE
  /\ jobs' = NoJobs /\ restored' = NoJobs
  /\ disk' = to
  /\ pc' = [l \in Launch |-> IF pc[l] \in Ended THEN pc[l] ELSE "gone"]
  /\ monitor' = [l \in Launch |-> "off"]
  /\ stdin' = [l \in Launch |-> [stdin[l] EXCEPT !.reader = Abandon(@)]]
  /\ tunnel' = [t \in Tunnel |-> [tunnel[t] EXCEPT !.reader = Abandon(@)]]
  /\ UNCHANGED <<job, kind, container, shown, sent>>

Crash == up /\ Stops /\ StopProcess(disk)

\* The process ends inside fs::write, which truncates before it writes.
CrashDuringSave(l) ==
  /\ up /\ Stops /\ ~poisoned
  /\ pc[l] \in {"ok", "failed"}
  /\ StopProcess(NoJobs)
-----------------------------------------------------------------------------
(* The core task. *)

\* Any message about jobs makes the core lock a poisoned mutex: the core task
\* panics, main's await of it returns, and so does main.
CoreFindsPoison == up /\ poisoned /\ StopProcess(disk)

\* The next unused number.
Fresh(l) == pc[l] = "unused" /\ \A k \in Launch : k < l => pc[k] # "unused"

\* launch_new_job: the task is spawned for the known job_type only.
StartJob(l, j, k) ==
  /\ up /\ ~poisoned
  /\ Fresh(l)
  /\ jobs' = NewJob(jobs, j, l)
  /\ job' = [job EXCEPT ![l] = j]
  /\ kind' = [kind EXCEPT ![l] = k]
  /\ pc' = [pc EXCEPT ![l] = IF k = "unknown" THEN "ignored" ELSE "spawned"]
  /\ UNCHANGED <<up, poisoned, restored, disk, container, monitor, shown, sent, stdin,
                 tunnel>>

\* start_tunnel, which does nothing for an unknown job.
StartTunnel(j, t) ==
  /\ up /\ ~poisoned
  /\ jobs[j] # NoJob
  /\ tunnel[t].reader.pc = "unused" /\ \A s \in Tunnel : s < t => tunnel[s].reader.pc # "unused"
  /\ jobs' = CreateTunnel(jobs, j, t)
  /\ tunnel' = [tunnel EXCEPT ![t] =
                  [reader |-> NewReader("spawned"), job |-> j, since |-> shown]]
  /\ UNCHANGED <<up, poisoned, restored, disk, job, kind, pc, container, monitor, shown,
                 sent, stdin>>

\* message_to_robot: the input goes to whoever has subscribed to the channel
\* of the job's entry; an error of send is only logged.
SendInput(j) ==
  /\ up /\ ~poisoned
  /\ jobs[j] # NoJob
  /\ LET c == jobs[j].launch
     IN /\ sent[c] < MaxInput
        /\ sent' = [sent EXCEPT ![c] = @ + 1]
        /\ stdin' = [l \in Launch |->
             IF stdin[l].channel = c
             THEN [stdin[l] EXCEPT !.reader = Receive(@, <<c, sent[c] + 1>>, InputCap)]
             ELSE stdin[l]]
  /\ UNCHANGED <<up, poisoned, jobs, restored, disk, job, kind, pc, container, monitor,
                 shown, tunnel>>
-----------------------------------------------------------------------------
(* The task of one launch: execute_launch and what it calls. *)

\* The task of launch l goes from one step to another.
Goes(l, from, to) ==
  /\ pc[l] = from
  /\ pc' = [pc EXCEPT ![l] = to]

\* Variant: unwrap in place of the question mark.
FailsUnhandled(l, from) == Goes(l, from, "panicked")

\* A call to the daemon returned an error.
Fails(l, from) == Goes(l, from, "failed")

\* serde_json::from_str(...).unwrap() on the job's args.
BadArgs(l) ==
  /\ kind[l] = "malformed"
  /\ Goes(l, "spawned", "panicked")
  /\ UNCHANGED <<up, poisoned, jobs, restored, disk, job, kind, container, monitor, shown,
                 sent, stdin, tunnel>>

PullImage(l) ==
  /\ kind[l] # "malformed"
  /\ Goes(l, "spawned", "pulled") \/ Fails(l, "spawned")
  /\ UNCHANGED <<up, poisoned, jobs, restored, disk, job, kind, container, monitor, shown,
                 sent, stdin, tunnel>>

\* A call that moves the container on: it is made and answered, or fails
\* before or after the daemon has carried it out.
CallMoves(l, from, to, state) ==
  \/ /\ Goes(l, from, to)
     /\ container' = [container EXCEPT ![l] = state]
  \/ /\ Fails(l, from)
     /\ \E s \in {container[l], state} : container' = [container EXCEPT ![l] = s]

CreateContainer(l) ==
  /\ CallMoves(l, "pulled", "created", "created")
  /\ UNCHANGED <<up, poisoned, jobs, restored, disk, job, kind, monitor, shown, sent,
                 stdin, tunnel>>

StartContainer(l) ==
  /\ CallMoves(l, "created", "started", "running")
  /\ UNCHANGED <<up, poisoned, jobs, restored, disk, job, kind, monitor, shown, sent,
                 stdin, tunnel>>

\* execute_with_container: the container is entered in the JobManager and the
\* monitor spawned.
RecordContainer(l) ==
  /\ ~poisoned
  /\ Goes(l, "started", "recorded")
  /\ jobs' = SetJobInfo(jobs, job[l], [container |-> l, docker_status |-> "unset"])
  /\ monitor' = [monitor EXCEPT ![l] = "idle"]
  /\ UNCHANGED <<up, poisoned, restored, disk, job, kind, container, shown, sent, stdin,
                 tunnel>>

\* create_exec and start_exec, which need a running container.
OpenShell(l) ==
  /\ kind[l] = "shell"
  /\ \/ Goes(l, "recorded", "opened") /\ container[l] = "running"
     \/ Fails(l, "recorded")
  /\ UNCHANGED <<up, poisoned, jobs, restored, disk, job, kind, container, monitor, shown,
                 sent, stdin, tunnel>>

\* Variants: one channel for all jobs, the last one made.
LastInputChannel(j) ==
  CHOOSE l \in Launch : pc[l] # "unused" /\ \A k \in Launch : k > l => pc[k] = "unused"
LastTunnel(j) ==
  IF \A t \in Tunnel : tunnel[t].reader.pc = "unused" THEN 0
  ELSE CHOOSE t \in Tunnel : /\ tunnel[t].reader.pc # "unused"
                             /\ \A s \in Tunnel : s > t => tunnel[s].reader.pc = "unused"

\* get_channel_to_job and get_channel_from_job: the channels of the job's entry,
\* known by the launch that made it and by the tunnel, 0 for no tunnel.
InputChannel(j) == jobs[j].launch
TunnelOf(j) == IF jobs[j] = NoJob THEN 0 ELSE jobs[j].tunnel

\* The task for input gets the channel of the job's entry, which a later
\* launch of the same id may have replaced.
AttachStdin(l) ==
  /\ ~poisoned
  /\ Goes(l, "opened", "attached")
  /\ stdin' = IF jobs[job[l]] = NoJob THEN stdin
              ELSE [stdin EXCEPT ![l] = [reader |-> NewReader("spawned"),
                                         channel |-> InputChannel(job[l])]]
  /\ UNCHANGED <<up, poisoned, jobs, restored, disk, job, kind, container, monitor, shown,
                 sent, tunnel>>

ResizeShell(l) ==
  /\ Goes(l, "attached", "streaming") \/ Fails(l, "attached")
  /\ UNCHANGED <<up, poisoned, jobs, restored, disk, job, kind, container, monitor, shown,
                 sent, stdin, tunnel>>

\* The shell shows something.  Without a tunnel it is dropped; with one it
\* goes into the tunnel's channel; if that has no receiver, send().unwrap()
\* panics while the mutex is held.
ShellOutput(l) ==
  /\ up /\ ~poisoned
  /\ pc[l] = "streaming" /\ container[l] = "running"
  /\ shown[l] < MaxOutput
  /\ shown' = [shown EXCEPT ![l] = @ + 1]
  /\ LET t == TunnelOf(job[l])
     IN IF t = 0 THEN UNCHANGED <<poisoned, pc, tunnel>>
        ELSE IF tunnel[t].reader.pc = "reading"
        THEN /\ tunnel' = [tunnel EXCEPT ![t].reader =
                             Receive(@, <<l, shown[l] + 1>>, OutputCap)]
             /\ UNCHANGED <<poisoned, pc>>
        ELSE /\ poisoned' = TRUE
             /\ pc' = [pc EXCEPT ![l] = "panicked"]
             /\ UNCHANGED tunnel
  /\ UNCHANGED <<up, jobs, restored, disk, job, kind, container, monitor, sent, stdin>>

\* The stream of the exec ends, in order or with an error.
ShellEnds(l) ==
  /\ Goes(l, "streaming", "finishing")
  /\ UNCHANGED <<up, poisoned, jobs, restored, disk, job, kind, container, monitor, shown,
                 sent, stdin, tunnel>>

\* Following the logs of a batch container to their end.
FollowLogs(l) ==
  /\ kind[l] = "batch"
  /\ \/ Goes(l, "recorded", "finishing") /\ container[l] = "exited"
     \/ Fails(l, "recorded")
  /\ UNCHANGED <<up, poisoned, jobs, restored, disk, job, kind, container, monitor, shown,
                 sent, stdin, tunnel>>

\* Variant: the result of the call is not looked at.
RemoveUnchecked(l) ==
  /\ Goes(l, "finishing", "removed")
  /\ \E s \in {container[l], "removed"} : container' = [container EXCEPT ![l] = s]
  /\ UNCHANGED <<up, poisoned, jobs, restored, disk, job, kind, monitor, shown, sent,
                 stdin, tunnel>>

RemoveContainer(l) ==
  /\ CallMoves(l, "finishing", "removed", "removed")
  /\ UNCHANGED <<up, poisoned, jobs, restored, disk, job, kind, monitor, shown, sent,
                 stdin, tunnel>>

RecordRemoved(l) ==
  /\ ~poisoned
  /\ Goes(l, "removed", "ok")
  /\ jobs' = SetJobInfo(jobs, job[l], [container |-> l, docker_status |-> "removed"])
  /\ UNCHANGED <<up, poisoned, restored, disk, job, kind, container, monitor, shown, sent,
                 stdin, tunnel>>

\* Variant: saved before the result is set.
ReportSavesFirst(l) ==
  /\ ~poisoned
  /\ \E s \in {"done", "error"} :
       /\ Goes(l, IF s = "done" THEN "ok" ELSE "failed", s)
       /\ jobs' = SetJobStatus(jobs, job[l], s)
  /\ disk' \in {Dump(jobs), disk, NoJobs}
  /\ UNCHANGED <<up, poisoned, restored, job, kind, container, monitor, shown, sent,
                 stdin, tunnel>>

\* set_job_result and save_jobs_to_disk, under one lock.  The write may fail
\* (logged and ignored) before it opened the file or after it truncated it.
Report(l) ==
  /\ ~poisoned
  /\ \E s \in {"done", "error"} :
       /\ Goes(l, IF s = "done" THEN "ok" ELSE "failed", s)
       /\ jobs' = SetJobStatus(jobs, job[l], s)
  /\ disk' \in {Dump(jobs'), disk, NoJobs}
  /\ UNCHANGED <<up, poisoned, restored, job, kind, container, monitor, shown, sent,
                 stdin, tunnel>>

\* A step that locks the JobManager finds the mutex poisoned.
TaskFindsPoison(l) ==
  /\ poisoned
  /\ pc[l] \in {"started", "opened", "streaming", "removed", "ok", "failed"}
  /\ pc' = [pc EXCEPT ![l] = "panicked"]
  /\ UNCHANGED <<up, poisoned, jobs, restored, disk, job, kind, container, monitor, shown,
                 sent, stdin, tunnel>>
-----------------------------------------------------------------------------
(* The other tasks, and the daemon. *)

\* inspect_container; an error is ignored and the call repeated.
MonitorInspects(l) ==
  /\ monitor[l] = "idle" /\ l \in Monitors
  /\ container[l] \notin {"absent", "removed"}
  /\ monitor' = [monitor EXCEPT ![l] = container[l]]
  /\ UNCHANGED <<up, poisoned, jobs, restored, disk, job, kind, pc, container, shown, sent,
                 stdin, tunnel>>

\* The status read before the lock is stored in whatever entry the job has.
MonitorStores(l) ==
  /\ monitor[l] \notin {"off", "idle"}
  /\ IF poisoned
     THEN monitor' = [monitor EXCEPT ![l] = "off"] /\ UNCHANGED jobs
     ELSE /\ monitor' = [monitor EXCEPT ![l] = "idle"]
          /\ jobs' = IF jobs[job[l]] = NoJob \/ jobs[job[l]].info = NoInfo THEN jobs
                     ELSE SetJobInfo(jobs, job[l],
                            [jobs[job[l]].info EXCEPT !.docker_status = monitor[l]])
  /\ UNCHANGED <<up, poisoned, restored, disk, job, kind, pc, container, shown, sent, stdin,
                 tunnel>>

StdinTask(l) ==
  /\ \/ /\ stdin[l].reader.pc = "spawned"
        /\ stdin' = [stdin EXCEPT ![l].reader = Subscribe(@)]
     \/ /\ CanTake(stdin[l].reader)
        /\ stdin' = [stdin EXCEPT ![l].reader = Take(@)]
     \/ /\ CanPanic(stdin[l].reader)
        /\ stdin' = [stdin EXCEPT ![l].reader = Drop(@)]
  /\ UNCHANGED <<up, poisoned, jobs, restored, disk, job, kind, pc, container, monitor,
                 shown, sent, tunnel>>

\* start_tunnel_messanger.
Messanger(t) ==
  /\ \/ /\ tunnel[t].reader.pc = "spawned"
        /\ tunnel' = [tunnel EXCEPT ![t].reader = Subscribe(@)]
     \/ /\ CanTake(tunnel[t].reader)
        /\ tunnel' = [tunnel EXCEPT ![t].reader = Take(@)]
     \/ /\ CanPanic(tunnel[t].reader)
        /\ tunnel' = [tunnel EXCEPT ![t].reader = Drop(@)]
  /\ UNCHANGED <<up, poisoned, jobs, restored, disk, job, kind, pc, container, monitor,
                 shown, sent, stdin>>

\* The program in a container ends.
ContainerExits(l) ==
  /\ container[l] = "running"
  /\ container' = [container EXCEPT ![l] = "exited"]
  /\ UNCHANGED <<up, poisoned, jobs, restored, disk, job, kind, pc, monitor, shown, sent,
                 stdin, tunnel>>
-----------------------------------------------------------------------------
LaunchTask(l) ==
  \/ BadArgs(l) \/ PullImage(l) \/ CreateContainer(l) \/ StartContainer(l)
  \/ RecordContainer(l) \/ OpenShell(l) \/ AttachStdin(l) \/ ResizeShell(l)
  \/ ShellOutput(l) \/ ShellEnds(l) \/ FollowLogs(l) \/ RemoveContainer(l)
  \/ RecordRemoved(l) \/ Report(l) \/ TaskFindsPoison(l)

MonitorTask(l) == MonitorInspects(l) \/ MonitorStores(l)

CoreTask ==
  \/ \E l \in Launch, j \in JobId, k \in Kind : StartJob(l, j, k)
  \/ \E j \in JobId, t \in Tunnel : StartTunnel(j, t)
  \/ \E j \in JobId : SendInput(j)
  \/ CoreFindsPoison

Environment ==
  \/ StartProcess
  \/ Crash
  \/ \E l \in Launch : CrashDuringSave(l) \/ ContainerExits(l)

Next ==
  \/ CoreTask
  \/ \E l \in Launch : LaunchTask(l) \/ MonitorTask(l) \/ StdinTask(l)
  \/ \E t \in Tunnel : Messanger(t)
  \/ Environment

Spec == Init /\ [][Next]_vars
-----------------------------------------------------------------------------
(* Safety. *)

\* The types of the variables; no channel holds more than its capacity.
TypeOK ==
  /\ up \in BOOLEAN /\ poisoned \in BOOLEAN
  /\ jobs \in [JobId -> Job \cup {NoJob}]
  /\ restored \in [JobId -> SavedJob \cup {NoJob}]
  /\ disk \in [JobId -> SavedJob \cup {NoJob}]
  /\ job \in [Launch -> JobId \cup {NoJob}]
  /\ kind \in [Launch -> Kind \cup {"none"}]
  /\ pc \in [Launch -> PC]
  /\ container \in [Launch -> ContainerState]
  /\ monitor \in [Launch -> {"off", "idle"} \cup ContainerState]
  /\ shown \in [Launch -> 0 .. MaxOutput] /\ sent \in [Launch -> 0 .. MaxInput]
  /\ stdin \in [Launch -> [reader : Reader, channel : Launch]]
  /\ tunnel \in [Tunnel -> [reader : Reader, job : JobId \cup {NoJob},
                            since : [Launch -> 0 .. MaxOutput]]]
  /\ \A l \in Launch : Len(stdin[l].reader.queue) <= InputCap
  /\ \A t \in Tunnel : Len(tunnel[t].reader.queue) <= OutputCap

\* Some launch of job j saw its container removed.
SomeRemoved(j) == \E l \in Launch : job[l] = j /\ container[l] = "removed"

\* A job that ListJobs, jobs.json or the jobs read back from it call done has
\* had a container, and the daemon has removed it: no failed call, crash or
\* launch under the same id makes the agent say so of a job that has not run.
DoneMeansRemoved ==
  /\ \A j \in JobId, js \in {jobs, restored, disk} :
       js[j] # NoJob /\ js[j].status = "done" => SomeRemoved(j)
  /\ \A l \in Launch : pc[l] = "done" => container[l] = "removed"

\* How far a container has got.
Age == [s \in ContainerState \cup {"unset"} |->
         CASE s = "unset" -> 0 [] s = "absent" -> 0 [] s = "created" -> 1
           [] s = "running" -> 2 [] s = "exited" -> 3 [] s = "removed" -> 4]

LaunchedOnce(j) == \A l, k \in Launch : job[l] = j /\ job[k] = j => l = k

\* The docker_status that JobInfo answers or jobs.json holds may be older than
\* the container's state, the monitor's sample even older than what the
\* launch's task stored, but never ahead of it, for an id that was launched
\* once (the monitor of another launch stores its status in the same entry).
StatusNotAhead ==
  \A j \in JobId, js \in {jobs, restored, disk} :
    js[j] # NoJob /\ LaunchedOnce(j) /\ js[j].info # NoInfo =>
      Age[js[j].info.docker_status] <= Age[container[js[j].info.container]]

\* A stream without a gap or a repetition: the pieces of one launch come in
\* order, each but the first after the one before it.
Unbroken(s) ==
  \A i, j \in 1 .. Len(s) :
    i < j /\ s[i][1] = s[j][1] =>
      /\ s[i][2] < s[j][2]
      /\ \E k \in i .. j - 1 : s[k] = <<s[j][1], s[j][2] - 1>>

\* What a messanger has taken and handed to from_message is output of launches
\* of its own job and, of each launch, a piece of the stream without a gap or a
\* repetition: a messanger that falls behind the shell ends, and never goes on
\* after a part that it missed.  It does not wait for its client: what is lost
\* in the rings between from_message and the client is not told here.
TunnelStream ==
  \A t \in Tunnel :
    LET taken == tunnel[t].reader.taken
    IN Unbroken(taken) /\ \A i \in 1 .. Len(taken) : job[taken[i][1]] = tunnel[t].job

\* A tunnel takes over from the earlier ones of its job: what is shown after it
\* was created is never passed on, nor queued, in an earlier one.
TakeOver ==
  \A t, s \in Tunnel :
    t < s /\ tunnel[s].job # NoJob /\ tunnel[t].job = tunnel[s].job =>
      LET passed == tunnel[t].reader.taken \o tunnel[t].reader.queue
      IN \A i \in 1 .. Len(passed) : passed[i][2] <= tunnel[s].since[passed[i][1]]

\* What is typed into a shell was sent to its own job, to one launch of it, and
\* is a piece of that stream without a gap or a repetition.
KeyboardStream ==
  \A l \in Launch :
    LET taken == stdin[l].reader.taken
        c     == stdin[l].channel
    IN taken # <<>> =>
         /\ job[c] = job[l]
         /\ Unbroken(taken) /\ \A i \in 1 .. Len(taken) : taken[i][1] = c
-----------------------------------------------------------------------------
(* What the code asserts, and does not hold. *)

\* docker.rs:317: the unwrap says that a tunnel's channel has a receiver
\* whenever the shell shows something, so that no task panics with the lock.
OutputHasReader == ~poisoned
-----------------------------------------------------------------------------
(* Liveness. *)

\* tokio runs every task that can go on; the daemon answers every call; the
\* programs in containers and the shells end.
Fairness ==
  /\ \A l \in Launch :
       /\ WF_vars(PullImage(l)) /\ WF_vars(CreateContainer(l))
       /\ WF_vars(StartContainer(l)) /\ WF_vars(RecordContainer(l))
       /\ WF_vars(OpenShell(l)) /\ WF_vars(AttachStdin(l)) /\ WF_vars(ResizeShell(l))
       /\ WF_vars(ShellEnds(l)) /\ WF_vars(FollowLogs(l))
       /\ WF_vars(RemoveContainer(l)) /\ WF_vars(RecordRemoved(l))
       /\ WF_vars(Report(l)) /\ WF_vars(TaskFindsPoison(l))
       /\ WF_vars(BadArgs(l)) /\ WF_vars(ContainerExits(l))

FairSpec == Spec /\ Fairness

\* A job whose arguments parse does not stay in processing, whatever the daemon
\* fails at and whoever launches under the same id, unless the process stops or
\* a panic in some launch's output makes the JobManager unusable for all.
Reported ==
  \A j \in JobId :
    (/\ jobs[j] # NoJob
     /\ jobs[j].status = "processing"
     /\ kind[jobs[j].launch] \in {"shell", "batch"})
    ~> (~up \/ poisoned
           \/ (jobs[j] # NoJob /\ jobs[j].status \in {"done", "error"})
           \/ (jobs[j] # NoJob /\ kind[jobs[j].launch] \in {"malformed", "unknown"}))
-----------------------------------------------------------------------------
(* The agent keeps the promise of JobPromise. *)

\* What the entry of a job says of it.
Said(entry) == IF entry = NoJob THEN "unknown" ELSE entry.status

Promise == INSTANCE JobPromise WITH
  status <- [j \in JobId |-> Said(jobs[j])],
  record <- [j \in JobId |-> Said(disk[j])],
  finished <- {j \in JobId : SomeRemoved(j)}

\* Jobs, as ListJobs and jobs.json tell of them, go through the steps of
\* JobPromise only, whatever the daemon, tunnels, crashes and panics do.
ImplementsPromise == Promise!Spec
=============================================================================
