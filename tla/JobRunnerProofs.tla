-------------------------- MODULE JobRunnerProofs --------------------------
(***************************************************************************)
(* Proofs about JobRunner: what an agent says of a job and its container   *)
(* is never ahead of the container, and the agent keeps the promise of     *)
(* JobPromise, for any number of launches, tunnels and messages.           *)
(***************************************************************************)
EXTENDS JobRunner, TLAPS

Jobs == [JobId -> Job \cup {NoJob}]
Saved == [JobId -> SavedJob \cup {NoJob}]
-----------------------------------------------------------------------------
(* The operations of the JobManager. *)

\* What the operations make of an entry: the type of the whole is kept, and
\* only the entry of the job they are called for changes.
LEMMA NewJobEntry ==
  ASSUME NEW js \in Jobs, NEW j \in JobId, NEW l \in Launch
  PROVE  /\ NewJob(js, j, l) \in Jobs
         /\ NewJob(js, j, l)[j] # NoJob
         /\ NewJob(js, j, l)[j].status = "processing"
         /\ NewJob(js, j, l)[j].info = NoInfo
         /\ \A k \in JobId : k # j => NewJob(js, j, l)[k] = js[k]
  <1> DEFINE entry == [launch |-> l, status |-> "processing", info |-> NoInfo, tunnel |-> 0]
  <1>1. entry \in Job /\ entry.status = "processing" /\ entry.info = NoInfo
    BY DEF Job, Status
  <1>2. entry # NoJob
    BY <1>1, JobAssumption DEF JobAssumption
  <1>3. NewJob(js, j, l) = [js EXCEPT ![j] = entry]
    BY DEF NewJob
  <1> HIDE DEF entry
  <1> QED  BY <1>1, <1>2, <1>3 DEF Jobs

LEMMA SetJobInfoEntry ==
  ASSUME NEW js \in Jobs, NEW j \in JobId, NEW i \in Info
  PROVE  /\ SetJobInfo(js, j, i) \in Jobs
         /\ \A k \in JobId : /\ k # j => SetJobInfo(js, j, i)[k] = js[k]
                             /\ SetJobInfo(js, j, i)[k] = NoJob <=> js[k] = NoJob
                             /\ js[k] # NoJob => SetJobInfo(js, j, i)[k].status = js[k].status
         /\ js[j] # NoJob => SetJobInfo(js, j, i)[j].info = i
  <1>1. CASE js[j] = NoJob
    BY <1>1 DEF SetJobInfo, Jobs
  <1>2. CASE js[j] # NoJob
    <2> DEFINE entry == [js[j] EXCEPT !.info = i]
    <2>1. js[j] \in Job
      BY <1>2 DEF Jobs
    <2>2. entry \in Job /\ entry.status = js[j].status /\ entry.info = i
      BY <2>1 DEF Job
    <2>3. entry # NoJob
      BY <2>2, JobAssumption DEF JobAssumption
    <2>4. SetJobInfo(js, j, i) = [js EXCEPT ![j] = entry]
      BY <1>2 DEF SetJobInfo, Jobs
    <2> HIDE DEF entry
    <2> QED  BY <1>2, <2>2, <2>3, <2>4 DEF Jobs
  <1> QED  BY <1>1, <1>2

LEMMA SetJobStatusEntry ==
  ASSUME NEW js \in Jobs, NEW j \in JobId, NEW s \in Status
  PROVE  /\ SetJobStatus(js, j, s) \in Jobs
         /\ \A k \in JobId : /\ k # j => SetJobStatus(js, j, s)[k] = js[k]
                             /\ SetJobStatus(js, j, s)[k] = NoJob <=> js[k] = NoJob
                             /\ js[k] # NoJob => SetJobStatus(js, j, s)[k].info = js[k].info
         /\ js[j] # NoJob => SetJobStatus(js, j, s)[j].status = s
  <1>1. CASE js[j] = NoJob
    BY <1>1 DEF SetJobStatus, Jobs
  <1>2. CASE js[j] # NoJob
    <2> DEFINE entry == [js[j] EXCEPT !.status = s]
    <2>1. js[j] \in Job
      BY <1>2 DEF Jobs
    <2>2. entry \in Job /\ entry.status = s /\ entry.info = js[j].info
      BY <2>1 DEF Job
    <2>3. entry # NoJob
      BY <2>2, JobAssumption DEF JobAssumption
    <2>4. SetJobStatus(js, j, s) = [js EXCEPT ![j] = entry]
      BY <1>2 DEF SetJobStatus, Jobs
    <2> HIDE DEF entry
    <2> QED  BY <1>2, <2>2, <2>3, <2>4 DEF Jobs
  <1> QED  BY <1>1, <1>2

LEMMA CreateTunnelEntry ==
  ASSUME NEW js \in Jobs, NEW j \in JobId, NEW t \in Tunnel
  PROVE  /\ CreateTunnel(js, j, t) \in Jobs
         /\ \A k \in JobId : /\ CreateTunnel(js, j, t)[k] = NoJob <=> js[k] = NoJob
                             /\ js[k] # NoJob =>
                                  /\ CreateTunnel(js, j, t)[k].status = js[k].status
                                  /\ CreateTunnel(js, j, t)[k].info = js[k].info
  <1>1. CASE js[j] = NoJob
    BY <1>1 DEF CreateTunnel, Jobs
  <1>2. CASE js[j] # NoJob
    <2> DEFINE entry == [js[j] EXCEPT !.tunnel = t]
    <2>1. js[j] \in Job
      BY <1>2 DEF Jobs
    <2>2. entry \in Job /\ entry.status = js[j].status /\ entry.info = js[j].info
      BY <2>1 DEF Job
    <2>3. entry # NoJob
      BY <2>2, JobAssumption DEF JobAssumption
    <2>4. CreateTunnel(js, j, t) = [js EXCEPT ![j] = entry]
      BY <1>2 DEF CreateTunnel, Jobs
    <2> HIDE DEF entry
    <2> QED  BY <1>2, <2>2, <2>3, <2>4 DEF Jobs
  <1> QED  BY <1>1, <1>2

LEMMA DumpEntry ==
  ASSUME NEW js \in Jobs
  PROVE  /\ Dump(js) \in Saved
         /\ \A j \in JobId : Dump(js)[j] # NoJob =>
              /\ js[j] # NoJob
              /\ Dump(js)[j].status = js[j].status
              /\ js[j].info \in Info /\ Dump(js)[j].info = js[j].info
  <1> DEFINE entry(j) == [status |-> js[j].status, info |-> js[j].info]
  <1>1. ASSUME NEW j \in JobId, js[j] # NoJob, js[j].info # NoInfo
        PROVE  /\ js[j].info \in Info
               /\ entry(j) \in SavedJob
    BY <1>1 DEF Jobs, Job, SavedJob
  <1>2. \A j \in JobId : entry(j).status = js[j].status /\ entry(j).info = js[j].info
    OBVIOUS
  <1>3. Dump(js) = [j \in JobId |-> IF js[j] = NoJob \/ js[j].info = NoInfo THEN NoJob ELSE entry(j)]
    BY DEF Dump
  <1> HIDE DEF entry
  <1>4. Dump(js) \in Saved
    BY <1>1, <1>3 DEF Saved
  <1>5. ASSUME NEW j \in JobId, Dump(js)[j] # NoJob
        PROVE  /\ js[j] # NoJob /\ js[j].info # NoInfo
               /\ Dump(js)[j] = entry(j)
    BY <1>3, <1>5
  <1> QED  BY <1>1, <1>2, <1>4, <1>5
-----------------------------------------------------------------------------
(* Readers. *)

LEMMA NewReaderType ==
  ASSUME NEW p \in {"unused", "spawned"}
  PROVE  NewReader(p) \in Reader /\ Len(NewReader(p).queue) = 0
  BY DEF NewReader, Reader

LEMMA ReceiveType ==
  ASSUME NEW r \in Reader, NEW x \in Piece, NEW cap \in Nat \ {0}, Len(r.queue) <= cap
  PROVE  Receive(r, x, cap) \in Reader /\ Len(Receive(r, x, cap).queue) <= cap
  <1>1. r.queue \in Seq(Piece) /\ Len(r.queue) \in Nat
    BY DEF Reader
  <1>2. CASE r.pc # "reading"
    BY <1>2 DEF Receive
  <1>3. CASE r.pc = "reading" /\ Len(r.queue) < cap
    <2> DEFINE q == Append(r.queue, x)
    <2>1. q \in Seq(Piece) /\ Len(q) <= cap
      BY <1>1, <1>3
    <2>2. Receive(r, x, cap) = [r EXCEPT !.queue = q]
      BY <1>3 DEF Receive, Reader
    <2> HIDE DEF q
    <2> QED  BY <1>1, <1>3, <2>1, <2>2 DEF Reader
  <1>4. CASE r.pc = "reading" /\ ~(Len(r.queue) < cap)
    <2> DEFINE q == Append(Tail(r.queue), x)
    <2>0. r.queue # <<>>
      BY <1>1, <1>4
    <2>1. q \in Seq(Piece) /\ Len(q) = Len(r.queue)
      BY <1>1, <2>0
    <2>2. Receive(r, x, cap) = [r EXCEPT !.queue = q, !.lagged = TRUE]
      BY <1>4 DEF Receive, Reader
    <2> HIDE DEF q
    <2> QED  BY <1>1, <2>1, <2>2 DEF Reader
  <1> QED  BY <1>2, <1>3, <1>4

LEMMA SubscribeType ==
  ASSUME NEW r \in Reader
  PROVE  Subscribe(r) \in Reader /\ Subscribe(r).queue = r.queue
  BY DEF Subscribe, Reader

LEMMA TakeType ==
  ASSUME NEW r \in Reader, CanTake(r)
  PROVE  Take(r) \in Reader /\ Len(Take(r).queue) = Len(r.queue) - 1
  <1>1. /\ r.queue \in Seq(Piece) /\ r.queue # <<>> /\ r.taken \in Seq(Piece)
        /\ Tail(r.queue) \in Seq(Piece) /\ Len(Tail(r.queue)) = Len(r.queue) - 1
        /\ Append(r.taken, Head(r.queue)) \in Seq(Piece)
    BY DEF Reader, CanTake
  <1> QED  BY <1>1 DEF Take, Reader

LEMMA DropType ==
  ASSUME NEW r \in Reader
  PROVE  /\ Drop(r) \in Reader /\ Len(Drop(r).queue) = 0
         /\ Abandon(r) \in Reader /\ Len(Abandon(r).queue) <= Len(r.queue)
  <1>0. Drop(r).queue = <<>>
    BY DEF Drop, Reader
  <1>1. Drop(r) \in Reader
    BY <1>0, <<>> \in Seq(Piece) DEF Drop, Reader
  <1>2. Abandon(r) \in {r, Drop(r)} /\ r.queue \in Seq(Piece)
    BY DEF Abandon, Reader
  <1> QED  BY <1>0, <1>1, <1>2
-----------------------------------------------------------------------------
(* Types. *)

\* The parts of TypeOK.
TaskTypes ==
  /\ up \in BOOLEAN /\ poisoned \in BOOLEAN
  /\ job \in [Launch -> JobId \cup {NoJob}]
  /\ kind \in [Launch -> Kind \cup {"none"}]
  /\ pc \in [Launch -> PC]
  /\ container \in [Launch -> ContainerState]
  /\ monitor \in [Launch -> {"off", "idle"} \cup ContainerState]
  /\ shown \in [Launch -> 0 .. MaxOutput] /\ sent \in [Launch -> 0 .. MaxInput]

JobTypes == jobs \in Jobs /\ restored \in Saved /\ disk \in Saved

ReaderTypes ==
  /\ stdin \in [Launch -> [reader : Reader, channel : Launch]]
  /\ tunnel \in [Tunnel -> [reader : Reader, job : JobId \cup {NoJob},
                            since : [Launch -> 0 .. MaxOutput]]]
  /\ \A l \in Launch : Len(stdin[l].reader.queue) <= InputCap
  /\ \A t \in Tunnel : Len(tunnel[t].reader.queue) <= OutputCap

\* Every launch that has begun has a job, and only such a launch a monitor.
JobKnown ==
  \A l \in Launch : /\ pc[l] # "unused" => job[l] \in JobId
                    /\ monitor[l] # "off" => pc[l] # "unused"

TInv == TaskTypes /\ JobTypes /\ ReaderTypes /\ JobKnown

LEMMA TInvTypes == TInv => TypeOK
  BY DEF TInv, TaskTypes, JobTypes, ReaderTypes, TypeOK, Jobs, Saved

LEMMA NoJobsType == NoJobs \in Jobs /\ NoJobs \in Saved
  BY DEF NoJobs, Jobs, Saved

LEMMA InfoType ==
  ASSUME NEW l \in Launch, NEW s \in {"unset"} \cup ContainerState
  PROVE  [container |-> l, docker_status |-> s] \in Info
  BY DEF Info

LEMMA MonitorInfoType ==
  ASSUME TInv, NEW l \in Launch, monitor[l] \notin {"off", "idle"},
         jobs[job[l]] # NoJob, jobs[job[l]].info # NoInfo
  PROVE  [jobs[job[l]].info EXCEPT !.docker_status = monitor[l]] \in Info
  <1>1. job[l] \in JobId /\ monitor[l] \in ContainerState
    BY DEF TInv, TaskTypes, JobKnown
  <1>2. jobs[job[l]] \in Job
    BY <1>1 DEF TInv, JobTypes, Jobs
  <1>3. jobs[job[l]].info \in Info
    BY <1>2 DEF Job
  <1> QED  BY <1>1, <1>3 DEF Info

Stdin == [reader : Reader, channel : Launch]
Messangers == [reader : Reader, job : JobId \cup {NoJob}, since : [Launch -> 0 .. MaxOutput]]

\* A record of either task whose reader is replaced.
LEMMA StdinRecord ==
  ASSUME NEW s \in Stdin, NEW new \in Reader
  PROVE  [s EXCEPT !.reader = new] \in Stdin /\ [s EXCEPT !.reader = new].reader = new
  BY DEF Stdin

LEMMA TunnelRecord ==
  ASSUME NEW s \in Messangers, NEW new \in Reader
  PROVE  [s EXCEPT !.reader = new] \in Messangers /\ [s EXCEPT !.reader = new].reader = new
  BY DEF Messangers

LEMMA StdinUpdate ==
  ASSUME ReaderTypes, NEW l \in Launch, NEW new \in Reader, Len(new.queue) <= InputCap,
         stdin' = [stdin EXCEPT ![l].reader = new], tunnel' = tunnel
  PROVE  ReaderTypes'
  <1> DEFINE entry == [stdin[l] EXCEPT !.reader = new]
  <1>1. stdin \in [Launch -> Stdin]
    BY DEF ReaderTypes, Stdin
  <1>2. entry \in Stdin /\ entry.reader = new
    BY <1>1, StdinRecord
  <1>3. stdin' = [stdin EXCEPT ![l] = entry]
    BY <1>1
  <1> HIDE DEF entry
  <1>4. stdin' \in [Launch -> Stdin]
    BY <1>1, <1>2, <1>3
  <1>5. \A k \in Launch : Len(stdin'[k].reader.queue) <= InputCap
    BY <1>1, <1>2, <1>3 DEF ReaderTypes
  <1> QED  BY <1>4, <1>5 DEF ReaderTypes, Stdin

LEMMA TunnelUpdate ==
  ASSUME ReaderTypes, NEW t \in Tunnel, NEW new \in Reader, Len(new.queue) <= OutputCap,
         tunnel' = [tunnel EXCEPT ![t].reader = new], stdin' = stdin
  PROVE  ReaderTypes'
  <1> DEFINE entry == [tunnel[t] EXCEPT !.reader = new]
  <1>1. tunnel \in [Tunnel -> Messangers]
    BY DEF ReaderTypes, Messangers
  <1>2. entry \in Messangers /\ entry.reader = new
    BY <1>1, TunnelRecord
  <1>3. tunnel' = [tunnel EXCEPT ![t] = entry]
    BY <1>1
  <1> HIDE DEF entry
  <1>4. tunnel' \in [Tunnel -> Messangers]
    BY <1>1, <1>2, <1>3
  <1>5. \A k \in Tunnel : Len(tunnel'[k].reader.queue) <= OutputCap
    BY <1>1, <1>2, <1>3 DEF ReaderTypes
  <1> QED  BY <1>4, <1>5 DEF ReaderTypes, Messangers

LEMMA ReaderQueue == \A new \in Reader : Len(new.queue) \in Nat
  BY DEF Reader

\* What holds of every reader.
LEMMA ReaderFacts ==
  ASSUME ReaderTypes
  PROVE  /\ \A l \in Launch : /\ stdin[l] \in Stdin /\ stdin[l].reader \in Reader
                               /\ Len(stdin[l].reader.queue) \in Nat
                               /\ Len(stdin[l].reader.queue) <= InputCap
         /\ \A t \in Tunnel : /\ tunnel[t] \in Messangers /\ tunnel[t].reader \in Reader
                               /\ Len(tunnel[t].reader.queue) \in Nat
                               /\ Len(tunnel[t].reader.queue) <= OutputCap
  <1> QED  BY ReaderQueue DEF ReaderTypes, Stdin, Messangers

\* Every step preserves the types.
LEMMA TypeStep ==
  ASSUME TInv, [Next]_vars
  PROVE  TInv'
  <1> USE JobRunnerAssumption DEF JobRunnerAssumption
  <1>1. ASSUME StartProcess
        PROVE  TInv'
    <2>1. TaskTypes' /\ JobKnown'
      BY <1>1 DEF TInv, TaskTypes, JobKnown, StartProcess, taskVars
    <2>2. JobTypes'
      BY <1>1 DEF TInv, JobTypes, StartProcess
    <2>3. ReaderTypes'
      BY <1>1 DEF TInv, ReaderTypes, StartProcess, taskVars
    <2> QED  BY <2>1, <2>2, <2>3 DEF TInv
  <1>2. ASSUME NEW to \in {disk, NoJobs}, StopProcess(to)
        PROVE  TInv'
    <2>1. TaskTypes' /\ JobKnown'
      BY <1>2 DEF TInv, TaskTypes, JobKnown, StopProcess, Ended, PC
    <2>2. JobTypes'
      BY <1>2, NoJobsType DEF TInv, JobTypes, StopProcess
    <2>3. ReaderTypes'
      <3>1. ASSUME NEW l \in Launch
            PROVE  stdin'[l] \in Stdin /\ Len(stdin'[l].reader.queue) <= InputCap
        <4>1. stdin'[l] = [stdin[l] EXCEPT !.reader = Abandon(stdin[l].reader)]
          BY <1>2 DEF StopProcess
        <4>2. /\ Abandon(stdin[l].reader) \in Reader
              /\ Len(Abandon(stdin[l].reader).queue) <= InputCap
          BY ReaderFacts, ReaderQueue, DropType DEF TInv
        <4> QED  BY <4>1, <4>2, ReaderFacts, StdinRecord DEF TInv
      <3>2. ASSUME NEW t \in Tunnel
            PROVE  tunnel'[t] \in Messangers /\ Len(tunnel'[t].reader.queue) <= OutputCap
        <4>1. tunnel'[t] = [tunnel[t] EXCEPT !.reader = Abandon(tunnel[t].reader)]
          BY <1>2 DEF StopProcess
        <4>2. /\ Abandon(tunnel[t].reader) \in Reader
              /\ Len(Abandon(tunnel[t].reader).queue) <= OutputCap
          BY ReaderFacts, ReaderQueue, DropType DEF TInv
        <4> QED  BY <4>1, <4>2, ReaderFacts, TunnelRecord DEF TInv
      <3>3. stdin' \in [Launch -> Stdin] /\ tunnel' \in [Tunnel -> Messangers]
        BY <1>2, <3>1, <3>2 DEF StopProcess
      <3> QED  BY <3>1, <3>2, <3>3 DEF ReaderTypes, Stdin, Messangers
    <2> QED  BY <2>1, <2>2, <2>3 DEF TInv
  <1>3. ASSUME NEW l \in Launch, NEW j \in JobId, NEW k \in Kind, StartJob(l, j, k)
        PROVE  TInv'
    <2>1. TaskTypes' /\ JobKnown'
      BY <1>3 DEF TInv, TaskTypes, JobKnown, StartJob, PC, Ended, Fresh
    <2>2. JobTypes'
      BY <1>3, NewJobEntry DEF TInv, JobTypes, StartJob
    <2>3. ReaderTypes'
      BY <1>3 DEF TInv, ReaderTypes, StartJob
    <2> QED  BY <2>1, <2>2, <2>3 DEF TInv
  <1>4. ASSUME NEW j \in JobId, NEW t \in Tunnel, StartTunnel(j, t)
        PROVE  TInv'
    <2>1. TaskTypes' /\ JobKnown'
      BY <1>4 DEF TInv, TaskTypes, JobKnown, StartTunnel
    <2>2. JobTypes'
      BY <1>4, CreateTunnelEntry DEF TInv, JobTypes, StartTunnel
    <2>3. ReaderTypes'
      BY <1>4, NewReaderType DEF TInv, ReaderTypes, StartTunnel, TaskTypes
    <2> QED  BY <2>1, <2>2, <2>3 DEF TInv
  <1>5. ASSUME NEW j \in JobId, SendInput(j)
        PROVE  TInv'
    <2>1. TaskTypes' /\ JobKnown'
      BY <1>5 DEF TInv, TaskTypes, JobKnown, SendInput, JobTypes, Jobs, Job
    <2>2. JobTypes'
      BY <1>5 DEF TInv, JobTypes, SendInput
    <2>3. ReaderTypes'
      <3> DEFINE c == jobs[j].launch
                 x == <<c, sent[c] + 1>>
      <3>1. c \in Launch
        BY <1>5 DEF TInv, JobTypes, Jobs, Job, SendInput
      <3>2. x \in Piece
        BY <3>1 DEF TInv, TaskTypes, Piece
      <3>3. \A l \in Launch : stdin'[l] = IF stdin[l].channel = c
              THEN [stdin[l] EXCEPT !.reader = Receive(stdin[l].reader, x, InputCap)] ELSE stdin[l]
        BY <1>5 DEF SendInput
      <3> HIDE DEF x, c
      <3>4. ASSUME NEW l \in Launch
            PROVE  stdin'[l] \in Stdin /\ Len(stdin'[l].reader.queue) <= InputCap
        <4>1. /\ Receive(stdin[l].reader, x, InputCap) \in Reader
              /\ Len(Receive(stdin[l].reader, x, InputCap).queue) <= InputCap
          BY <3>2, ReaderFacts, ReceiveType DEF TInv
        <4> DEFINE new == Receive(stdin[l].reader, x, InputCap)
        <4>2. CASE stdin[l].channel = c
          <5>1. stdin'[l] = [stdin[l] EXCEPT !.reader = new]
            BY <3>3, <4>2
          <5>2. new \in Reader /\ Len(new.queue) <= InputCap /\ stdin[l] \in Stdin
            BY <4>1, ReaderFacts DEF TInv
          <5> HIDE DEF new
          <5> QED  BY <5>1, <5>2, StdinRecord
        <4>3. CASE stdin[l].channel # c
          BY <3>3, <4>3, ReaderFacts DEF TInv
        <4> QED  BY <4>2, <4>3
      <3>5. stdin' \in [Launch -> Stdin] /\ tunnel' = tunnel
        BY <1>5, <3>4 DEF SendInput
      <3> QED  BY <3>4, <3>5 DEF TInv, ReaderTypes, Stdin
    <2> QED  BY <2>1, <2>2, <2>3 DEF TInv
  <1>6. ASSUME NEW l \in Launch, BadArgs(l)
        PROVE  TInv'
    <2>1. TaskTypes' /\ JobKnown'
      BY <1>6 DEF TInv, TaskTypes, JobKnown, BadArgs, Goes, PC, Ended
    <2>2. JobTypes'
      BY <1>6 DEF TInv, JobTypes, BadArgs
    <2>3. ReaderTypes'
      BY <1>6 DEF TInv, ReaderTypes, BadArgs
    <2> QED  BY <2>1, <2>2, <2>3 DEF TInv
  <1>7. ASSUME NEW l \in Launch, PullImage(l)
        PROVE  TInv'
    <2>1. TaskTypes' /\ JobKnown'
      BY <1>7 DEF TInv, TaskTypes, JobKnown, PullImage, Goes, Fails, PC, Ended
    <2>2. JobTypes'
      BY <1>7 DEF TInv, JobTypes, PullImage
    <2>3. ReaderTypes'
      BY <1>7 DEF TInv, ReaderTypes, PullImage
    <2> QED  BY <2>1, <2>2, <2>3 DEF TInv
  <1>8. ASSUME NEW l \in Launch, CreateContainer(l)
        PROVE  TInv'
    <2>1. TaskTypes' /\ JobKnown'
      BY <1>8 DEF TInv, TaskTypes, JobKnown, CreateContainer, CallMoves, Goes, Fails, ContainerState, PC, Ended
    <2>2. JobTypes'
      BY <1>8 DEF TInv, JobTypes, CreateContainer
    <2>3. ReaderTypes'
      BY <1>8 DEF TInv, ReaderTypes, CreateContainer
    <2> QED  BY <2>1, <2>2, <2>3 DEF TInv
  <1>9. ASSUME NEW l \in Launch, StartContainer(l)
        PROVE  TInv'
    <2>1. TaskTypes' /\ JobKnown'
      BY <1>9 DEF TInv, TaskTypes, JobKnown, StartContainer, CallMoves, Goes, Fails, ContainerState, PC, Ended
    <2>2. JobTypes'
      BY <1>9 DEF TInv, JobTypes, StartContainer
    <2>3. ReaderTypes'
      BY <1>9 DEF TInv, ReaderTypes, StartContainer
    <2> QED  BY <2>1, <2>2, <2>3 DEF TInv
  <1>10. ASSUME NEW l \in Launch, OpenShell(l)
        PROVE  TInv'
    <2>1. TaskTypes' /\ JobKnown'
      BY <1>10 DEF TInv, TaskTypes, JobKnown, OpenShell, Goes, Fails, PC, Ended
    <2>2. JobTypes'
      BY <1>10 DEF TInv, JobTypes, OpenShell
    <2>3. ReaderTypes'
      BY <1>10 DEF TInv, ReaderTypes, OpenShell
    <2> QED  BY <2>1, <2>2, <2>3 DEF TInv
  <1>11. ASSUME NEW l \in Launch, ResizeShell(l)
        PROVE  TInv'
    <2>1. TaskTypes' /\ JobKnown'
      BY <1>11 DEF TInv, TaskTypes, JobKnown, ResizeShell, Goes, Fails, PC, Ended
    <2>2. JobTypes'
      BY <1>11 DEF TInv, JobTypes, ResizeShell
    <2>3. ReaderTypes'
      BY <1>11 DEF TInv, ReaderTypes, ResizeShell
    <2> QED  BY <2>1, <2>2, <2>3 DEF TInv
  <1>12. ASSUME NEW l \in Launch, ShellEnds(l)
        PROVE  TInv'
    <2>1. TaskTypes' /\ JobKnown'
      BY <1>12 DEF TInv, TaskTypes, JobKnown, ShellEnds, Goes, PC, Ended
    <2>2. JobTypes'
      BY <1>12 DEF TInv, JobTypes, ShellEnds
    <2>3. ReaderTypes'
      BY <1>12 DEF TInv, ReaderTypes, ShellEnds
    <2> QED  BY <2>1, <2>2, <2>3 DEF TInv
  <1>13. ASSUME NEW l \in Launch, FollowLogs(l)
        PROVE  TInv'
    <2>1. TaskTypes' /\ JobKnown'
      BY <1>13 DEF TInv, TaskTypes, JobKnown, FollowLogs, Goes, Fails, PC, Ended
    <2>2. JobTypes'
      BY <1>13 DEF TInv, JobTypes, FollowLogs
    <2>3. ReaderTypes'
      BY <1>13 DEF TInv, ReaderTypes, FollowLogs
    <2> QED  BY <2>1, <2>2, <2>3 DEF TInv
  <1>14. ASSUME NEW l \in Launch, RemoveContainer(l)
        PROVE  TInv'
    <2>1. TaskTypes' /\ JobKnown'
      BY <1>14 DEF TInv, TaskTypes, JobKnown, RemoveContainer, CallMoves, Goes, Fails, ContainerState, PC, Ended
    <2>2. JobTypes'
      BY <1>14 DEF TInv, JobTypes, RemoveContainer
    <2>3. ReaderTypes'
      BY <1>14 DEF TInv, ReaderTypes, RemoveContainer
    <2> QED  BY <2>1, <2>2, <2>3 DEF TInv
  <1>15. ASSUME NEW l \in Launch, TaskFindsPoison(l)
        PROVE  TInv'
    <2>1. TaskTypes' /\ JobKnown'
      BY <1>15 DEF TInv, TaskTypes, JobKnown, TaskFindsPoison, PC, Ended
    <2>2. JobTypes'
      BY <1>15 DEF TInv, JobTypes, TaskFindsPoison
    <2>3. ReaderTypes'
      BY <1>15 DEF TInv, ReaderTypes, TaskFindsPoison
    <2> QED  BY <2>1, <2>2, <2>3 DEF TInv
  <1>16. ASSUME NEW l \in Launch, ContainerExits(l)
        PROVE  TInv'
    <2>1. TaskTypes' /\ JobKnown'
      BY <1>16 DEF TInv, TaskTypes, JobKnown, ContainerExits, ContainerState
    <2>2. JobTypes'
      BY <1>16 DEF TInv, JobTypes, ContainerExits
    <2>3. ReaderTypes'
      BY <1>16 DEF TInv, ReaderTypes, ContainerExits
    <2> QED  BY <2>1, <2>2, <2>3 DEF TInv
  <1>17. ASSUME NEW l \in Launch, MonitorInspects(l)
        PROVE  TInv'
    <2>1. TaskTypes' /\ JobKnown'
      BY <1>17 DEF TInv, TaskTypes, JobKnown, MonitorInspects, ContainerState
    <2>2. JobTypes'
      BY <1>17 DEF TInv, JobTypes, MonitorInspects
    <2>3. ReaderTypes'
      BY <1>17 DEF TInv, ReaderTypes, MonitorInspects
    <2> QED  BY <2>1, <2>2, <2>3 DEF TInv
  <1>18. ASSUME NEW l \in Launch, RecordContainer(l)
        PROVE  TInv'
    <2>1. TaskTypes' /\ JobKnown'
      BY <1>18 DEF TInv, TaskTypes, JobKnown, RecordContainer, Goes, PC, Ended
    <2>2. JobTypes'
      BY <1>18, InfoType, SetJobInfoEntry DEF TInv, JobTypes, RecordContainer, Goes, JobKnown
    <2>3. ReaderTypes'
      BY <1>18 DEF TInv, ReaderTypes, RecordContainer
    <2> QED  BY <2>1, <2>2, <2>3 DEF TInv
  <1>19. ASSUME NEW l \in Launch, AttachStdin(l)
        PROVE  TInv'
    <2>1. TaskTypes' /\ JobKnown'
      BY <1>19 DEF TInv, TaskTypes, JobKnown, AttachStdin, Goes, PC, Ended
    <2>2. JobTypes'
      BY <1>19 DEF TInv, JobTypes, AttachStdin
    <2>3. ReaderTypes'
      BY <1>19, NewReaderType DEF TInv, ReaderTypes, AttachStdin, Goes, JobKnown, JobTypes, Jobs, Job, InputChannel
    <2> QED  BY <2>1, <2>2, <2>3 DEF TInv
  <1>20. ASSUME NEW l \in Launch, ShellOutput(l)
        PROVE  TInv'
    <2>1. TaskTypes' /\ JobKnown'
      <3>1. /\ up' = up /\ job' = job /\ kind' = kind /\ container' = container
            /\ monitor' = monitor /\ sent' = sent /\ poisoned' \in {poisoned, TRUE}
            /\ pc[l] = "streaming" /\ pc' \in {pc, [pc EXCEPT ![l] = "panicked"]}
            /\ shown[l] < MaxOutput /\ shown' = [shown EXCEPT ![l] = @ + 1]
        BY <1>20 DEF ShellOutput
      <3>2. pc' \in [Launch -> PC] /\ JobKnown'
        BY <3>1 DEF TInv, TaskTypes, JobKnown, PC, Ended
      <3>3. shown[l] + 1 \in 0 .. MaxOutput /\ shown \in [Launch -> 0 .. MaxOutput]
        BY <3>1 DEF TInv, TaskTypes
      <3>4. shown' \in [Launch -> 0 .. MaxOutput]
        BY <3>1, <3>3
      <3>5. poisoned' \in BOOLEAN
        BY <3>1 DEF TInv, TaskTypes
      <3> QED  BY <3>1, <3>2, <3>4, <3>5 DEF TInv, TaskTypes
    <2>2. JobTypes'
      BY <1>20 DEF TInv, JobTypes, ShellOutput
    <2>3. ReaderTypes'
      <3> DEFINE t == TunnelOf(job[l])
                 x == <<l, shown[l] + 1>>
      <3>1. t = 0 \/ t \in Tunnel
        <4>1. job[l] \in JobId
          BY <1>20 DEF TInv, JobKnown, ShellOutput
        <4> QED  BY <4>1 DEF TInv, JobTypes, Jobs, Job, TunnelOf
      <3>2. x \in Piece
        BY <1>20 DEF TInv, TaskTypes, Piece
      <3>3. \/ tunnel' = tunnel
            \/ /\ t # 0
               /\ tunnel' = [tunnel EXCEPT ![t].reader = Receive(tunnel[t].reader, x, OutputCap)]
        BY <1>20 DEF ShellOutput
      <3>4. stdin' = stdin
        BY <1>20 DEF ShellOutput
      <3> HIDE DEF t, x
      <3>5. CASE tunnel' = tunnel
        BY <3>4, <3>5 DEF TInv, ReaderTypes
      <3>6. CASE t \in Tunnel /\ tunnel' = [tunnel EXCEPT ![t].reader =
                                              Receive(tunnel[t].reader, x, OutputCap)]
        <4>1. /\ Receive(tunnel[t].reader, x, OutputCap) \in Reader
              /\ Len(Receive(tunnel[t].reader, x, OutputCap).queue) <= OutputCap
          BY <3>2, <3>6, ReaderFacts, ReceiveType DEF TInv
        <4> QED  BY <3>4, <3>6, <4>1, TunnelUpdate DEF TInv
      <3> QED  BY <3>1, <3>3, <3>5, <3>6
    <2> QED  BY <2>1, <2>2, <2>3 DEF TInv
  <1>21. ASSUME NEW l \in Launch, RecordRemoved(l)
        PROVE  TInv'
    <2>1. TaskTypes' /\ JobKnown'
      BY <1>21 DEF TInv, TaskTypes, JobKnown, RecordRemoved, Goes, PC, Ended
    <2>2. JobTypes'
      <3>1. job[l] \in JobId
        BY <1>21 DEF TInv, JobKnown, RecordRemoved, Goes
      <3>2. [container |-> l, docker_status |-> "removed"] \in Info
        BY InfoType DEF ContainerState
      <3> QED  BY <1>21, <3>1, <3>2, SetJobInfoEntry DEF TInv, JobTypes, RecordRemoved
    <2>3. ReaderTypes'
      BY <1>21 DEF TInv, ReaderTypes, RecordRemoved
    <2> QED  BY <2>1, <2>2, <2>3 DEF TInv
  <1>22. ASSUME NEW l \in Launch, Report(l)
        PROVE  TInv'
    <2>1. TaskTypes' /\ JobKnown'
      BY <1>22 DEF TInv, TaskTypes, JobKnown, Report, Goes, PC, Ended
    <2>2. JobTypes'
      <3>1. job[l] \in JobId
        BY <1>22 DEF TInv, JobKnown, Report, Goes
      <3>2. PICK s \in {"done", "error"} : jobs' = SetJobStatus(jobs, job[l], s)
        BY <1>22 DEF Report
      <3>3. restored' = restored /\ disk' \in {Dump(jobs'), disk, NoJobs}
        BY <1>22 DEF Report
      <3>4. jobs' \in Jobs
        BY <3>1, <3>2, SetJobStatusEntry DEF TInv, JobTypes, Status
      <3>5. Dump(jobs') \in Saved
        BY <3>4, DumpEntry
      <3> QED  BY <3>3, <3>4, <3>5, NoJobsType DEF TInv, JobTypes
    <2>3. ReaderTypes'
      BY <1>22 DEF TInv, ReaderTypes, Report
    <2> QED  BY <2>1, <2>2, <2>3 DEF TInv
  <1>23. ASSUME NEW l \in Launch, MonitorStores(l)
        PROVE  TInv'
    <2>1. TaskTypes' /\ JobKnown'
      BY <1>23 DEF TInv, TaskTypes, JobKnown, MonitorStores
    <2>2. JobTypes'
      <3>1. job[l] \in JobId
        BY <1>23 DEF TInv, JobKnown, MonitorStores
      <3>2. \/ jobs' = jobs
            \/ /\ jobs[job[l]] # NoJob /\ jobs[job[l]].info # NoInfo
               /\ jobs' = SetJobInfo(jobs, job[l],
                            [jobs[job[l]].info EXCEPT !.docker_status = monitor[l]])
        BY <1>23 DEF MonitorStores
      <3>3. monitor[l] \notin {"off", "idle"} /\ restored' = restored /\ disk' = disk
        BY <1>23 DEF MonitorStores
      <3> QED  BY <3>1, <3>2, <3>3, MonitorInfoType, SetJobInfoEntry DEF TInv, JobTypes
    <2>3. ReaderTypes'
      BY <1>23 DEF TInv, ReaderTypes, MonitorStores
    <2> QED  BY <2>1, <2>2, <2>3 DEF TInv
  <1>24. ASSUME NEW l \in Launch, StdinTask(l)
        PROVE  TInv'
    <2>1. TaskTypes' /\ JobKnown'
      BY <1>24 DEF TInv, TaskTypes, JobKnown, StdinTask
    <2>2. JobTypes'
      BY <1>24 DEF TInv, JobTypes, StdinTask
    <2>3. ReaderTypes'
      <3> DEFINE r == stdin[l].reader
      <3>1. /\ tunnel' = tunnel
            /\ \/ stdin' = [stdin EXCEPT ![l].reader = Subscribe(r)]
               \/ CanTake(r) /\ stdin' = [stdin EXCEPT ![l].reader = Take(r)]
               \/ stdin' = [stdin EXCEPT ![l].reader = Drop(r)]
        BY <1>24 DEF StdinTask
      <3>2. r \in Reader /\ Len(r.queue) \in Nat /\ Len(r.queue) <= InputCap
        BY ReaderFacts DEF TInv
      <3> HIDE DEF r
      <3>3. CASE stdin' = [stdin EXCEPT ![l].reader = Subscribe(r)]
        BY <3>1, <3>2, <3>3, SubscribeType, StdinUpdate DEF TInv
      <3>4. CASE CanTake(r) /\ stdin' = [stdin EXCEPT ![l].reader = Take(r)]
        <4>1. Take(r) \in Reader /\ Len(Take(r).queue) <= InputCap
          BY <3>2, <3>4, TakeType
        <4> QED  BY <3>1, <3>4, <4>1, StdinUpdate DEF TInv
      <3>5. CASE stdin' = [stdin EXCEPT ![l].reader = Drop(r)]
        <4>1. Drop(r) \in Reader /\ Len(Drop(r).queue) <= InputCap
          BY <3>2, DropType
        <4> QED  BY <3>1, <3>5, <4>1, StdinUpdate DEF TInv
      <3> QED  BY <3>1, <3>3, <3>4, <3>5
    <2> QED  BY <2>1, <2>2, <2>3 DEF TInv
  <1>25. ASSUME NEW t \in Tunnel, Messanger(t)
        PROVE  TInv'
    <2>1. TaskTypes' /\ JobKnown'
      BY <1>25 DEF TInv, TaskTypes, JobKnown, Messanger
    <2>2. JobTypes'
      BY <1>25 DEF TInv, JobTypes, Messanger
    <2>3. ReaderTypes'
      <3> DEFINE r == tunnel[t].reader
      <3>1. /\ stdin' = stdin
            /\ \/ tunnel' = [tunnel EXCEPT ![t].reader = Subscribe(r)]
               \/ CanTake(r) /\ tunnel' = [tunnel EXCEPT ![t].reader = Take(r)]
               \/ tunnel' = [tunnel EXCEPT ![t].reader = Drop(r)]
        BY <1>25 DEF Messanger
      <3>2. r \in Reader /\ Len(r.queue) \in Nat /\ Len(r.queue) <= OutputCap
        BY ReaderFacts DEF TInv
      <3> HIDE DEF r
      <3>3. CASE tunnel' = [tunnel EXCEPT ![t].reader = Subscribe(r)]
        BY <3>1, <3>2, <3>3, SubscribeType, TunnelUpdate DEF TInv
      <3>4. CASE CanTake(r) /\ tunnel' = [tunnel EXCEPT ![t].reader = Take(r)]
        <4>1. Take(r) \in Reader /\ Len(Take(r).queue) <= OutputCap
          BY <3>2, <3>4, TakeType
        <4> QED  BY <3>1, <3>4, <4>1, TunnelUpdate DEF TInv
      <3>5. CASE tunnel' = [tunnel EXCEPT ![t].reader = Drop(r)]
        <4>1. Drop(r) \in Reader /\ Len(Drop(r).queue) <= OutputCap
          BY <3>2, DropType
        <4> QED  BY <3>1, <3>5, <4>1, TunnelUpdate DEF TInv
      <3> QED  BY <3>1, <3>3, <3>4, <3>5
    <2> QED  BY <2>1, <2>2, <2>3 DEF TInv
  <1>26. CASE UNCHANGED vars
    <2>1. TaskTypes' /\ JobKnown'
      BY <1>26 DEF TInv, TaskTypes, JobKnown, vars
    <2>2. JobTypes'
      BY <1>26 DEF TInv, JobTypes, vars
    <2>3. ReaderTypes'
      BY <1>26 DEF TInv, ReaderTypes, vars
    <2> QED  BY <2>1, <2>2, <2>3 DEF TInv
  <1> QED
    <2>1. CASE CoreTask
      BY <2>1, <1>2, <1>3, <1>4, <1>5 DEF CoreTask, CoreFindsPoison
    <2>2. ASSUME NEW l \in Launch, LaunchTask(l)  PROVE TInv'
      BY <2>2, <1>6, <1>7, <1>8, <1>9, <1>10, <1>11, <1>12, <1>13, <1>14, <1>15,
         <1>18, <1>19, <1>20, <1>21, <1>22 DEF LaunchTask
    <2>3. ASSUME NEW l \in Launch, MonitorTask(l) \/ StdinTask(l)  PROVE TInv'
      BY <2>3, <1>17, <1>23, <1>24 DEF MonitorTask
    <2>4. CASE Environment
      BY <2>4, <1>1, <1>2, <1>16 DEF Environment, Crash, CrashDuringSave
    <2> QED  BY <1>25, <1>26, <2>1, <2>2, <2>3, <2>4 DEF Next
-----------------------------------------------------------------------------
(* Containers only go forward. *)

LEMMA AgeValues ==
  /\ Age["unset"] = 0 /\ Age["absent"] = 0 /\ Age["created"] = 1
  /\ Age["running"] = 2 /\ Age["exited"] = 3 /\ Age["removed"] = 4
  BY DEF Age, ContainerState

\* How far a launch's container is where its task is.
Progress ==
  \A l \in Launch :
    /\ pc[l] = "unused" => job[l] = NoJob
    /\ pc[l] \in {"unused", "ignored", "spawned", "pulled"} => container[l] = "absent"
    /\ pc[l] = "created" => container[l] = "created"
    /\ pc[l] \in {"removed", "ok", "done"} => container[l] = "removed"

\* No step takes a container back, or a launch to another job.
Forward(jb, ct, jb2, ct2) ==
  \A l \in Launch : /\ Age[ct[l]] <= Age[ct2[l]]
                    /\ ct[l] = "removed" => ct2[l] = "removed"
                    /\ jb[l] # NoJob => jb2[l] = jb[l]

Steady == Forward(job, container, job', container')

LEMMA ProgressStep ==
  ASSUME TInv, Progress, [Next]_vars
  PROVE  Progress' /\ Steady
  <1> USE DEF Forward, ContainerState
  <1>1. ASSUME StartProcess
        PROVE  Progress' /\ Steady
    BY <1>1, AgeValues DEF TInv, TaskTypes, Progress, Steady, StartProcess, taskVars
  <1>2. ASSUME NEW to, StopProcess(to)
        PROVE  Progress' /\ Steady
    <2>1. job' = job /\ container' = container
      BY <1>2 DEF StopProcess
    <2>2. ASSUME NEW l \in Launch  PROVE pc'[l] = pc[l] \/ pc'[l] = "gone"
      BY <1>2 DEF StopProcess
    <2>3. Progress'
      BY <2>1, <2>2 DEF Progress
    <2>4. Steady
      BY <2>1, AgeValues DEF TInv, TaskTypes, Steady
    <2> QED  BY <2>3, <2>4
  <1>3. ASSUME NEW l \in Launch, NEW j \in JobId, NEW k \in Kind, StartJob(l, j, k)
        PROVE  Progress' /\ Steady
    BY <1>3, AgeValues DEF TInv, TaskTypes, Progress, Steady, StartJob, Fresh
  <1>4. ASSUME NEW j \in JobId, NEW t \in Tunnel, StartTunnel(j, t)
        PROVE  Progress' /\ Steady
    BY <1>4, AgeValues DEF TInv, TaskTypes, Progress, Steady, StartTunnel
  <1>5. ASSUME NEW j \in JobId, SendInput(j)
        PROVE  Progress' /\ Steady
    BY <1>5, AgeValues DEF TInv, TaskTypes, Progress, Steady, SendInput
  <1>6. ASSUME NEW l \in Launch, BadArgs(l)
        PROVE  Progress' /\ Steady
    BY <1>6, AgeValues DEF TInv, TaskTypes, Progress, Steady, BadArgs, Goes
  <1>7. ASSUME NEW l \in Launch, PullImage(l)
        PROVE  Progress' /\ Steady
    BY <1>7, AgeValues DEF TInv, TaskTypes, Progress, Steady, PullImage, Goes, Fails
  <1>8. ASSUME NEW l \in Launch, CreateContainer(l)
        PROVE  Progress' /\ Steady
    BY <1>8, AgeValues DEF TInv, TaskTypes, Progress, Steady, CreateContainer, CallMoves, Goes, Fails
  <1>9. ASSUME NEW l \in Launch, StartContainer(l)
        PROVE  Progress' /\ Steady
    BY <1>9, AgeValues DEF TInv, TaskTypes, Progress, Steady, StartContainer, CallMoves, Goes, Fails
  <1>10. ASSUME NEW l \in Launch, OpenShell(l)
        PROVE  Progress' /\ Steady
    BY <1>10, AgeValues DEF TInv, TaskTypes, Progress, Steady, OpenShell, Goes, Fails
  <1>11. ASSUME NEW l \in Launch, ResizeShell(l)
        PROVE  Progress' /\ Steady
    BY <1>11, AgeValues DEF TInv, TaskTypes, Progress, Steady, ResizeShell, Goes, Fails
  <1>12. ASSUME NEW l \in Launch, ShellEnds(l)
        PROVE  Progress' /\ Steady
    BY <1>12, AgeValues DEF TInv, TaskTypes, Progress, Steady, ShellEnds, Goes
  <1>13. ASSUME NEW l \in Launch, FollowLogs(l)
        PROVE  Progress' /\ Steady
    BY <1>13, AgeValues DEF TInv, TaskTypes, Progress, Steady, FollowLogs, Goes, Fails
  <1>14. ASSUME NEW l \in Launch, RemoveContainer(l)
        PROVE  Progress' /\ Steady
    BY <1>14, AgeValues DEF TInv, TaskTypes, Progress, Steady, RemoveContainer, CallMoves, Goes, Fails
  <1>15. ASSUME NEW l \in Launch, TaskFindsPoison(l)
        PROVE  Progress' /\ Steady
    BY <1>15, AgeValues DEF TInv, TaskTypes, Progress, Steady, TaskFindsPoison
  <1>16. ASSUME NEW l \in Launch, ContainerExits(l)
        PROVE  Progress' /\ Steady
    BY <1>16, AgeValues DEF TInv, TaskTypes, Progress, Steady, ContainerExits
  <1>17. ASSUME NEW l \in Launch, MonitorInspects(l)
        PROVE  Progress' /\ Steady
    BY <1>17, AgeValues DEF TInv, TaskTypes, Progress, Steady, MonitorInspects
  <1>18. ASSUME NEW l \in Launch, RecordContainer(l)
        PROVE  Progress' /\ Steady
    BY <1>18, AgeValues DEF TInv, TaskTypes, Progress, Steady, RecordContainer, Goes
  <1>19. ASSUME NEW l \in Launch, AttachStdin(l)
        PROVE  Progress' /\ Steady
    BY <1>19, AgeValues DEF TInv, TaskTypes, Progress, Steady, AttachStdin, Goes
  <1>20. ASSUME NEW l \in Launch, ShellOutput(l)
        PROVE  Progress' /\ Steady
    BY <1>20, AgeValues DEF TInv, TaskTypes, Progress, Steady, ShellOutput
  <1>21. ASSUME NEW l \in Launch, RecordRemoved(l)
        PROVE  Progress' /\ Steady
    BY <1>21, AgeValues DEF TInv, TaskTypes, Progress, Steady, RecordRemoved, Goes
  <1>22. ASSUME NEW l \in Launch, Report(l)
        PROVE  Progress' /\ Steady
    BY <1>22, AgeValues DEF TInv, TaskTypes, Progress, Steady, Report, Goes
  <1>23. ASSUME NEW l \in Launch, MonitorStores(l)
        PROVE  Progress' /\ Steady
    BY <1>23, AgeValues DEF TInv, TaskTypes, Progress, Steady, MonitorStores
  <1>24. ASSUME NEW l \in Launch, StdinTask(l)
        PROVE  Progress' /\ Steady
    BY <1>24, AgeValues DEF TInv, TaskTypes, Progress, Steady, StdinTask
  <1>25. ASSUME NEW t \in Tunnel, Messanger(t)
        PROVE  Progress' /\ Steady
    BY <1>25, AgeValues DEF TInv, TaskTypes, Progress, Steady, Messanger
  <1>26. CASE UNCHANGED vars
    BY <1>26, AgeValues DEF TInv, TaskTypes, Progress, Steady, vars
  <1> HIDE DEF Forward
  <1> QED
    <2>1. CASE CoreTask
      BY <2>1, <1>2, <1>3, <1>4, <1>5 DEF CoreTask, CoreFindsPoison
    <2>2. ASSUME NEW l \in Launch, LaunchTask(l)  PROVE Progress' /\ Steady
      BY <2>2, <1>6, <1>7, <1>8, <1>9, <1>10, <1>11, <1>12, <1>13, <1>14, <1>15,
         <1>18, <1>19, <1>20, <1>21, <1>22 DEF LaunchTask
    <2>3. ASSUME NEW l \in Launch, MonitorTask(l) \/ StdinTask(l)  PROVE Progress' /\ Steady
      BY <2>3, <1>17, <1>23, <1>24 DEF MonitorTask
    <2>4. CASE Environment
      BY <2>4, <1>1, <1>2, <1>16 DEF Environment, Crash, CrashDuringSave
    <2> QED  BY <1>25, <1>26, <2>1, <2>2, <2>3, <2>4 DEF Next
-----------------------------------------------------------------------------
(* What is said of a job. *)

\* DoneMeansRemoved and StatusNotAhead, of one entry e for the job j, when the
\* launches have the jobs jb and their containers are in the states ct.
RemovedIn(j, jb, ct) == \E l \in Launch : jb[l] = j /\ ct[l] = "removed"

OnceIn(j, jb) == \A l, k \in Launch : jb[l] = j /\ jb[k] = j => l = k

StatusOK(e, j, jb, ct) == e # NoJob /\ e.status = "done" => RemovedIn(j, jb, ct)

\* The container of an entry is one of the job's own launches.
InfoOK(i, j, jb, ct) ==
  /\ i \in Info /\ jb[i.container] = j
  /\ OnceIn(j, jb) => Age[i.docker_status] <= Age[ct[i.container]]

EntryOK(e, j, jb, ct) ==
  /\ StatusOK(e, j, jb, ct)
  /\ e # NoJob /\ e.info # NoInfo => InfoOK(e.info, j, jb, ct)

\* Of a monitor, what it has sampled.
Samples ==
  \A l \in Launch : monitor[l] \in ContainerState => Age[monitor[l]] <= Age[container[l]]

EntriesOK ==
  \A j \in JobId : /\ EntryOK(jobs[j], j, job, container)
                   /\ EntryOK(restored[j], j, job, container)
                   /\ EntryOK(disk[j], j, job, container)

LifeInv == TInv /\ Progress /\ Samples /\ EntriesOK

LEMMA AgeType == \A s \in ContainerState \cup {"unset"} : Age[s] \in Nat
  BY AgeValues DEF ContainerState

\* What is right stays right while containers go forward.
LEMMA StatusStays ==
  ASSUME NEW jb, NEW ct, NEW jb2, NEW ct2, NEW e, NEW j \in JobId,
         Forward(jb, ct, jb2, ct2), StatusOK(e, j, jb, ct)
  PROVE  StatusOK(e, j, jb2, ct2)
  BY JobStoreAssumption DEF Forward, StatusOK, RemovedIn, JobStoreAssumption

LEMMA InfoStays ==
  ASSUME NEW jb, NEW ct \in [Launch -> ContainerState], NEW jb2,
         NEW ct2 \in [Launch -> ContainerState], NEW i, NEW j \in JobId,
         Forward(jb, ct, jb2, ct2), InfoOK(i, j, jb, ct)
  PROVE  InfoOK(i, j, jb2, ct2)
  <1>1. i.container \in Launch /\ i.docker_status \in {"unset"} \cup ContainerState
    BY DEF InfoOK, Info
  <1>2. jb2[i.container] = j
    BY <1>1, JobStoreAssumption DEF InfoOK, Forward, JobStoreAssumption
  <1>3. OnceIn(j, jb2) => OnceIn(j, jb)
    BY JobStoreAssumption DEF OnceIn, Forward, JobStoreAssumption
  <1>4. /\ Age[i.docker_status] \in Nat /\ Age[ct[i.container]] \in Nat
        /\ Age[ct2[i.container]] \in Nat
    BY <1>1, AgeType
  <1>5. Age[ct[i.container]] <= Age[ct2[i.container]]
    BY <1>1 DEF Forward
  <1> QED  BY <1>2, <1>3, <1>4, <1>5 DEF InfoOK

LEMMA EntryStays ==
  ASSUME NEW jb, NEW ct \in [Launch -> ContainerState], NEW jb2,
         NEW ct2 \in [Launch -> ContainerState], NEW e, NEW j \in JobId,
         Forward(jb, ct, jb2, ct2), EntryOK(e, j, jb, ct)
  PROVE  EntryOK(e, j, jb2, ct2)
  BY StatusStays, InfoStays DEF EntryOK

\* No entry, and an entry that only says that the job is in processing.
LEMMA EmptyEntry ==
  ASSUME NEW jb, NEW ct, NEW j \in JobId
  PROVE  /\ EntryOK(NoJob, j, jb, ct)
         /\ \A e : e.status = "processing" /\ e.info = NoInfo => EntryOK(e, j, jb, ct)
  BY DEF EntryOK, StatusOK

\* An entry with the same status and the same or no information.
LEMMA SameEntry ==
  ASSUME NEW jb, NEW ct, NEW j \in JobId, NEW e, NEW f, EntryOK(e, j, jb, ct),
         e = NoJob => f = NoJob, f # NoJob => f.status = e.status /\ f.info = e.info
  PROVE  EntryOK(f, j, jb, ct)
  BY DEF EntryOK, StatusOK
-----------------------------------------------------------------------------
(* How the entries change in each step. *)

\* An entry is right after a step if it was before, as it is.
LEMMA Untouched ==
  ASSUME LifeInv, TInv', Steady, NEW j \in JobId
  PROVE  /\ EntryOK(jobs[j], j, job', container')
         /\ EntryOK(restored[j], j, job', container')
         /\ EntryOK(disk[j], j, job', container')
  <1>1. /\ container \in [Launch -> ContainerState] /\ container' \in [Launch -> ContainerState]
        /\ Forward(job, container, job', container')
    BY DEF LifeInv, TInv, TaskTypes, Steady
  <1>2. /\ EntryOK(jobs[j], j, job, container)
        /\ EntryOK(restored[j], j, job, container)
        /\ EntryOK(disk[j], j, job, container)
    BY DEF LifeInv, EntriesOK
  <1> QED  BY <1>1, <1>2, EntryStays

\* What a dump of right entries holds is right.
LEMMA DumpOK ==
  ASSUME NEW js \in Jobs, NEW jb, NEW ct, NEW j \in JobId, EntryOK(js[j], j, jb, ct)
  PROVE  EntryOK(Dump(js)[j], j, jb, ct)
  <1>1. CASE Dump(js)[j] = NoJob
    BY <1>1, EmptyEntry
  <1>2. CASE Dump(js)[j] # NoJob
    <2>1. /\ js[j] # NoJob /\ Dump(js)[j].status = js[j].status
          /\ Dump(js)[j].info = js[j].info
      BY <1>2, DumpEntry
    <2> QED  BY <2>1, SameEntry
  <1> QED  BY <1>1, <1>2

\* The status that a monitor stores is not ahead of the container of the entry,
\* if the job was launched once: the entry is of the monitor's own launch then.
LEMMA SampleOK ==
  ASSUME LifeInv, NEW l \in Launch, monitor[l] \notin {"off", "idle"},
         jobs[job[l]] # NoJob, jobs[job[l]].info # NoInfo
  PROVE  InfoOK([jobs[job[l]].info EXCEPT !.docker_status = monitor[l]], job[l], job, container)
  <1> DEFINE old == jobs[job[l]].info
             new == [old EXCEPT !.docker_status = monitor[l]]
  <1>1. job[l] \in JobId /\ monitor[l] \in ContainerState
    BY DEF LifeInv, TInv, TaskTypes, JobKnown
  <1>2. new \in Info
    BY MonitorInfoType DEF LifeInv
  <1>3. InfoOK(old, job[l], job, container)
    BY <1>1 DEF LifeInv, EntriesOK, EntryOK
  <1>4. old \in Info
    BY <1>3 DEF InfoOK
  <1>5. new.container = old.container /\ new.docker_status = monitor[l]
    BY <1>4 DEF Info
  <1>6. old.container \in Launch /\ job[old.container] = job[l]
    BY <1>3, <1>4 DEF InfoOK, Info
  <1>7. Age[monitor[l]] <= Age[container[l]]
    BY <1>1 DEF LifeInv, Samples
  <1> HIDE DEF old, new
  <1>8. OnceIn(job[l], job) => old.container = l
    BY <1>6 DEF OnceIn
  <1> QED  BY <1>2, <1>5, <1>6, <1>7, <1>8 DEF InfoOK, new, old
LEMMA NewInfo ==
  ASSUME NEW jb, NEW ct, NEW j \in JobId, NEW e, NEW f, NEW i,
         EntryOK(e, j, jb, ct), InfoOK(i, j, jb, ct),
         e = NoJob => f = NoJob, f # NoJob => f.status = e.status /\ f.info = i
  PROVE  EntryOK(f, j, jb, ct)
  BY DEF EntryOK, StatusOK

LEMMA NewStatus ==
  ASSUME NEW jb, NEW ct, NEW j \in JobId, NEW e, NEW f, NEW t,
         EntryOK(e, j, jb, ct), t = "done" => RemovedIn(j, jb, ct),
         e = NoJob => f = NoJob, f # NoJob => f.status = t /\ f.info = e.info
  PROVE  EntryOK(f, j, jb, ct)
  BY DEF EntryOK, StatusOK

\* A step that sets the information of the job of launch l to i.
LEMMA SetInfoStep ==
  ASSUME LifeInv, TInv', Steady, NEW l \in Launch, job[l] \in JobId,
         NEW i \in Info, InfoOK(i, job[l], job', container'),
         jobs' = SetJobInfo(jobs, job[l], i), restored' = restored, disk' = disk
  PROVE  EntriesOK'
  <1>1. ASSUME NEW j \in JobId  PROVE EntryOK(jobs'[j], j, job', container')
    <2>1. EntryOK(jobs[j], j, job', container')
      BY Untouched
    <2>2. jobs \in Jobs
      BY DEF LifeInv, TInv, JobTypes
    <2>3. CASE j # job[l]
      BY <2>1, <2>2, <2>3, SetJobInfoEntry
    <2>4. CASE j = job[l]
      <3>1. /\ jobs[j] = NoJob => jobs'[j] = NoJob
            /\ jobs'[j] # NoJob => jobs'[j].status = jobs[j].status /\ jobs'[j].info = i
        BY <2>2, <2>4, SetJobInfoEntry
      <3> QED  BY <2>1, <2>4, <3>1, NewInfo
    <2> QED  BY <2>3, <2>4
  <1> QED  BY <1>1, Untouched DEF EntriesOK

LEMMA EntriesStep ==
  ASSUME LifeInv, TInv', Steady, [Next]_vars
  PROVE  EntriesOK'
  <1>0. jobs \in Jobs /\ TInv /\ NoJobs = [j \in JobId |-> NoJob]
    BY DEF LifeInv, TInv, JobTypes, NoJobs
  <1>1. CASE UNCHANGED <<jobs, restored, disk>>
    BY <1>1, Untouched DEF EntriesOK
  <1>2. CASE StartProcess
    BY <1>2, Untouched DEF EntriesOK, StartProcess
  <1>3. ASSUME NEW to \in {disk, NoJobs}, StopProcess(to)
        PROVE  EntriesOK'
    <2>1. /\ jobs' = NoJobs /\ restored' = NoJobs
          /\ disk' = disk \/ disk' = NoJobs
      BY <1>3 DEF StopProcess
    <2> QED  BY <1>0, <2>1, Untouched, EmptyEntry DEF EntriesOK
  <1>4. ASSUME NEW l \in Launch, NEW j \in JobId, NEW k \in Kind, StartJob(l, j, k)
        PROVE  EntriesOK'
    <2>1. jobs' = NewJob(jobs, j, l) /\ restored' = restored /\ disk' = disk
      BY <1>4 DEF StartJob
    <2>2. ASSUME NEW i \in JobId  PROVE EntryOK(jobs'[i], i, job', container')
      <3>1. CASE i = j
        BY <1>0, <2>1, <3>1, NewJobEntry, EmptyEntry
      <3>2. CASE i # j
        BY <1>0, <2>1, <3>2, NewJobEntry, Untouched
      <3> QED  BY <3>1, <3>2
    <2> QED  BY <2>1, <2>2, Untouched DEF EntriesOK
  <1>5. ASSUME NEW j \in JobId, NEW t \in Tunnel, StartTunnel(j, t)
        PROVE  EntriesOK'
    <2>1. jobs' = CreateTunnel(jobs, j, t) /\ restored' = restored /\ disk' = disk
      BY <1>5 DEF StartTunnel
    <2>2. ASSUME NEW i \in JobId  PROVE EntryOK(jobs'[i], i, job', container')
      <3>1. /\ jobs[i] = NoJob => jobs'[i] = NoJob
            /\ jobs'[i] # NoJob => /\ jobs'[i].status = jobs[i].status
                                  /\ jobs'[i].info = jobs[i].info
        BY <1>0, <2>1, CreateTunnelEntry
      <3>2. EntryOK(jobs[i], i, job', container')
        BY Untouched
      <3> QED  BY <3>1, <3>2, SameEntry
    <2> QED  BY <2>1, <2>2, Untouched DEF EntriesOK
  <1>6. ASSUME NEW l \in Launch, RecordContainer(l)
        PROVE  EntriesOK'
    <2> DEFINE i == [container |-> l, docker_status |-> "unset"]
    <2>1. /\ jobs' = SetJobInfo(jobs, job[l], i) /\ restored' = restored /\ disk' = disk
          /\ job' = job /\ pc[l] = "started"
      BY <1>6 DEF RecordContainer, Goes
    <2>2. job[l] \in JobId /\ container'[l] \in ContainerState
      BY <2>1 DEF LifeInv, TInv, TaskTypes, JobKnown
    <2>3. i \in Info /\ i.container = l /\ i.docker_status = "unset"
      BY InfoType
    <2> HIDE DEF i
    <2>4. Age[i.docker_status] <= Age[container'[l]]
      BY <2>2, <2>3, AgeType, AgeValues
    <2>5. InfoOK(i, job[l], job', container')
      BY <2>1, <2>3, <2>4 DEF InfoOK
    <2> QED  BY <2>1, <2>2, <2>3, <2>5, SetInfoStep
  <1>7. ASSUME NEW l \in Launch, RecordRemoved(l)
        PROVE  EntriesOK'
    <2> DEFINE i == [container |-> l, docker_status |-> "removed"]
    <2>1. /\ jobs' = SetJobInfo(jobs, job[l], i) /\ restored' = restored /\ disk' = disk
          /\ job' = job /\ container' = container /\ pc[l] = "removed"
      BY <1>7 DEF RecordRemoved, Goes
    <2>2. job[l] \in JobId /\ container'[l] = "removed"
      BY <2>1 DEF LifeInv, TInv, TaskTypes, JobKnown, Progress
    <2>3. i \in Info /\ i.container = l /\ i.docker_status = "removed"
      BY InfoType DEF ContainerState
    <2> HIDE DEF i
    <2>4. Age[i.docker_status] <= Age[container'[l]]
      BY <2>2, <2>3, AgeValues
    <2>5. InfoOK(i, job[l], job', container')
      BY <2>1, <2>3, <2>4 DEF InfoOK
    <2> QED  BY <2>1, <2>2, <2>3, <2>5, SetInfoStep
  <1>8. ASSUME NEW l \in Launch, Report(l)
        PROVE  EntriesOK'
    <2>1. PICK t \in {"done", "error"} :
            /\ pc[l] = IF t = "done" THEN "ok" ELSE "failed"
            /\ jobs' = SetJobStatus(jobs, job[l], t)
      BY <1>8 DEF Report, Goes
    <2>2. /\ restored' = restored /\ disk' \in {Dump(jobs'), disk, NoJobs}
          /\ job' = job /\ container' = container
      BY <1>8 DEF Report
    <2>3. job[l] \in JobId /\ (t = "done" => container[l] = "removed")
      BY <2>1 DEF LifeInv, TInv, TaskTypes, JobKnown, Progress
    <2>4. t = "done" => RemovedIn(job[l], job', container')
      BY <2>2, <2>3 DEF RemovedIn
    <2>5. ASSUME NEW j \in JobId  PROVE EntryOK(jobs'[j], j, job', container')
      <3>1. EntryOK(jobs[j], j, job', container')
        BY Untouched
      <3>2. CASE j # job[l]
        <4>1. t \in Status
          BY DEF Status
        <4>2. jobs'[j] = jobs[j]
          BY <1>0, <2>1, <2>3, <3>2, <4>1, SetJobStatusEntry
        <4> QED  BY <3>1, <4>2
      <3>3. CASE j = job[l]
        <4>1. /\ jobs[j] = NoJob => jobs'[j] = NoJob
              /\ jobs'[j] # NoJob => jobs'[j].status = t /\ jobs'[j].info = jobs[j].info
          BY <1>0, <2>1, <2>3, <3>3, SetJobStatusEntry DEF Status
        <4> QED  BY <2>4, <3>1, <3>3, <4>1, NewStatus
      <3> QED  BY <3>2, <3>3
    <2>6. ASSUME NEW j \in JobId  PROVE EntryOK(disk'[j], j, job', container')
      <3>1. CASE disk' = Dump(jobs')
        <4>1. jobs' \in Jobs
          BY DEF TInv, JobTypes
        <4> QED  BY <2>5, <3>1, <4>1, DumpOK
      <3>2. CASE disk' = disk
        BY <3>2, Untouched
      <3>3. CASE disk' = NoJobs
        BY <1>0, <3>3, EmptyEntry
      <3> QED  BY <2>2, <3>1, <3>2, <3>3
    <2> QED  BY <2>2, <2>5, <2>6, Untouched DEF EntriesOK
  <1>9. ASSUME NEW l \in Launch, MonitorStores(l)
        PROVE  EntriesOK'
    <2> DEFINE i == [jobs[job[l]].info EXCEPT !.docker_status = monitor[l]]
    <2>1. /\ restored' = restored /\ disk' = disk /\ job' = job /\ container' = container
          /\ monitor[l] \notin {"off", "idle"}
          /\ \/ jobs' = jobs
             \/ /\ jobs[job[l]] # NoJob /\ jobs[job[l]].info # NoInfo
                /\ jobs' = SetJobInfo(jobs, job[l], i)
      BY <1>9 DEF MonitorStores
    <2>2. CASE jobs' = jobs
      BY <1>1, <2>1, <2>2
    <2>3. CASE jobs[job[l]] # NoJob /\ jobs[job[l]].info # NoInfo
               /\ jobs' = SetJobInfo(jobs, job[l], i)
      <3>1. i \in Info /\ InfoOK(i, job[l], job, container)
        BY <2>1, <2>3, SampleOK DEF InfoOK
      <3>2. job[l] \in JobId
        BY <2>1 DEF LifeInv, TInv, JobKnown
      <3> HIDE DEF i
      <3> QED  BY <2>1, <2>3, <3>1, <3>2, SetInfoStep
    <2> QED  BY <2>1, <2>2, <2>3
  <1>10. ASSUME NEW l \in Launch, LaunchTask(l)
         PROVE  EntriesOK'
    <2>1. ASSUME \/ BadArgs(l) \/ PullImage(l) \/ CreateContainer(l) \/ StartContainer(l)
                 \/ OpenShell(l) \/ AttachStdin(l) \/ ResizeShell(l) \/ ShellOutput(l)
                 \/ ShellEnds(l) \/ FollowLogs(l) \/ RemoveContainer(l) \/ TaskFindsPoison(l)
          PROVE  UNCHANGED <<jobs, restored, disk>>
      BY <2>1 DEF BadArgs, PullImage, CreateContainer, StartContainer, OpenShell, AttachStdin,
           ResizeShell, ShellOutput, ShellEnds, FollowLogs, RemoveContainer, TaskFindsPoison
    <2> QED  BY <1>1, <1>6, <1>7, <1>8, <1>10, <2>1 DEF LaunchTask
  <1>11. CASE CoreTask
    <2>1. ASSUME NEW j \in JobId, SendInput(j)  PROVE UNCHANGED <<jobs, restored, disk>>
      BY <2>1 DEF SendInput
    <2> QED  BY <1>1, <1>3, <1>4, <1>5, <1>11, <2>1 DEF CoreTask, CoreFindsPoison
  <1>12. CASE Environment
    <2>1. ASSUME NEW l \in Launch, ContainerExits(l)  PROVE UNCHANGED <<jobs, restored, disk>>
      BY <2>1 DEF ContainerExits
    <2> QED  BY <1>1, <1>2, <1>3, <1>12, <2>1 DEF Environment, Crash, CrashDuringSave
  <1>13. ASSUME NEW l \in Launch, MonitorTask(l) \/ StdinTask(l)
         PROVE  EntriesOK'
    <2>1. MonitorInspects(l) \/ StdinTask(l) => UNCHANGED <<jobs, restored, disk>>
      BY DEF MonitorInspects, StdinTask
    <2> QED  BY <1>1, <1>9, <1>13, <2>1 DEF MonitorTask
  <1>14. ASSUME NEW t \in Tunnel, Messanger(t)
         PROVE  EntriesOK'
    BY <1>1, <1>14 DEF Messanger
  <1>15. CASE UNCHANGED vars
    BY <1>1, <1>15 DEF vars
  <1> QED  BY <1>10, <1>11, <1>12, <1>13, <1>14, <1>15 DEF Next
-----------------------------------------------------------------------------
\* A sample is taken from the container, which then goes forward.
LEMMA SamplesStep ==
  ASSUME LifeInv, TInv', Steady, [Next]_vars
  PROVE  Samples'
  <1>1. ASSUME NEW l \in Launch  PROVE \/ monitor'[l] = monitor[l]
                                      \/ monitor'[l] \in {"off", "idle", container[l]}
    <2>0. monitor \in [Launch -> {"off", "idle"} \cup ContainerState]
      BY DEF LifeInv, TInv, TaskTypes
    <2>1. CASE CoreTask
      BY <2>0, <2>1 DEF CoreTask, StartJob, StartTunnel, SendInput, CoreFindsPoison, StopProcess
    <2>2. CASE Environment
      BY <2>0, <2>2 DEF Environment, Crash, CrashDuringSave, StopProcess, StartProcess, taskVars,
           ContainerExits
    <2>3. ASSUME NEW k \in Launch, LaunchTask(k), ~RecordContainer(k)  PROVE monitor' = monitor
      BY <2>3 DEF LaunchTask, BadArgs, PullImage, CreateContainer, StartContainer, OpenShell,
           AttachStdin, ResizeShell, ShellOutput, ShellEnds, FollowLogs, RemoveContainer,
           RecordRemoved, Report, TaskFindsPoison
    <2>4. ASSUME NEW k \in Launch, RecordContainer(k)  PROVE monitor'[l] \in {monitor[l], "idle"}
      BY <2>0, <2>4 DEF RecordContainer
    <2>5. ASSUME NEW k \in Launch, MonitorTask(k)
          PROVE  monitor'[l] \in {monitor[l], "off", "idle", container[l]}
      BY <2>0, <2>5 DEF MonitorTask, MonitorInspects, MonitorStores
    <2>6. ASSUME \/ \E k \in Launch : StdinTask(k)
                 \/ \E t \in Tunnel : Messanger(t)
                 \/ UNCHANGED vars
          PROVE  monitor' = monitor
      BY <2>6 DEF StdinTask, Messanger, vars
    <2> QED  BY <2>1, <2>2, <2>3, <2>4, <2>5, <2>6 DEF Next
  <1>2. ASSUME NEW l \in Launch, monitor'[l] \in ContainerState
        PROVE  Age[monitor'[l]] <= Age[container'[l]]
    <2>1. /\ container[l] \in ContainerState /\ container'[l] \in ContainerState
          /\ Age[container[l]] <= Age[container'[l]]
      BY DEF LifeInv, TInv, TaskTypes, Steady, Forward
    <2>2. /\ Age[container[l]] \in Nat /\ Age[container'[l]] \in Nat
          /\ Age[monitor'[l]] \in Nat
      BY <1>2, <2>1, AgeType
    <2>3. monitor'[l] # "off" /\ monitor'[l] # "idle"
      BY <1>2 DEF ContainerState
    <2>4. Age[monitor'[l]] <= Age[container[l]]
      BY <1>1, <1>2, <2>2, <2>3 DEF LifeInv, Samples
    <2> QED  BY <2>1, <2>2, <2>4
  <1> QED  BY <1>2 DEF Samples

LEMMA LifeStep ==
  ASSUME LifeInv, [Next]_vars
  PROVE  LifeInv'
  <1>1. TInv'
    BY TypeStep DEF LifeInv
  <1>2. Progress' /\ Steady
    BY ProgressStep DEF LifeInv
  <1> QED  BY <1>1, <1>2, EntriesStep, SamplesStep DEF LifeInv

LEMMA LifeInit == Init => LifeInv
  <1> SUFFICES ASSUME Init  PROVE LifeInv
    OBVIOUS
  <1> USE JobRunnerAssumption, JobStoreAssumption DEF JobRunnerAssumption, JobStoreAssumption, Init
  <1>0. "unused" \in PC /\ "absent" \in ContainerState /\ "off" \notin ContainerState
    BY DEF PC, Ended, ContainerState
  <1>1. JobKnown /\ Progress /\ Samples
    BY <1>0 DEF JobKnown, Progress, Samples
  <1>5. TaskTypes
    <2>1. up \in BOOLEAN /\ poisoned \in BOOLEAN
      OBVIOUS
    <2>2. job \in [Launch -> JobId \cup {NoJob}] /\ kind \in [Launch -> Kind \cup {"none"}]
      OBVIOUS
    <2>3. /\ pc \in [Launch -> PC] /\ container \in [Launch -> ContainerState]
          /\ monitor \in [Launch -> {"off", "idle"} \cup ContainerState]
      BY <1>0
    <2>4. shown \in [Launch -> 0 .. MaxOutput] /\ sent \in [Launch -> 0 .. MaxInput]
      OBVIOUS
    <2> QED  BY <2>1, <2>2, <2>3, <2>4 DEF TaskTypes
  <1>2. JobTypes
    BY NoJobsType DEF JobTypes
  <1>3. ReaderTypes
    <2>1. ASSUME NEW l \in Launch  PROVE [reader |-> NewReader("unused"), channel |-> l] \in Stdin
      BY NewReaderType DEF Stdin
    <2>2. [reader |-> NewReader("unused"), job |-> NoJob, since |-> shown] \in Messangers
      <3>1. shown \in [Launch -> 0 .. MaxOutput]
        OBVIOUS
      <3> QED  BY <3>1, NewReaderType DEF Messangers
    <2>3. stdin \in [Launch -> Stdin] /\ tunnel \in [Tunnel -> Messangers]
      BY <2>1, <2>2
    <2>4. /\ \A l \in Launch : Len(stdin[l].reader.queue) = 0
          /\ \A t \in Tunnel : Len(tunnel[t].reader.queue) = 0
      BY NewReaderType
    <2> QED  BY <2>3, <2>4 DEF ReaderTypes, Stdin, Messangers
  <1>4. EntriesOK
    BY EmptyEntry DEF EntriesOK, NoJobs
  <1> QED  BY <1>1, <1>2, <1>3, <1>4, <1>5 DEF LifeInv, TInv

\* The inductive invariant: types, what each task has reached, and that what is
\* said of each job, in memory and on disk, is not ahead of its containers.
THEOREM LifeInvariant == Spec => []LifeInv
  BY LifeInit, LifeStep, PTL DEF Spec

\* The types of all variables, and the bounds of the channels to and from jobs,
\* for any jobs, launches, tunnels and channel capacities.
THEOREM TypeCorrect == Spec => []TypeOK
  <1>1. LifeInv => TypeOK
    BY TInvTypes DEF LifeInv
  <1> QED  BY <1>1, LifeInvariant, PTL

\* What set_job_result and save_jobs_to_disk say to be done had a container that
\* the daemon has removed.
THEOREM DoneMeansRemovedHolds == Spec => []DoneMeansRemoved
  <1>1. ASSUME LifeInv  PROVE DoneMeansRemoved
    <2>1. ASSUME NEW j \in JobId, NEW e, EntryOK(e, j, job, container),
                 e # NoJob, e.status = "done"
          PROVE  SomeRemoved(j)
      BY <2>1 DEF EntryOK, StatusOK, RemovedIn, SomeRemoved
    <2>2. \A l \in Launch : pc[l] = "done" => container[l] = "removed"
      BY <1>1 DEF LifeInv, Progress
    <2> QED  BY <1>1, <2>1, <2>2 DEF LifeInv, EntriesOK, DoneMeansRemoved
  <1> QED  BY <1>1, LifeInvariant, PTL

\* The docker_status that JobInfo answers is never ahead of the container.
THEOREM StatusNotAheadHolds == Spec => []StatusNotAhead
  <1>1. ASSUME LifeInv  PROVE StatusNotAhead
    <2>1. ASSUME NEW j \in JobId, NEW e, EntryOK(e, j, job, container), LaunchedOnce(j),
                 e # NoJob, e.info # NoInfo
          PROVE  Age[e.info.docker_status] <= Age[container[e.info.container]]
      BY <2>1 DEF EntryOK, InfoOK, OnceIn, LaunchedOnce
    <2> QED  BY <1>1, <2>1 DEF LifeInv, EntriesOK, StatusNotAhead
  <1> QED  BY <1>1, LifeInvariant, PTL
-----------------------------------------------------------------------------
(* The agent keeps the promise of JobPromise. *)

\* A task of a launch lives in a process that runs, and its job has an entry.
Lives ==
  \A l \in Launch : pc[l] \notin Ended => up /\ jobs[job[l]] # NoJob

\* A step that changes nothing that JobPromise tells of but one container.
Calm ==
  /\ up' = up /\ disk' = disk /\ job' = job
  /\ \A l \in Launch : pc[l] \in Ended => pc'[l] \in Ended
  /\ \A j \in JobId : /\ jobs'[j] = NoJob <=> jobs[j] = NoJob
                      /\ jobs[j] # NoJob => jobs'[j].status = jobs[j].status
  /\ \E k \in Launch : \A l \in Launch : l # k => container'[l] = container[l]

LEMMA CalmSteps ==
  ASSUME LifeInv, [Next]_vars
  PROVE  \/ Calm
         \/ StartProcess
         \/ up /\ \E to \in {disk, NoJobs} : StopProcess(to)
         \/ \E l \in Launch, j \in JobId, k \in Kind : StartJob(l, j, k)
         \/ \E l \in Launch : Report(l)
  <1>0. /\ pc \in [Launch -> PC] /\ container \in [Launch -> ContainerState]
        /\ jobs \in Jobs /\ JobKnown
    BY DEF LifeInv, TInv, TaskTypes, JobTypes
  <1>1. 1 \in Launch
    BY JobStoreAssumption DEF JobStoreAssumption, Launch
  <1>2. ASSUME NEW l \in Launch, LaunchTask(l), ~Report(l)
        PROVE  Calm
    <2>1. up' = up /\ disk' = disk /\ job' = job
      BY <1>2 DEF LaunchTask, BadArgs, PullImage, CreateContainer, StartContainer, OpenShell,
         AttachStdin, ResizeShell, ShellOutput, ShellEnds, FollowLogs, RemoveContainer,
         RecordContainer, RecordRemoved, TaskFindsPoison
    <2>2. pc[l] \notin Ended /\ \A k \in Launch : k # l => pc'[k] = pc[k]
      BY <1>0, <1>2 DEF LaunchTask, BadArgs, PullImage, CreateContainer, StartContainer,
         OpenShell, AttachStdin, ResizeShell, ShellOutput, ShellEnds, FollowLogs,
         RemoveContainer, RecordContainer, RecordRemoved, TaskFindsPoison, CallMoves, Goes,
         Fails, Ended
    <2>3. \A k \in Launch : k # l => container'[k] = container[k]
      BY <1>0, <1>2 DEF LaunchTask, BadArgs, PullImage, CreateContainer, StartContainer,
         OpenShell, AttachStdin, ResizeShell, ShellOutput, ShellEnds, FollowLogs,
         RemoveContainer, RecordContainer, RecordRemoved, TaskFindsPoison, CallMoves
    <2>4. jobs' = jobs \/ \E i \in Info : jobs' = SetJobInfo(jobs, job[l], i)
      <3>1. CASE RecordContainer(l) \/ RecordRemoved(l)
        BY <3>1, InfoType DEF RecordContainer, RecordRemoved, ContainerState
      <3>2. CASE ~RecordContainer(l) /\ ~RecordRemoved(l)
        BY <1>2, <3>2 DEF LaunchTask, BadArgs, PullImage, CreateContainer, StartContainer,
           OpenShell, AttachStdin, ResizeShell, ShellOutput, ShellEnds, FollowLogs,
           RemoveContainer, TaskFindsPoison
      <3> QED  BY <3>1, <3>2
    <2>5. job[l] \in JobId
      BY <1>0, <2>2 DEF JobKnown, Ended
    <2>6. ASSUME NEW j \in JobId
          PROVE  /\ jobs'[j] = NoJob <=> jobs[j] = NoJob
                 /\ jobs[j] # NoJob => jobs'[j].status = jobs[j].status
      BY <1>0, <2>4, <2>5, SetJobInfoEntry
    <2>7. \A k \in Launch : pc[k] \in Ended => pc'[k] \in Ended
      BY <2>2
    <2> QED  BY <2>1, <2>3, <2>6, <2>7 DEF Calm
  <1>3. ASSUME NEW l \in Launch, MonitorTask(l) \/ StdinTask(l) \/ ContainerExits(l)
        PROVE  Calm
    <2>1. up' = up /\ disk' = disk /\ job' = job /\ pc' = pc
      BY <1>3 DEF MonitorTask, MonitorInspects, MonitorStores, StdinTask, ContainerExits
    <2>2. \A k \in Launch : k # l => container'[k] = container[k]
      BY <1>0, <1>3 DEF MonitorTask, MonitorInspects, MonitorStores, StdinTask, ContainerExits
    <2>3. \/ jobs' = jobs
          \/ /\ job[l] \in JobId
             /\ \E i \in Info : jobs' = SetJobInfo(jobs, job[l], i)
      <3>1. CASE MonitorStores(l)
        <4>1. job[l] \in JobId /\ monitor[l] \notin {"off", "idle"}
          BY <1>0, <3>1 DEF MonitorStores, JobKnown
        <4>2. \/ jobs' = jobs
              \/ /\ jobs[job[l]] # NoJob /\ jobs[job[l]].info # NoInfo
                 /\ jobs' = SetJobInfo(jobs, job[l],
                              [jobs[job[l]].info EXCEPT !.docker_status = monitor[l]])
          BY <3>1 DEF MonitorStores
        <4> QED  BY <4>1, <4>2, MonitorInfoType DEF LifeInv
      <3>2. CASE ~MonitorStores(l)
        BY <1>3, <3>2 DEF MonitorTask, MonitorInspects, StdinTask, ContainerExits
      <3> QED  BY <3>1, <3>2
    <2>4. ASSUME NEW j \in JobId
          PROVE  /\ jobs'[j] = NoJob <=> jobs[j] = NoJob
                 /\ jobs[j] # NoJob => jobs'[j].status = jobs[j].status
      BY <1>0, <2>3, SetJobInfoEntry
    <2> QED  BY <2>1, <2>2, <2>4 DEF Calm
  <1>4. ASSUME NEW j \in JobId, NEW t \in Tunnel, StartTunnel(j, t)
        PROVE  Calm
    <2>1. /\ up' = up /\ disk' = disk /\ job' = job /\ pc' = pc /\ container' = container
          /\ jobs' = CreateTunnel(jobs, j, t)
      BY <1>4 DEF StartTunnel
    <2> QED  BY <1>0, <1>1, <2>1, CreateTunnelEntry DEF Calm
  <1>5. ASSUME \/ \E j \in JobId : SendInput(j)
               \/ \E t \in Tunnel : Messanger(t)
               \/ UNCHANGED vars
        PROVE  Calm
    <2>1. /\ up' = up /\ disk' = disk /\ job' = job /\ pc' = pc /\ container' = container
          /\ jobs' = jobs
      BY <1>5 DEF SendInput, Messanger, vars
    <2> QED  BY <1>1, <2>1 DEF Calm
  <1>6. CASE CoreTask
    BY <1>4, <1>5, <1>6 DEF CoreTask, CoreFindsPoison
  <1>7. CASE Environment
    BY <1>3, <1>7 DEF Environment, Crash, CrashDuringSave
  <1> QED  BY <1>2, <1>3, <1>5, <1>6, <1>7 DEF Next

LEMMA LivesStep ==
  ASSUME LifeInv, LifeInv', Lives, [Next]_vars
  PROVE  Lives'
  <1>0. /\ pc \in [Launch -> PC] /\ jobs \in Jobs /\ JobKnown
        /\ job \in [Launch -> JobId \cup {NoJob}]
    BY DEF LifeInv, TInv, TaskTypes, JobTypes
  <1>1. CASE Calm
    <2>1. ASSUME NEW l \in Launch, pc'[l] \notin Ended
          PROVE  up' /\ jobs'[job'[l]] # NoJob
      <3>1. pc[l] \notin Ended /\ job'[l] = job[l]
        BY <1>1, <2>1 DEF Calm
      <3>2. job[l] \in JobId /\ up /\ jobs[job[l]] # NoJob
        BY <1>0, <3>1 DEF JobKnown, Ended, Lives
      <3> QED  BY <1>1, <3>1, <3>2 DEF Calm
    <2> QED  BY <2>1 DEF Lives
  <1>2. CASE StartProcess
    BY <1>2 DEF StartProcess, taskVars, Lives
  <1>3. ASSUME NEW to, StopProcess(to)  PROVE Lives'
    BY <1>3 DEF StopProcess, Lives, Ended
  <1>4. ASSUME NEW l \in Launch, NEW j \in JobId, NEW k \in Kind, StartJob(l, j, k)
        PROVE  Lives'
    <2>1. ASSUME NEW m \in Launch, pc'[m] \notin Ended
          PROVE  up' /\ jobs'[job'[m]] # NoJob
      <3>1. /\ up /\ up' = up /\ jobs' = NewJob(jobs, j, l)
            /\ job' = [job EXCEPT ![l] = j]
        BY <1>4 DEF StartJob
      <3>2. CASE m = l
        BY <1>0, <3>1, <3>2, NewJobEntry
      <3>3. CASE m # l
        <4>1. pc'[m] = pc[m] /\ job'[m] = job[m]
          BY <1>0, <1>4, <3>1, <3>3 DEF StartJob
        <4>2. job[m] \in JobId /\ jobs[job[m]] # NoJob
          BY <1>0, <2>1, <4>1 DEF JobKnown, Ended, Lives
        <4> QED  BY <1>0, <3>1, <4>1, <4>2, NewJobEntry
      <3> QED  BY <3>2, <3>3
    <2> QED  BY <2>1 DEF Lives
  <1>5. ASSUME NEW l \in Launch, Report(l)  PROVE Lives'
    <2>1. PICK t \in Status : /\ jobs' = SetJobStatus(jobs, job[l], t)
                             /\ pc[l] \in {"ok", "failed"} /\ pc' = [pc EXCEPT ![l] = t]
      BY <1>5 DEF Report, Goes, Status
    <2>2. up' = up /\ job' = job /\ job[l] \in JobId
      BY <1>0, <1>5, <2>1 DEF Report, JobKnown
    <2>3. ASSUME NEW m \in Launch, pc'[m] \notin Ended
          PROVE  up' /\ jobs'[job'[m]] # NoJob
      <3>1. pc[m] \notin Ended
        BY <1>0, <2>1, <2>3 DEF Ended
      <3>2. job[m] \in JobId /\ up /\ jobs[job[m]] # NoJob
        BY <1>0, <3>1 DEF JobKnown, Ended, Lives
      <3> QED  BY <1>0, <2>1, <2>2, <3>2, SetJobStatusEntry
    <2> QED  BY <2>3 DEF Lives
  <1> QED  BY <1>1, <1>2, <1>3, <1>4, <1>5, CalmSteps
\* Jobs go through the steps of JobPromise only.
THEOREM PromiseHolds == Spec => ImplementsPromise
<1>. DEFINE status == [j \in JobId |-> Said(jobs[j])]
            record == [j \in JobId |-> Said(disk[j])]
            finished == {j \in JobId : SomeRemoved(j)}
<1>1. Init => Promise!Init
  <2>. SUFFICES ASSUME Init  PROVE Promise!Init
    OBVIOUS
  <2>1. \A j \in JobId : Said(jobs[j]) = "unknown" /\ Said(disk[j]) = "unknown"
    BY DEF Init, NoJobs, Said
  <2>2. status = Promise!Unknown /\ record = Promise!Unknown
    BY <2>1 DEF Promise!Unknown
  <2>3. \A j \in JobId : ~SomeRemoved(j)
    BY DEF Init, SomeRemoved
  <2>4. finished = {} /\ up = FALSE
    BY <2>3 DEF Init
  <2>. QED
    BY <2>2, <2>4 DEF Promise!Init
<1>2. Init => Lives
  BY DEF Init, Lives, Ended
<1>3. LifeInv /\ LifeInv' /\ Lives /\ [Next]_vars => [Promise!Next]_(Promise!vars)
  <2>. SUFFICES ASSUME LifeInv, LifeInv', Lives, [Next]_vars
                PROVE  Promise!Next \/ UNCHANGED Promise!vars
    OBVIOUS
  <2>1. /\ jobs \in Jobs /\ jobs' \in Jobs /\ disk \in Saved /\ disk' \in Saved
        /\ job \in [Launch -> JobId \cup {NoJob}] /\ JobKnown /\ JobKnown'
        /\ Progress /\ Progress' /\ Steady /\ NoJob \notin JobId
    BY ProgressStep, JobStoreAssumption
    DEF LifeInv, TInv, TaskTypes, JobTypes, JobStoreAssumption
  <2>2. ASSUME UNCHANGED <<job, container>>  PROVE finished' = finished
    BY <2>2 DEF SomeRemoved
  <2>3. CASE Calm
    <3>1. status' = status
      BY <2>3 DEF Calm, Said
    <3>2. record' = record /\ up' = up
      BY <2>3 DEF Calm
    <3>3. PICK k \in Launch : \A l \in Launch : l # k => container'[l] = container[l]
      BY <2>3 DEF Calm
    <3>4. job' = job
      BY <2>3 DEF Calm
    <3>5. CASE container'[k] = "removed"
      <4>1. job[k] \in JobId
        BY <2>1, <3>4, <3>5 DEF Progress, JobKnown
      <4>2. ASSUME NEW j \in JobId
            PROVE  SomeRemoved(j)' <=> SomeRemoved(j) \/ j = job[k]
        BY <2>1, <3>3, <3>4, <3>5 DEF SomeRemoved, Steady, Forward
      <4>3. finished' = finished \cup {job[k]}
        BY <4>1, <4>2
      <4>4. Promise!Finish(job[k])
        BY <3>1, <3>2, <4>3 DEF Promise!Finish
      <4>. QED
        BY <4>1, <4>4 DEF Promise!Next
    <3>6. CASE container'[k] # "removed"
      <4>1. \A l \in Launch : container'[l] = "removed" <=> container[l] = "removed"
        BY <2>1, <3>3, <3>6 DEF Steady, Forward
      <4>2. \A j \in JobId : SomeRemoved(j)' <=> SomeRemoved(j)
        BY <3>4, <4>1 DEF SomeRemoved
      <4>3. finished' = finished
        BY <4>2
      <4>. QED
        BY <3>1, <3>2, <4>3 DEF Promise!vars
    <3>. QED
      BY <3>5, <3>6
  <2>4. CASE StartProcess
    <3>1. /\ ~up /\ up' = TRUE /\ jobs' = jobs /\ disk' = disk
          /\ job' = job /\ container' = container
      BY <2>4 DEF StartProcess, taskVars
    <3>2. Promise!Start
      BY <2>2, <3>1 DEF Promise!Start
    <3>. QED
      BY <3>2 DEF Promise!Next
  <2>5. ASSUME up, NEW to \in {disk, NoJobs}, StopProcess(to)
        PROVE  Promise!Next
    <3>1. /\ up' = FALSE /\ jobs' = NoJobs /\ disk' = to
          /\ job' = job /\ container' = container
      BY <2>5 DEF StopProcess
    <3>2. \A j \in JobId : Said(NoJobs[j]) = "unknown"
      BY DEF NoJobs, Said
    <3>3. status' = Promise!Unknown /\ record' \in {record, Promise!Unknown}
      BY <3>1, <3>2 DEF Promise!Unknown
    <3>4. Promise!Stop
      BY <2>2, <2>5, <3>1, <3>3 DEF Promise!Stop
    <3>. QED
      BY <3>4 DEF Promise!Next
  <2>6. ASSUME NEW l \in Launch, NEW j \in JobId, NEW k \in Kind, StartJob(l, j, k)
        PROVE  Promise!Next
    <3>1. /\ up /\ up' = up /\ jobs' = NewJob(jobs, j, l) /\ disk' = disk
          /\ job' = [job EXCEPT ![l] = j] /\ container' = container /\ pc[l] = "unused"
      BY <2>6 DEF StartJob, Fresh
    <3>a. /\ jobs'[j] # NoJob /\ jobs'[j].status = "processing"
          /\ \A i \in JobId : i # j => jobs'[i] = jobs[i]
      BY <2>1, <3>1, NewJobEntry
    <3>2. status' = [status EXCEPT ![j] = "processing"]
      BY <3>a DEF Said
    <3>3. container[l] # "removed"
      BY <2>1, <3>1 DEF Progress
    <3>4. \A i \in JobId : SomeRemoved(i)' <=> SomeRemoved(i)
      BY <2>1, <3>1, <3>3 DEF SomeRemoved
    <3>5. finished' = finished
      BY <3>4
    <3>6. Promise!Accept(j)
      BY <3>1, <3>2, <3>5 DEF Promise!Accept
    <3>. QED
      BY <3>6 DEF Promise!Next
  <2>7. ASSUME NEW l \in Launch, Report(l)
        PROVE  Promise!Next
    <3>1. PICK t \in {"done", "error"} :
            /\ pc[l] = IF t = "done" THEN "ok" ELSE "failed"
            /\ jobs' = SetJobStatus(jobs, job[l], t)
      BY <2>7 DEF Report, Goes
    <3>2. /\ up' = up /\ job' = job /\ container' = container
          /\ disk' \in {Dump(jobs'), disk, NoJobs}
      BY <2>7 DEF Report
    <3>3. up /\ jobs[job[l]] # NoJob /\ job[l] \in JobId
      BY <2>1, <3>1 DEF Lives, JobKnown, Ended
    <3>4. status' = [status EXCEPT ![job[l]] = t]
      <4>1. t \in Status
        BY DEF Status
      <4>2. /\ jobs'[job[l]] # NoJob /\ jobs'[job[l]].status = t
            /\ \A k \in JobId : k # job[l] => jobs'[k] = jobs[k]
        BY <2>1, <3>1, <3>3, <4>1, SetJobStatusEntry
      <4>. QED
        BY <3>3, <4>2 DEF Said
    <3>5. t = "done" => job[l] \in finished
      BY <2>1, <3>1, <3>3 DEF Progress, SomeRemoved
    <3>6. status[job[l]] # "unknown"
      <4>1. jobs[job[l]] \in Job
        BY <2>1, <3>3 DEF Jobs
      <4>. QED
        BY <3>3, <4>1 DEF Said, Job, Status
    <3>7. Promise!Save
      <4>1. CASE disk' = disk
        BY <4>1 DEF Promise!Save
      <4>2. CASE disk' = NoJobs
        <5>1. \A j \in JobId : Said(NoJobs[j]) = "unknown"
          BY DEF NoJobs, Said
        <5>2. record' = Promise!Unknown
          BY <4>2, <5>1 DEF Promise!Unknown
        <5>. QED
          BY <5>2 DEF Promise!Save
      <4>3. CASE disk' = Dump(jobs')
        <5>1. ASSUME NEW j \in JobId
              PROVE  /\ Said(disk'[j]) \in {"unknown", Said(jobs'[j])}
                     /\ Said(disk'[j]) \in {"unknown", "processing", "done", "error"}
          <6>1. Dump(jobs')[j] # NoJob => /\ jobs'[j] # NoJob
                                         /\ Dump(jobs')[j].status = jobs'[j].status
            BY <2>1, DumpEntry
          <6>2. jobs'[j] # NoJob => jobs'[j].status \in Status
            BY <2>1 DEF Jobs, Job
          <6>. QED
            BY <4>3, <6>1, <6>2 DEF Said, Status
        <5>. QED
          BY <5>1 DEF Promise!Save
      <4>. QED
        BY <3>2, <4>1, <4>2, <4>3
    <3>8. Promise!Report(job[l], t)
      BY <2>2, <3>2, <3>3, <3>4, <3>5, <3>6, <3>7 DEF Promise!Report
    <3>. QED
      BY <3>3, <3>8 DEF Promise!Next
  <2>. QED
    BY <2>3, <2>4, <2>5, <2>6, <2>7, CalmSteps
<1>4. LifeInv /\ LifeInv' /\ Lives /\ [Next]_vars => Lives'
  BY LivesStep
<1>. QED
  BY <1>1, <1>2, <1>3, <1>4, LifeInvariant, PTL DEF Spec, ImplementsPromise, Promise!Spec
=============================================================================
