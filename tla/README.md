# Robot agent: TLA+ models, checks and proofs

Robot-agent (`src/`) is a process that runs on every robot of a fleet and on the
machines of the fleet's owner and users. Agents form a libp2p network. Through it
the owner publishes the *robots' configuration* (which robots and users belong to
the fleet), and the owner and the users start Docker jobs on robots and attach
terminals to them. All decisions an agent makes about a message depend on the
configuration it has installed.

This directory holds TLA+ models of the agent, TLC configurations that check them
on small instances, and proofs checked by TLAPS. `PROJECT.json` lists the runs,
the properties, the mutants that show what each property detects, the source
lines each definition models, the hazards and the theorems.

## The system

Rust paths below are relative to `src/src/`.

| Part | State | Operations | Modelled by |
|---|---|---|---|
| `RobotsManager` (`store/robot_manager.rs`), behind one mutex | owner key, robots, users, `config_version`, `config_message`, peers | `set_owner`, `set_robots_config`, `read_config_from_file`, `read_robots_from_config`, `save_to_file`, `get_role` | `ConfigStore`, `ConfigSync` |
| `ConfigStorage` (`store/config.rs`), inside it | signer's key -> configuration and message | `update_config`, `get_config` | `ConfigStore` |
| libp2p task (`node/node.rs`) | the swarm, a receiver of `from_message` | forward signed messages, exchange configuration versions when a connection comes up, sign and publish | `ConfigSync` (the configuration's part), `MessageBus` |
| core task (`core/core.rs`) | a receiver of `to_message`, the `JobManager` | check sender and role, install configurations, call the job commands, answer requests, handshake timer | `ConfigSync`, `JobRunner`, `MessageBus`, `PeerHealth` |
| `JobManager` (`store/job_manager.rs`), behind one mutex | id -> job: status, container, channel to the job, channel from the job | `new_job`, `set_job_info`, `set_job_status`, `create_job_tunnel`, save and load `jobs.json` | `JobStore` |
| job commands (`commands/`) | one task per launch, per container monitor, per terminal input, per tunnel | launch, run a shell or follow logs, remove, report; carry output and input | `JobRunner`; `JobPromise` is its abstract specification |
| start-up (`main.rs`) | files `rn.key`, `rn.json`, `config.json`, `jobs.json` | read them, start the tasks, end when the core task ends | `Identity`, `ConfigSync.Start`, `JobRunner.StartProcess` |
| `NetworkManager` (`store/network_manager.rs`), inside the `RobotsManager` | peer -> last handshake, online flag | `process_handshake`, `clean_old_handshakes` | `PeerHealth` |
| `MessageQueue` (`external_api/messages.rs`), one in each server | messages, peer id -> subscriber's channel | `add_message`, `broadcast_messages`, `add_subscriber` | `MessageQueue` |
| web socket server (`external_api/web_socket.rs`) | a receiver of `to_message`; a task for each connection | queue messages; commands of clients, messages to them | `MessageBus` |
| unix socket server (`external_api/unix_socket.rs`) | a receiver of `to_message`, the stream it handles | the same, one stream only | `UnixSocket` |
| keys (`store/key_manager.rs`, `cli.rs`) | key pair, `rn.key` | generate, load, save | `Identity` |
| messages (`store/messages.rs`) | none | sign, verify, encrypt, decrypt | `Sealing`; elsewhere who signed and whether it verifies are given |

**How they interact.** The libp2p task verifies what comes in and sends it into the
broadcast channel `to_message` (16 messages) to the core task and the API servers;
an agent started with `--rpc` also stores configurations of *any* signer, in order to
pass them on. The core task handles one message at a time. What leaves the agent
goes into the broadcast channel `from_message` (16) to the libp2p task. A launch
is a task of its own; it, its monitor, its input task and the core share the
`JobManager` behind a `std::sync::Mutex`.

**What is hard.** Two tasks write one `RobotsManager`; gossip loses, repeats and
reorders; versions are exchanged only when a connection comes up, and a shared
configuration is never acknowledged; broadcast channels overwrite the oldest
message when a receiver is slow, and lose what is sent before it subscribes; files
are truncated before they are written; any call to the Docker daemon may fail
after it was carried out; the same job id may be launched twice; a task that
panics with the mutex held takes the `JobManager` away from all others; silence is
measured on a clock that may be set, at moments that have nothing to do with those
at which handshakes arrive; subscribers share ids and stay behind when clients
leave; the key file is written anew at every start.

**What makes the parts correct.**

- Configuration: what is used, stored, served or saved was signed by the key it is
  filed under; it goes forward only; agents of one fleet agree; an agent can serve
  what it uses; everybody ends up with the newest.
- Jobs: the status shown never runs ahead of the container; a terminal's streams
  have no gap and stay with their job; a new tunnel takes over; every job that
  ends is reported.
- Peer health: a peer shown online was alive not long ago, a live one is not shown
  offline.
- Messages: what a client gets is for an id it acts for, in order and once; a
  request signed by an authorised key is carried out once and answered to the
  origin it names; a client does not keep others from being served (the unix socket
  server does not meet this one).
- Identity: an agent keeps its key. Encryption: the receiver opens what was
  encrypted for it.

## Modules

### ConfigStore, ConfigSync: the robots' configuration

`ConfigStore` has the data (`Config`, `Entry`, `Storage`) and the operations of
`RobotsManager` and `ConfigStorage` on it as operators. An `Entry` is a
configuration with the message it came in; the manager's own fields, an entry of
the storage and the dump in `rn.json` all have this shape.

`ConfigSync` is a network of agents. Per agent: `mode` (down; booting: the libp2p
task runs and the core has not subscribed; running), `owner`, `installed` (the
manager's own fields), `storage`, `inbox` (what the core has not yet received of
`to_message`) and `file`. In the network: `gossip` under way, `links`, `greeting`
(connections whose `ConnectionEstablished` is not yet handled) and `net` (requests
and responses). An action is the body of one branch of a task's `select!` loop:

| Action | Code |
|---|---|
| `Start`, `CoreSubscribe` | `main.rs` 69-125, `core.rs` 27 |
| `Publish`, `GossipDeliver`, `HandleShareConfig`, all through `ProcessSignedMessage` | `node.rs` 248-257, 290-302, 401-406, 62-100 |
| `ConnectionEstablished`, `AnswerVersionRequest`, `HandleVersionResponse` | `node.rs` 447-463, 384-400, 416-431 |
| `CoreReceive`, `CoreReceiveSaveFails` | `core.rs` 33-107 with `save_to_file` |
| `Overrun` | other traffic overwrites the oldest message of the channel (`core.rs` 153) |
| `Connect`, `Disconnect`, `Expire`, `Crash`, `CrashDuringSave` | the environment |

A message is a model value; `Signer`, `Content` and `Verified` say what the code
reads of it, so cryptography is abstracted and a forged message is one outside
`Verified`. Robots and users are both their public keys. `ConfigJson` is what the
local `config.json` adds to the robots.

`ConfigRegister` is the abstract specification: each agent is a register that its
present owner's messages write, forward only, with a durable copy, which is read
back also when the agent is started for another owner. `ConfigSync` implements it
(`ImplementsRegister`), with `installed` and `file` mapped to the messages they
hold.

### JobStore, JobRunner: jobs

`JobStore` has the `JobManager`'s operations on a function from job ids to
entries. `JobRunner` is one agent with its tasks. A launch is known by its number;
its number also names the channel to the job that `new_job` made for it and its
container. `pc[l]` says between which two calls to the daemon the launch's task
is; `monitor[l]` is the status the monitor has read and not yet stored;
`stdin[l]` and `tunnel[t]` are readers of broadcast channels with their ring, their
`Lagged` mark and what they have taken. An action goes from one await, or one
unlock, to the next.

| Action | Code |
|---|---|
| `StartProcess` | `main.rs` 96-99 and `restore_jobs` |
| `StartJob`, `StartTunnel`, `SendInput` | `commands/mod.rs` `launch_new_job`, `start_tunnel`, `message_to_robot` |
| `BadArgs` .. `Report` | `docker.rs` `execute_launch`, `start_job`, `execute_with_container`, in that order |
| `MonitorInspects`, `MonitorStores` | the monitor task, `docker.rs` 195-211 |
| `StdinTask`, `Messanger` | `docker.rs` 245-296, `commands/mod.rs` 84-126 |
| `ShellOutput` | `docker.rs` 309-322; panics with the mutex held when the tunnel has no receiver |
| `TaskFindsPoison`, `CoreFindsPoison` | `lock().unwrap()` on the poisoned mutex; the core's ends the process |
| `ContainerExits`, `Crash`, `CrashDuringSave` | the environment |

A call to the daemon that moves the container on succeeds, or fails before or
after it took effect (`CallMoves`). Output and input are numbered per launch, their
contents left out. Archives are sent to the input task like typed input.

`JobPromise` is the abstract specification, what the sender of a job may rely on:
the status of an accepted job, the record on disk and the jobs of which a container
was removed, with steps to accept, to finish, to report and to stop, and nothing of
tasks, tunnels or calls. `JobRunner` implements it (`ImplementsPromise`).

### PeerHealth: who is online

`PeerHealth` has the `NetworkManager` of every agent, the core's timer and the
messages under way. Time is discrete and there are two clocks: the timers run on
the monotonic `now`, `last_handshake` is taken from the wall clock (`Clock`), which
may be set. A message takes up to `MaxDelay`, a tick is handled up to `Lateness`
late: `AdvanceTime` does not go on before they have happened.

| Action | Code |
|---|---|
| `HandshakeTick`, `HandshakeTickPanics` | `core.rs` 157-171 with `clean_old_handshakes`; the unsigned subtraction of a clock that was set back wraps, or panics in a debug build (both are steps here) |
| `Hear` | `core.rs` 33-55: every message counts as a handshake of its signer |
| `Talk`, `Relay` | other messages that an agent publishes; `node.rs` 401-406, a configuration that someone else signed |
| `Start`, `Crash`, `Lose`, `SetClockBack`, `SetClockAhead`, `AdvanceTime` | the environment |

### MessageQueue, MessageBus, UnixSocket: messages and local clients

`MessageQueue` has messages, what `broadcast::Sender::send` does to a ring, and the
operations of the `MessageQueue`. A message has a kind (request, response, output,
handshake, sealed, garbled), a signer, the receiver on its envelope (the fields of a
`SignedMessage`), and the origin and the receiver inside (those of a `Message`). Who
composed it, an agent or a client, and its number are history variables.

`MessageBus` composes the core's dispatch, the publishing branch of the libp2p task
and the web socket server in a network of agents. `from_message`, `to_core` and
`to_server` are the rings of the two channels' receivers, `messages` and
`subscribers` the server's `MessageQueue`, `conn` the connections with their own
rings and what they have sent to their clients. A client composes what it likes
(`Sending`): any content, responses included, any origin, any receiver inside and on
the envelope, signed with a key that it has or left to the agent to sign. The code
compares neither the origin nor the inner receiver with the signature or the envelope,
and neither does the model.

| Action | Code |
|---|---|
| `Connect`, `Subscribe`, `ClientSends`, `Disconnect`, `ConnectionSends` | `web_socket.rs` `start`, `accept_connection`; `process_command` |
| `ServerReceives` | `web_socket.rs` 46-61 with `broadcast_messages` |
| `LibP2pSends`, `LibP2pReceives`, through `ProcessSignedMessage` | `node.rs` 208-262, 290-302, 62-100 |
| `CoreReceives`, `CoreFails`, `HandshakeTick` | `core.rs` 33-149, 35-46, 157-166 |
| `MessangerSends` | `commands/mod.rs` 84-126: a tunnel's output |
| `Lose` | the network |

`UnixSocket` is the other server. It is one task, and its place in the code
(`server`) is a variable: accepting, reading a command, answering, `held` in
`handle_stream`'s endless loop, or ended by an error. It reads once and writes once:
either may fail or fall short (`ReadFails`, `WriteFails`), which leaves the client
without an answer and the task `held`, or ends it.

| Action | Code |
|---|---|
| `Accept`, `QueueMessage` | `unix_socket.rs` 50-64, 65-90 |
| `ReadCommand`, `ReadFails` | 108-135 with `process_command` (`AfterCommand`) |
| `WriteAnswer`, `WriteFails` | 125-128 |
| `Connect`, `WriteCommand`, `Leave`, `MessageArrives` | clients, and the libp2p task |

### Identity, Sealing

`Identity` is the beginning of `main`: where the key comes from and the key file.
`Sealing` has the four operations on messages with symbolic cryptography: a key
agreement is a base point with the set of secrets it was multiplied with, bytes
carry their form (JSON, cipher text, base64).

## Runs

All runs finish in minutes. `MCConfigSync` has an owner `o` that signs
versions 1 and 2, a user `u`, listed in version 1 only, that signs a version 3,
a forged version 3, and a second owner `r` that signs a version 3.

| Run | Instance | Checks |
|---|---|---|
| `one_agent` | 1 agent, 5 messages, channel of 2, restarts for either owner | `TypeOK`, `Provenance`, `DurableNotAhead`, `DurableNeverRegresses`, `ImplementsRegister` |
| `two_agents` | 2 agents of one owner, 2 messages, channel of 1, one restarts | `ServesWhatItInstalled`, `Agreement`, `InstallsOnlyNewer`, `ImplementsRegister`, `Convergence` under `FairSpec` |
| `job_lifecycle` | 2 launches of any kind under 1 id, monitors, restarts | `DoneMeansRemoved`, `StatusNotAhead`, `ImplementsPromise`, `Reported` under `FairSpec` |
| `two_tunnels` | 2 launches (shells or of an unknown type), 2 ids (interchangeable: symmetry), 2 tunnels, 3 pieces of output and of input, rings of 1, restarts; bounded by `Streams` | `TypeOK`, `TunnelStream`, `TakeOver`, `KeyboardStream` |
| `output_panics` | 1 shell, 1 tunnel | `OutputHasReader` is **violated** |
| `peers` | 2 agents; one has its clock set and its messages passed on, the other talks and restarts; 1 message lost | `TypeOK`, `OnlineMeansAlive`, `LivePeerOnline` |
| `requests` | a gateway and a robot, 2 clients with a common id; among the messages the user's request, one that the user signs for a guest, one that a guest signs for the user, a response composed by a client; nothing lost or overrun | `AnswersBelong`, `AnsweredOnce`, `Answered` under `FairSpec` |
| `slow_readers` | 1 client, channels of 1 message; messages with an envelope for another receiver, unsigned, encrypted or garbled, output, a handshake, 1 loss | `TypeOK`, `InOrderOnce` |
| `local_commands` | 2 clients of the unix socket, every kind of command, failing and partial reads and writes, 3 messages | `TypeOK`, `FirstAnswered` |
| `second_command` | 2 clients of the unix socket with a command each | `NextAnswered` is **violated** |
| `key_file` | 1 agent, 2 keys passed, 3 generated | `TypeOK`, `IdentityKept` |
| `sealed_for_receiver` | 2 key pairs, 1 message | `ReceiverOpens` is **violated** |

**Bounds.** Two versions of one owner are enough for old against new, and a third
message for someone else's; a channel of one message is overrun by the second.
Two agents have all the orders of request, answer and share between a pair; what
a third would add, the proofs cover: they are for any number of agents, messages
and versions. Two owners, the second with the newest configuration, give
a dump that survives the change of owner, one that is replaced after it, and one that
keeps the other owner's configurations out. `Publish` submits each message once. For jobs, two launches give
the races between an id's old and new entry, three pieces with a ring of one give
one taken, one overwritten and one after the gap, and two tunnels one taking over
from the other. `two_tunnels` follows either one shell, its output or its input to three
pieces and the other to one, beside a launch that only replaces an entry, or two shells
with a piece of input each, or a piece of output each and a tunnel (`Streams` in
`MCJobRunner`): the first has the gaps and the take-over, the second a shell that opens
while another launch replaces its channel, and a shell whose output belongs to no
tunnel or to another job's, or poisons the mutex for the other. `Monitors` keeps the monitors still where a property does not
look at the status. A configuration without `Crashable` or `Stops` leaves
restarts out.

For peer health the period, limit, lateness and delay are 2, 3, 0 and 1: lateness and
delay use up all that the limit leaves over one period, the case at the edge, and
eight units of time are four periods, enough for a tick, the silence after it until
the peer must be offline, and a restart. `Width` stands for 2^64; it only has to
exceed any difference of clocks. For messages, two that are sent give one that
overtakes or overwrites the other, two clients with a common id one that takes the
subscription from the other; channels of one message overrun at the second. For
any period, limit, delays, agents, clients and capacities there are the proofs.

**Deadlock** is checked in every run whose processes may restart and in all of
`ConfigSync`; where the process does not stop and the launches, time, messages or
keys are used up, a final state is legitimate and the check is off. `UnixSocket`'s
task really ends or waits for good.

**Fairness.** tokio polls every task that can go on, hence weak fairness of the
tasks' own steps and of nothing else in `ConfigSync`; that agents stay up, that
from some time on no message is lost on a living connection and that any two
agents connect again and again are the premises of `Convergence`, written in the
property. Convergence fails without reconnection, since versions are exchanged
only at that moment, and it is about a pair of agents: a lone one whose core
missed a message that its own storage has is not repaired by anything.
`Answered` speaks of requests that are signed by an authorised key and name a peer id
as their origin, whoever sent them; it needs that gossip delivers what it does not
lose and that the tasks of connections run; clients have no fairness, and that no
channel overruns is in the run's capacities.
`UnixSocket` has weak fairness of its one task's steps, not of
clients, and nothing says that a read or a write succeeds: `FirstAnswered` excuses the
server where one does not, and only there.
In `JobRunner`, `Reported` needs that the daemon answers each call (with success or
error) and that the jobs' programs end; output and crashes have no fairness.

## What the violation runs show

- `output_panics`: `create_job_tunnel` makes a channel and drops its receiver; the
  tunnel's task subscribes later. Output in between makes `send().unwrap()` panic
  with the `JobManager` locked. From then on every task that locks it panics, and
  the next message about a job ends the core task and the process. The same
  happens after a tunnel's task has ended at `Lagged`.
- `second_command`: the repository's README has one command of the command line after
  another use one socket (`README.md` 51, 71, 85, 97). The server awaits `handle_stream`
  in its accept loop, and `handle_stream` waits for its subscriber for ever, also when
  the client has left: a client that was answered and left keeps the next one from
  being accepted (`NextAnswered`). `OnlyOneServedHolds` below proves that this is so
  for any clients and commands.
- `sealed_for_receiver`: the sender uses the hash of the receiver's *public* key as a
  point, the receiver the hash of its *secret* key as a scalar, so they do not agree
  on a key; and `decrypt` does not undo the base64 of `encrypted`. The test
  `test_message_encryption` cannot pass. The agent does not call either function.

## What the models show besides

These follow from the code as modelled and are not stated as properties, because
what holds is less:

- `read_config_from_file` goes through `set_robots_config`, which files under the
  *current* owner. Restarted with another `--owner`, an agent uses the old owner's
  configuration, and holds and serves it under the new owner's key (`ReadStorage`),
  although `config.rs` 17 calls the map "owner public key -> config". The new owner's
  configurations with a version not above the old one's are ignored. What remains true
  of such agents is in `Provenance` and `ConfigRegister`; `OneOwner` below excludes them.
- `restore_jobs` fills the `JobManager` of `main` (`restored`), which nothing else
  uses; the core makes its own, and its first save overwrites `jobs.json`. `JobPromise`
  therefore has an agent that knows no job when it starts.
- The core counts whatever verifies as a handshake of its signer. A configuration
  is passed on when connections come up, long after its owner signed it (`Relay`):
  the owner is shown online by agents that it has not talked to. `OnlineMeansAlive`
  leaves such owners out.
- A messanger does not wait for its client: `send` never blocks, so that a client that
  is slower than the shell loses output in the rings behind the messanger (16 messages
  in `from_message`, 16 for its connection) and is not told. `TunnelStream` speaks of
  what the messanger hands on; of the rings behind it `InOrderOnce` says that the order
  stays.
- The origin that a message names is not compared with the key that signed it. A
  request that a user signs in the name of somebody else is carried out, and its
  response goes to the clients of that name; a response that a client composed reaches
  clients like one of an agent. `AnswersBelong` therefore says whose key gave the right
  (the signer's) and who hears of it (the origin's clients), for responses that agents
  made.
- An encrypted message for an agent is not decrypted by it but fails to parse, and
  the question mark ends the core and the process (`CoreFails`).

## Proofs

`ConfigSyncProofs` proves, for all values of the constants that meet
`StoreAssumption` and `SyncAssumption`:

| Theorem | Statement | Further assumptions |
|---|---|---|
| `TypeCorrect` | `Spec => []TypeOK` | |
| `Invariance` | `Spec => []IndInv` | |
| `ProvenanceHolds`, `ServesHolds`, `DurableHolds` | the safety properties, restarts for other owners included | |
| `InstallsOnlyNewerHolds`, `DurableNeverRegressesHolds` | the action properties | |
| `Refinement` | `Spec => ImplementsRegister` | |
| `FiledByOwnerHolds` | what is used, saved and filed under a key was signed by the owner, or by that key | `OneOwner` |
| `AgreementHolds` | `Agreement` | `OneOwner`, `UniqueVersions` |

`OneOwner` (an agent is always started for the same owner) cannot be dropped from
the last two: the agent files the dump of the one owner under the other, and two
agents of one owner may then use configurations of different owners with the same
version. `UniqueVersions` says that an owner never
signs two configurations with one version; the code ignores an equal version.

The argument: the properties are not inductive one by one. That what is installed
is genuine needs that what waits in the inbox verifies and was published
(`InFlightOK`: also what a peer shares, since it comes from a storage); that an
agent serves what it installed needs that what it reads at start is filed where it
is looked for, and that version 0 is never installed; that the file is not ahead
needs that what is read at start is what was saved. `IndInv` joins these facts per
agent (`AgentOK`), with the signer of an entry told apart from the present owner,
because the owner may change between two runs of the process. TLC found it to hold
before it was proved; it is no property of its own, but what the others rest on. The
lemma `Inductive` shows that every action keeps it, action by action. `StepKinds` sorts the actions by what they
do to `installed` and `file` (install, quiet, start, stop); the action properties and
the refinement follow from it and `IndInv`.

`JobRunnerProofs` proves, under `JobStoreAssumption`, `JobAssumption` and
`JobRunnerAssumption`:

| Theorem | Statement |
|---|---|
| `LifeInvariant` | `Spec => []LifeInv`, the inductive invariant |
| `TypeCorrect` | `Spec => []TypeOK` |
| `DoneMeansRemovedHolds`, `StatusNotAheadHolds` | the safety properties of `job_lifecycle` |
| `PromiseHolds` | `Spec => ImplementsPromise` |

That a job called done had its container removed needs to know where the launch's
task is when it says so, and that its container is still removed later: `Progress`
relates `pc` and `container`, and the lemma `ProgressStep` shows that no step takes a
container back or gives a launch another job (`Forward`). What the monitor has read
and not stored is a sample of the past (`Samples`), hence not ahead of the present.
`EntriesOK` states both properties for an entry wherever it is kept, in memory, on
disk or read back from it; as containers only go forward, an entry that is left
alone stays true. For the refinement, `Lives` adds that a launch's task runs only in
a process that is up and knows the job, and `CalmSteps` sorts out the steps that
JobPromise does not see, or sees as a container that is removed.

`JobStreamProofs` proves, under the same assumptions, for any launches and tunnels, any
capacity of the channels and any amount of output and input:

| Theorem | Statement |
|---|---|
| `StreamInvariant` | `Spec => []StreamInv`, the inductive invariant |
| `TunnelStreamHolds`, `TakeOverHolds`, `KeyboardStreamHolds` | the safety properties of `two_tunnels` |

That a reader has taken an unbroken piece of a stream is not inductive: what waits in
its ring comes next. So `Sound` speaks of both, one after the other (`Stream`), as
long as the reader has not been told that it lagged; once it has, only what was taken
before counts, since the code ends at `Lagged`. That the next piece fits
needs that a reader who would be told of it has the last one (`UpToDate`), and only the
tunnel in a job's entry is told (`Listening`). A tunnel that takes over does so because
nothing reaches a tunnel that is not in its job's entry (`Newest`, `Superseded`).
`StreamSteps` sorts the steps by what they do to streams: nothing is sent (`Quiet`, in
which readers may still subscribe, take and end), a job, tunnel or input task begins,
input is sent, a shell shows something. The properties hold with and without panics
of the shell, and also when a second launch replaces an id's channel while the first
one's task still opens it.

`PeerHealthProofs` proves, under `PeerHealthAssumption`, for any agents, period, limit,
lateness and delay:

| Theorem | Statement | Further assumptions |
|---|---|---|
| `TypeCorrect` | `Spec => []TypeOK` | |
| `OnlineMeansAliveHolds` | `Spec => []OnlineMeansAlive` | |
| `LivePeerOnlineHolds` | `Spec => []LivePeerOnline` | `Punctual` |

`Timing` says that nothing under way and no tick is older than the bounds allow;
`Aging` that an online entry's age, on the wall clock and corrected by how far that
was set back, has not passed the limit by more than what remains until the next
tick. `Punctual` says that period, lateness and delay together do not exceed the
limit: in the code there are 15 s to spare. `Lively` says that, as long as nothing was
lost and no clock was set (`Undisturbed`, which once false stays so), a peer's next
handshake is due in time or under way.

`IdentityProofs` proves `TypeCorrect` and `IdentityKeptHolds` for any sets of keys: an
undamaged file holds the key of the process that ran last.

`UnixSocketProofs` and `MessageBusProofs` prove, under `QueueAssumption` with
`UnixSocketAssumption` or `BusAssumption`, for any agents, connections, ids, messages and
capacities:

| Theorem | Statement |
|---|---|
| `UnixSocketProofs`: `ServedInvariant` | `Spec => []ServedInv`, the inductive invariant |
| `TypeCorrect` | `Spec => []TypeOK` |
| `OnlyOneServedHolds` | `Spec => []OnlyOneServed`: what refutes `NextAnswered` holds of any clients |
| `MessageBusProofs`: `BusInvariant` | `Spec => []BusInv`, the inductive invariant |
| `TypeCorrect` | `Spec => []TypeOK` |
| `AnswersBelongHolds`, `AnsweredOnceHolds`, `InOrderOnceHolds` | the safety properties of `requests` and `slow_readers` |

In `UnixSocket` the task, once it has a client, never accepts again (`Dedicated`).

In `MessageBus` a message is in many places at once: in an agent's rings, in copies on
the air, in the server's queue and in what connections got. That a response belongs to
the request (`AnswersBelong`) is `Origin`: every message anywhere is what somebody
really asked, answered or counted, for any messages that clients compose; with
`Addressed` for connections and `Subscribed` for the ids of who subscribes. That nothing is answered twice needs that nothing is
ever twice on the same way. `OneCopy` follows a message's key (by whom, kind, number)
from the ring of the agent that publishes it (`WaitsOnce`), to the copies on the air,
which exist only once it has left that ring (`NotYetSent`, `CopiedOnce`), to where it
has arrived (`NotYetArrived`, `NotYetStored`); `NotYetAnswered` says that as long as the
core has yet to see a request there is no response to it. `Handed` says that what
connections got is, in order, part of what the server was given, so that a ring that
overwrites messages leaves gaps and never another order. `ChannelSteps` sorts the
steps: fewer messages, a new one, an answer, a publication, an arrival, one for the
server.

`SequenceLemmas` has what these proofs need of sequences: what is in a sequence
(`Elements`) and which pairs of its entries are in a relation (`Chain`), after
appending, taking the first, joining two, or moving the head of the second to the end
of the first.

**Only model-checked.** Every invariant, action property and refinement of the passing runs is
a theorem. Liveness (`Convergence`, `Reported`, `Answered`, `FirstAnswered`) stays with TLC:
it rests on weak fairness, whose proof rules need ENABLED, which the prover does not
support. `OutputHasReader`, `NextAnswered` and `ReceiverOpens` do not hold.

## Not modelled

Discovery and transport of libp2p (mDNS, Kademlia, identify, ping), `set_peers` and
the list of peers in handshakes (only `/network_info` shows it), the messaging echo,
contents and encoding of messages, ports and bootstrap addresses, helpers for files,
code without callers (`data_storage`, `store_.rs`, `merge_update`). The web socket
server's connections are not limited in number by the code, nor here but by `Conn`.
A request that a client has its own agent sign and send to that same agent is not
answered by anyone, since gossip does not come back to its sender; `Answered` is about
other agents. A client that sends the very same signed message twice is left out, as
are messages whose signature does not verify, which `process_signed_message` drops, and
plain messages that are marked as encrypted.

## Plan

1. Done: `ConfigStore`, `ConfigSync`, `ConfigRegister`, `JobStore`, `JobRunner`,
   `JobPromise`, `PeerHealth`, `MessageQueue`, `MessageBus`, `UnixSocket`, `Identity`,
   `Sealing`; the safety properties and refinements of all of them as theorems.
2. Proofs: an abstract specification of the message bus (requests that are pending,
   carried out, answered) and its refinement; that the sealing of messages opens for its
   receiver once both sides multiply the same halves.
3. `set_peers` and the peers of handshakes, if something comes to depend on them.
