---------------------------- MODULE ConfigSync ----------------------------
(***************************************************************************)
(* How a robots' configuration spreads over a network of agents            *)
(* (src/node/node.rs, src/core/core.rs, src/store, src/main.rs).           *)
(*                                                                         *)
(* An agent is one process with two tasks that matter here: the libp2p     *)
(* task (node.rs) and the core task (core.rs).  They share the             *)
(* RobotsManager behind one mutex and a broadcast channel, to_message,     *)
(* from the libp2p task to the core task.  Every action below is the body  *)
(* of one branch of a task's select! loop, from one await to the next; the *)
(* bodies take the mutex once or touch nothing else shared in between.     *)
(*                                                                         *)
(* The environment publishes signed configurations, connects and           *)
(* disconnects agents, delays or loses gossip, overruns the channel with   *)
(* other traffic, and crashes and restarts processes, also in the middle   *)
(* of writing the configuration file.                                      *)
(***************************************************************************)
EXTENDS ConfigStore, Sequences

CONSTANTS
  Node,        \* the agents
  RpcNode,     \* the agents started with --rpc
  OwnerArg,    \* OwnerArg[n]: values of --owner that n may be started with
  ConfigJson,  \* ConfigJson[n]: robots listed in n's config.json
  ChannelCap,  \* capacity of the to_message channel (16 in main.rs)
  Crashable    \* the agents whose process may stop and be started again

ASSUME SyncAssumption ==
  /\ RpcNode \subseteq Node
  /\ OwnerArg \in [Node -> SUBSET Key]
  /\ ConfigJson \in [Node -> SUBSET Key]
  /\ ChannelCap \in Nat \ {0}
  /\ Crashable \subseteq Node

VARIABLES
  \* one agent each
  mode,       \* "down"; "booting": core not yet subscribed; "running"
  owner,      \* RobotsManager.owner_public_key
  installed,  \* config_version, robots, users and config_message
  storage,    \* RobotsManager.config_storage
  inbox,      \* what the core has not yet received of the to_message channel
  file,       \* the dump in rn.json; not present: missing or unreadable
  \* the network
  published,  \* messages that the owner's tool has submitted to some agent
  gossip,     \* <<n, m>>: gossipsub may still deliver m to n
  links,      \* <<n, p>>: n and p are connected (symmetric)
  greeting,   \* <<n, p>>: n has yet to handle ConnectionEstablished with p
  net         \* requests and responses in flight

agentVars == <<mode, owner, installed, storage, inbox, file>>
netVars == <<published, gossip, links, greeting, net>>
vars == <<mode, owner, installed, storage, inbox, file,
          published, gossip, links, greeting, net>>

VersionRequest ==
  [type : {"GetConfigVersion"}, src : Node, dst : Node, version : Nat, owner : Key]
VersionResponse ==
  [type : {"ConfigVersion"}, src : Node, dst : Node, version : Nat, owner : Key]
ShareRequest ==
  [type : {"ShareConfigMessage"}, src : Node, dst : Node, msg : Message]

Alive(n) == mode[n] # "down"

\* Requests and responses in flight between two agents.
Between(n, p) == {r \in net : {r.src, r.dst} = {n, p}}
-----------------------------------------------------------------------------
\* Variant: the channel never overwrites.
EnqueueUnbounded(q, m) == Append(q, m)

\* broadcast::Sender::send with one slow receiver: when the ring is full the
\* oldest message is overwritten and the receiver goes on after it (Lagged).
Enqueue(q, m) == IF Len(q) < ChannelCap THEN Append(q, m) ELSE Append(Tail(q), m)

\* Variant: under the agent's own owner, as in set_robots_config.
FiledUnderOwner(n, m) == owner[n]

\* The key under which an agent with --rpc files m.
FiledUnder(n, m) == Signer[m]

\* process_signed_message for an UpdateConfig: nothing for a bad signature;
\* otherwise it goes to the core, if the core has subscribed, and an agent
\* with --rpc files it under the signer's key, whoever that is.
ProcessSignedMessage(n, m) ==
  /\ inbox' = IF m \in Verified /\ mode[n] = "running"
              THEN [inbox EXCEPT ![n] = Enqueue(@, m)]
              ELSE inbox
  /\ storage' = IF m \in Verified /\ n \in RpcNode
                THEN [storage EXCEPT ![n] =
                        UpdateConfig(@, FiledUnder(n, m), Content[m], m)]
                ELSE storage

\* The ShareConfigMessage that n sends to p when its own configuration of
\* owner o is newer than version v; nothing otherwise.
Share(n, p, o, v) ==
  IF IsPresent(storage[n][o]) /\ v < storage[n][o].config.version
  THEN {[type |-> "ShareConfigMessage", src |-> n, dst |-> p, msg |-> storage[n][o].msg]}
  ELSE {}
-----------------------------------------------------------------------------
Init ==
  /\ mode = [n \in Node |-> "down"]
  /\ owner \in [Node -> Key]
  /\ \A n \in Node : owner[n] \in OwnerArg[n]
  /\ installed = [n \in Node |-> DefaultEntry]
  /\ storage = [n \in Node |-> EmptyStorage]
  /\ inbox = [n \in Node |-> <<>>]
  /\ file = [n \in Node |-> DefaultEntry]
  /\ published = {}
  /\ gossip = {}
  /\ links = {}
  /\ greeting = {}
  /\ net = {}

\* Variant: what was saved is not read.
ReadNothing(d) == DefaultEntry

\* read_config_from_file, on the fields and the storage of a new manager whose
\* owner is o: the dump goes through set_robots_config like a new message, its
\* signature is not looked at; an unreadable file is ignored.
ReadConfig(d) ==
  IF IsPresent(d) THEN SetRobotsConfig(DefaultEntry, d.config, d.msg) ELSE DefaultEntry

ReadStorage(d, o) ==
  IF IsPresent(d)
  THEN StoreRobotsConfig(EmptyStorage, DefaultEntry, o, d.config, d.msg)
  ELSE EmptyStorage

\* main: set_owner, read_config_from_file, then the robots of config.json when
\* that file is there.
Start(n) ==
  /\ mode[n] = "down"
  /\ \E o \in OwnerArg[n], extra \in {{}, ConfigJson[n]} :
       /\ owner' = [owner EXCEPT ![n] = o]
       /\ installed' = [installed EXCEPT ![n] = AddRobots(ReadConfig(file[n]), extra)]
       /\ storage' = [storage EXCEPT ![n] = ReadStorage(file[n], o)]
  /\ mode' = [mode EXCEPT ![n] = "booting"]
  /\ UNCHANGED <<inbox, file, netVars>>

\* main_normal: the core task subscribes to to_message, some time after the
\* libp2p task has begun to forward messages.
CoreSubscribe(n) ==
  /\ mode[n] = "booting"
  /\ mode' = [mode EXCEPT ![n] = "running"]
  /\ UNCHANGED <<owner, installed, storage, inbox, file, netVars>>

\* A client hands m to agent n (/send_signed_message); the libp2p task treats
\* it as received and publishes it.  Bound: each message is submitted once.
Publish(n, m) ==
  /\ Alive(n)
  /\ m \notin published
  /\ ProcessSignedMessage(n, m)
  /\ published' = published \cup {m}
  /\ gossip' = gossip \cup {<<p, m>> : p \in Node \ {n}}
  /\ UNCHANGED <<mode, owner, installed, file, links, greeting, net>>

\* A gossipsub message reaches n: in any order, possibly never.  Gossipsub
\* drops repetitions, the message id being a hash of the content.
GossipDeliver(n, m) ==
  /\ Alive(n)
  /\ <<n, m>> \in gossip
  /\ gossip' = gossip \ {<<n, m>>}
  /\ ProcessSignedMessage(n, m)
  /\ UNCHANGED <<mode, owner, installed, file, published, links, greeting, net>>

Connect(n, p) ==
  /\ n # p /\ Alive(n) /\ Alive(p)
  /\ <<n, p>> \notin links
  /\ links' = links \cup {<<n, p>>, <<p, n>>}
  /\ greeting' = greeting \cup {<<n, p>>, <<p, n>>}
  /\ UNCHANGED <<agentVars, published, gossip, net>>

\* Whatever is under way on the connection is lost with it.
Disconnect(n, p) ==
  /\ <<n, p>> \in links
  /\ links' = links \ {<<n, p>>, <<p, n>>}
  /\ greeting' = greeting \ {<<n, p>>, <<p, n>>}
  /\ net' = net \ Between(n, p)
  /\ UNCHANGED <<agentVars, published, gossip>>

\* Variant: the version of the storage instead of the core's.
StoredVersion(n) == storage[n][owner[n]].config.version

RequestedVersion(n) == installed[n].config.version

\* SwarmEvent::ConnectionEstablished: ask p for its version, telling the
\* version this agent's core has installed.
ConnectionEstablished(n, p) ==
  /\ <<n, p>> \in greeting
  /\ greeting' = greeting \ {<<n, p>>}
  /\ net' = net \cup {[type |-> "GetConfigVersion", src |-> n, dst |-> p,
                       version |-> RequestedVersion(n), owner |-> owner[n]]}
  /\ UNCHANGED <<agentVars, published, gossip, links>>

\* RobotRequest::GetConfigVersion: share what is newer here, and in any case
\* answer with the stored version, 0 when there is none.
AnswerVersionRequest(n) ==
  /\ \E r \in net :
       /\ r.type = "GetConfigVersion" /\ r.dst = n
       /\ LET e == storage[n][r.owner]
              stored == IF IsPresent(e) THEN e.config.version ELSE 0
          IN net' = (net \ {r}) \cup Share(n, r.src, r.owner, r.version)
                      \cup {[type |-> "ConfigVersion", src |-> n, dst |-> r.src,
                             version |-> stored, owner |-> r.owner]}
  /\ UNCHANGED <<agentVars, published, gossip, links, greeting>>

\* RobotResponse::GetConfigVersion: share what is newer here.
HandleVersionResponse(n) ==
  /\ \E r \in net :
       /\ r.type = "ConfigVersion" /\ r.dst = n
       /\ net' = (net \ {r}) \cup Share(n, r.src, r.owner, r.version)
  /\ UNCHANGED <<agentVars, published, gossip, links, greeting>>

\* RobotRequest::ShareConfigMessage: as if the message came by gossip.
HandleShareConfig(n) ==
  /\ \E r \in net :
       /\ r.type = "ShareConfigMessage" /\ r.dst = n
       /\ net' = net \ {r}
       /\ ProcessSignedMessage(n, r.msg)
  /\ UNCHANGED <<mode, owner, installed, file, published, gossip, links, greeting>>

\* request_response gives up on a request or response to n (its timeout).
Expire(n) ==
  /\ \E r \in net : r.dst = n /\ net' = net \ {r}
  /\ UNCHANGED <<agentVars, published, gossip, links, greeting>>
-----------------------------------------------------------------------------
\* Variant: the role is enough.
AcceptsByRole(n, m) ==
  /\ GetRole(owner[n], installed[n].config, Signer[m]) \in {"Owner", "OrganizationUser"}
  /\ m \in Verified

\* The checks of core.rs on an UpdateConfig: the sender's role first, then
\* the signature and the owner's key.
Accepts(n, m) ==
  /\ GetRole(owner[n], installed[n].config, Signer[m]) \in {"Owner", "OrganizationUser"}
  /\ m \in Verified
  /\ Signer[m] = owner[n]

\* save_to_file writes get_robots_config and config_message, whether or not
\* the message just received was newer; without a message it writes nothing.
Saved(n, e) == IF IsPresent(e) THEN e ELSE file[n]

\* The UpdateConfig branch of the core, up to the write of the file, which
\* ends up as "to".
InstallUpdate(n, m, to) ==
  /\ installed' = [installed EXCEPT ![n] = SetRobotsConfig(@, Content[m], m)]
  /\ storage' = [storage EXCEPT ![n] =
                   StoreRobotsConfig(@, installed[n], owner[n], Content[m], m)]
  /\ file' = [file EXCEPT ![n] = to]

CoreReceive(n) ==
  /\ mode[n] = "running" /\ inbox[n] # <<>>
  /\ LET m == Head(inbox[n])
     IN IF Accepts(n, m)
        THEN InstallUpdate(n, m, Saved(n, SetRobotsConfig(installed[n], Content[m], m)))
        ELSE UNCHANGED <<installed, storage, file>>
  /\ inbox' = [inbox EXCEPT ![n] = Tail(@)]
  /\ UNCHANGED <<mode, owner, netVars>>

\* The same, but fs::write fails (logged and ignored): before it opened the
\* file or after it truncated it.
CoreReceiveSaveFails(n) ==
  /\ mode[n] = "running" /\ inbox[n] # <<>>
  /\ LET m == Head(inbox[n])
     IN /\ Accepts(n, m)
        /\ IsPresent(SetRobotsConfig(installed[n], Content[m], m))
        /\ \E to \in {file[n], DefaultEntry} : InstallUpdate(n, m, to)
  /\ inbox' = [inbox EXCEPT ![n] = Tail(@)]
  /\ UNCHANGED <<mode, owner, netVars>>

\* Other messages fill the channel while the core is busy: Lagged.
Overrun(n) ==
  /\ mode[n] = "running" /\ inbox[n] # <<>>
  /\ inbox' = [inbox EXCEPT ![n] = Tail(@)]
  /\ UNCHANGED <<mode, owner, installed, storage, file, netVars>>
-----------------------------------------------------------------------------
\* The process ends: memory and connections go, the file stays as "to".
StopProcess(n, to) ==
  /\ n \in Crashable
  /\ mode' = [mode EXCEPT ![n] = "down"]
  /\ installed' = [installed EXCEPT ![n] = DefaultEntry]
  /\ storage' = [storage EXCEPT ![n] = EmptyStorage]
  /\ inbox' = [inbox EXCEPT ![n] = <<>>]
  /\ file' = [file EXCEPT ![n] = to]
  /\ links' = {l \in links : n \notin {l[1], l[2]}}
  /\ greeting' = {l \in greeting : n \notin {l[1], l[2]}}
  /\ net' = {r \in net : n \notin {r.src, r.dst}}
  /\ UNCHANGED <<owner, published, gossip>>

Crash(n) == Alive(n) /\ StopProcess(n, file[n])

\* The process ends inside fs::write, which truncates before it writes.
CrashDuringSave(n) ==
  /\ mode[n] = "running" /\ inbox[n] # <<>>
  /\ Accepts(n, Head(inbox[n]))
  /\ IsPresent(SetRobotsConfig(installed[n], Content[Head(inbox[n])], Head(inbox[n])))
  /\ StopProcess(n, DefaultEntry)
-----------------------------------------------------------------------------
LibP2pTask(n) ==
  \/ \E p \in Node : ConnectionEstablished(n, p)
  \/ AnswerVersionRequest(n)
  \/ HandleVersionResponse(n)
  \/ HandleShareConfig(n)

CoreTask(n) == CoreSubscribe(n) \/ CoreReceive(n) \/ CoreReceiveSaveFails(n)

Environment(n) ==
  \/ Start(n)
  \/ \E m \in Message : Publish(n, m) \/ GossipDeliver(n, m)
  \/ \E p \in Node : Connect(n, p) \/ Disconnect(n, p)
  \/ Expire(n)
  \/ Overrun(n)
  \/ Crash(n)
  \/ CrashDuringSave(n)

Next == \E n \in Node : LibP2pTask(n) \/ CoreTask(n) \/ Environment(n)

Spec == Init /\ [][Next]_vars
-----------------------------------------------------------------------------
(* What must hold. *)

TypeOK ==
  /\ mode \in [Node -> {"down", "booting", "running"}]
  /\ owner \in [Node -> Key]
  /\ installed \in [Node -> Entry]
  /\ storage \in [Node -> Storage]
  /\ inbox \in [Node -> Seq(Message)]
  /\ \A n \in Node : Len(inbox[n]) <= ChannelCap
  /\ file \in [Node -> Entry]
  /\ published \subseteq Message
  /\ gossip \subseteq Node \X Message
  /\ links \subseteq Node \X Node
  /\ greeting \subseteq Node \X Node
  /\ net \subseteq VersionRequest \cup VersionResponse \cup ShareRequest

\* An agent is always started for the same owner.
OneOwner == \A n \in Node : \A k, l \in OwnerArg[n] : k = l

\* An owner never signs two configurations with the same version.
UniqueVersions ==
  \A m1, m2 \in Message :
    Signer[m1] = Signer[m2] /\ Content[m1].version = Content[m2].version
      => Content[m1] = Content[m2]

\* Entry e of agent n is a configuration that somebody signed, unaltered but
\* for robots that n's config.json lists.
Unaltered(n, e) ==
  /\ e.msg \in published \cap Verified
  /\ e.config.version = Content[e.msg].version
  /\ e.config.users = Content[e.msg].users
  /\ Content[e.msg].robots \subseteq e.config.robots
  /\ e.config.robots \subseteq Content[e.msg].robots \cup ConfigJson[n]

\* ... that key k signed, or one of the owners that n is started for.
Genuine(n, e, k) == Unaltered(n, e) /\ Signer[e.msg] = k

FromAnOwner(n, e) == Unaltered(n, e) /\ Signer[e.msg] \in OwnerArg[n]

\* Whatever an agent has installed, stores for others or has on disk, it got
\* from the key it is filed under: neither another user's message, nor a
\* forged one, nor a mixture of two versions (a robot or user of a version
\* that was replaced) ever gets there, restarts and crashes included.  An
\* agent that is started for one owner today and for another tomorrow still
\* has the first one's configuration on disk, uses it, and files it under the
\* present owner's key: these three come from one of the agent's owners.
Provenance ==
  \A n \in Node :
    /\ IF IsPresent(installed[n])
       THEN FromAnOwner(n, installed[n])
       ELSE installed[n].config.version = 0 /\ installed[n].config.users = {}
    /\ IsPresent(file[n]) => FromAnOwner(n, file[n])
    /\ \A k \in Key : IsPresent(storage[n][k]) =>
         \/ Genuine(n, storage[n][k], k)
         \/ k = owner[n] /\ FromAnOwner(n, storage[n][k])

\* The libp2p task answers peers from config_storage, the core installs in
\* the manager's own fields, and they are written by different tasks.  A
\* running agent can always hand on what its core works with, or newer.
ServesWhatItInstalled ==
  \A n \in Node : Alive(n) /\ IsPresent(installed[n]) =>
    /\ IsPresent(storage[n][owner[n]])
    /\ storage[n][owner[n]].config.version >= installed[n].config.version

\* The file never holds a configuration newer than the one in use, so that
\* a restart does not change what the agent does in an unforeseen direction,
\* and what is on disk was read back at the start.
DurableNotAhead ==
  \A n \in Node : Alive(n) /\ IsPresent(file[n]) =>
    /\ IsPresent(installed[n])
    /\ file[n].config.version <= installed[n].config.version

\* Two agents of one owner that run the same version know the same users,
\* by whichever way the version reached them.
Agreement ==
  \A n, p \in Node :
    (/\ Alive(n) /\ Alive(p) /\ owner[n] = owner[p]
     /\ installed[n].config.version = installed[p].config.version)
      => installed[n].config.users = installed[p].config.users

\* While a process lives, its configuration changes only to a newer version,
\* however gossip, answers and shared messages are ordered or repeated.
InstallsOnlyNewer ==
  [][\A n \in Node : Alive(n) /\ Alive(n)' =>
       \/ installed'[n] = installed[n]
       \/ installed'[n].config.version > installed[n].config.version]_vars

\* A configuration on disk is never replaced by an older one, over any number
\* of restarts (it may be lost in a crash).
DurableNeverRegresses ==
  [][\A n \in Node : IsPresent(file[n]) /\ IsPresent(file[n])' =>
       file'[n].config.version >= file[n].config.version]_vars

\* The scheduling that convergence needs: tokio keeps polling the two tasks
\* of a living process, so whatever one of them can do, it does in the end.
Fairness ==
  \A n \in Node :
    /\ WF_vars(CoreSubscribe(n))
    /\ WF_vars(CoreReceive(n) \/ CoreReceiveSaveFails(n))
    /\ \A p \in Node : WF_vars(ConnectionEstablished(n, p))
    /\ WF_vars(AnswerVersionRequest(n))
    /\ WF_vars(HandleVersionResponse(n))
    /\ WF_vars(HandleShareConfig(n))

FairSpec == Spec /\ Fairness

\* No agent is behind what some agent stores for its owner.
InSync ==
  \A n, p \in Node :
    storage[p][owner[n]].config.version <= installed[n].config.version

\* From some time on all agents run, the channel drops nothing that the core
\* would have used, and connections fail only when they are idle ...
AllRun == <>[](\A n \in Node : Alive(n))

Loses(n, p) == Disconnect(n, p) /\ (Between(n, p) # {} \/ <<n, p>> \in greeting)

NothingLost ==
  <>[][\A n \in Node :
         /\ Overrun(n) => CoreReceive(n)
         /\ Expire(n) => LibP2pTask(n)
         /\ \A p \in Node : ~Loses(n, p) /\ ~Loses(p, n)]_vars

\* ... and any two agents connect again and again.
Reconnecting ==
  \A n, p \in Node : n # p => []<><<Connect(n, p)>>_vars

\* Agents exchange versions only when a connection comes up, the requests
\* tell the core's version while the answers tell the storage's, and messages
\* that came before the core had subscribed, or that a full channel dropped,
\* are never sent again on their own.  Connecting again repairs all of that.
Convergence == AllRun /\ NothingLost /\ Reconnecting => <>[]InSync
-----------------------------------------------------------------------------
(* The agents implement the registers of ConfigRegister. *)

Register == INSTANCE ConfigRegister WITH
  Owners  <- OwnerArg,
  Version <- [m \in Message |-> Content[m].version],
  current <- [n \in Node |-> installed[n].msg],
  saved   <- [n \in Node |-> file[n].msg],
  up      <- {n \in Node : Alive(n)}

\* Every step of the agents is a step of the registers or changes nothing
\* there: an installation of a newer configuration that the present owner
\* has published, a save, a start from the durable copy, or a stop.
ImplementsRegister == Register!Spec
=============================================================================
