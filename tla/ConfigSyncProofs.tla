------------------------- MODULE ConfigSyncProofs -------------------------
(***************************************************************************)
(* Proofs about ConfigStore and ConfigSync, for any number of agents, any  *)
(* configurations and any channel capacity.                                *)
(***************************************************************************)
EXTENDS ConfigSync, TLAPS

(* Why the safety properties hold: the inductive invariant. *)

\* Messages under way to an agent, or to its core, have been published, and
\* those past process_signed_message, or served from a storage, verify.
InFlightOK ==
  /\ \A n \in Node : inbox[n] \in Seq(published \cap Verified)
  /\ \A g \in gossip : g[2] \in published
  /\ \A q \in net : q.type = "ShareConfigMessage" => q.msg \in published \cap Verified

\* One agent: the properties above, whichever owner it was started for each
\* time, with the fact that a configuration of version 0 is never installed.
AgentOK(n) ==
  /\ owner[n] \in OwnerArg[n]
  /\ IF IsPresent(installed[n])
     THEN FromAnOwner(n, installed[n]) /\ installed[n].config.version > 0
     ELSE installed[n].config.version = 0 /\ installed[n].config.users = {}
  /\ IsPresent(file[n]) => FromAnOwner(n, file[n]) /\ file[n].config.version > 0
  /\ \A k \in Key : IsPresent(storage[n][k]) =>
       \/ Genuine(n, storage[n][k], k)
       \/ k = owner[n] /\ FromAnOwner(n, storage[n][k])
  /\ Alive(n) /\ IsPresent(installed[n]) =>
       /\ IsPresent(storage[n][owner[n]])
       /\ storage[n][owner[n]].config.version >= installed[n].config.version
  /\ Alive(n) /\ IsPresent(file[n]) =>
       /\ IsPresent(installed[n])
       /\ file[n].config.version <= installed[n].config.version

\* The inductive invariant, also of agents whose owner changes.
IndInv == TypeOK /\ InFlightOK /\ \A n \in Node : AgentOK(n)
-----------------------------------------------------------------------------

\* The default entry and the empty storage are values of their types.
LEMMA DefaultsType == DefaultEntry \in Entry /\ EmptyStorage \in Storage
  BY DEF DefaultEntry, EmptyStorage, Entry, Storage, Config

\* ConfigStorage::update_config keeps the storage well typed.
LEMMA UpdateConfigType ==
  ASSUME NEW s \in Storage, NEW k \in Key, NEW c \in Config, NEW m \in Message
  PROVE  UpdateConfig(s, k, c, m) \in Storage
  BY DEF UpdateConfig, Storage, Entry

\* ... and so does the part of set_robots_config that calls it.
LEMMA StoreRobotsConfigType ==
  ASSUME NEW s \in Storage, NEW e \in Entry,
         NEW k \in Key, NEW c \in Config, NEW m \in Message
  PROVE  StoreRobotsConfig(s, e, k, c, m) \in Storage
  BY UpdateConfigType DEF StoreRobotsConfig

\* RobotsManager::set_robots_config keeps the manager's fields well typed.
LEMMA SetRobotsConfigType ==
  ASSUME NEW e \in Entry, NEW c \in Config, NEW m \in Message
  PROVE  SetRobotsConfig(e, c, m) \in Entry
  BY DEF SetRobotsConfig, Entry

\* Adding the robots of config.json keeps them well typed.
LEMMA AddRobotsType ==
  ASSUME NEW e \in Entry, NEW extra \in SUBSET Key
  PROVE  AddRobots(e, extra) \in Entry
  BY DEF AddRobots, Entry, Config

\* What an entry holds, and what is read back from the file, is well typed.
LEMMA ReadType ==
  ASSUME NEW d \in Entry, NEW k \in Key
  PROVE  ReadConfig(d) \in Entry /\ ReadStorage(d, k) \in Storage
<1>1. CASE IsPresent(d)
  <2>1. d.config \in Config /\ d.msg \in Message
    BY <1>1 DEF Entry, IsPresent
  <2>. QED
    BY <1>1, <2>1, DefaultsType, SetRobotsConfigType, StoreRobotsConfigType
    DEF ReadConfig, ReadStorage
<1>2. CASE ~IsPresent(d)
  BY <1>2, DefaultsType DEF ReadConfig, ReadStorage
<1>. QED
  BY <1>1, <1>2

\* The channel holds messages, and never more than its capacity.
LEMMA EnqueueType ==
  ASSUME NEW S, NEW q \in Seq(S), Len(q) <= ChannelCap, NEW m \in S
  PROVE  Enqueue(q, m) \in Seq(S) /\ Len(Enqueue(q, m)) <= ChannelCap
<1>1. ChannelCap \in Nat \ {0}
  BY SyncAssumption
<1>2. CASE Len(q) < ChannelCap
  BY <1>1, <1>2 DEF Enqueue
<1>3. CASE ~(Len(q) < ChannelCap)
  <2>1. q # <<>> /\ Tail(q) \in Seq(S) /\ Len(Tail(q)) = Len(q) - 1
    BY <1>1, <1>3
  <2>2. Append(Tail(q), m) \in Seq(S) /\ Len(Append(Tail(q), m)) = Len(q)
    BY <2>1
  <2>. QED
    BY <1>3, <2>2 DEF Enqueue
<1>. QED
  BY <1>2, <1>3

\* Receiving from the channel leaves a shorter sequence.
LEMMA TailType ==
  ASSUME NEW S, NEW q \in Seq(S), q # <<>>, Len(q) <= ChannelCap
  PROVE  Tail(q) \in Seq(S) /\ Len(Tail(q)) <= ChannelCap /\ Head(q) \in S
<1>1. ChannelCap \in Nat
  BY SyncAssumption
<1>. QED
  BY <1>1
-----------------------------------------------------------------------------
(* Type correctness. *)

\* process_signed_message keeps the channel and the storage well typed.
LEMMA ProcessType ==
  ASSUME TypeOK, NEW n \in Node, NEW m \in Message, ProcessSignedMessage(n, m)
  PROVE  /\ inbox' \in [Node -> Seq(Message)]
         /\ \A p \in Node : Len(inbox'[p]) <= ChannelCap
         /\ storage' \in [Node -> Storage]
<1>1. Signer[m] \in Key /\ Content[m] \in Config
  BY StoreAssumption
<1>2. /\ Enqueue(inbox[n], m) \in Seq(Message)
      /\ Len(Enqueue(inbox[n], m)) <= ChannelCap
  BY EnqueueType DEF TypeOK
<1>3. UpdateConfig(storage[n], FiledUnder(n, m), Content[m], m) \in Storage
  BY <1>1, UpdateConfigType DEF TypeOK, FiledUnder
<1>. QED
  BY <1>2, <1>3 DEF TypeOK, ProcessSignedMessage

\* What an agent shares is a well-typed request.
LEMMA ShareType ==
  ASSUME TypeOK, NEW n \in Node, NEW p \in Node, NEW k \in Key, NEW v \in Nat
  PROVE  Share(n, p, k, v) \subseteq ShareRequest
<1>1. storage[n][k] \in Entry
  BY DEF TypeOK, Storage
<1>2. IsPresent(storage[n][k]) => storage[n][k].msg \in Message
  BY <1>1 DEF Entry, IsPresent
<1>. QED
  BY <1>2 DEF Share, ShareRequest

\* The types of what the UpdateConfig branch of the core writes.
LEMMA InstallType ==
  ASSUME TypeOK, NEW n \in Node, NEW m \in Message, NEW to \in Entry,
         InstallUpdate(n, m, to)
  PROVE  /\ installed' \in [Node -> Entry]
         /\ storage' \in [Node -> Storage]
         /\ file' \in [Node -> Entry]
<1>1. Content[m] \in Config
  BY StoreAssumption
<1>2. SetRobotsConfig(installed[n], Content[m], m) \in Entry
  BY <1>1, SetRobotsConfigType DEF TypeOK
<1>3. StoreRobotsConfig(storage[n], installed[n], owner[n], Content[m], m) \in Storage
  BY <1>1, StoreRobotsConfigType DEF TypeOK
<1>. QED
  BY <1>2, <1>3 DEF TypeOK, InstallUpdate

\* A process that stops leaves well-typed variables.
LEMMA StopType ==
  ASSUME TypeOK, NEW n \in Node, NEW to \in Entry, StopProcess(n, to)
  PROVE  TypeOK'
<1>1. /\ mode' \in [Node -> {"down", "booting", "running"}]
      /\ owner' \in [Node -> Key]
      /\ installed' \in [Node -> Entry]
      /\ storage' \in [Node -> Storage]
      /\ file' \in [Node -> Entry]
  BY DefaultsType DEF TypeOK, StopProcess
<1>2. inbox' \in [Node -> Seq(Message)] /\ \A p \in Node : Len(inbox'[p]) <= ChannelCap
  BY SyncAssumption DEF TypeOK, StopProcess
<1>. QED
  BY <1>1, <1>2 DEF TypeOK, StopProcess

\* All variables keep their types, and the channel its capacity.
THEOREM TypeCorrect == Spec => []TypeOK
<1>1. Init => TypeOK
  BY DefaultsType, SyncAssumption DEF Init, TypeOK
<1>2. TypeOK /\ [Next]_vars => TypeOK'
  <2>. SUFFICES ASSUME TypeOK, [Next]_vars
                PROVE  TypeOK'
    OBVIOUS
  <2>1. ASSUME NEW n \in Node, Start(n)
        PROVE  TypeOK'
    <3>1. PICK k \in OwnerArg[n], extra \in {{}, ConfigJson[n]} :
            /\ owner' = [owner EXCEPT ![n] = k]
            /\ installed' = [installed EXCEPT ![n] = AddRobots(ReadConfig(file[n]), extra)]
            /\ storage' = [storage EXCEPT ![n] = ReadStorage(file[n], k)]
      BY <2>1 DEF Start
    <3>2. k \in Key /\ extra \in SUBSET Key
      BY SyncAssumption
    <3>3. /\ AddRobots(ReadConfig(file[n]), extra) \in Entry
          /\ ReadStorage(file[n], k) \in Storage
      BY <3>2, ReadType, AddRobotsType DEF TypeOK
    <3>. QED
      BY <2>1, <3>1, <3>2, <3>3 DEF TypeOK, Start, netVars
  <2>2. ASSUME NEW n \in Node, CoreSubscribe(n)
        PROVE  TypeOK'
    BY <2>2 DEF TypeOK, CoreSubscribe, netVars
  <2>3. ASSUME NEW n \in Node, NEW m \in Message, Publish(n, m)
        PROVE  TypeOK'
    <3>1. gossip' \subseteq Node \X Message
      BY <2>3 DEF TypeOK, Publish
    <3>2. /\ inbox' \in [Node -> Seq(Message)]
          /\ \A p \in Node : Len(inbox'[p]) <= ChannelCap
          /\ storage' \in [Node -> Storage]
      BY <2>3, ProcessType DEF Publish
    <3>. QED
      BY <2>3, <3>1, <3>2 DEF TypeOK, Publish
  <2>4. ASSUME NEW n \in Node, NEW m \in Message, GossipDeliver(n, m)
        PROVE  TypeOK'
    BY <2>4, ProcessType DEF TypeOK, GossipDeliver
  <2>5. ASSUME NEW n \in Node, NEW p \in Node, Connect(n, p)
        PROVE  TypeOK'
    BY <2>5 DEF TypeOK, Connect, agentVars
  <2>6. ASSUME NEW n \in Node, NEW p \in Node, Disconnect(n, p)
        PROVE  TypeOK'
    BY <2>6 DEF TypeOK, Disconnect, agentVars
  <2>7. ASSUME NEW n \in Node, NEW p \in Node, ConnectionEstablished(n, p)
        PROVE  TypeOK'
    <3>1. installed[n].config.version \in Nat
      BY DEF TypeOK, Entry, Config
    <3>2. net' \subseteq VersionRequest \cup VersionResponse \cup ShareRequest
      BY <2>7, <3>1 DEF TypeOK, ConnectionEstablished, RequestedVersion, VersionRequest
    <3>. QED
      BY <2>7, <3>2 DEF TypeOK, ConnectionEstablished, agentVars
  <2>8. ASSUME NEW n \in Node, AnswerVersionRequest(n)
        PROVE  TypeOK'
    <3>1. PICK q \in net :
            /\ q.type = "GetConfigVersion" /\ q.dst = n
            /\ LET e == storage[n][q.owner]
                   stored == IF IsPresent(e) THEN e.config.version ELSE 0
               IN net' = (net \ {q}) \cup Share(n, q.src, q.owner, q.version)
                           \cup {[type |-> "ConfigVersion", src |-> n, dst |-> q.src,
                                  version |-> stored, owner |-> q.owner]}
      BY <2>8 DEF AnswerVersionRequest
    <3>2. q.src \in Node /\ q.owner \in Key /\ q.version \in Nat
      BY <3>1 DEF TypeOK, VersionRequest, VersionResponse, ShareRequest
    <3>3. storage[n][q.owner].config.version \in Nat
      BY <3>2 DEF TypeOK, Storage, Entry, Config
    <3>4. Share(n, q.src, q.owner, q.version) \subseteq ShareRequest
      BY <3>2, ShareType
    <3>5. net' \subseteq VersionRequest \cup VersionResponse \cup ShareRequest
      BY <3>1, <3>2, <3>3, <3>4 DEF TypeOK, VersionResponse
    <3>. QED
      BY <2>8, <3>5 DEF TypeOK, AnswerVersionRequest, agentVars
  <2>9. ASSUME NEW n \in Node, HandleVersionResponse(n)
        PROVE  TypeOK'
    <3>1. PICK q \in net :
            /\ q.type = "ConfigVersion" /\ q.dst = n
            /\ net' = (net \ {q}) \cup Share(n, q.src, q.owner, q.version)
      BY <2>9 DEF HandleVersionResponse
    <3>2. q.src \in Node /\ q.owner \in Key /\ q.version \in Nat
      BY <3>1 DEF TypeOK, VersionRequest, VersionResponse, ShareRequest
    <3>3. Share(n, q.src, q.owner, q.version) \subseteq ShareRequest
      BY <3>2, ShareType
    <3>. QED
      BY <2>9, <3>1, <3>3 DEF TypeOK, HandleVersionResponse, agentVars
  <2>10. ASSUME NEW n \in Node, HandleShareConfig(n)
         PROVE  TypeOK'
    <3>1. PICK q \in net : /\ q.type = "ShareConfigMessage"
                           /\ net' = net \ {q}
                           /\ ProcessSignedMessage(n, q.msg)
      BY <2>10 DEF HandleShareConfig
    <3>2. q.msg \in Message
      BY <3>1 DEF TypeOK, VersionRequest, VersionResponse, ShareRequest
    <3>. QED
      BY <2>10, <3>1, <3>2, ProcessType DEF TypeOK, HandleShareConfig
  <2>11. ASSUME NEW n \in Node, Expire(n)
         PROVE  TypeOK'
    BY <2>11 DEF TypeOK, Expire, agentVars
  <2>12. ASSUME NEW n \in Node, inbox[n] # <<>>, inbox' = [inbox EXCEPT ![n] = Tail(@)]
         PROVE  /\ Head(inbox[n]) \in Message
                /\ inbox' \in [Node -> Seq(Message)]
                /\ \A p \in Node : Len(inbox'[p]) <= ChannelCap
    BY <2>12, TailType DEF TypeOK
  <2>13. ASSUME NEW n \in Node, CoreReceive(n)
         PROVE  TypeOK'
    <3>. DEFINE m == Head(inbox[n])
    <3>1. /\ m \in Message
          /\ inbox' \in [Node -> Seq(Message)]
          /\ \A p \in Node : Len(inbox'[p]) <= ChannelCap
      BY <2>12, <2>13 DEF CoreReceive
    <3>2. CASE Accepts(n, m)
      <4>. DEFINE to == Saved(n, SetRobotsConfig(installed[n], Content[m], m))
      <4>1. Content[m] \in Config
        BY <3>1, StoreAssumption
      <4>2. SetRobotsConfig(installed[n], Content[m], m) \in Entry
        BY <3>1, <4>1, SetRobotsConfigType DEF TypeOK
      <4>3. to \in Entry
        BY <4>2 DEF TypeOK, Saved
      <4>4. InstallUpdate(n, m, to)
        BY <2>13, <3>2 DEF CoreReceive
      <4>5. /\ installed' \in [Node -> Entry]
            /\ storage' \in [Node -> Storage]
            /\ file' \in [Node -> Entry]
        BY <3>1, <4>3, <4>4, InstallType
      <4>. QED
        BY <2>13, <3>1, <4>5 DEF TypeOK, CoreReceive, netVars
    <3>3. CASE ~Accepts(n, m)
      BY <2>13, <3>1, <3>3 DEF TypeOK, CoreReceive, netVars
    <3>. QED
      BY <3>2, <3>3
  <2>14. ASSUME NEW n \in Node, CoreReceiveSaveFails(n)
         PROVE  TypeOK'
    <3>1. /\ Head(inbox[n]) \in Message
          /\ inbox' \in [Node -> Seq(Message)]
          /\ \A p \in Node : Len(inbox'[p]) <= ChannelCap
      BY <2>12, <2>14 DEF CoreReceiveSaveFails
    <3>2. PICK to \in {file[n], DefaultEntry} : InstallUpdate(n, Head(inbox[n]), to)
      BY <2>14 DEF CoreReceiveSaveFails
    <3>3. to \in Entry
      BY DefaultsType DEF TypeOK
    <3>4. /\ installed' \in [Node -> Entry]
          /\ storage' \in [Node -> Storage]
          /\ file' \in [Node -> Entry]
      BY <3>1, <3>2, <3>3, InstallType
    <3>. QED
      BY <2>14, <3>1, <3>4 DEF TypeOK, CoreReceiveSaveFails, netVars
  <2>15. ASSUME NEW n \in Node, Overrun(n)
         PROVE  TypeOK'
    BY <2>12, <2>15 DEF TypeOK, Overrun, netVars
  <2>16. ASSUME NEW n \in Node, Crash(n)
         PROVE  TypeOK'
    BY <2>16, StopType DEF TypeOK, Crash
  <2>17. ASSUME NEW n \in Node, CrashDuringSave(n)
         PROVE  TypeOK'
    BY <2>17, StopType, DefaultsType DEF CrashDuringSave
  <2>18. CASE UNCHANGED vars
    BY <2>18 DEF TypeOK, vars
  <2>. QED
    BY <2>1, <2>2, <2>3, <2>4, <2>5, <2>6, <2>7, <2>8, <2>9, <2>10, <2>11, <2>13,
       <2>14, <2>15, <2>16, <2>17, <2>18
    DEF Next, LibP2pTask, CoreTask, Environment
<1>. QED
  BY <1>1, <1>2, PTL DEF Spec
-----------------------------------------------------------------------------
(* The inductive invariant. *)

\* ConfigStorage::update_config: an entry either stays or becomes the new one
\* under its key; no entry is lost or gets older, and the entry under the key
\* is then at least as new as the update.
LEMMA UpdateConfigEffect ==
  ASSUME NEW s \in Storage, NEW k \in Key, NEW c \in Config, NEW m \in Message
  PROVE  /\ \A j \in Key : \/ UpdateConfig(s, k, c, m)[j] = s[j]
                           \/ /\ j = k
                              /\ UpdateConfig(s, k, c, m)[j] = [config |-> c, msg |-> m]
         /\ \A j \in Key : IsPresent(s[j]) =>
              /\ IsPresent(UpdateConfig(s, k, c, m)[j])
              /\ UpdateConfig(s, k, c, m)[j].config.version >= s[j].config.version
         /\ IsPresent(UpdateConfig(s, k, c, m)[k])
         /\ UpdateConfig(s, k, c, m)[k].config.version >= c.version
<1>1. c.version \in Nat /\ m # NoMessage
  BY StoreAssumption DEF Config
<1>2. \A j \in Key : s[j].config.version \in Nat
  BY DEF Storage, Entry, Config
<1>. QED
  BY <1>1, <1>2 DEF UpdateConfig, IsPresent, Storage

\* A message that its signer published is a genuine entry as it stands.
LEMMA MessageGenuine ==
  ASSUME NEW n \in Node, NEW m \in Message, m \in published \cap Verified
  PROVE  /\ Genuine(n, [config |-> Content[m], msg |-> m], Signer[m])
         /\ Signer[m] \in OwnerArg[n]
              => FromAnOwner(n, [config |-> Content[m], msg |-> m])
  BY DEF Genuine, FromAnOwner, Unaltered

\* An agent that a step leaves alone stays as it should be, since published
\* messages stay published.
LEMMA UntouchedAgent ==
  ASSUME NEW n \in Node, AgentOK(n), published \subseteq published',
         mode'[n] = mode[n], owner'[n] = owner[n], installed'[n] = installed[n],
         storage'[n] = storage[n], file'[n] = file[n]
  PROVE  AgentOK(n)'
  BY DEF AgentOK, Genuine, FromAnOwner, Unaltered, Alive

\* process_signed_message on a published message keeps the agent and the
\* messages for its core as they should be.
LEMMA ProcessOK ==
  ASSUME IndInv, TypeOK', NEW n \in Node, NEW m \in Message, m \in published',
         published \subseteq published', ProcessSignedMessage(n, m),
         UNCHANGED <<mode, owner, installed, file>>
  PROVE  /\ \A p \in Node : inbox'[p] \in Seq((published \cap Verified)')
         /\ \A p \in Node : AgentOK(p)'
<1>1. \A p \in Node : inbox'[p] \in Seq((published \cap Verified)')
  <2>. SUFFICES ASSUME NEW p \in Node
                PROVE  inbox'[p] \in Seq((published \cap Verified)')
    OBVIOUS
  <2>1. inbox[p] \in Seq((published \cap Verified)')
    BY DEF IndInv, InFlightOK
  <2>2. CASE inbox'[p] = inbox[p]
    BY <2>1, <2>2
  <2>3. CASE inbox'[p] # inbox[p]
    <3>1. p = n /\ m \in Verified /\ inbox'[p] = Enqueue(inbox[p], m)
      BY <2>3 DEF ProcessSignedMessage, IndInv, TypeOK
    <3>2. Len(inbox[p]) <= ChannelCap
      BY DEF IndInv, TypeOK
    <3>. QED
      BY <2>1, <3>1, <3>2, EnqueueType
  <2>. QED
    BY <2>2, <2>3
<1>2. ASSUME NEW p \in Node
      PROVE  AgentOK(p)'
  <2>1. AgentOK(p)
    BY DEF IndInv
  <2>2. CASE storage'[p] = storage[p]
    BY <2>1, <2>2, UntouchedAgent
  <2>3. CASE storage'[p] # storage[p]
    <3>1. /\ p = n /\ m \in Verified
          /\ storage'[p] = UpdateConfig(storage[p], Signer[m], Content[m], m)
      BY <2>3 DEF ProcessSignedMessage, IndInv, TypeOK, FiledUnder
    <3>2. storage[p] \in Storage /\ Signer[m] \in Key /\ Content[m] \in Config
      BY StoreAssumption DEF IndInv, TypeOK
    <3>3. \A k \in Key : \/ storage'[p][k] = storage[p][k]
                         \/ /\ k = Signer[m]
                            /\ storage'[p][k] = [config |-> Content[m], msg |-> m]
      BY <3>1, <3>2, UpdateConfigEffect
    <3>4. \A k \in Key : IsPresent(storage[p][k]) =>
            /\ IsPresent(storage'[p][k])
            /\ storage'[p][k].config.version >= storage[p][k].config.version
      <4>1. \A k \in Key : IsPresent(storage[p][k]) =>
              /\ IsPresent(UpdateConfig(storage[p], Signer[m], Content[m], m)[k])
              /\ UpdateConfig(storage[p], Signer[m], Content[m], m)[k].config.version
                   >= storage[p][k].config.version
        BY <3>2, UpdateConfigEffect
      <4>. QED
        BY <3>1, <4>1 DEF IsPresent
    <3>5. ASSUME NEW k \in Key, IsPresent(storage'[p][k])
          PROVE  \/ Genuine(p, storage[p][k], k)'
                 \/ k = owner'[p] /\ FromAnOwner(p, storage[p][k])'
      <4>1. CASE storage'[p][k] = storage[p][k]
        BY <2>1, <3>5, <4>1 DEF AgentOK, Genuine, FromAnOwner, Unaltered, IsPresent
      <4>2. CASE k = Signer[m] /\ storage'[p][k] = [config |-> Content[m], msg |-> m]
        BY <3>1, <4>2 DEF Genuine, FromAnOwner, Unaltered
      <4>. QED
        BY <3>3, <4>1, <4>2
    <3>6. /\ owner[p] \in Key
          /\ installed[p].config.version \in Nat
          /\ storage[p][owner[p]].config.version \in Nat
          /\ storage'[p][owner[p]].config.version \in Nat
      BY DEF IndInv, TypeOK, Storage, Entry, Config
    <3>. QED
      BY <2>1, <3>4, <3>5, <3>6 DEF AgentOK, Genuine, FromAnOwner, Unaltered, Alive, IsPresent
  <2>. QED
    BY <2>2, <2>3
<1>. QED
  BY <1>1, <1>2

\* The UpdateConfig branch of the core, on a genuine message of the owner,
\* whatever of the three the write leaves on disk.
LEMMA InstallOK ==
  ASSUME IndInv, TypeOK', NEW n \in Node, NEW m \in Message, NEW to \in Entry,
         m \in published \cap Verified, Signer[m] = owner[n],
         to \in {SetRobotsConfig(installed[n], Content[m], m), file[n], DefaultEntry},
         InstallUpdate(n, m, to), UNCHANGED <<mode, owner, published>>
  PROVE  \A p \in Node : AgentOK(p)'
<1>. SUFFICES ASSUME NEW p \in Node
              PROVE  AgentOK(p)'
  OBVIOUS
<1>1. AgentOK(p) /\ AgentOK(n)
  BY DEF IndInv
<1>2. CASE p # n
  BY <1>1, <1>2, UntouchedAgent DEF IndInv, TypeOK, InstallUpdate
<1>3. CASE p = n
  <2>. DEFINE c == Content[m]
  <2>1. /\ c \in Config /\ c.version \in Nat /\ m # NoMessage
        /\ owner[n] \in Key
        /\ storage[n] \in Storage
        /\ installed[n] \in Entry /\ installed[n].config.version \in Nat
        /\ file[n] \in Entry /\ file[n].config.version \in Nat
    BY StoreAssumption DEF IndInv, TypeOK, Entry, Config
  <2>2. /\ installed'[n] = SetRobotsConfig(installed[n], c, m)
        /\ storage'[n] = StoreRobotsConfig(storage[n], installed[n], owner[n], c, m)
        /\ file'[n] = to
        /\ mode'[n] = mode[n] /\ owner'[n] = owner[n] /\ published' = published
    BY DEF InstallUpdate, IndInv, TypeOK
  <2>3. CASE ~(c.version > installed[n].config.version)
    <3>1. installed'[n] = installed[n] /\ storage'[n] = storage[n]
      BY <2>2, <2>3 DEF SetRobotsConfig, StoreRobotsConfig
    <3>2. file'[n] \in {installed[n], file[n], DefaultEntry}
      BY <2>2, <3>1
    <3>. QED
      BY <1>1, <1>3, <2>1, <2>2, <3>1, <3>2
      DEF AgentOK, Genuine, FromAnOwner, Unaltered, Alive, IsPresent, DefaultEntry
  <2>4. CASE c.version > installed[n].config.version
    <3>. DEFINE new == [config |-> c, msg |-> m]
                st == UpdateConfig(storage[n], owner[n], c, m)
    <3>1. installed'[n] = new /\ storage'[n] = st
      BY <2>2, <2>4 DEF SetRobotsConfig, StoreRobotsConfig
    <3>2. Genuine(n, new, owner[n]) /\ FromAnOwner(n, new)
      BY <1>1, <1>3, MessageGenuine DEF AgentOK
    <3>3. \A k \in Key : st[k] = storage[n][k] \/ (k = owner[n] /\ st[k] = new)
      BY <2>1, UpdateConfigEffect
    <3>4. IsPresent(st[owner[n]]) /\ st[owner[n]].config.version >= c.version
      BY <2>1, UpdateConfigEffect
    <3>5. ASSUME NEW k \in Key, IsPresent(st[k])
          PROVE  \/ Genuine(n, st[k], k)
                 \/ k = owner[n] /\ FromAnOwner(n, st[k])
      <4>. HIDE DEF st
      <4>1. CASE st[k] = storage[n][k]
        <5>1. IsPresent(storage[n][k])
          BY <3>5, <4>1 DEF IsPresent
        <5>2. \/ Genuine(n, storage[n][k], k)
              \/ k = owner[n] /\ FromAnOwner(n, storage[n][k])
          BY <1>1, <5>1 DEF AgentOK
        <5>. QED
          BY <4>1, <5>2 DEF Genuine, FromAnOwner, Unaltered
      <4>2. CASE k = owner[n] /\ st[k] = new
        BY <3>2, <4>2
      <4>. QED
        BY <3>3, <4>1, <4>2
    <3>6. /\ \A k \in Key : IsPresent(storage[n][k])' =>
               \/ Genuine(n, storage[n][k], k)'
               \/ k = owner'[n] /\ FromAnOwner(n, storage[n][k])'
          /\ IsPresent(storage[n][owner[n]])'
          /\ storage'[n][owner'[n]].config.version >= installed'[n].config.version
      <4>. HIDE DEF st
      <4>1. ASSUME NEW k \in Key, IsPresent(storage[n][k])'
            PROVE  \/ Genuine(n, storage[n][k], k)'
                   \/ k = owner'[n] /\ FromAnOwner(n, storage[n][k])'
        <5>1. IsPresent(st[k])
          BY <3>1, <4>1 DEF IsPresent
        <5>2. \/ Genuine(n, st[k], k)
              \/ k = owner[n] /\ FromAnOwner(n, st[k])
          BY <3>5, <5>1
        <5>. QED
          BY <2>2, <3>1, <5>2 DEF Genuine, FromAnOwner, Unaltered
      <4>2. IsPresent(storage[n][owner[n]])'
        BY <2>2, <3>1, <3>4 DEF IsPresent
      <4>3. storage'[n][owner'[n]].config.version >= installed'[n].config.version
        BY <2>2, <3>1, <3>4
      <4>. QED
        BY <4>1, <4>2, <4>3
    <3>7. /\ IsPresent(installed[n])'
          /\ FromAnOwner(n, installed[n])'
          /\ installed'[n].config.version > 0
          /\ installed'[n].config.version > installed[n].config.version
      BY <2>1, <2>2, <2>4, <3>1, <3>2 DEF Genuine, FromAnOwner, Unaltered, IsPresent
    <3>8. file'[n] \in {installed'[n], file[n], DefaultEntry}
      BY <2>2
    <3>9. IsPresent(file[n])' =>
            /\ FromAnOwner(n, file[n])' /\ file'[n].config.version > 0
            /\ Alive(n)' => file'[n].config.version <= installed'[n].config.version
      <4>1. CASE file'[n] = installed'[n]
        BY <2>1, <3>1, <3>7, <4>1 DEF Genuine, FromAnOwner, Unaltered, IsPresent
      <4>2. CASE file'[n] = file[n]
        BY <1>1, <2>1, <2>2, <3>1, <3>7, <4>2
        DEF AgentOK, Genuine, FromAnOwner, Unaltered, IsPresent, Alive
      <4>3. CASE file'[n] = DefaultEntry
        BY <4>3 DEF DefaultEntry, IsPresent
      <4>. QED
        BY <3>8, <4>1, <4>2, <4>3
    <3>10. AgentOK(n)'
      BY <1>1, <2>2, <3>6, <3>7, <3>9 DEF AgentOK
    <3>. QED
      BY <1>3, <3>10
  <2>. QED
    BY <2>3, <2>4
<1>. QED
  BY <1>2, <1>3

\* A process that starts, for whichever owner, from whatever its file holds.
LEMMA StartOK ==
  ASSUME IndInv, NEW n \in Node, Start(n)
  PROVE  \A p \in Node : AgentOK(p)'
<1>. SUFFICES ASSUME NEW p \in Node
              PROVE  AgentOK(p)'
  OBVIOUS
<1>1. AgentOK(p) /\ AgentOK(n)
  BY DEF IndInv
<1>2. PICK k \in OwnerArg[n], extra \in {{}, ConfigJson[n]} :
        /\ owner' = [owner EXCEPT ![n] = k]
        /\ installed' = [installed EXCEPT ![n] = AddRobots(ReadConfig(file[n]), extra)]
        /\ storage' = [storage EXCEPT ![n] = ReadStorage(file[n], k)]
  BY DEF Start
<1>3. CASE p # n
  BY <1>1, <1>2, <1>3, UntouchedAgent DEF IndInv, TypeOK, Start, netVars
<1>4. CASE p = n
  <2>1. k \in OwnerArg[n] /\ k \in Key
    BY SyncAssumption
  <2>2. /\ owner'[n] = k
        /\ installed'[n] = AddRobots(ReadConfig(file[n]), extra)
        /\ storage'[n] = ReadStorage(file[n], k)
        /\ file'[n] = file[n] /\ published' = published
    BY <1>2 DEF IndInv, TypeOK, Start, netVars
  <2>3. CASE ~IsPresent(file[n])
    <3>1. installed'[n].msg = NoMessage /\ installed'[n].config.version = 0
          /\ installed'[n].config.users = {}
      BY <2>2, <2>3 DEF ReadConfig, AddRobots, DefaultEntry
    <3>2. storage'[n] = EmptyStorage
      BY <2>2, <2>3 DEF ReadStorage
    <3>. QED
      BY <1>1, <1>4, <2>1, <2>2, <2>3, <3>1, <3>2
      DEF AgentOK, IsPresent, EmptyStorage, DefaultEntry
  <2>4. CASE IsPresent(file[n])
    <3>. DEFINE d == file[n]
    <3>1. /\ d \in Entry /\ d.config \in Config /\ d.msg \in Message
          /\ d.config.version \in Nat /\ d.config.version > 0
          /\ FromAnOwner(n, d)
      BY <1>1, <2>1, <2>4 DEF IndInv, TypeOK, Entry, Config, AgentOK, IsPresent
    <3>2. d = [config |-> d.config, msg |-> d.msg]
      BY <3>1 DEF Entry
    <3>3. ReadConfig(d) = d
      BY <2>4, <3>1, <3>2 DEF ReadConfig, SetRobotsConfig, DefaultEntry
    <3>4. installed'[n] = [config |-> [d.config EXCEPT !.robots = @ \cup extra], msg |-> d.msg]
      BY <2>2, <3>1, <3>2, <3>3 DEF AddRobots, Entry, Config
    <3>5. /\ installed'[n].msg = d.msg
          /\ installed'[n].config.version = d.config.version
          /\ installed'[n].config.users = d.config.users
          /\ installed'[n].config.robots = d.config.robots \cup extra
      BY <3>1, <3>4 DEF Config
    <3>6. FromAnOwner(n, installed[n])'
      BY <2>2, <3>1, <3>5 DEF Genuine, FromAnOwner, Unaltered
    <3>7. storage'[n] = UpdateConfig(EmptyStorage, k, d.config, d.msg)
      BY <2>2, <2>4, <3>1 DEF ReadStorage, StoreRobotsConfig, DefaultEntry
    <3>8. storage'[n] = [EmptyStorage EXCEPT ![k] = d]
      BY <2>1, <3>1, <3>2, <3>7 DEF UpdateConfig, EmptyStorage, DefaultEntry, IsPresent
    <3>9. \A j \in Key : storage'[n][j] = IF j = k THEN d ELSE DefaultEntry
      BY <3>8 DEF EmptyStorage
    <3>10. FromAnOwner(n, d)'
      BY <2>2, <3>1 DEF Genuine, FromAnOwner, Unaltered
    <3>11. \A j \in Key : IsPresent(storage[n][j])' =>
             j = owner'[n] /\ FromAnOwner(n, storage[n][j])'
      BY <2>2, <3>1, <3>9 DEF IsPresent, DefaultEntry, Genuine, FromAnOwner, Unaltered
    <3>12. storage'[n][owner'[n]] = d
      BY <2>1, <2>2, <3>9
    <3>. QED
      BY <1>1, <1>4, <2>1, <2>2, <2>4, <3>1, <3>5, <3>6, <3>10, <3>11, <3>12
      DEF AgentOK, IsPresent
  <2>. QED
    BY <2>3, <2>4
<1>. QED
  BY <1>3, <1>4

\* A process that stops keeps its file, or loses it.
LEMMA StopOK ==
  ASSUME IndInv, NEW n \in Node, NEW to \in {file[n], DefaultEntry}, StopProcess(n, to)
  PROVE  \A p \in Node : AgentOK(p)'
<1>. SUFFICES ASSUME NEW p \in Node
              PROVE  AgentOK(p)'
  OBVIOUS
<1>1. AgentOK(p)
  BY DEF IndInv
<1>2. CASE p # n
  BY <1>1, <1>2, UntouchedAgent DEF IndInv, TypeOK, StopProcess
<1>3. CASE p = n
  <2>1. /\ mode'[n] = "down" /\ owner'[n] = owner[n] /\ published' = published
        /\ installed'[n] = DefaultEntry /\ storage'[n] = EmptyStorage
        /\ file'[n] \in {file[n], DefaultEntry}
    BY DEF IndInv, TypeOK, StopProcess
  <2>. QED
    BY <1>1, <1>3, <2>1
    DEF AgentOK, Genuine, FromAnOwner, Unaltered, Alive, IsPresent, EmptyStorage, DefaultEntry
<1>. QED
  BY <1>2, <1>3

\* What an agent shares is a published message that verifies.
LEMMA ShareOK ==
  ASSUME IndInv, NEW n \in Node, NEW p \in Node, NEW k \in Key, NEW v \in Nat
  PROVE  \A q \in Share(n, p, k, v) : q.msg \in published \cap Verified
<1>1. IsPresent(storage[n][k]) => Unaltered(n, storage[n][k])
  BY DEF IndInv, AgentOK, Genuine, FromAnOwner
<1>. QED
  BY <1>1 DEF Share, Unaltered

\* Messages under way stay published, and those for the core verify.
LEMMA InFlightKept ==
  ASSUME IndInv, published \subseteq published',
         \A p \in Node : inbox'[p] \in Seq((published \cap Verified)'),
         gossip' \subseteq gossip,
         \A q \in net' : q \in net \/ (q.type = "ShareConfigMessage" =>
                                         q.msg \in published \cap Verified)
  PROVE  InFlightOK'
  BY DEF IndInv, InFlightOK

\* The invariant holds initially and every step keeps it.
LEMMA Inductive ==
  /\ Init => IndInv
  /\ IndInv /\ TypeOK' /\ [Next]_vars => IndInv'
<1>1. Init => IndInv
  <2>. SUFFICES ASSUME Init
                PROVE  IndInv
    OBVIOUS
  <2>1. TypeOK
    BY DefaultsType, SyncAssumption DEF Init, TypeOK
  <2>2. InFlightOK
    BY DEF Init, InFlightOK
  <2>3. \A n \in Node : AgentOK(n)
    BY DEF Init, AgentOK, Alive, IsPresent, DefaultEntry, EmptyStorage
  <2>. QED
    BY <2>1, <2>2, <2>3 DEF IndInv
<1>2. IndInv /\ TypeOK' /\ [Next]_vars => IndInv'
  <2>. SUFFICES ASSUME IndInv, TypeOK', [Next]_vars
                PROVE  InFlightOK' /\ \A p \in Node : AgentOK(p)'
    BY DEF IndInv
  <2>. USE DEF netVars, agentVars
  <2>1. ASSUME published' = published, inbox' = inbox
        PROVE  \A p \in Node : inbox'[p] \in Seq((published \cap Verified)')
    BY <2>1 DEF IndInv, InFlightOK
  <2>2. ASSUME published' = published,
               UNCHANGED <<mode, owner, installed, storage, file>>
        PROVE  \A p \in Node : AgentOK(p)'
    BY <2>2, UntouchedAgent DEF IndInv
  <2>3. ASSUME NEW n \in Node, inbox[n] # <<>>, published' = published,
               inbox' = [inbox EXCEPT ![n] = Tail(@)]
        PROVE  /\ Head(inbox[n]) \in published \cap Verified
               /\ \A p \in Node : inbox'[p] \in Seq((published \cap Verified)')
    BY <2>3, TailType DEF IndInv, InFlightOK, TypeOK
  <2>4. ASSUME NEW n \in Node, Start(n)
        PROVE  InFlightOK' /\ \A p \in Node : AgentOK(p)'
    BY <2>1, <2>4, StartOK, InFlightKept DEF Start
  <2>5. ASSUME NEW n \in Node, CoreSubscribe(n)
        PROVE  InFlightOK' /\ \A p \in Node : AgentOK(p)'
    <3>1. \A p \in Node : AgentOK(p)'
      BY <2>5 DEF CoreSubscribe, IndInv, TypeOK, AgentOK, Genuine, FromAnOwner, Unaltered, Alive
    <3>. QED
      BY <2>1, <2>5, <3>1, InFlightKept DEF CoreSubscribe
  <2>6. ASSUME NEW n \in Node, NEW m \in Message, Publish(n, m)
        PROVE  InFlightOK' /\ \A p \in Node : AgentOK(p)'
    <3>1. /\ \A p \in Node : inbox'[p] \in Seq((published \cap Verified)')
          /\ \A p \in Node : AgentOK(p)'
      BY <2>6, ProcessOK DEF Publish
    <3>2. \A g \in gossip' : g[2] \in published'
      BY <2>6 DEF Publish, IndInv, InFlightOK
    <3>. QED
      BY <2>6, <3>1, <3>2 DEF Publish, IndInv, InFlightOK
  <2>7. ASSUME NEW n \in Node, NEW m \in Message, GossipDeliver(n, m)
        PROVE  InFlightOK' /\ \A p \in Node : AgentOK(p)'
    <3>1. m \in published
      BY <2>7 DEF GossipDeliver, IndInv, InFlightOK
    <3>2. /\ \A p \in Node : inbox'[p] \in Seq((published \cap Verified)')
          /\ \A p \in Node : AgentOK(p)'
      BY <2>7, <3>1, ProcessOK DEF GossipDeliver
    <3>. QED
      BY <2>7, <3>2, InFlightKept DEF GossipDeliver
  <2>8. ASSUME NEW n \in Node, NEW p \in Node, Connect(n, p) \/ Disconnect(n, p)
        PROVE  InFlightOK' /\ \A r \in Node : AgentOK(r)'
    BY <2>1, <2>2, <2>8, InFlightKept DEF Connect, Disconnect
  <2>9. ASSUME NEW n \in Node, NEW p \in Node, ConnectionEstablished(n, p)
        PROVE  InFlightOK' /\ \A r \in Node : AgentOK(r)'
    BY <2>1, <2>2, <2>9, InFlightKept DEF ConnectionEstablished
  <2>10. ASSUME NEW n \in Node, AnswerVersionRequest(n)
         PROVE  InFlightOK' /\ \A p \in Node : AgentOK(p)'
    <3>1. PICK q \in net :
            /\ q.type = "GetConfigVersion" /\ q.dst = n
            /\ LET e == storage[n][q.owner]
                   stored == IF IsPresent(e) THEN e.config.version ELSE 0
               IN net' = (net \ {q}) \cup Share(n, q.src, q.owner, q.version)
                           \cup {[type |-> "ConfigVersion", src |-> n, dst |-> q.src,
                                  version |-> stored, owner |-> q.owner]}
      BY <2>10 DEF AnswerVersionRequest
    <3>2. q.src \in Node /\ q.owner \in Key /\ q.version \in Nat
      BY <3>1 DEF IndInv, TypeOK, VersionRequest, VersionResponse, ShareRequest
    <3>3. \A s \in Share(n, q.src, q.owner, q.version) : s.msg \in published \cap Verified
      BY <3>2, ShareOK
    <3>4. \A s \in net' : s \in net \/ (s.type = "ShareConfigMessage" =>
                                          s.msg \in published \cap Verified)
      BY <3>1, <3>3
    <3>. QED
      BY <2>1, <2>2, <2>10, <3>4, InFlightKept DEF AnswerVersionRequest
  <2>11. ASSUME NEW n \in Node, HandleVersionResponse(n)
         PROVE  InFlightOK' /\ \A p \in Node : AgentOK(p)'
    <3>1. PICK q \in net :
            /\ q.type = "ConfigVersion" /\ q.dst = n
            /\ net' = (net \ {q}) \cup Share(n, q.src, q.owner, q.version)
      BY <2>11 DEF HandleVersionResponse
    <3>2. q.src \in Node /\ q.owner \in Key /\ q.version \in Nat
      BY <3>1 DEF IndInv, TypeOK, VersionRequest, VersionResponse, ShareRequest
    <3>3. \A s \in Share(n, q.src, q.owner, q.version) : s.msg \in published \cap Verified
      BY <3>2, ShareOK
    <3>. QED
      BY <2>1, <2>2, <2>11, <3>1, <3>3, InFlightKept DEF HandleVersionResponse
  <2>12. ASSUME NEW n \in Node, HandleShareConfig(n)
         PROVE  InFlightOK' /\ \A p \in Node : AgentOK(p)'
    <3>1. PICK q \in net : /\ q.type = "ShareConfigMessage"
                           /\ net' = net \ {q}
                           /\ ProcessSignedMessage(n, q.msg)
      BY <2>12 DEF HandleShareConfig
    <3>2. q.msg \in Message /\ q.msg \in published
      BY <3>1 DEF IndInv, TypeOK, InFlightOK, VersionRequest, VersionResponse, ShareRequest
    <3>3. /\ \A p \in Node : inbox'[p] \in Seq((published \cap Verified)')
          /\ \A p \in Node : AgentOK(p)'
      BY <2>12, <3>1, <3>2, ProcessOK DEF HandleShareConfig
    <3>. QED
      BY <2>12, <3>1, <3>3, InFlightKept DEF HandleShareConfig
  <2>13. ASSUME NEW n \in Node, Expire(n)
         PROVE  InFlightOK' /\ \A p \in Node : AgentOK(p)'
    BY <2>1, <2>2, <2>13, InFlightKept DEF Expire
  <2>14. ASSUME NEW n \in Node, CoreReceive(n)
         PROVE  InFlightOK' /\ \A p \in Node : AgentOK(p)'
    <3>. DEFINE m == Head(inbox[n])
                set == SetRobotsConfig(installed[n], Content[m], m)
                to == Saved(n, set)
    <3>1. /\ m \in published \cap Verified
          /\ \A p \in Node : inbox'[p] \in Seq((published \cap Verified)')
      BY <2>3, <2>14 DEF CoreReceive
    <3>2. m \in Message
      BY <3>1, StoreAssumption
    <3>3. CASE Accepts(n, m)
      <4>1. set \in Entry /\ file[n] \in Entry
        BY <3>2, SetRobotsConfigType, StoreAssumption DEF IndInv, TypeOK
      <4>2. to \in Entry /\ to \in {set, file[n], DefaultEntry}
        BY <4>1 DEF Saved
      <4>3. InstallUpdate(n, m, to) /\ Signer[m] = owner[n]
        BY <2>14, <3>3 DEF CoreReceive, Accepts
      <4>4. \A p \in Node : AgentOK(p)'
        BY <2>14, <3>1, <3>2, <4>2, <4>3, InstallOK DEF CoreReceive
      <4>. QED
        BY <2>14, <3>1, <4>4, InFlightKept DEF CoreReceive
    <3>4. CASE ~Accepts(n, m)
      BY <2>2, <2>14, <3>1, <3>4, InFlightKept DEF CoreReceive
    <3>. QED
      BY <3>3, <3>4
  <2>15. ASSUME NEW n \in Node, CoreReceiveSaveFails(n)
         PROVE  InFlightOK' /\ \A p \in Node : AgentOK(p)'
    <3>. DEFINE m == Head(inbox[n])
    <3>1. /\ m \in published \cap Verified
          /\ \A p \in Node : inbox'[p] \in Seq((published \cap Verified)')
      BY <2>3, <2>15 DEF CoreReceiveSaveFails
    <3>2. m \in Message
      BY <3>1, StoreAssumption
    <3>3. PICK to \in {file[n], DefaultEntry} : InstallUpdate(n, m, to)
      BY <2>15 DEF CoreReceiveSaveFails
    <3>4. to \in Entry
      BY DefaultsType DEF IndInv, TypeOK
    <3>5. Signer[m] = owner[n]
      BY <2>15 DEF CoreReceiveSaveFails, Accepts
    <3>6. \A p \in Node : AgentOK(p)'
      BY <2>15, <3>1, <3>2, <3>3, <3>4, <3>5, InstallOK DEF CoreReceiveSaveFails
    <3>. QED
      BY <2>15, <3>1, <3>6, InFlightKept DEF CoreReceiveSaveFails
  <2>16. ASSUME NEW n \in Node, Overrun(n)
         PROVE  InFlightOK' /\ \A p \in Node : AgentOK(p)'
    BY <2>2, <2>3, <2>16, InFlightKept DEF Overrun
  <2>17. ASSUME NEW n \in Node, NEW to \in {file[n], DefaultEntry}, StopProcess(n, to)
         PROVE  InFlightOK' /\ \A p \in Node : AgentOK(p)'
    <3>1. \A p \in Node : inbox'[p] \in Seq((published \cap Verified)')
      BY <2>17 DEF StopProcess, IndInv, InFlightOK, TypeOK
    <3>. QED
      BY <2>17, <3>1, StopOK, InFlightKept DEF StopProcess
  <2>18. CASE UNCHANGED vars
    BY <2>1, <2>2, <2>18, InFlightKept DEF vars
  <2>. QED
    BY <2>4, <2>5, <2>6, <2>7, <2>8, <2>9, <2>10, <2>11, <2>12, <2>13, <2>14,
       <2>15, <2>16, <2>17, <2>18
    DEF Next, LibP2pTask, CoreTask, Environment, Crash, CrashDuringSave
<1>. QED
  BY <1>1, <1>2

\* The invariant holds in every reachable state.
THEOREM Invariance == Spec => []IndInv
<1>1. Spec => []TypeOK
  BY TypeCorrect
<1>. QED
  BY <1>1, Inductive, PTL DEF Spec
-----------------------------------------------------------------------------
(* What follows from it. *)

\* Nothing that an agent has installed or has saved is forged, mixes two
\* versions, or comes from a key that it was never started for, and so it is
\* with what it stores.
THEOREM ProvenanceHolds == Spec => []Provenance
<1>1. IndInv => Provenance
  BY DEF IndInv, AgentOK, Provenance
<1>. QED
  BY <1>1, Invariance, PTL

\* What an agent that keeps its owner has from an owner, it has from its owner.
LEMMA OwnerSigned ==
  ASSUME OneOwner, IndInv, NEW n \in Node, NEW e, FromAnOwner(n, e)
  PROVE  Genuine(n, e, owner[n])
  BY DEF OneOwner, IndInv, AgentOK, FromAnOwner, Genuine

\* Every configuration is its owner's, in the sense of the map in config.rs.
FiledByOwner ==
  \A n \in Node :
    /\ IsPresent(installed[n]) => Genuine(n, installed[n], owner[n])
    /\ IsPresent(file[n]) => Genuine(n, file[n], owner[n])
    /\ \A k \in Key : IsPresent(storage[n][k]) => Genuine(n, storage[n][k], k)

\* Agents that keep their owner use and save configurations that this owner
\* signed, and store each under the key that signed it.
THEOREM FiledByOwnerHolds ==
  ASSUME OneOwner
  PROVE  Spec => []FiledByOwner
<1>1. IndInv => FiledByOwner
  <2>. SUFFICES ASSUME IndInv, NEW n \in Node
                PROVE  /\ IsPresent(installed[n]) => Genuine(n, installed[n], owner[n])
                       /\ IsPresent(file[n]) => Genuine(n, file[n], owner[n])
                       /\ \A k \in Key :
                            IsPresent(storage[n][k]) => Genuine(n, storage[n][k], k)
    BY DEF FiledByOwner
  <2>1. AgentOK(n)
    BY DEF IndInv
  <2>. QED
    BY <2>1, OwnerSigned DEF AgentOK
<1>. QED
  BY <1>1, Invariance, PTL

\* A running agent can hand on what its core has installed, or newer.
THEOREM ServesHolds == Spec => []ServesWhatItInstalled
<1>1. IndInv => ServesWhatItInstalled
  BY DEF IndInv, AgentOK, ServesWhatItInstalled
<1>. QED
  BY <1>1, Invariance, PTL

\* The file of a running agent is not ahead of what it has installed.
THEOREM DurableHolds == Spec => []DurableNotAhead
<1>1. IndInv => DurableNotAhead
  BY DEF IndInv, AgentOK, DurableNotAhead
<1>. QED
  BY <1>1, Invariance, PTL

\* Agents of one owner that run the same version know the same users, if the
\* owner never signed two configurations with one version.
THEOREM AgreementHolds ==
  ASSUME OneOwner, UniqueVersions
  PROVE  Spec => []Agreement
<1>1. IndInv => Agreement
  <2>. SUFFICES ASSUME IndInv, NEW n \in Node, NEW p \in Node, owner[n] = owner[p],
                       installed[n].config.version = installed[p].config.version
                PROVE  installed[n].config.users = installed[p].config.users
    BY DEF Agreement
  <2>1. AgentOK(n) /\ AgentOK(p)
    BY DEF IndInv
  <2>2. CASE IsPresent(installed[n]) /\ IsPresent(installed[p])
    <3>. DEFINE a == installed[n].msg
                b == installed[p].msg
    <3>1. Genuine(n, installed[n], owner[n]) /\ Genuine(p, installed[p], owner[p])
      BY <2>1, <2>2, OwnerSigned DEF AgentOK
    <3>2. a \in Message /\ b \in Message
      BY <3>1, StoreAssumption DEF Genuine, Unaltered
    <3>3. Signer[a] = Signer[b] /\ Content[a].version = Content[b].version
      BY <3>1 DEF Genuine, Unaltered
    <3>4. Content[a] = Content[b]
      BY <3>2, <3>3 DEF UniqueVersions
    <3>. QED
      BY <3>1, <3>4 DEF Genuine, FromAnOwner, Unaltered
  <2>3. CASE ~IsPresent(installed[n]) \/ ~IsPresent(installed[p])
    <3>1. /\ IsPresent(installed[n]) => installed[n].config.version > 0
          /\ IsPresent(installed[p]) => installed[p].config.version > 0
          /\ ~IsPresent(installed[n]) => /\ installed[n].config.version = 0
                                        /\ installed[n].config.users = {}
          /\ ~IsPresent(installed[p]) => /\ installed[p].config.version = 0
                                        /\ installed[p].config.users = {}
      BY <2>1 DEF AgentOK
    <3>2. ~IsPresent(installed[n]) /\ ~IsPresent(installed[p])
      BY <2>3, <3>1
    <3>. QED
      BY <3>1, <3>2
  <2>. QED
    BY <2>2, <2>3
<1>. QED
  BY <1>1, Invariance, PTL
-----------------------------------------------------------------------------
(* What a step may do to configurations: action properties and refinement. *)

\* The core takes the message m of the owner and leaves "to" on disk.
InstallStep(n, m, to) ==
  /\ mode[n] = "running"
  /\ m \in published \cap Verified /\ Signer[m] = owner[n]
  /\ to \in {SetRobotsConfig(installed[n], Content[m], m), file[n], DefaultEntry}
  /\ InstallUpdate(n, m, to)
  /\ UNCHANGED <<mode, owner, published>>

\* Nothing happens to installed or saved configurations.
QuietStep ==
  /\ UNCHANGED <<owner, installed, file>>
  /\ \A n \in Node : Alive(n)' = Alive(n)
  /\ published' = published \/ \E m \in Message : published' = published \cup {m}

\* Every step is a start, an installation, a stop, or none of these.
LEMMA StepKinds ==
  ASSUME IndInv, [Next]_vars
  PROVE  \/ \E n \in Node : Start(n)
         \/ \E n \in Node, m \in Message, to \in Entry : InstallStep(n, m, to)
         \/ \E n \in Node : \E to \in {file[n], DefaultEntry} :
              Alive(n) /\ StopProcess(n, to)
         \/ QuietStep
<1>. USE DEF netVars, agentVars
<1>1. ASSUME NEW n \in Node, inbox[n] # <<>>
      PROVE  Head(inbox[n]) \in published \cap Verified /\ Head(inbox[n]) \in Message
  BY <1>1, TailType, StoreAssumption DEF IndInv, InFlightOK, TypeOK
<1>2. ASSUME NEW n \in Node, CoreReceive(n)
      PROVE  QuietStep \/ \E m \in Message, to \in Entry : InstallStep(n, m, to)
  <2>. DEFINE m == Head(inbox[n])
              set == SetRobotsConfig(installed[n], Content[m], m)
              to == Saved(n, set)
  <2>1. m \in published \cap Verified /\ m \in Message
    BY <1>1, <1>2 DEF CoreReceive
  <2>2. CASE Accepts(n, m)
    <3>1. set \in Entry /\ file[n] \in Entry
      BY <2>1, SetRobotsConfigType, StoreAssumption DEF IndInv, TypeOK
    <3>2. to \in Entry /\ to \in {set, file[n], DefaultEntry}
      BY <3>1 DEF Saved
    <3>3. InstallStep(n, m, to)
      BY <1>2, <2>1, <2>2, <3>2 DEF InstallStep, CoreReceive, Accepts
    <3>. QED
      BY <2>1, <3>2, <3>3
  <2>3. CASE ~Accepts(n, m)
    BY <1>2, <2>3 DEF CoreReceive, QuietStep, Alive
  <2>. QED
    BY <2>2, <2>3
<1>3. ASSUME NEW n \in Node, CoreReceiveSaveFails(n)
      PROVE  \E m \in Message, to \in Entry : InstallStep(n, m, to)
  <2>1. PICK to \in {file[n], DefaultEntry} : InstallUpdate(n, Head(inbox[n]), to)
    BY <1>3 DEF CoreReceiveSaveFails
  <2>2. to \in Entry
    BY DefaultsType DEF IndInv, TypeOK
  <2>3. InstallStep(n, Head(inbox[n]), to)
    BY <1>1, <1>3, <2>1 DEF InstallStep, CoreReceiveSaveFails, Accepts
  <2>. QED
    BY <1>1, <1>3, <2>2, <2>3 DEF CoreReceiveSaveFails
<1>4. ASSUME NEW n \in Node, CoreSubscribe(n)
      PROVE  QuietStep
  BY <1>4 DEF CoreSubscribe, QuietStep, Alive, IndInv, TypeOK
<1>5. ASSUME NEW n \in Node, LibP2pTask(n) \/ Expire(n) \/ Overrun(n)
      PROVE  QuietStep
  BY <1>5 DEF LibP2pTask, ConnectionEstablished, AnswerVersionRequest,
     HandleVersionResponse, HandleShareConfig, Expire, Overrun, QuietStep, Alive
<1>6. ASSUME NEW n \in Node, NEW p \in Node, Connect(n, p) \/ Disconnect(n, p)
      PROVE  QuietStep
  BY <1>6 DEF Connect, Disconnect, QuietStep, Alive
<1>7. ASSUME NEW n \in Node, NEW m \in Message, Publish(n, m) \/ GossipDeliver(n, m)
      PROVE  QuietStep
  BY <1>7 DEF Publish, GossipDeliver, QuietStep, Alive
<1>8. ASSUME NEW n \in Node, Crash(n) \/ CrashDuringSave(n)
      PROVE  \E to \in {file[n], DefaultEntry} : Alive(n) /\ StopProcess(n, to)
  BY <1>8 DEF Crash, CrashDuringSave, Alive
<1>9. CASE UNCHANGED vars
  BY <1>9 DEF vars, QuietStep, Alive
<1>. QED
  BY <1>2, <1>3, <1>4, <1>5, <1>6, <1>7, <1>8, <1>9 DEF Next, CoreTask, Environment

\* set_robots_config: either nothing, or the new configuration and it is newer.
LEMMA SetRobotsConfigEffect ==
  ASSUME NEW e \in Entry, NEW c \in Config, NEW m \in Message
  PROVE  \/ SetRobotsConfig(e, c, m) = e /\ ~(c.version > e.config.version)
         \/ /\ SetRobotsConfig(e, c, m) = [config |-> c, msg |-> m]
            /\ c.version > e.config.version
  BY DEF SetRobotsConfig

\* The configuration of a living process changes only to a newer version.
THEOREM InstallsOnlyNewerHolds == Spec => InstallsOnlyNewer
<1>1. IndInv /\ [Next]_vars =>
        [\A n \in Node : Alive(n) /\ Alive(n)' =>
           \/ installed'[n] = installed[n]
           \/ installed'[n].config.version > installed[n].config.version]_vars
  <2>. SUFFICES ASSUME IndInv, [Next]_vars, NEW p \in Node, Alive(p), Alive(p)'
                PROVE  \/ installed'[p] = installed[p]
                       \/ installed'[p].config.version > installed[p].config.version
    OBVIOUS
  <2>1. ASSUME NEW n \in Node, Start(n)
        PROVE  installed'[p] = installed[p]
    BY <2>1 DEF Start, Alive, IndInv, TypeOK
  <2>2. ASSUME NEW n \in Node, NEW m \in Message, NEW to \in Entry, InstallStep(n, m, to)
        PROVE  \/ installed'[p] = installed[p]
               \/ installed'[p].config.version > installed[p].config.version
    <3>1. CASE p # n
      BY <2>2, <3>1 DEF InstallStep, InstallUpdate, IndInv, TypeOK
    <3>2. CASE p = n
      <4>1. installed'[n] = SetRobotsConfig(installed[n], Content[m], m)
        BY <2>2 DEF InstallStep, InstallUpdate, IndInv, TypeOK
      <4>2. installed[n] \in Entry /\ Content[m] \in Config
        BY StoreAssumption DEF IndInv, TypeOK
      <4>. QED
        BY <3>2, <4>1, <4>2, SetRobotsConfigEffect
    <3>. QED
      BY <3>1, <3>2
  <2>3. ASSUME NEW n \in Node, NEW to \in {file[n], DefaultEntry}, StopProcess(n, to)
        PROVE  installed'[p] = installed[p]
    BY <2>3 DEF StopProcess, Alive, IndInv, TypeOK
  <2>4. CASE QuietStep
    BY <2>4 DEF QuietStep
  <2>. QED
    BY <2>1, <2>2, <2>3, <2>4, StepKinds
<1>. QED
  BY <1>1, Invariance, PTL DEF Spec, InstallsOnlyNewer

\* What is on disk is never replaced by something older.
THEOREM DurableNeverRegressesHolds == Spec => DurableNeverRegresses
<1>1. IndInv /\ [Next]_vars =>
        [\A n \in Node : IsPresent(file[n]) /\ IsPresent(file[n])' =>
           file'[n].config.version >= file[n].config.version]_vars
  <2>. SUFFICES ASSUME IndInv, [Next]_vars, NEW p \in Node,
                       IsPresent(file[p]), IsPresent(file[p])'
                PROVE  file'[p].config.version >= file[p].config.version
    OBVIOUS
  <2>1. /\ file[p].config.version \in Nat
        /\ AgentOK(p)
    BY DEF IndInv, TypeOK, Entry, Config
  <2>2. ASSUME NEW n \in Node, Start(n)
        PROVE  file'[p] = file[p]
    BY <2>2 DEF Start, netVars
  <2>3. ASSUME NEW n \in Node, NEW m \in Message, NEW to \in Entry, InstallStep(n, m, to)
        PROVE  file'[p].config.version >= file[p].config.version
    <3>1. CASE p # n
      BY <2>1, <2>3, <3>1 DEF InstallStep, InstallUpdate, IndInv, TypeOK
    <3>2. CASE p = n
      <4>. DEFINE set == SetRobotsConfig(installed[n], Content[m], m)
      <4>1. file'[n] \in {set, file[n], DefaultEntry}
        BY <2>3 DEF InstallStep, InstallUpdate, IndInv, TypeOK
      <4>2. /\ installed[n] \in Entry /\ installed[n].config.version \in Nat
            /\ Content[m] \in Config /\ Content[m].version \in Nat
        BY StoreAssumption DEF IndInv, TypeOK, Entry, Config
      <4>3. set.config.version \in Nat
            /\ set.config.version >= installed[n].config.version
        BY <4>2, SetRobotsConfigEffect
      <4>4. installed[n].config.version >= file[n].config.version
        BY <2>1, <2>3, <3>2, <4>2 DEF InstallStep, AgentOK, Alive
      <4>5. file'[n] # DefaultEntry
        BY <3>2 DEF IsPresent, DefaultEntry
      <4>. QED
        BY <2>1, <3>2, <4>1, <4>2, <4>3, <4>4, <4>5
    <3>. QED
      BY <3>1, <3>2
  <2>4. ASSUME NEW n \in Node, NEW to \in {file[n], DefaultEntry}, StopProcess(n, to)
        PROVE  file'[p] = file[p]
    <3>1. file'[p] = IF p = n THEN to ELSE file[p]
      BY <2>4 DEF StopProcess, IndInv, TypeOK
    <3>. QED
      BY <3>1 DEF IsPresent, DefaultEntry
  <2>5. CASE QuietStep
    BY <2>1, <2>5 DEF QuietStep
  <2>. QED
    BY <2>1, <2>2, <2>3, <2>4, <2>5, StepKinds
<1>. QED
  BY <1>1, Invariance, PTL DEF Spec, DurableNeverRegresses
-----------------------------------------------------------------------------
(* The refinement. *)

\* The agents implement the registers of ConfigRegister, whichever owners
\* they are started for.
THEOREM Refinement == Spec => ImplementsRegister
<1>. DEFINE current == [n \in Node |-> installed[n].msg]
            saved == [n \in Node |-> file[n].msg]
            up == {n \in Node : Alive(n)}
            Version == [m \in Message |-> Content[m].version]
<1>1. Init => Register!Init
  BY DEF Init, Register!Init, DefaultEntry, Alive
<1>2. IndInv /\ [Next]_vars => [Register!Next]_(Register!vars)
  <2>. SUFFICES ASSUME IndInv, [Next]_vars
                PROVE  Register!Next \/ UNCHANGED Register!vars
    OBVIOUS
  <2>1. ASSUME NEW n \in Node, Start(n)
        PROVE  Register!Start(n)
    <3>1. n \notin up /\ up' = up \cup {n}
      BY <2>1 DEF Start, Alive, IndInv, TypeOK
    <3>2. UNCHANGED <<published, file>>
      BY <2>1 DEF Start, netVars
    <3>3. PICK extra \in {{}, ConfigJson[n]} :
            installed' = [installed EXCEPT ![n] = AddRobots(ReadConfig(file[n]), extra)]
      BY <2>1 DEF Start
    <3>4. AddRobots(ReadConfig(file[n]), extra).msg = file[n].msg
      <4>1. file[n] \in Entry /\ ReadConfig(file[n]) \in Entry
        <5>1. file[n] \in Entry
          BY DEF IndInv, TypeOK
        <5>2. PICK k \in Key : TRUE
          BY DEF IndInv, TypeOK
        <5>. QED
          BY <5>1, <5>2, ReadType
      <4>2. IsPresent(file[n]) =>
              file[n].config.version \in Nat /\ file[n].config.version > 0
        BY <4>1 DEF IndInv, AgentOK, Entry, Config
      <4>3. ReadConfig(file[n]).msg = file[n].msg
        BY <4>2 DEF ReadConfig, SetRobotsConfig, DefaultEntry, IsPresent
      <4>. QED
        BY <4>1, <4>3 DEF AddRobots, Entry
    <3>5. current' = [current EXCEPT ![n] = saved[n]]
      BY <3>3, <3>4 DEF IndInv, TypeOK
    <3>. QED
      BY <2>1, <3>1, <3>2, <3>5 DEF Start, Register!Start
  <2>2. ASSUME NEW n \in Node, NEW m \in Message, NEW to \in Entry, InstallStep(n, m, to)
        PROVE  Register!Install(n) \/ Register!SaveAgain(n)
    <3>1. n \in up /\ up' = up /\ UNCHANGED <<owner, published>>
      BY <2>2 DEF InstallStep, Alive
    <3>2. m \in published /\ Signer[m] = owner[n] /\ m # NoMessage
      BY <2>2, StoreAssumption DEF InstallStep
    <3>. DEFINE set == SetRobotsConfig(installed[n], Content[m], m)
    <3>4. installed' = [installed EXCEPT ![n] = set] /\ file' = [file EXCEPT ![n] = to]
      BY <2>2 DEF InstallStep, InstallUpdate
    <3>5. /\ current' = [current EXCEPT ![n] = set.msg]
          /\ saved' = [saved EXCEPT ![n] = to.msg]
      BY <3>4 DEF IndInv, TypeOK
    <3>6. to.msg \in {set.msg, saved[n], NoMessage}
      BY <2>2 DEF InstallStep, DefaultEntry
    <3>8. installed[n] \in Entry /\ Content[m] \in Config
      BY StoreAssumption DEF IndInv, TypeOK
    <3>9. CASE set = installed[n]
      <4>1. UNCHANGED current
        BY <3>5, <3>9
      <4>2. Register!Save(n, current[n])
        BY <3>5, <3>6, <3>9 DEF Register!Save
      <4>. QED
        BY <3>1, <4>1, <4>2 DEF Register!SaveAgain
    <3>10. CASE /\ set = [config |-> Content[m], msg |-> m]
                /\ Content[m].version > installed[n].config.version
      <4>1. set.msg = m
        BY <3>10
      <4>2. installed[n].config.version =
              IF current[n] = NoMessage THEN 0 ELSE Version[current[n]]
        <5>1. AgentOK(n) /\ published \cap Verified \subseteq Message
          BY StoreAssumption DEF IndInv
        <5>. QED
          BY <5>1 DEF AgentOK, Genuine, FromAnOwner, Unaltered, IsPresent
      <4>3. Register!Supersedes(m, current[n])
        BY <3>10, <4>2 DEF Register!Supersedes
      <4>4. current' = [current EXCEPT ![n] = m]
        BY <3>5, <4>1
      <4>5. Register!Save(n, m)
        BY <3>5, <3>6, <4>1 DEF Register!Save
      <4>. QED
        BY <3>1, <3>2, <4>3, <4>4, <4>5 DEF Register!Install
    <3>. QED
      BY <3>8, <3>9, <3>10, SetRobotsConfigEffect
  <2>3. ASSUME NEW n \in Node, NEW to \in {file[n], DefaultEntry}, Alive(n),
               StopProcess(n, to)
        PROVE  Register!Stop(n)
    <3>1. n \in up /\ up' = up \ {n}
      BY <2>3 DEF StopProcess, Alive, IndInv, TypeOK
    <3>2. /\ installed' = [installed EXCEPT ![n] = DefaultEntry]
          /\ file' = [file EXCEPT ![n] = to]
          /\ UNCHANGED <<owner, published>>
      BY <2>3 DEF StopProcess
    <3>3. /\ current' = [current EXCEPT ![n] = NoMessage]
          /\ saved' = [saved EXCEPT ![n] = to.msg]
      BY <3>2 DEF IndInv, TypeOK, DefaultEntry
    <3>4. to.msg \in {saved[n], NoMessage}
      BY DEF DefaultEntry
    <3>. QED
      BY <3>1, <3>2, <3>3, <3>4 DEF Register!Stop, Register!Save
  <2>4. ASSUME QuietStep
        PROVE  Register!Publish \/ UNCHANGED Register!vars
    <3>1. UNCHANGED <<current, saved>> /\ up' = up
      BY <2>4 DEF QuietStep
    <3>. QED
      BY <2>4, <3>1 DEF QuietStep, Register!Publish, Register!vars
  <2>. QED
    BY <2>1, <2>2, <2>3, <2>4, StepKinds DEF Register!Next
<1>. QED
  BY <1>1, <1>2, Invariance, PTL DEF Spec, ImplementsRegister, Register!Spec
=============================================================================
