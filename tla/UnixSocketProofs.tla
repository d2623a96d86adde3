-------------------------- MODULE UnixSocketProofs --------------------------
(***************************************************************************)
(* Proofs about UnixSocket: the types, and that the server serves at most  *)
(* one client in its life, for any clients, commands and messages.         *)
(***************************************************************************)
EXTENDS UnixSocket, SequenceLemmas

\* Before the first client nobody has subscribed or been answered; afterwards
\* the task has a client, and never comes back to accept another.
Dedicated ==
  /\ server = "accepting" =>
       /\ serving = NoConn
       /\ subscribers = [p \in PeerId |-> NoConn]
       /\ \A c \in Conn : client[c].outcome # "answered"
  /\ server # "accepting" => serving \in Conn
  /\ \A c \in Conn : client[c].outcome = "answered" => c = serving

\* The inductive invariant.
ServedInv == TypeOK /\ Dedicated /\ OnlyOneServed

\* A ring keeps to its capacity.
LEMMA SendType ==
  ASSUME NEW ring \in Seq(Message), NEW m \in Message, Len(ring) <= Cap
  PROVE  Send(ring, m, Cap) \in Seq(Message) /\ Len(Send(ring, m, Cap)) <= Cap
  <1>1. CASE Len(ring) < Cap
    BY <1>1, AppendEntries, UnixSocketAssumption DEF Send, UnixSocketAssumption
  <1>2. CASE ~(Len(ring) < Cap)
    <2>1. ring # <<>> /\ Len(ring) = Cap
      BY <1>2, UnixSocketAssumption DEF UnixSocketAssumption
    <2>2. Tail(ring) \in Seq(Message) /\ Len(Tail(ring)) = Cap - 1
      BY <2>1, HeadTail
    <2> QED  BY <1>2, <2>2, AppendEntries, UnixSocketAssumption DEF Send, UnixSocketAssumption
  <1> QED  BY <1>1, <1>2

LEMMA OutputType ==
  ASSUME NEW n \in 0 .. MaxNumber, NEW a \in Agent, NEW p \in Client
  PROVE  Output(n, a, p) \in Message
  BY DEF Output, Message, Kind, PeerId

LEMMA ServedInit == Init => ServedInv
  BY QueueAssumption, UnixSocketAssumption
     DEF Init, ServedInv, TypeOK, Dedicated, OnlyOneServed, ClientRecord, QueueAssumption,
         UnixSocketAssumption

\* A step of a client leaves the task and the messages alone, and answers nobody.
LEMMA ClientSteps ==
  ASSUME ServedInv, NEW c \in Conn,
         Connect(c) \/ Leave(c) \/ \E k \in Command : WriteCommand(c, k)
  PROVE  ServedInv'
  <1>1. client \in [Conn -> ClientRecord] /\ client[c] \in ClientRecord /\ backlog \in Seq(Conn)
    BY DEF ServedInv, TypeOK
  <1>2. /\ client' \in [Conn -> ClientRecord]
        /\ \A d \in Conn : client'[d].outcome = client[d].outcome
    <2>1. CASE Connect(c)
      BY <1>1, <2>1 DEF Connect, ClientRecord
    <2>2. CASE Leave(c)
      BY <1>1, <2>2 DEF Leave, ClientRecord
    <2>3. ASSUME NEW k \in Command, WriteCommand(c, k)
          PROVE  /\ client' \in [Conn -> ClientRecord]
                 /\ \A d \in Conn : client'[d].outcome = client[d].outcome
      BY <1>1, <2>3 DEF WriteCommand, ClientRecord
    <2> QED  BY <2>1, <2>2, <2>3
  <1>3. backlog' \in Seq(Conn)
    BY <1>1 DEF Connect, Leave, WriteCommand
  <1>4. UNCHANGED <<server, serving, queueVars>>
    BY DEF Connect, Leave, WriteCommand
  <1> QED  BY <1>2, <1>3, <1>4 DEF ServedInv, TypeOK, Dedicated, OnlyOneServed, queueVars

LEMMA ServedStep ==
  ASSUME ServedInv, [Next]_vars
  PROVE  ServedInv'
  <1> USE QueueAssumption, UnixSocketAssumption DEF QueueAssumption, UnixSocketAssumption
  <1>1. ASSUME NEW c \in Conn, Connect(c) \/ Leave(c) \/ \E k \in Command : WriteCommand(c, k)
        PROVE  ServedInv'
    BY <1>1, ClientSteps
  <1>2. ASSUME NEW a \in Agent, NEW p \in Client, MessageArrives(a, p)
        PROVE  ServedInv'
    <2>1. arrived' \in 0 .. MaxNumber
      BY <1>2 DEF MessageArrives, ServedInv, TypeOK
    <2>2. Output(arrived', a, p) \in Message
      BY <2>1, OutputType
    <2>3. to_server' \in Seq(Message) /\ Len(to_server') <= Cap
      BY <1>2, <2>2, SendType DEF MessageArrives, ServedInv, TypeOK
    <2> QED  BY <1>2, <2>1, <2>3
             DEF MessageArrives, clientVars, ServedInv, TypeOK, Dedicated, OnlyOneServed
  <1>3. ASSUME Accept
        PROVE  ServedInv'
    <2>1. serving' \in Conn /\ backlog' \in Seq(Conn)
      BY <1>3 DEF Accept, ServedInv, TypeOK
    <2> QED  BY <1>3, <2>1 DEF Accept, queueVars, ServedInv, TypeOK, Dedicated, OnlyOneServed
  <1>4. ASSUME QueueMessage
        PROVE  ServedInv'
    <2>1. /\ Head(to_server) \in Message
          /\ to_server' \in Seq(Message) /\ Len(to_server') <= Cap
      BY <1>4, HeadTail DEF QueueMessage, ServedInv, TypeOK
    <2>2. messages' \in Seq(Message) /\ LastMessage(messages') = Head(to_server)
      BY <1>4, <2>1 DEF QueueMessage, LastMessage, ServedInv, TypeOK
    <2>3. Recipient(LastMessage(messages')) \in PeerId \cup {Nobody}
      BY <2>1, <2>2 DEF Message, Recipient
    <2>4. subscribers = [p \in PeerId |-> NoConn]
      BY <1>4 DEF QueueMessage, ServedInv, Dedicated
    <2>5. Subscriber(subscribers, messages') = NoConn
      BY <2>3, <2>4 DEF Subscriber
    <2>6. delivered' = delivered
      BY <1>4, <2>5 DEF QueueMessage
    <2> QED  BY <1>4, <2>1, <2>2, <2>6
             DEF QueueMessage, clientVars, ServedInv, TypeOK, Dedicated, OnlyOneServed
  <1>5. ASSUME ReadCommand
        PROVE  ServedInv'
    <2>1. serving \in Conn
      BY <1>5 DEF ReadCommand, ServedInv, Dedicated
    <2>2. client[serving].command \in Command \cup {"none"}
      BY <2>1 DEF ServedInv, TypeOK, ClientRecord
    <2>3. server' \in {"held", "ended", "answering"}
      BY <1>5, <2>2 DEF ReadCommand, AfterCommand
    <2>4. subscribers' \in [PeerId -> Conn \cup {NoConn}]
      BY <1>5, <2>1 DEF ReadCommand, AddSubscriber, ServedInv, TypeOK
    <2> QED  BY <1>5, <2>3, <2>4
             DEF ReadCommand, clientVars, ServedInv, TypeOK, Dedicated, OnlyOneServed
  <1>6. ASSUME ReadFails \/ WriteAnswer \/ WriteFails
        PROVE  ServedInv'
    <2>1. /\ serving \in Conn /\ server' \in {"held", "ended"}
          /\ UNCHANGED <<serving, backlog, queueVars>>
      BY <1>6 DEF ReadFails, WriteAnswer, WriteFails, AfterAnswer, ServedInv, Dedicated
    <2>2. PICK o \in {"answered", "failed"} : client' = [client EXCEPT ![serving].outcome = o]
      BY <1>6 DEF ReadFails, WriteAnswer, WriteFails
    <2>3. /\ client' \in [Conn -> ClientRecord]
          /\ \A c \in Conn : client'[c].outcome = "answered" =>
               client[c].outcome = "answered" \/ c = serving
      BY <2>1, <2>2 DEF ServedInv, TypeOK, ClientRecord
    <2> QED  BY <2>1, <2>3
             DEF queueVars, ServedInv, TypeOK, Dedicated, OnlyOneServed
  <1>7. CASE UNCHANGED vars
    BY <1>7 DEF vars, ServedInv, TypeOK, Dedicated, OnlyOneServed
  <1> QED  BY <1>1, <1>2, <1>3, <1>4, <1>5, <1>6, <1>7 DEF Next

\* The inductive invariant holds.
THEOREM ServedInvariant == Spec => []ServedInv
  BY ServedInit, ServedStep, PTL DEF Spec

\* The types, and the ring that keeps to its capacity while nobody reads it,
\* for any clients and messages (unix_socket.rs, to_message in main.rs).
THEOREM TypeCorrect == Spec => []TypeOK
  <1>1. ServedInv => TypeOK
    BY DEF ServedInv
  <1> QED  BY <1>1, ServedInvariant, PTL

\* That NextAnswered fails is no matter of a small instance: the task that awaits
\* handle_stream in its accept loop answers the client of that stream and no other,
\* and broadcast_messages never reaches a subscriber, however many clients there
\* are and whatever they write (unix_socket.rs 48-90, 136-150).
THEOREM OnlyOneServedHolds == Spec => []OnlyOneServed
  <1>1. ServedInv => OnlyOneServed
    BY DEF ServedInv
  <1> QED  BY <1>1, ServedInvariant, PTL
=============================================================================
