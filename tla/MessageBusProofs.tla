-------------------------- MODULE MessageBusProofs --------------------------
(***************************************************************************)
(* Proofs about MessageBus: where the messages come from that clients get, *)
(* that no message goes the same way twice, and in which order a           *)
(* connection gets them, for any agents, clients, requests and capacities. *)
(***************************************************************************)
EXTENDS MessageBus, SequenceLemmas

-----------------------------------------------------------------------------
(* Rings. *)

\* send at one receiver: the ring keeps to its capacity, gets the message at
\* its end and loses at most what it had.
LEMMA SendRing ==
  ASSUME NEW S, NEW ring \in Seq(S), NEW m \in S, NEW cap \in Nat \ {0}, Len(ring) <= cap
  PROVE  /\ Send(ring, m, cap) \in Seq(S)
         /\ Len(Send(ring, m, cap)) <= cap
         /\ Elements(Send(ring, m, cap)) \subseteq Elements(ring) \cup {m}
  <1>1. CASE Len(ring) < cap
    BY <1>1, AppendEntries, AppendElements DEF Send
  <1>2. CASE ~(Len(ring) < cap)
    <2>1. ring # <<>> /\ Len(ring) = cap
      BY <1>2
    <2>2. Tail(ring) \in Seq(S) /\ Len(Tail(ring)) = cap - 1
      BY <2>1, HeadTail
    <2>3. Send(ring, m, cap) = Append(Tail(ring), m)
      BY <1>2 DEF Send
    <2>4. Elements(Send(ring, m, cap)) = Elements(Tail(ring)) \cup {m}
      BY <2>2, <2>3, AppendElements
    <2>5. Elements(Tail(ring)) \subseteq Elements(ring)
      BY <2>1, TailElements
    <2>6. Send(ring, m, cap) \in Seq(S) /\ Len(Send(ring, m, cap)) = cap
      BY <2>2, <2>3, AppendEntries
    <2> QED  BY <2>4, <2>5, <2>6
  <1> QED  BY <1>1, <1>2

LEMMA ChainSend ==
  ASSUME NEW S, NEW ring \in Seq(S), NEW m \in S, NEW cap \in Nat \ {0}, NEW R, Chain(ring, R),
         \A y \in Elements(ring) : <<y, m>> \in R
  PROVE  Chain(Send(ring, m, cap), R)
  <1>1. CASE Len(ring) < cap
    BY <1>1, ChainAppend DEF Send
  <1>2. CASE ~(Len(ring) < cap)
    <2>1. ring # <<>>
      BY <1>2
    <2>2. Tail(ring) \in Seq(S) /\ Chain(Tail(ring), R)
      BY <2>1, HeadTail, ChainTail
    <2>3. \A y \in Elements(Tail(ring)) : <<y, m>> \in R
      BY <2>1, TailElements
    <2>4. Send(ring, m, cap) = Append(Tail(ring), m)
      BY <1>2 DEF Send
    <2> QED  BY <2>2, <2>3, <2>4, ChainAppend
  <1> QED  BY <1>1, <1>2

\* The receivers of one of the channels, over all agents.
Rings == {f \in [Agent -> Seq(Message)] : \A a \in Agent : Len(f[a]) <= Cap}

LEMMA RingSend ==
  ASSUME NEW f \in Rings, NEW a \in Agent, NEW m \in Message, NEW g,
         g = [f EXCEPT ![a] = Send(@, m, Cap)]
  PROVE  /\ g \in Rings
         /\ \A b \in Agent : b # a => g[b] = f[b]
         /\ g[a] = Send(f[a], m, Cap)
         /\ Elements(g[a]) \subseteq Elements(f[a]) \cup {m}
  <1>1. /\ Send(f[a], m, Cap) \in Seq(Message) /\ Len(Send(f[a], m, Cap)) <= Cap
        /\ Elements(Send(f[a], m, Cap)) \subseteq Elements(f[a]) \cup {m}
    BY SendRing, BusAssumption DEF Rings, BusAssumption
  <1>2. g \in [Agent -> Seq(Message)] /\ g[a] = Send(f[a], m, Cap)
    BY <1>1 DEF Rings
  <1>3. \A b \in Agent : b # a => g[b] = f[b]
    BY DEF Rings
  <1>4. \A b \in Agent : Len(g[b]) <= Cap
    BY <1>1, <1>2, <1>3 DEF Rings
  <1> QED  BY <1>1, <1>2, <1>3, <1>4 DEF Rings

LEMMA RingTail ==
  ASSUME NEW f \in Rings, NEW a \in Agent, f[a] # <<>>, NEW g, g = [f EXCEPT ![a] = Tail(@)]
  PROVE  /\ g \in Rings
         /\ \A b \in Agent : b # a => g[b] = f[b]
         /\ g[a] = Tail(f[a])
         /\ Head(f[a]) \in Message /\ Head(f[a]) \in Elements(f[a])
         /\ Elements(g[a]) \subseteq Elements(f[a])
  <1>1. /\ Tail(f[a]) \in Seq(Message) /\ Len(Tail(f[a])) <= Cap /\ Head(f[a]) \in Message
        /\ Head(f[a]) \in Elements(f[a]) /\ Elements(Tail(f[a])) \subseteq Elements(f[a])
    <2>1. f[a] \in Seq(Message) /\ Len(f[a]) <= Cap
      BY DEF Rings
    <2> QED  BY <2>1, HeadTail, TailElements, BusAssumption DEF BusAssumption
  <1>2. g \in [Agent -> Seq(Message)] /\ g[a] = Tail(f[a])
    BY <1>1 DEF Rings
  <1>3. \A b \in Agent : b # a => g[b] = f[b]
    BY DEF Rings
  <1>4. \A b \in Agent : Len(g[b]) <= Cap
    BY <1>1, <1>2, <1>3 DEF Rings
  <1> QED  BY <1>1, <1>2, <1>3, <1>4 DEF Rings

LEMMA RingEmpty ==
  ASSUME NEW f \in Rings, NEW a \in Agent, NEW g, g = [f EXCEPT ![a] = <<>>]
  PROVE  /\ g \in Rings
         /\ \A b \in Agent : b # a => g[b] = f[b]
         /\ g[a] = <<>>
         /\ Elements(g[a]) = {}
  BY EmptyElements, BusAssumption DEF Rings, BusAssumption
-----------------------------------------------------------------------------
(* Types. *)

ChannelTypes ==
  /\ from_message \in Rings /\ to_core \in Rings /\ to_server \in Rings
  /\ messages \in [Agent -> Seq(Message)]
  /\ air \subseteq [msg : Message, to : Agent]
  /\ \A copy \in air : copy.msg.signer # Nobody

ConnectionTypes ==
  /\ up \in [Agent -> BOOLEAN]
  /\ subscribers \in [Agent -> [PeerId -> Conn \cup {NoConn}]]
  /\ conn \in [Conn -> Connection]
  /\ \A c \in Conn : Len(conn[c].queue) <= SubscriberCap

CountTypes ==
  /\ lost \in 0 .. MaxLost /\ ticks \in 0 .. MaxTicks /\ outputs \in 0 .. MaxOutput
  /\ asked \in Seq(Message) /\ Len(asked) <= MaxNumber

TInv == ChannelTypes /\ ConnectionTypes /\ CountTypes

LEMMA TInvTypes == TInv => TypeOK
  BY DEF TInv, ChannelTypes, ConnectionTypes, CountTypes, TypeOK, Rings, IsRing

\* Message::signed leaves to a message what it is, and whose.
LEMMA PublishedType ==
  ASSUME NEW a \in Agent, NEW m \in Message
  PROVE  /\ Published(a, m) \in Message /\ Published(a, m).signer # Nobody
         /\ Published(a, m).by = m.by /\ Published(a, m).kind = m.kind
         /\ Published(a, m).number = m.number /\ Published(a, m).to = m.to
  <1>1. CASE m.signer = Nobody
    <2>1. Published(a, m) = [m EXCEPT !.signer = a, !.from = a, !.envelope = m.to]
      BY <1>1 DEF Published, Signed
    <2>2. Published(a, m) \in Message
      BY <2>1 DEF Message, PeerId
    <2>3. /\ Published(a, m).signer = a /\ Published(a, m).by = m.by
          /\ Published(a, m).kind = m.kind /\ Published(a, m).number = m.number
          /\ Published(a, m).to = m.to
      BY <2>1 DEF Message
    <2>4. a # Nobody
      BY QueueAssumption DEF QueueAssumption, PeerId
    <2> QED  BY <2>2, <2>3, <2>4
  <1>2. CASE m.signer # Nobody
    BY <1>2 DEF Published
  <1> QED  BY <1>1, <1>2

\* LibP2pSends, in terms of what it publishes.
LEMMA PublishStep ==
  ASSUME TInv, NEW a \in Agent, LibP2pSends(a), NEW h, h = Head(from_message[a])
  PROVE  /\ from_message[a] # <<>> /\ h \in Message
         /\ from_message' = [from_message EXCEPT ![a] = Tail(@)]
         /\ air' = air \cup Copies(a, Published(a, h))
         /\ \/ UNCHANGED <<to_core, to_server>>
            \/ h.signer # Nobody /\ Forward(a, Published(a, h))
         /\ UNCHANGED <<up, messages, subscribers, conn, lost, ticks, outputs, asked>>
  <1>1. from_message[a] # <<>> /\ from_message' = [from_message EXCEPT ![a] = Tail(@)]
    BY DEF LibP2pSends
  <1>2. h \in Message
    BY <1>1, RingTail DEF TInv, ChannelTypes
  <1>3. \/ h.signer = Nobody /\ Published(a, h) = Signed(a, h)
        \/ h.signer # Nobody /\ Published(a, h) = h
    BY DEF Published
  <1> QED  BY <1>1, <1>2, <1>3 DEF LibP2pSends, ProcessSignedMessage, countVars

\* Forwarding appends to the receivers of to_message.
LEMMA ProcessStep ==
  ASSUME TInv, NEW a \in Agent, NEW m \in Message, Forward(a, m)
  PROVE  /\ to_core' \in Rings /\ to_server' \in Rings
         /\ to_core' = [to_core EXCEPT ![a] = Send(@, m, Cap)]
         /\ to_server' = to_server \/ to_server' = [to_server EXCEPT ![a] = Send(@, m, Cap)]
  <1>1. to_core' = [to_core EXCEPT ![a] = Send(@, m, Cap)]
    BY DEF Forward
  <1>2. to_server' = to_server \/ to_server' = [to_server EXCEPT ![a] = Send(@, m, Cap)]
    BY DEF Forward
  <1>3. to_core' \in Rings
    BY <1>1, RingSend DEF TInv, ChannelTypes
  <1>4. to_server' \in Rings
    BY <1>2, RingSend DEF TInv, ChannelTypes
  <1> QED  BY <1>1, <1>2, <1>3, <1>4

\* ServerReceives, in terms of the message that is moved.
LEMMA StoreStep ==
  ASSUME TInv, NEW a \in Agent, ServerReceives(a), NEW m, m = Head(to_server[a])
  PROVE  /\ to_server[a] # <<>> /\ m \in Message
         /\ to_server' = [to_server EXCEPT ![a] = Tail(@)]
         /\ messages' = [messages EXCEPT ![a] = Append(@, m)]
         /\ \/ conn' = conn
            \/ \E c \in Conn : /\ Recipient(m) \in PeerId /\ subscribers[a][Recipient(m)] = c
                               /\ IsOpen(c)
                               /\ conn' = [conn EXCEPT ![c].queue = Send(@, m, SubscriberCap)]
         /\ UNCHANGED <<up, from_message, to_core, subscribers, air, countVars>>
  <1>1. to_server[a] # <<>> /\ m \in Message
    BY RingTail DEF ServerReceives, TInv, ChannelTypes
  <1>2. messages' = [messages EXCEPT ![a] = Append(@, m)]
    BY DEF ServerReceives
  <1>3. LastMessage(messages'[a]) = m
    <2>1. messages[a] \in Seq(Message) /\ messages'[a] = Append(messages[a], m)
      BY <1>2 DEF TInv, ChannelTypes
    <2> QED  BY <1>1, <2>1, AppendEntries DEF LastMessage
  <1>4. Subscriber(subscribers[a], messages'[a]) =
          IF Recipient(m) = Nobody THEN NoConn ELSE subscribers[a][Recipient(m)]
    BY <1>3 DEF Subscriber
  <1>5. Recipient(m) \in PeerId \cup {Nobody}
    BY <1>1 DEF Message, Recipient
  <1>6. ASSUME conn' # conn
        PROVE  \E c \in Conn : /\ Recipient(m) \in PeerId /\ subscribers[a][Recipient(m)] = c
                               /\ IsOpen(c)
                               /\ conn' = [conn EXCEPT ![c].queue = Send(@, m, SubscriberCap)]
    <2> DEFINE c == Subscriber(subscribers[a], messages'[a])
    <2>1. /\ c # NoConn /\ IsOpen(c)
          /\ conn' = [conn EXCEPT ![c].queue = Send(@, m, SubscriberCap)]
      BY <1>3, <1>6 DEF ServerReceives
    <2>2. Recipient(m) \in PeerId /\ subscribers[a][Recipient(m)] = c
      BY <1>4, <1>5, <2>1
    <2>3. c \in Conn
      BY <2>1, <2>2 DEF TInv, ConnectionTypes
    <2> QED  BY <2>1, <2>2, <2>3
  <1> QED  BY <1>1, <1>2, <1>6 DEF ServerReceives

\* A connection of which fields are replaced.
LEMMA ConnectionUpdate ==
  ASSUME ConnectionTypes, NEW c \in Conn, NEW r \in Connection, Len(r.queue) <= SubscriberCap,
         conn' = [conn EXCEPT ![c] = r], UNCHANGED <<up, subscribers>>
  PROVE  ConnectionTypes'
  <1>1. conn' \in [Conn -> Connection]
    BY DEF ConnectionTypes
  <1>2. \A d \in Conn : Len(conn'[d].queue) <= SubscriberCap
    BY DEF ConnectionTypes
  <1> QED  BY <1>1, <1>2 DEF ConnectionTypes

LEMMA ClosedType ==
  ASSUME NEW r \in Connection
  PROVE  /\ [r EXCEPT !.state = "closed", !.queue = <<>>] \in Connection
         /\ Len([r EXCEPT !.state = "closed", !.queue = <<>>].queue) <= SubscriberCap
  <1>1. <<>> \in Seq(Message) /\ Len(<<>>) = 0
    OBVIOUS
  <1>2. [r EXCEPT !.state = "closed", !.queue = <<>>] \in Connection
    BY <1>1 DEF Connection
  <1>3. [r EXCEPT !.state = "closed", !.queue = <<>>].queue = <<>>
    BY DEF Connection
  <1> QED  BY <1>1, <1>2, <1>3, BusAssumption DEF BusAssumption

\* What the tasks of an agent compose, and what its clients send.
LEMMA NewTypes ==
  /\ \A n \in 0 .. MaxNumber, k \in Kind, p \in PeerId \cup {Nobody} :
       NewMessage(k, n, p) \in Message
  /\ {"request", "sealed", "response", "handshake", "output"} \subseteq Kind
  BY DEF NewMessage, Message, Kind

LEMMA SentTypes ==
  ASSUME NEW c \in Conn, NEW t \in Sending[c], NEW n \in 0 .. MaxNumber
  PROVE  [t EXCEPT !.number = n] \in Message /\ t.by = "client"
  <1>1. t \in Message /\ t.by = "client"
    BY BusAssumption DEF BusAssumption
  <1> QED  BY <1>1 DEF Message

LEMMA Bounds ==
  /\ MaxNumber \in Nat /\ MaxOutput \in 0 .. MaxNumber /\ MaxTicks \in 0 .. MaxNumber
  /\ MaxLost \in Nat /\ Cap \in Nat \ {0} /\ SubscriberCap \in Nat \ {0}
  /\ Agent \cap Client = {} /\ Nobody \notin PeerId /\ NoConn \notin Conn
  BY QueueAssumption, BusAssumption DEF QueueAssumption, BusAssumption

LEMMA TypeInit == Init => TInv
  <1> SUFFICES ASSUME Init
               PROVE  TInv
    OBVIOUS
  <1>1. [a \in Agent |-> <<>>] \in Rings
    BY BusAssumption DEF Rings, BusAssumption
  <1>2. ChannelTypes
    BY <1>1 DEF Init, ChannelTypes, Rings
  <1>3. ConnectionTypes
    BY BusAssumption DEF Init, ConnectionTypes, Connection, BusAssumption
  <1>4. CountTypes
    BY BusAssumption, QueueAssumption DEF Init, CountTypes, BusAssumption, QueueAssumption
  <1> QED  BY <1>2, <1>3, <1>4 DEF TInv

\* An open connection has an agent that runs, and nobody subscribes at an
\* agent or for an id that is not the connection's.
Subscribed ==
  /\ \A c \in Conn : conn[c].state = "new" <=> conn[c].agent = Nobody
  /\ \A c \in Conn : IsOpen(c) => conn[c].agent \in Agent /\ up[conn[c].agent]
  /\ \A a \in Agent, p \in PeerId :
       subscribers[a][p] # NoConn =>
         p \in Ids[subscribers[a][p]] /\ conn[subscribers[a][p]].agent = a

\* Every step preserves the types.
LEMMA TypeStep ==
  ASSUME TInv, Subscribed, [Next]_vars
  PROVE  TInv'
  <1> USE Bounds
  <1>1. ASSUME NEW c \in Conn, NEW a \in Agent, Connect(c, a)
        PROVE  TInv'
    <2>1. conn[c] \in Connection /\ conn \in [Conn -> Connection]
      BY DEF TInv, ConnectionTypes
    <2>2. ConnectionTypes'
      BY <1>1, <2>1 DEF TInv, ConnectionTypes, Connect, agentVars, Connection
    <2> QED  BY <1>1, <2>2 DEF TInv, ChannelTypes, CountTypes, Connect, agentVars, countVars
  <1>2. ASSUME NEW c \in Conn, NEW p \in PeerId, Subscribe(c, p)
        PROVE  TInv'
    <2>1. subscribers' \in [Agent -> [PeerId -> Conn \cup {NoConn}]]
      BY <1>2 DEF TInv, ConnectionTypes, Subscribe, AddSubscriber
    <2>2. ConnectionTypes'
      BY <1>2, <2>1 DEF TInv, ConnectionTypes, Subscribe
    <2> QED  BY <1>2, <2>2 DEF TInv, ChannelTypes, CountTypes, Subscribe, countVars
  <1>3. ASSUME NEW c \in Conn, NEW t \in Sending[c], ClientSends(c, t)
        PROVE  TInv'
    <2> DEFINE n == Len(asked) + 1
               m == [t EXCEPT !.number = n]
    <2>1. n \in 0 .. MaxNumber /\ Len(asked) \in Nat
      BY <1>3 DEF ClientSends, TInv, CountTypes
    <2>2. m \in Message
      BY <2>1, SentTypes
    <2>3. IsOpen(c) /\ conn[c].agent \in Agent
      BY <1>3 DEF ClientSends, Subscribed
    <2>4. PICK a \in Agent : a = conn[c].agent
      BY <2>3
    <2>5. /\ from_message' = [from_message EXCEPT ![a] = Send(@, m, Cap)]
          /\ asked' = Append(asked, Published(a, m))
      BY <1>3, <2>4 DEF ClientSends
    <2> HIDE DEF m
    <2>6. from_message' \in Rings
      BY <2>2, <2>5, RingSend DEF TInv, ChannelTypes
    <2>7. asked' \in Seq(Message) /\ Len(asked') <= MaxNumber
      <3>1. Published(a, m) \in Message
        BY <2>2, PublishedType
      <3> QED  BY <2>1, <2>5, <3>1 DEF TInv, CountTypes
    <2>8. ChannelTypes'
      BY <1>3, <2>6 DEF ClientSends, TInv, ChannelTypes
    <2> QED  BY <1>3, <2>7, <2>8 DEF ClientSends, TInv, ConnectionTypes, CountTypes
  <1>4. ASSUME NEW c \in Conn, Disconnect(c)
        PROVE  TInv'
    <2>1. conn[c] \in Connection /\ conn \in [Conn -> Connection]
      BY DEF TInv, ConnectionTypes
    <2> DEFINE r == [conn[c] EXCEPT !.state = "closed", !.queue = <<>>]
    <2>2. r \in Connection /\ Len(r.queue) <= SubscriberCap
      BY <2>1, ClosedType
    <2>3. conn' = [conn EXCEPT ![c] = r] /\ UNCHANGED <<up, subscribers>>
      BY <1>4, <2>1 DEF Disconnect, agentVars
    <2> HIDE DEF r
    <2>4. ConnectionTypes'
      BY <2>2, <2>3, ConnectionUpdate DEF TInv
    <2> QED  BY <1>4, <2>4 DEF TInv, ChannelTypes, CountTypes, Disconnect, agentVars, countVars
  <1>5. ASSUME NEW c \in Conn, ConnectionSends(c)
        PROVE  TInv'
    <2>1. conn[c] \in Connection /\ conn \in [Conn -> Connection]
      BY DEF TInv, ConnectionTypes
    <2>2. conn[c].queue \in Seq(Message) /\ conn[c].got \in Seq(Message) /\ conn[c].queue # <<>>
      BY <1>5, <2>1 DEF Connection, ConnectionSends
    <2>3. /\ Tail(conn[c].queue) \in Seq(Message) /\ Len(Tail(conn[c].queue)) <= SubscriberCap
          /\ Append(conn[c].got, Head(conn[c].queue)) \in Seq(Message)
      BY <2>2, HeadTail DEF TInv, ConnectionTypes
    <2> DEFINE r == [conn[c] EXCEPT !.queue = Tail(conn[c].queue),
                                    !.got = Append(conn[c].got, Head(conn[c].queue))]
    <2>4. r \in Connection /\ Len(r.queue) <= SubscriberCap
      BY <2>1, <2>3 DEF Connection
    <2>5. conn' = [conn EXCEPT ![c] = r] /\ UNCHANGED <<up, subscribers>>
      BY <1>5, <2>1 DEF ConnectionSends, agentVars
    <2> HIDE DEF r
    <2>6. ConnectionTypes'
      BY <2>4, <2>5, ConnectionUpdate DEF TInv
    <2> QED  BY <1>5, <2>6 DEF TInv, ChannelTypes, CountTypes, ConnectionSends, agentVars, countVars
  <1>6. ASSUME NEW a \in Agent, ServerReceives(a)
        PROVE  TInv'
    <2>0. PICK m : m = Head(to_server[a])
      OBVIOUS
    <2>1. /\ to_server[a] # <<>> /\ m \in Message
          /\ to_server' = [to_server EXCEPT ![a] = Tail(@)]
          /\ messages' = [messages EXCEPT ![a] = Append(@, m)]
          /\ \/ conn' = conn
             \/ \E c \in Conn : conn' = [conn EXCEPT ![c].queue = Send(@, m, SubscriberCap)]
          /\ UNCHANGED <<up, from_message, to_core, subscribers, air, countVars>>
      BY <1>6, <2>0, StoreStep
    <2>2. to_server' \in Rings /\ messages' \in [Agent -> Seq(Message)]
      <3>1. to_server' \in Rings
        BY <2>1, RingTail DEF TInv, ChannelTypes
      <3>2. messages' \in [Agent -> Seq(Message)]
        BY <2>1 DEF TInv, ChannelTypes
      <3> QED  BY <3>1, <3>2
    <2>3. ConnectionTypes'
      <3>1. CASE conn' = conn
        BY <2>1, <3>1 DEF TInv, ConnectionTypes
      <3>2. ASSUME NEW c \in Conn, conn' = [conn EXCEPT ![c].queue = Send(@, m, SubscriberCap)]
            PROVE  ConnectionTypes'
        <4> DEFINE q == Send(conn[c].queue, m, SubscriberCap)
        <4>1. conn[c].queue \in Seq(Message)
          BY DEF TInv, ConnectionTypes, Connection
        <4>2. q \in Seq(Message) /\ Len(q) <= SubscriberCap
          BY <2>1, <4>1, SendRing DEF TInv, ConnectionTypes
        <4> HIDE DEF q
        <4> DEFINE r == [conn[c] EXCEPT !.queue = q]
        <4>3. conn \in [Conn -> Connection] /\ conn[c] \in Connection
          BY DEF TInv, ConnectionTypes
        <4>4. r \in Connection /\ Len(r.queue) <= SubscriberCap
          BY <4>2, <4>3 DEF Connection
        <4>5. conn' = [conn EXCEPT ![c] = r]
          BY <3>2, <4>3 DEF q, Connection
        <4> HIDE DEF r
        <4> QED  BY <2>1, <4>4, <4>5, ConnectionUpdate DEF TInv
      <3> QED  BY <2>1, <3>1, <3>2
    <2> QED  BY <2>1, <2>2, <2>3 DEF TInv, ChannelTypes, CountTypes, countVars
  <1>7. ASSUME NEW a \in Agent, LibP2pSends(a)
        PROVE  TInv'
    <2> DEFINE h == Head(from_message[a])
               m == Published(a, h)
    <2>1. /\ from_message[a] # <<>> /\ h \in Message
          /\ from_message' = [from_message EXCEPT ![a] = Tail(@)]
          /\ air' = air \cup Copies(a, m)
          /\ UNCHANGED <<to_core, to_server>> \/ Forward(a, m)
          /\ UNCHANGED <<up, messages, subscribers, conn, lost, ticks, outputs, asked>>
      BY <1>7, PublishStep
    <2>2. m \in Message /\ m.signer # Nobody
      BY <2>1, PublishedType
    <2> HIDE DEF h, m
    <2>3. from_message' \in Rings
      BY <2>1, RingTail DEF TInv, ChannelTypes
    <2>4. to_core' \in Rings /\ to_server' \in Rings
      BY <2>1, <2>2, ProcessStep DEF TInv, ChannelTypes
    <2>5. /\ air' \subseteq [msg : Message, to : Agent]
          /\ \A copy \in air' : copy.msg.signer # Nobody
      BY <2>1, <2>2 DEF TInv, ChannelTypes, Copies
    <2> QED  BY <2>1, <2>3, <2>4, <2>5 DEF TInv, ChannelTypes, ConnectionTypes, CountTypes
  <1>8. ASSUME NEW copy \in air, LibP2pReceives(copy)
        PROVE  TInv'
    <2>1. copy.to \in Agent /\ copy.msg \in Message
      BY DEF TInv, ChannelTypes
    <2>2. UNCHANGED <<to_core, to_server>> \/ Forward(copy.to, copy.msg)
      BY <1>8 DEF LibP2pReceives, ProcessSignedMessage
    <2>3. to_core' \in Rings /\ to_server' \in Rings
      BY <2>1, <2>2, ProcessStep DEF TInv, ChannelTypes
    <2> QED  BY <1>8, <2>3 DEF LibP2pReceives, TInv, ChannelTypes, ConnectionTypes, CountTypes, countVars
  <1>9. ASSUME NEW copy \in air, Lose(copy)
        PROVE  TInv'
    BY <1>9 DEF Lose, TInv, ChannelTypes, ConnectionTypes, CountTypes, agentVars
  <1>10. ASSUME NEW a \in Agent, CoreReceives(a)
         PROVE  TInv'
    <2> DEFINE h == Head(to_core[a])
    <2>1. h \in Message /\ to_core' \in Rings
      BY <1>10, RingTail DEF CoreReceives, TInv, ChannelTypes
    <2>2. Response(h) \in Message
      BY <2>1, NewTypes DEF Response, Message
    <2>3. \/ from_message' = from_message
          \/ from_message' = [from_message EXCEPT ![a] = Send(@, Response(h), Cap)]
      BY <1>10 DEF CoreReceives
    <2> HIDE DEF h
    <2>4. from_message' \in Rings
      BY <2>2, <2>3, RingSend DEF TInv, ChannelTypes
    <2> QED  BY <1>10, <2>1, <2>4
             DEF CoreReceives, TInv, ChannelTypes, ConnectionTypes, CountTypes, countVars
  <1>11. ASSUME NEW a \in Agent, CoreFails(a)
         PROVE  TInv'
    <2>1. from_message' \in Rings /\ to_core' \in Rings /\ to_server' \in Rings
      BY <1>11, RingEmpty DEF CoreFails, TInv, ChannelTypes
    <2>2. messages' \in [Agent -> Seq(Message)]
      <3>1. <<>> \in Seq(Message)
        OBVIOUS
      <3> QED  BY <1>11, <3>1 DEF CoreFails, TInv, ChannelTypes
    <2>3. ConnectionTypes'
      <3>1. ASSUME NEW c \in Conn
            PROVE  conn'[c] \in Connection /\ Len(conn'[c].queue) <= SubscriberCap
        <4>1. conn[c] \in Connection
          BY DEF TInv, ConnectionTypes
        <4>2. conn'[c] = IF conn[c].agent = a
                         THEN [conn[c] EXCEPT !.state = "closed", !.queue = <<>>] ELSE conn[c]
          BY <1>11 DEF CoreFails
        <4> QED  BY <4>1, <4>2, ClosedType DEF TInv, ConnectionTypes
      <3>2. conn' \in [Conn -> Connection]
        BY <1>11, <3>1 DEF CoreFails
      <3>3. up' \in [Agent -> BOOLEAN] /\ subscribers' \in [Agent -> [PeerId -> Conn \cup {NoConn}]]
        BY <1>11 DEF CoreFails, TInv, ConnectionTypes
      <3> QED  BY <3>1, <3>2, <3>3 DEF ConnectionTypes
    <2> QED  BY <1>11, <2>1, <2>2, <2>3 DEF CoreFails, TInv, ChannelTypes, CountTypes, countVars
  <1>12. ASSUME NEW a \in Agent, HandshakeTick(a)
         PROVE  TInv'
    <2>1. ticks' \in 0 .. MaxTicks
      BY <1>12 DEF HandshakeTick, TInv, CountTypes
    <2>2. NewMessage("handshake", ticks', Nobody) \in Message
      BY <2>1, NewTypes DEF PeerId
    <2>3. PICK m \in Message : m = NewMessage("handshake", ticks', Nobody)
      BY <2>2
    <2>4. from_message' \in Rings
      <3>1. from_message' = [from_message EXCEPT ![a] = Send(@, m, Cap)]
        BY <1>12, <2>3 DEF HandshakeTick
      <3> QED  BY <3>1, RingSend DEF TInv, ChannelTypes
    <2> QED  BY <1>12, <2>1, <2>4 DEF HandshakeTick, TInv, ChannelTypes, ConnectionTypes, CountTypes
  <1>13. ASSUME NEW a \in Agent, NEW p \in Client, MessangerSends(a, p)
         PROVE  TInv'
    <2>1. outputs' \in 0 .. MaxOutput
      BY <1>13 DEF MessangerSends, TInv, CountTypes
    <2>2. NewMessage("output", outputs', p) \in Message
      BY <2>1, NewTypes DEF PeerId
    <2>3. PICK m \in Message : m = NewMessage("output", outputs', p)
      BY <2>2
    <2>4. from_message' \in Rings
      <3>1. from_message' = [from_message EXCEPT ![a] = Send(@, m, Cap)]
        BY <1>13, <2>3 DEF MessangerSends
      <3> QED  BY <3>1, RingSend DEF TInv, ChannelTypes
    <2> QED  BY <1>13, <2>1, <2>4 DEF MessangerSends, TInv, ChannelTypes, ConnectionTypes, CountTypes
  <1>14. CASE UNCHANGED vars
    BY <1>14 DEF vars, TInv, ChannelTypes, ConnectionTypes, CountTypes
  <1> QED  BY <1>1, <1>2, <1>3, <1>4, <1>5, <1>6, <1>7, <1>8, <1>9, <1>10, <1>11, <1>12, <1>13,
              <1>14 DEF Next, LibP2pTask, CoreTask, ClientAt
-----------------------------------------------------------------------------
(* The origin of messages. *)

\* The request of this number names these as origin and receiver, and is signed
\* by a key that is authorised.
AskedFor(n, from, to) ==
  /\ n \in 1 .. Len(asked) /\ asked[n].kind = "request" /\ asked[n].signer \in Authorized
  /\ asked[n].from = from /\ asked[n].to = to

\* A published message is what a client has sent under this number, or an agent
\* has made it: a response for who is named as the origin of a request to this
\* agent, a handshake or a piece of output with a number that was given out.
Genuine(m) ==
  /\ m.signer # Nobody
  /\ m.by = "client" => m.number \in 1 .. Len(asked) /\ asked[m.number] = m
  /\ m.by = "agent" =>
       /\ m.kind \in {"response", "handshake", "output"}
       /\ m.kind = "response" => AskedFor(m.number, m.to, m.signer)
       /\ m.kind = "handshake" => m.number <= ticks
       /\ m.kind = "output" => m.number <= outputs

Origin ==
  /\ \A a \in Agent : \A m \in Elements(from_message[a]) : Genuine(Published(a, m))
  /\ \A a \in Agent : \A m \in Elements(to_core[a]) : Genuine(m)
  /\ \A a \in Agent : \A m \in Elements(to_server[a]) : Genuine(m)
  /\ \A a \in Agent : \A m \in Elements(messages[a]) : Genuine(m)
  /\ \A copy \in air : Genuine(copy.msg)

\* Numbers are given out, never taken back.
Counting ==
  /\ ticks' >= ticks /\ outputs' >= outputs /\ Len(asked') >= Len(asked)
  /\ \A n \in 1 .. Len(asked) : asked'[n] = asked[n]

LEMMA GenuineStays ==
  ASSUME TInv, TInv', Counting, NEW m \in Message, Genuine(m)
  PROVE  Genuine(m)'
  <1>1. /\ ticks \in Nat /\ outputs \in Nat /\ ticks' \in Nat /\ outputs' \in Nat
        /\ Len(asked) \in Nat /\ Len(asked') \in Nat /\ m.number \in Nat
    BY QueueAssumption, BusAssumption
       DEF TInv, CountTypes, Message, QueueAssumption, BusAssumption
  <1>2. ASSUME NEW p, NEW q, AskedFor(m.number, p, q)
        PROVE  AskedFor(m.number, p, q)'
    BY <1>1, <1>2 DEF AskedFor, Counting
  <1> QED  BY <1>1, <1>2 DEF Genuine, Counting

LEMMA SameCount ==
  ASSUME TInv, UNCHANGED <<ticks, outputs, asked>>
  PROVE  Counting
  BY QueueAssumption, BusAssumption
     DEF TInv, CountTypes, Counting, QueueAssumption, BusAssumption

\* What steps do to the channels.  Receivers may only lose messages ...
Sent(f, a, m) == [f EXCEPT ![a] = Send(@, m, Cap)]

Taken(f, a) == [f EXCEPT ![a] = Tail(@)]

Fewer(f, g) ==
  \A a \in Agent : g[a] = f[a] \/ g[a] = <<>> \/ (f[a] # <<>> /\ g[a] = Tail(f[a]))

Less ==
  /\ Fewer(from_message, from_message') /\ Fewer(to_core, to_core')
  /\ Fewer(to_server, to_server') /\ Fewer(messages, messages')
  /\ air' \subseteq air
  /\ UNCHANGED <<ticks, outputs, asked>>

\* ... or the agent a has a message that was not there before ...
NewNumber(m) ==
  /\ m.by = "client" => m.number > Len(asked)
  /\ m.by = "agent" =>
       /\ m.kind \in {"handshake", "output"}
       /\ m.kind = "handshake" => m.number > ticks
       /\ m.kind = "output" => m.number > outputs

New(a, m) ==
  /\ NewNumber(m) /\ Genuine(Published(a, m))'
  /\ from_message' = Sent(from_message, a, m)
  /\ Counting
  /\ UNCHANGED <<to_core, to_server, messages, air>>

\* ... or it answers a request, ...
Answers(a, h) ==
  /\ to_core[a] # <<>> /\ h = Head(to_core[a])
  /\ h.kind = "request" /\ ShouldProcess(a, h)
  /\ to_core' = Taken(to_core, a)
  /\ from_message' = Sent(from_message, a, Response(h))
  /\ UNCHANGED <<to_server, messages, air, ticks, outputs, asked>>

\* ... publishes ...
Publishes(a, h) ==
  /\ from_message[a] # <<>> /\ h = Head(from_message[a])
  /\ from_message' = Taken(from_message, a)
  /\ air' = air \cup Copies(a, Published(a, h))
  /\ \/ UNCHANGED <<to_core, to_server>>
     \/ h.signer # Nobody /\ Forward(a, Published(a, h))
  /\ UNCHANGED <<messages, ticks, outputs, asked>>

\* ... or receives one, or its server takes one over.
Arrives(copy) ==
  /\ copy \in air /\ air' = air \ {copy}
  /\ Forward(copy.to, copy.msg)
  /\ UNCHANGED <<from_message, messages, ticks, outputs, asked>>

Stores(a, h) ==
  /\ to_server[a] # <<>> /\ h = Head(to_server[a])
  /\ to_server' = Taken(to_server, a)
  /\ messages' = [messages EXCEPT ![a] = Append(@, h)]
  /\ UNCHANGED <<from_message, to_core, air, ticks, outputs, asked>>

LEMMA FewerTypes ==
  /\ \A f \in [Agent -> Seq(Message)] : Fewer(f, f)
  /\ \A f \in [Agent -> Seq(Message)], a \in Agent :
       Fewer(f, [f EXCEPT ![a] = <<>>]) /\ (f[a] # <<>> => Fewer(f, Taken(f, a)))
  BY DEF Fewer, Taken

LEMMA ChannelSteps ==
  ASSUME TInv, TInv', Subscribed, [Next]_vars
  PROVE  \/ Less
         \/ \E a \in Agent, m \in Message : New(a, m)
         \/ \E a \in Agent, h \in Message : Answers(a, h) \/ Publishes(a, h) \/ Stores(a, h)
         \/ \E copy \in air : Arrives(copy)
  <1> USE Bounds
  <1>1. /\ from_message \in [Agent -> Seq(Message)] /\ to_core \in [Agent -> Seq(Message)]
        /\ to_server \in [Agent -> Seq(Message)] /\ messages \in [Agent -> Seq(Message)]
    BY DEF TInv, ChannelTypes, Rings
  <1>2. /\ Fewer(from_message, from_message) /\ Fewer(to_core, to_core)
        /\ Fewer(to_server, to_server) /\ Fewer(messages, messages)
    BY <1>1, FewerTypes
  <1>3. ASSUME UNCHANGED <<from_message, to_core, to_server, messages, ticks, outputs, asked>>,
               air' \subseteq air
        PROVE  Less
    BY <1>2, <1>3 DEF Less
  <1>4. ASSUME NEW c \in Conn, NEW a \in Agent, Connect(c, a)
        PROVE  Less
    BY <1>3, <1>4 DEF Connect, agentVars, countVars
  <1>5. ASSUME NEW c \in Conn, NEW p \in PeerId, Subscribe(c, p)
        PROVE  Less
    BY <1>3, <1>5 DEF Subscribe, countVars
  <1>6. ASSUME NEW c \in Conn, NEW t \in Sending[c], ClientSends(c, t)
        PROVE  \E a \in Agent, m \in Message : New(a, m)
    <2>1. conn[c].agent \in Agent
      BY <1>6 DEF ClientSends, Subscribed
    <2>2. PICK a \in Agent : a = conn[c].agent
      BY <2>1
    <2>3. Len(asked) + 1 \in 0 .. MaxNumber /\ Len(asked) \in Nat
      BY <1>6 DEF ClientSends, TInv, CountTypes
    <2>4. PICK n \in 0 .. MaxNumber : n = Len(asked) + 1
      BY <2>3
    <2>5. [t EXCEPT !.number = n] \in Message /\ t.by = "client" /\ t \in Message
      BY BusAssumption, SentTypes DEF BusAssumption
    <2>6. PICK m \in Message : m = [t EXCEPT !.number = n]
      BY <2>5
    <2>7. m.by = "client" /\ m.number = n
      BY <2>5, <2>6 DEF Message
    <2>8. PICK s \in Message : s = Published(a, m)
      BY PublishedType
    <2>9. /\ from_message' = Sent(from_message, a, m)
          /\ asked' = Append(asked, s)
      BY <1>6, <2>2, <2>4, <2>6, <2>8 DEF ClientSends, Sent
    <2>10. /\ Len(asked') = n /\ asked'[n] = s
           /\ \A k \in 1 .. Len(asked) : asked'[k] = asked[k]
      BY <2>4, <2>9, AppendEntries DEF TInv, CountTypes
    <2>11. Counting
      BY <1>6, <2>3, <2>4, <2>10 DEF ClientSends, Counting, TInv, CountTypes
    <2>12. s.by = "client" /\ s.number = n /\ s.signer # Nobody
      BY <2>7, <2>8, PublishedType
    <2>13. Genuine(s)'
      BY <2>3, <2>4, <2>10, <2>12 DEF Genuine
    <2>14. NewNumber(m)
      BY <2>3, <2>4, <2>7 DEF NewNumber
    <2>15. UNCHANGED <<to_core, to_server, messages, air>>
      BY <1>6 DEF ClientSends
    <2> QED  BY <2>8, <2>9, <2>11, <2>13, <2>14, <2>15 DEF New
  <1>7. ASSUME NEW c \in Conn, Disconnect(c)
        PROVE  Less
    BY <1>3, <1>7 DEF Disconnect, agentVars, countVars
  <1>8. ASSUME NEW c \in Conn, ConnectionSends(c)
        PROVE  Less
    BY <1>3, <1>8 DEF ConnectionSends, agentVars, countVars
  <1>9. ASSUME NEW a \in Agent, ServerReceives(a)
        PROVE  \E h \in Message : Stores(a, h)
    BY <1>9, StoreStep DEF Stores, Taken, countVars
  <1>10. ASSUME NEW a \in Agent, LibP2pSends(a)
         PROVE  \E h \in Message : Publishes(a, h)
    BY <1>10, PublishStep DEF Publishes, Taken
  <1>11. ASSUME NEW copy \in air, LibP2pReceives(copy)
         PROVE  Less \/ Arrives(copy)
    <2>1. /\ air' = air \ {copy}
          /\ UNCHANGED <<to_core, to_server>> \/ Forward(copy.to, copy.msg)
          /\ UNCHANGED <<from_message, messages, ticks, outputs, asked>>
      BY <1>11 DEF LibP2pReceives, ProcessSignedMessage, countVars
    <2>2. CASE Forward(copy.to, copy.msg)
      BY <2>1, <2>2 DEF Arrives
    <2>3. CASE UNCHANGED <<to_core, to_server>>
      BY <1>3, <2>1, <2>3
    <2> QED  BY <2>1, <2>2, <2>3
  <1>12. ASSUME NEW copy \in air, Lose(copy)
         PROVE  Less
    BY <1>3, <1>12 DEF Lose, agentVars
  <1>13. ASSUME NEW a \in Agent, CoreReceives(a)
         PROVE  Less \/ \E h \in Message : Answers(a, h)
    <2> DEFINE h == Head(to_core[a])
    <2>1. /\ to_core[a] # <<>> /\ to_core' = Taken(to_core, a)
          /\ UNCHANGED <<to_server, messages, air, ticks, outputs, asked>>
      BY <1>13 DEF CoreReceives, Taken, countVars
    <2>2. h \in Message
      BY <2>1, RingTail DEF TInv, ChannelTypes, Taken
    <2>3. CASE h.kind = "request" /\ ShouldProcess(a, h)
      BY <1>13, <2>1, <2>2, <2>3 DEF CoreReceives, Answers, Sent
    <2>4. CASE ~(h.kind = "request" /\ ShouldProcess(a, h))
      <3>1. from_message' = from_message
        BY <1>13, <2>4 DEF CoreReceives
      <3>2. Fewer(to_core, to_core')
        BY <1>1, <2>1, FewerTypes
      <3> QED  BY <1>2, <2>1, <3>1, <3>2 DEF Less
    <2> QED  BY <2>3, <2>4
  <1>14. ASSUME NEW a \in Agent, CoreFails(a)
         PROVE  Less
    <2>1. /\ Fewer(from_message, from_message') /\ Fewer(to_core, to_core')
          /\ Fewer(to_server, to_server') /\ Fewer(messages, messages')
      BY <1>1, <1>14, FewerTypes DEF CoreFails
    <2>2. air' \subseteq air
      BY <1>14 DEF CoreFails
    <2> QED  BY <1>14, <2>1, <2>2 DEF Less, CoreFails, countVars
  <1>15. ASSUME NEW a \in Agent, HandshakeTick(a)
         PROVE  \E m \in Message : New(a, m)
    <2>1. ticks \in Nat /\ ticks' = ticks + 1 /\ ticks' \in 0 .. MaxNumber
      BY <1>15 DEF HandshakeTick, TInv, CountTypes
    <2>2. PICK n \in 0 .. MaxNumber : n = ticks'
      BY <2>1
    <2>3. NewMessage("handshake", n, Nobody) \in Message
      BY NewTypes DEF PeerId
    <2>4. PICK m \in Message : m = NewMessage("handshake", n, Nobody)
      BY <2>3
    <2>5. from_message' = Sent(from_message, a, m)
      BY <1>15, <2>2, <2>4 DEF HandshakeTick, Sent
    <2>6. PICK s \in Message : s = Published(a, m)
      BY PublishedType
    <2>7. /\ m.by = "agent" /\ m.kind = "handshake" /\ m.number = n
          /\ s.by = "agent" /\ s.kind = "handshake" /\ s.number = n /\ s.signer # Nobody
      <3>1. m.by = "agent" /\ m.kind = "handshake" /\ m.number = n
        BY <2>4 DEF NewMessage
      <3> QED  BY <2>6, <3>1, PublishedType
    <2>8. Genuine(s)'
      BY <2>1, <2>2, <2>7 DEF Genuine
    <2>9. NewNumber(m)
      BY <2>1, <2>2, <2>7 DEF NewNumber
    <2>10. Counting
      BY <1>15, <2>1 DEF HandshakeTick, Counting, TInv, CountTypes
    <2>11. UNCHANGED <<to_core, to_server, messages, air>>
      BY <1>15 DEF HandshakeTick
    <2> QED  BY <2>5, <2>6, <2>8, <2>9, <2>10, <2>11 DEF New
  <1>16. ASSUME NEW a \in Agent, NEW p \in Client, MessangerSends(a, p)
         PROVE  \E m \in Message : New(a, m)
    <2>1. outputs \in Nat /\ outputs' = outputs + 1 /\ outputs' \in 0 .. MaxNumber
      BY <1>16 DEF MessangerSends, TInv, CountTypes
    <2>2. PICK n \in 0 .. MaxNumber : n = outputs'
      BY <2>1
    <2>3. NewMessage("output", n, p) \in Message
      BY NewTypes DEF PeerId
    <2>4. PICK m \in Message : m = NewMessage("output", n, p)
      BY <2>3
    <2>5. from_message' = Sent(from_message, a, m)
      BY <1>16, <2>2, <2>4 DEF MessangerSends, Sent
    <2>6. PICK s \in Message : s = Published(a, m)
      BY PublishedType
    <2>7. /\ m.by = "agent" /\ m.kind = "output" /\ m.number = n
          /\ s.by = "agent" /\ s.kind = "output" /\ s.number = n /\ s.signer # Nobody
      <3>1. m.by = "agent" /\ m.kind = "output" /\ m.number = n
        BY <2>4 DEF NewMessage
      <3> QED  BY <2>6, <3>1, PublishedType
    <2>8. Genuine(s)'
      BY <2>1, <2>2, <2>7 DEF Genuine
    <2>9. NewNumber(m)
      BY <2>1, <2>2, <2>7 DEF NewNumber
    <2>10. Counting
      BY <1>16, <2>1 DEF MessangerSends, Counting, TInv, CountTypes
    <2>11. UNCHANGED <<to_core, to_server, messages, air>>
      BY <1>16 DEF MessangerSends
    <2> QED  BY <2>5, <2>6, <2>8, <2>9, <2>10, <2>11 DEF New
  <1>17. CASE UNCHANGED vars
    BY <1>3, <1>17 DEF vars
  <1> QED  BY <1>4, <1>5, <1>6, <1>7, <1>8, <1>9, <1>10, <1>11, <1>12, <1>13, <1>14, <1>15, <1>16,
              <1>17 DEF Next, LibP2pTask, CoreTask, ClientAt
-----------------------------------------------------------------------------
(* What the steps do to the contents of the channels. *)

\* Two messages are the same one, or copies of it, if these agree.
Key(m) == <<m.by, m.kind, m.number>>

Different == {r \in Message \X Message : Key(r[1]) # Key(r[2])}

Distinct(s) == Chain(s, Different)

Fresh(m, S) == \A x \in S : Key(x) # Key(m)

LEMMA DistinctSend ==
  ASSUME NEW ring \in Seq(Message), NEW m \in Message, NEW cap \in Nat \ {0}, Distinct(ring),
         Fresh(m, Elements(ring))
  PROVE  Distinct(Send(ring, m, cap))
  <1>1. \A y \in Elements(ring) : <<y, m>> \in Different
    BY ElementsType DEF Fresh, Different
  <1> QED  BY <1>1, ChainSend DEF Distinct

LEMMA DistinctAppend ==
  ASSUME NEW s \in Seq(Message), NEW m \in Message, Distinct(s), Fresh(m, Elements(s))
  PROVE  Distinct(Append(s, m))
  <1>1. \A y \in Elements(s) : <<y, m>> \in Different
    BY ElementsType DEF Fresh, Different
  <1> QED  BY <1>1, ChainAppend DEF Distinct

LEMMA DistinctTail ==
  ASSUME NEW s \in Seq(Message), s # <<>>, Distinct(s)
  PROVE  Distinct(Tail(s)) /\ Fresh(Head(s), Elements(Tail(s)))
  <1>1. Distinct(Tail(s))
    BY ChainTail DEF Distinct
  <1>2. ASSUME NEW i \in 1 .. Len(Tail(s))
        PROVE  Key(Head(s)) # Key(Tail(s)[i])
    <2>1. Head(s) = s[1] /\ Tail(s)[i] = s[i + 1] /\ 1 \in 1 .. Len(s) /\ i + 1 \in 1 .. Len(s)
      BY HeadTail
    <2>2. <<s[1], s[i + 1]>> \in Different
      BY <2>1 DEF Distinct, Chain
    <2> QED  BY <2>1, <2>2 DEF Different
  <1> QED  BY <1>1, <1>2 DEF Fresh, Elements

LEMMA FewerEffect ==
  ASSUME NEW f \in [Agent -> Seq(Message)], NEW g, Fewer(f, g), NEW a \in Agent
  PROVE  /\ Elements(g[a]) \subseteq Elements(f[a])
         /\ Distinct(f[a]) => Distinct(g[a])
  <1>1. CASE g[a] = f[a]
    BY <1>1
  <1>2. CASE g[a] = <<>>
    BY <1>2, EmptyElements DEF Distinct, Chain
  <1>3. CASE f[a] # <<>> /\ g[a] = Tail(f[a])
    BY <1>3, TailElements, DistinctTail
  <1> QED  BY <1>1, <1>2, <1>3 DEF Fewer

\* A receiver that gets a message, and one from which a message is taken.
LEMMA SendEffect ==
  ASSUME NEW f \in Rings, NEW a \in Agent, NEW m \in Message, NEW b \in Agent
  PROVE  /\ b # a => Sent(f, a, m)[b] = f[b]
         /\ \A x \in Elements(Sent(f, a, m)[b]) : x = m \/ x \in Elements(f[b])
         /\ Distinct(f[b]) /\ Fresh(m, Elements(f[b])) => Distinct(Sent(f, a, m)[b])
  <1>1. f[a] \in Seq(Message) /\ Cap \in Nat \ {0}
    BY BusAssumption DEF Rings, BusAssumption
  <1>2. /\ \A d \in Agent : d # a => Sent(f, a, m)[d] = f[d]
        /\ Sent(f, a, m)[a] = Send(f[a], m, Cap)
        /\ \A x \in Elements(Sent(f, a, m)[a]) : x = m \/ x \in Elements(f[a])
    <2>1. /\ \A d \in Agent : d # a => Sent(f, a, m)[d] = f[d]
          /\ Sent(f, a, m)[a] = Send(f[a], m, Cap)
      BY DEF Sent, Rings
    <2>2. Len(f[a]) <= Cap
      BY DEF Rings
    <2>3. Elements(Send(f[a], m, Cap)) \subseteq Elements(f[a]) \cup {m}
      BY <1>1, <2>2, SendRing
    <2> QED  BY <2>1, <2>3
  <1>3. Distinct(f[a]) /\ Fresh(m, Elements(f[a])) => Distinct(Send(f[a], m, Cap))
    BY <1>1, DistinctSend
  <1>4. CASE b = a
    BY <1>2, <1>3, <1>4
  <1>5. CASE b # a
    BY <1>2, <1>5
  <1> QED  BY <1>4, <1>5

LEMMA TakeEffect ==
  ASSUME NEW f \in Rings, NEW a \in Agent, f[a] # <<>>, NEW b \in Agent
  PROVE  /\ Head(f[a]) \in Elements(f[a]) /\ Head(f[a]) \in Message
         /\ b # a => Taken(f, a)[b] = f[b]
         /\ Elements(Taken(f, a)[b]) \subseteq Elements(f[b])
         /\ Distinct(f[b]) =>
              Distinct(Taken(f, a)[b]) /\ (b = a => Fresh(Head(f[a]), Elements(Taken(f, a)[b])))
  <1>1. f[a] \in Seq(Message)
    BY DEF Rings
  <1>2. /\ \A d \in Agent : d # a => Taken(f, a)[d] = f[d]
        /\ Taken(f, a)[a] = Tail(f[a]) /\ Elements(Taken(f, a)[a]) \subseteq Elements(f[a])
        /\ Head(f[a]) \in Elements(f[a]) /\ Head(f[a]) \in Message
    <2>1. /\ \A d \in Agent : d # a => Taken(f, a)[d] = f[d]
          /\ Taken(f, a)[a] = Tail(f[a])
      BY DEF Taken, Rings
    <2> QED  BY <1>1, <2>1, TailElements, HeadTail
  <1>3. Distinct(f[a]) => Distinct(Tail(f[a])) /\ Fresh(Head(f[a]), Elements(Tail(f[a])))
    BY <1>1, DistinctTail
  <1>4. CASE b = a
    BY <1>2, <1>3, <1>4
  <1>5. CASE b # a
    BY <1>2, <1>5
  <1> QED  BY <1>2, <1>4, <1>5

LEMMA ProcessEffect ==
  ASSUME TInv, NEW a \in Agent, NEW m \in Message, Forward(a, m), NEW b \in Agent
  PROVE  /\ b # a => to_core'[b] = to_core[b] /\ to_server'[b] = to_server[b]
         /\ \A x \in Elements(to_core'[b]) : x = m \/ x \in Elements(to_core[b])
         /\ \A x \in Elements(to_server'[b]) : x = m \/ x \in Elements(to_server[b])
         /\ Distinct(to_core[b]) /\ Fresh(m, Elements(to_core[b])) => Distinct(to_core'[b])
         /\ Distinct(to_server[b]) /\ Fresh(m, Elements(to_server[b])) => Distinct(to_server'[b])
  <1>1. to_core \in Rings /\ to_server \in Rings
    BY DEF TInv, ChannelTypes
  <1>2. /\ to_core' = Sent(to_core, a, m)
        /\ to_server' = to_server \/ to_server' = Sent(to_server, a, m)
    BY ProcessStep DEF Sent
  <1>3. /\ b # a => to_core'[b] = to_core[b]
        /\ \A x \in Elements(to_core'[b]) : x = m \/ x \in Elements(to_core[b])
        /\ Distinct(to_core[b]) /\ Fresh(m, Elements(to_core[b])) => Distinct(to_core'[b])
    BY <1>1, <1>2, SendEffect
  <1>4. CASE to_server' = to_server
    BY <1>3, <1>4
  <1>5. CASE to_server' = Sent(to_server, a, m)
    <2>1. /\ b # a => to_server'[b] = to_server[b]
          /\ \A x \in Elements(to_server'[b]) : x = m \/ x \in Elements(to_server[b])
          /\ Distinct(to_server[b]) /\ Fresh(m, Elements(to_server[b])) => Distinct(to_server'[b])
      BY <1>1, <1>5, SendEffect
    <2> QED  BY <1>3, <2>1
  <1> QED  BY <1>2, <1>4, <1>5
-----------------------------------------------------------------------------
(* Every step preserves Origin. *)

LEMMA OriginStep ==
  ASSUME TInv, TInv', Subscribed, Origin, [Next]_vars
  PROVE  Origin'
  <1>1. /\ from_message \in Rings /\ to_core \in Rings /\ to_server \in Rings
        /\ from_message \in [Agent -> Seq(Message)] /\ to_core \in [Agent -> Seq(Message)]
        /\ to_server \in [Agent -> Seq(Message)] /\ messages \in [Agent -> Seq(Message)]
        /\ air \subseteq [msg : Message, to : Agent]
    BY DEF TInv, ChannelTypes, Rings
  <1>2. ASSUME NEW a \in Agent
        PROVE  /\ Elements(from_message[a]) \subseteq Message /\ Elements(to_core[a]) \subseteq Message
               /\ Elements(to_server[a]) \subseteq Message /\ Elements(messages[a]) \subseteq Message
    BY <1>1, ElementsType
  <1>3. ASSUME Counting
        PROVE  /\ \A a \in Agent : \A m \in Elements(from_message[a]) : Genuine(Published(a, m))'
               /\ \A a \in Agent : \A m \in Elements(to_core[a]) : Genuine(m)'
               /\ \A a \in Agent : \A m \in Elements(to_server[a]) : Genuine(m)'
               /\ \A a \in Agent : \A m \in Elements(messages[a]) : Genuine(m)'
               /\ \A copy \in air : Genuine(copy.msg)'
    <2>1. ASSUME NEW a \in Agent, NEW m \in Elements(from_message[a])
          PROVE  Genuine(Published(a, m))'
      <3>1. m \in Message
        BY <1>2, <2>1
      <3>2. PICK s \in Message : s = Published(a, m)
        BY <3>1, PublishedType
      <3>3. Genuine(s)
        BY <2>1, <3>2 DEF Origin
      <3> QED  BY <1>3, <3>2, <3>3, GenuineStays
    <2>2. ASSUME NEW a \in Agent,
                 NEW m \in Elements(to_core[a]) \cup Elements(to_server[a]) \cup Elements(messages[a])
          PROVE  Genuine(m)'
      <3>1. m \in Message /\ Genuine(m)
        BY <1>2, <2>2 DEF Origin
      <3> QED  BY <1>3, <3>1, GenuineStays
    <2>3. ASSUME NEW copy \in air
          PROVE  Genuine(copy.msg)'
      <3>1. copy.msg \in Message /\ Genuine(copy.msg)
        BY <1>1 DEF Origin
      <3> QED  BY <1>3, <3>1, GenuineStays
    <2> QED  BY <2>1, <2>2, <2>3
  <1>4. CASE Less
    <2>1. Counting
      BY <1>4, SameCount DEF Less
    <2>2. ASSUME NEW a \in Agent
          PROVE  /\ Elements(from_message'[a]) \subseteq Elements(from_message[a])
                 /\ Elements(to_core'[a]) \subseteq Elements(to_core[a])
                 /\ Elements(to_server'[a]) \subseteq Elements(to_server[a])
                 /\ Elements(messages'[a]) \subseteq Elements(messages[a])
      BY <1>1, <1>4, FewerEffect DEF Less
    <2> QED  BY <1>3, <1>4, <2>1, <2>2 DEF Origin, Less
  <1>5. ASSUME NEW a \in Agent, NEW m \in Message, New(a, m)
        PROVE  Origin'
    <2>1. Counting /\ Genuine(Published(a, m))'
      BY <1>5 DEF New
    <2>2. ASSUME NEW b \in Agent
          PROVE  /\ \A x \in Elements(from_message'[b]) : x = m \/ x \in Elements(from_message[b])
                 /\ b # a => from_message'[b] = from_message[b]
      <3>1. from_message' = Sent(from_message, a, m)
        BY <1>5 DEF New
      <3> QED  BY <1>1, <3>1, SendEffect
    <2>3. UNCHANGED <<to_core, to_server, messages, air>>
      BY <1>5 DEF New
    <2> QED  BY <1>3, <2>1, <2>2, <2>3 DEF Origin
  <1>6. ASSUME NEW a \in Agent, NEW h \in Message, Answers(a, h)
        PROVE  Origin'
    <2>1. Counting
      BY <1>6, SameCount DEF Answers
    <2>2. Response(h) \in Message
      BY NewTypes DEF Response, Message
    <2>3. h \in Elements(to_core[a])
      <3>1. to_core[a] # <<>> /\ h = Head(to_core[a])
        BY <1>6 DEF Answers
      <3> QED  BY <1>1, <3>1, TakeEffect
    <2>4. /\ Genuine(h) /\ h.kind = "request" /\ h.to = a /\ h.signer \in Authorized
          /\ UNCHANGED <<ticks, outputs, asked>>
      BY <1>6, <2>3 DEF Origin, Answers, ShouldProcess
    <2>5. AskedFor(h.number, h.from, a)'
      <3>1. h.by = "client"
        BY <2>4 DEF Genuine, Message
      <3>2. h.number \in 1 .. Len(asked) /\ asked[h.number] = h
        BY <2>4, <3>1 DEF Genuine
      <3> QED  BY <2>4, <3>2 DEF AskedFor
    <2>6. PICK s \in Message : s = Published(a, Response(h))
      BY <2>2, PublishedType
    <2>7. /\ Response(h).by = "agent" /\ Response(h).kind = "response"
          /\ Response(h).number = h.number /\ Response(h).to = h.from
          /\ Response(h).signer = Nobody
      BY DEF Response, NewMessage
    <2>8. /\ s.by = "agent" /\ s.kind = "response" /\ s.number = h.number /\ s.to = h.from
          /\ s.signer = a /\ s.signer # Nobody
      <3>1. s = Signed(a, Response(h))
        BY <2>6, <2>7 DEF Published
      <3>2. s.signer = a
        BY <2>2, <3>1 DEF Signed, Message
      <3> QED  BY <2>2, <2>6, <2>7, <3>2, PublishedType
    <2>9. Genuine(s)'
      BY <2>5, <2>8 DEF Genuine
    <2>10. ASSUME NEW b \in Agent
           PROVE  /\ \A x \in Elements(from_message'[b]) : x = Response(h) \/ x \in Elements(from_message[b])
                  /\ b # a => from_message'[b] = from_message[b]
                  /\ Elements(to_core'[b]) \subseteq Elements(to_core[b])
      <3>1. /\ to_core[a] # <<>> /\ to_core' = Taken(to_core, a)
            /\ from_message' = Sent(from_message, a, Response(h))
        BY <1>6 DEF Answers
      <3>2. Elements(to_core'[b]) \subseteq Elements(to_core[b])
        BY <1>1, <3>1, TakeEffect
      <3> QED  BY <1>1, <2>2, <3>1, <3>2, SendEffect
    <2>11. UNCHANGED <<to_server, messages, air>>
      BY <1>6 DEF Answers
    <2>12. ASSUME NEW b \in Agent, NEW m \in Elements(from_message'[b])
           PROVE  Genuine(Published(b, m))'
      BY <1>3, <2>1, <2>6, <2>9, <2>10, <2>12
    <2> QED  BY <1>3, <2>1, <2>10, <2>11, <2>12 DEF Origin
  <1>7. ASSUME NEW a \in Agent, NEW h \in Message, Publishes(a, h)
        PROVE  Origin'
    <2>1. Counting
      BY <1>7, SameCount DEF Publishes
    <2>2. PICK s \in Message : s = Published(a, h)
      BY PublishedType
    <2>3. h \in Elements(from_message[a])
      BY <1>1, <1>7, TakeEffect DEF Publishes
    <2>4. Genuine(s)'
      BY <1>3, <2>1, <2>2, <2>3
    <2>5. ASSUME NEW b \in Agent
          PROVE  /\ Elements(from_message'[b]) \subseteq Elements(from_message[b])
                 /\ \A x \in Elements(to_core'[b]) : x = s \/ x \in Elements(to_core[b])
                 /\ \A x \in Elements(to_server'[b]) : x = s \/ x \in Elements(to_server[b])
      BY <1>1, <1>7, <2>2, TakeEffect, ProcessEffect DEF Publishes
    <2>6. \A copy \in air' : copy \in air \/ copy.msg = s
      BY <1>7, <2>2 DEF Publishes, Copies
    <2>7. messages' = messages
      BY <1>7 DEF Publishes
    <2> QED  BY <1>3, <2>1, <2>4, <2>5, <2>6, <2>7 DEF Origin
  <1>8. ASSUME NEW a \in Agent, NEW h \in Message, Stores(a, h)
        PROVE  Origin'
    <2>1. Counting
      BY <1>8, SameCount DEF Stores
    <2>2. h \in Elements(to_server[a])
      BY <1>1, <1>8, TakeEffect DEF Stores
    <2>3. ASSUME NEW b \in Agent
          PROVE  /\ Elements(to_server'[b]) \subseteq Elements(to_server[b])
                 /\ \A x \in Elements(messages'[b]) : x = h \/ x \in Elements(messages[b])
      <3>1. Elements(to_server'[b]) \subseteq Elements(to_server[b])
        BY <1>1, <1>8, TakeEffect DEF Stores
      <3>2. messages'[b] = messages[b] \/ messages'[b] = Append(messages[b], h)
        BY <1>1, <1>8 DEF Stores
      <3>3. messages[b] \in Seq(Message)
        BY <1>1
      <3>4. Elements(Append(messages[b], h)) = Elements(messages[b]) \cup {h}
        BY <3>3, AppendElements
      <3> QED  BY <3>1, <3>2, <3>4
    <2>4. UNCHANGED <<from_message, to_core, air>>
      BY <1>8 DEF Stores
    <2>5. Genuine(h)'
      BY <1>3, <2>1, <2>2
    <2> QED  BY <1>3, <2>1, <2>3, <2>4, <2>5 DEF Origin
  <1>9. ASSUME NEW copy \in air, Arrives(copy)
        PROVE  Origin'
    <2>1. Counting
      BY <1>9, SameCount DEF Arrives
    <2>2. copy.to \in Agent /\ copy.msg \in Message
      BY <1>1
    <2>3. Genuine(copy.msg)'
      BY <1>3, <2>1
    <2>4. ASSUME NEW b \in Agent
          PROVE  /\ \A x \in Elements(to_core'[b]) : x = copy.msg \/ x \in Elements(to_core[b])
                 /\ \A x \in Elements(to_server'[b]) : x = copy.msg \/ x \in Elements(to_server[b])
      BY <1>9, <2>2, ProcessEffect DEF Arrives
    <2>5. air' \subseteq air /\ UNCHANGED <<from_message, messages>>
      BY <1>9 DEF Arrives
    <2> QED  BY <1>3, <2>1, <2>3, <2>4, <2>5 DEF Origin
  <1> QED  BY <1>4, <1>5, <1>6, <1>7, <1>8, <1>9, ChannelSteps
-----------------------------------------------------------------------------
(* No message goes the same way twice. *)

CopiedTo(a) == {m \in Message : [msg |-> m, to |-> a] \in air}

Arrived(a) == Elements(to_core[a]) \cup Elements(to_server[a]) \cup Elements(messages[a])

AllDistinct ==
  \A a \in Agent : /\ Distinct(from_message[a]) /\ Distinct(to_core[a])
                   /\ Distinct(to_server[a]) /\ Distinct(messages[a])

\* What waits to be sent waits in one place and has been nowhere else; what is
\* under way to an agent is so once and has not arrived there; and what the
\* server has yet to store it has not stored.
WaitsOnce ==
  \A a, b \in Agent : a # b => \A m \in Elements(from_message[a]) : Fresh(m, Elements(from_message[b]))

NotYetSent ==
  \A a, b \in Agent : \A m \in Elements(from_message[a]) : Fresh(m, CopiedTo(b)) /\ Fresh(m, Arrived(b))

CopiedOnce == \A a \in Agent : \A m, n \in CopiedTo(a) : Key(m) = Key(n) => m = n

NotYetArrived == \A a \in Agent : \A m \in CopiedTo(a) : Fresh(m, Arrived(a))

NotYetStored == \A a \in Agent : \A m \in Elements(to_server[a]) : Fresh(m, Elements(messages[a]))

OneCopy == AllDistinct /\ WaitsOnce /\ NotYetSent /\ CopiedOnce /\ NotYetArrived /\ NotYetStored

\* A message is still to be handled by the core of a, or is anywhere at all.
Coming(m, a) ==
  (\E b \in Agent : m \in Elements(from_message[b])) \/ m \in CopiedTo(a) \/ m \in Elements(to_core[a])

Present(m) ==
  \E a \in Agent : m \in Elements(from_message[a]) \/ m \in CopiedTo(a) \/ m \in Arrived(a)

\* While a request is on its way to the core that it is for, there is no
\* response to it.
NotYetAnswered ==
  \A m, r \in Message, a \in Agent :
    /\ m.kind = "request" /\ m.to = a /\ Coming(m, a)
    /\ IsAnswer(r) /\ Present(r)
    => r.number # m.number

LEMMA ChannelElements ==
  ASSUME TInv, NEW a \in Agent
  PROVE  /\ from_message \in [Agent -> Seq(Message)] /\ to_core \in [Agent -> Seq(Message)]
         /\ to_server \in [Agent -> Seq(Message)] /\ messages \in [Agent -> Seq(Message)]
         /\ Elements(from_message[a]) \subseteq Message /\ Elements(to_core[a]) \subseteq Message
         /\ Elements(to_server[a]) \subseteq Message /\ Elements(messages[a]) \subseteq Message
         /\ CopiedTo(a) \subseteq Message /\ Arrived(a) \subseteq Message
  <1>1. /\ from_message \in [Agent -> Seq(Message)] /\ to_core \in [Agent -> Seq(Message)]
        /\ to_server \in [Agent -> Seq(Message)] /\ messages \in [Agent -> Seq(Message)]
    BY DEF TInv, ChannelTypes, Rings
  <1>2. /\ Elements(from_message[a]) \subseteq Message /\ Elements(to_core[a]) \subseteq Message
        /\ Elements(to_server[a]) \subseteq Message /\ Elements(messages[a]) \subseteq Message
    BY <1>1, ElementsType
  <1> QED  BY <1>1, <1>2 DEF CopiedTo, Arrived

LEMMA LessEffect ==
  ASSUME TInv, Less, NEW a \in Agent
  PROVE  /\ Elements(from_message'[a]) \subseteq Elements(from_message[a])
         /\ Elements(to_core'[a]) \subseteq Elements(to_core[a])
         /\ Elements(to_server'[a]) \subseteq Elements(to_server[a])
         /\ Elements(messages'[a]) \subseteq Elements(messages[a])
         /\ CopiedTo(a)' \subseteq CopiedTo(a) /\ Arrived(a)' \subseteq Arrived(a)
         /\ Distinct(from_message[a]) => Distinct(from_message'[a])
         /\ Distinct(to_core[a]) => Distinct(to_core'[a])
         /\ Distinct(to_server[a]) => Distinct(to_server'[a])
         /\ Distinct(messages[a]) => Distinct(messages'[a])
  <1>1. /\ from_message \in [Agent -> Seq(Message)] /\ to_core \in [Agent -> Seq(Message)]
        /\ to_server \in [Agent -> Seq(Message)] /\ messages \in [Agent -> Seq(Message)]
    BY ChannelElements
  <1>2. /\ Fewer(from_message, from_message') /\ Fewer(to_core, to_core')
        /\ Fewer(to_server, to_server') /\ Fewer(messages, messages') /\ air' \subseteq air
    BY DEF Less
  <1>3. /\ Elements(from_message'[a]) \subseteq Elements(from_message[a])
        /\ Distinct(from_message[a]) => Distinct(from_message'[a])
    BY <1>1, <1>2, FewerEffect
  <1>4. /\ Elements(to_core'[a]) \subseteq Elements(to_core[a])
        /\ Distinct(to_core[a]) => Distinct(to_core'[a])
    BY <1>1, <1>2, FewerEffect
  <1>5. /\ Elements(to_server'[a]) \subseteq Elements(to_server[a])
        /\ Distinct(to_server[a]) => Distinct(to_server'[a])
    BY <1>1, <1>2, FewerEffect
  <1>6. /\ Elements(messages'[a]) \subseteq Elements(messages[a])
        /\ Distinct(messages[a]) => Distinct(messages'[a])
    BY <1>1, <1>2, FewerEffect
  <1> QED  BY <1>2, <1>3, <1>4, <1>5, <1>6 DEF CopiedTo, Arrived

LEMMA SendsEffect ==
  ASSUME TInv, NEW a \in Agent, NEW m \in Message, from_message' = Sent(from_message, a, m),
         NEW b \in Agent
  PROVE  /\ b # a => from_message'[b] = from_message[b]
         /\ \A x \in Elements(from_message'[b]) : x = m \/ x \in Elements(from_message[b])
         /\ Distinct(from_message[b]) /\ Fresh(m, Elements(from_message[b]))
            => Distinct(from_message'[b])
  BY SendEffect DEF TInv, ChannelTypes

LEMMA AnswersEffect ==
  ASSUME TInv, NEW a \in Agent, NEW h \in Message, Answers(a, h), NEW b \in Agent
  PROVE  /\ h \in Elements(to_core[a])
         /\ b # a => to_core'[b] = to_core[b]
         /\ Elements(to_core'[b]) \subseteq Elements(to_core[b])
         /\ Distinct(to_core[b]) =>
              Distinct(to_core'[b]) /\ (b = a => Fresh(h, Elements(to_core'[b])))
         /\ CopiedTo(b)' = CopiedTo(b) /\ Arrived(b)' \subseteq Arrived(b)
         /\ Response(h) \in Message
         /\ from_message' = Sent(from_message, a, Response(h))
         /\ UNCHANGED <<to_server, messages>>
  <1>1. /\ to_core[a] # <<>> /\ h = Head(to_core[a]) /\ to_core' = Taken(to_core, a)
        /\ from_message' = Sent(from_message, a, Response(h))
        /\ UNCHANGED <<to_server, messages, air>>
    BY DEF Answers
  <1>2. /\ Head(to_core[a]) \in Elements(to_core[a])
        /\ b # a => to_core'[b] = to_core[b]
        /\ Elements(to_core'[b]) \subseteq Elements(to_core[b])
        /\ Distinct(to_core[b]) =>
             Distinct(to_core'[b]) /\ (b = a => Fresh(Head(to_core[a]), Elements(to_core'[b])))
    BY <1>1, TakeEffect DEF TInv, ChannelTypes
  <1>3. Response(h) \in Message
    BY NewTypes DEF Response, Message
  <1>4. CopiedTo(b)' = CopiedTo(b) /\ Arrived(b)' \subseteq Arrived(b)
    BY <1>1, <1>2 DEF CopiedTo, Arrived
  <1> QED  BY <1>1, <1>2, <1>3, <1>4

LEMMA PublishesEffect ==
  ASSUME TInv, NEW a \in Agent, NEW h \in Message, Publishes(a, h), NEW s, s = Published(a, h),
         NEW b \in Agent
  PROVE  /\ s \in Message /\ Key(s) = Key(h) /\ s.by = h.by /\ s.kind = h.kind
         /\ s.number = h.number /\ s.to = h.to
         /\ h \in Elements(from_message[a])
         /\ b # a => from_message'[b] = from_message[b]
         /\ Elements(from_message'[b]) \subseteq Elements(from_message[b])
         /\ Distinct(from_message[b]) =>
              Distinct(from_message'[b]) /\ (b = a => Fresh(h, Elements(from_message'[b])))
         /\ \A x \in CopiedTo(b)' : x \in CopiedTo(b) \/ (b # a /\ x = s)
         /\ b # a => to_core'[b] = to_core[b] /\ to_server'[b] = to_server[b]
         /\ \A x \in Elements(to_core'[b]) : x = s \/ x \in Elements(to_core[b])
         /\ \A x \in Elements(to_server'[b]) : x = s \/ x \in Elements(to_server[b])
         /\ Distinct(to_core[b]) /\ Fresh(s, Elements(to_core[b])) => Distinct(to_core'[b])
         /\ Distinct(to_server[b]) /\ Fresh(s, Elements(to_server[b])) => Distinct(to_server'[b])
         /\ messages' = messages
  <1>1. /\ from_message[a] # <<>> /\ h = Head(from_message[a])
        /\ from_message' = Taken(from_message, a) /\ air' = air \cup Copies(a, s)
        /\ UNCHANGED <<to_core, to_server>> \/ Forward(a, s)
        /\ messages' = messages
    BY DEF Publishes
  <1>2. s \in Message /\ s.by = h.by /\ s.kind = h.kind /\ s.number = h.number /\ s.to = h.to
    BY PublishedType
  <1>3. /\ Head(from_message[a]) \in Elements(from_message[a])
        /\ b # a => from_message'[b] = from_message[b]
        /\ Elements(from_message'[b]) \subseteq Elements(from_message[b])
        /\ Distinct(from_message[b]) =>
             Distinct(from_message'[b]) /\ (b = a => Fresh(Head(from_message[a]), Elements(from_message'[b])))
    BY <1>1, TakeEffect DEF TInv, ChannelTypes
  <1>4. \A x \in CopiedTo(b)' : x \in CopiedTo(b) \/ (b # a /\ x = s)
    BY <1>1 DEF CopiedTo, Copies
  <1>5. CASE Forward(a, s)
    BY <1>1, <1>2, <1>3, <1>4, <1>5, ProcessEffect DEF Key
  <1>6. CASE UNCHANGED <<to_core, to_server>>
    BY <1>1, <1>2, <1>3, <1>4, <1>6 DEF Key
  <1> QED  BY <1>1, <1>5, <1>6

LEMMA ArrivesEffect ==
  ASSUME TInv, NEW copy \in air, Arrives(copy), NEW b \in Agent
  PROVE  /\ copy.msg \in CopiedTo(copy.to) /\ copy.to \in Agent /\ copy.msg \in Message
         /\ CopiedTo(b)' \subseteq CopiedTo(b)
         /\ b = copy.to => copy.msg \notin CopiedTo(b)'
         /\ b # copy.to => to_core'[b] = to_core[b] /\ to_server'[b] = to_server[b]
         /\ \A x \in Elements(to_core'[b]) : x = copy.msg \/ x \in Elements(to_core[b])
         /\ \A x \in Elements(to_server'[b]) : x = copy.msg \/ x \in Elements(to_server[b])
         /\ Distinct(to_core[b]) /\ Fresh(copy.msg, Elements(to_core[b])) => Distinct(to_core'[b])
         /\ Distinct(to_server[b]) /\ Fresh(copy.msg, Elements(to_server[b])) => Distinct(to_server'[b])
         /\ UNCHANGED <<from_message, messages>>
  <1>1. /\ air' = air \ {copy} /\ Forward(copy.to, copy.msg)
        /\ UNCHANGED <<from_message, messages>>
    BY DEF Arrives
  <1>2. copy.to \in Agent /\ copy.msg \in Message /\ copy = [msg |-> copy.msg, to |-> copy.to]
    BY DEF TInv, ChannelTypes
  <1>3. copy.msg \in CopiedTo(copy.to)
    BY <1>2 DEF CopiedTo
  <1>4. CopiedTo(b)' \subseteq CopiedTo(b) /\ (b = copy.to => copy.msg \notin CopiedTo(b)')
    BY <1>1, <1>2 DEF CopiedTo
  <1>5. PICK m \in Message, a \in Agent : m = copy.msg /\ a = copy.to
    BY <1>2
  <1>6. Forward(a, m)
    BY <1>1, <1>5
  <1>7. /\ b # a => to_core'[b] = to_core[b] /\ to_server'[b] = to_server[b]
        /\ \A x \in Elements(to_core'[b]) : x = m \/ x \in Elements(to_core[b])
        /\ \A x \in Elements(to_server'[b]) : x = m \/ x \in Elements(to_server[b])
        /\ Distinct(to_core[b]) /\ Fresh(m, Elements(to_core[b])) => Distinct(to_core'[b])
        /\ Distinct(to_server[b]) /\ Fresh(m, Elements(to_server[b])) => Distinct(to_server'[b])
    BY <1>6, ProcessEffect
  <1> QED  BY <1>1, <1>2, <1>3, <1>4, <1>5, <1>7

LEMMA StoresEffect ==
  ASSUME TInv, NEW a \in Agent, NEW h \in Message, Stores(a, h), NEW b \in Agent
  PROVE  /\ h \in Elements(to_server[a])
         /\ b # a => to_server'[b] = to_server[b] /\ messages'[b] = messages[b]
         /\ Elements(to_server'[b]) \subseteq Elements(to_server[b])
         /\ Distinct(to_server[b]) =>
              Distinct(to_server'[b]) /\ (b = a => Fresh(h, Elements(to_server'[b])))
         /\ \A x \in Elements(messages'[b]) : x = h \/ x \in Elements(messages[b])
         /\ Distinct(messages[b]) /\ Fresh(h, Elements(messages[b])) => Distinct(messages'[b])
         /\ CopiedTo(b)' = CopiedTo(b) /\ Arrived(b)' \subseteq Arrived(b)
         /\ UNCHANGED <<from_message, to_core>>
  <1>1. /\ to_server[a] # <<>> /\ h = Head(to_server[a]) /\ to_server' = Taken(to_server, a)
        /\ messages' = [messages EXCEPT ![a] = Append(@, h)]
        /\ UNCHANGED <<from_message, to_core, air>>
    BY DEF Stores
  <1>2. /\ Head(to_server[a]) \in Elements(to_server[a])
        /\ b # a => to_server'[b] = to_server[b]
        /\ Elements(to_server'[b]) \subseteq Elements(to_server[b])
        /\ Distinct(to_server[b]) =>
             Distinct(to_server'[b]) /\ (b = a => Fresh(Head(to_server[a]), Elements(to_server'[b])))
    BY <1>1, TakeEffect DEF TInv, ChannelTypes
  <1>3. /\ messages[b] \in Seq(Message)
        /\ b # a => messages'[b] = messages[b]
        /\ b = a => messages'[b] = Append(messages[b], h)
    BY <1>1, ChannelElements
  <1>4. /\ Elements(Append(messages[b], h)) = Elements(messages[b]) \cup {h}
        /\ Distinct(messages[b]) /\ Fresh(h, Elements(messages[b])) => Distinct(Append(messages[b], h))
    BY <1>3, AppendElements, DistinctAppend
  <1>5. /\ \A x \in Elements(messages'[b]) : (x = h /\ b = a) \/ x \in Elements(messages[b])
        /\ Distinct(messages[b]) /\ Fresh(h, Elements(messages[b])) => Distinct(messages'[b])
    BY <1>3, <1>4
  <1>6. CopiedTo(b)' = CopiedTo(b) /\ Arrived(b)' \subseteq Arrived(b)
    BY <1>1, <1>2, <1>5 DEF CopiedTo, Arrived
  <1> QED  BY <1>1, <1>2, <1>3, <1>5, <1>6

LEMMA OneCopyLess ==
  ASSUME TInv, OneCopy, NotYetAnswered, Less
  PROVE  OneCopy' /\ NotYetAnswered'
  <1>1. ASSUME NEW a \in Agent
        PROVE  /\ Elements(from_message'[a]) \subseteq Elements(from_message[a])
               /\ Elements(to_core'[a]) \subseteq Elements(to_core[a])
               /\ Elements(to_server'[a]) \subseteq Elements(to_server[a])
               /\ Elements(messages'[a]) \subseteq Elements(messages[a])
               /\ CopiedTo(a)' \subseteq CopiedTo(a) /\ Arrived(a)' \subseteq Arrived(a)
    BY LessEffect
  <1>2. AllDistinct'
    BY LessEffect DEF OneCopy, AllDistinct
  <1>3. WaitsOnce'
    BY <1>1 DEF OneCopy, WaitsOnce, Fresh
  <1>4. NotYetSent'
    BY <1>1 DEF OneCopy, NotYetSent, Fresh
  <1>5. CopiedOnce'
    BY <1>1 DEF OneCopy, CopiedOnce
  <1>6. NotYetArrived'
    BY <1>1 DEF OneCopy, NotYetArrived, Fresh
  <1>7. NotYetStored'
    BY <1>1 DEF OneCopy, NotYetStored, Fresh
  <1>8. NotYetAnswered'
    BY <1>1 DEF NotYetAnswered, Coming, Present
  <1> QED  BY <1>2, <1>3, <1>4, <1>5, <1>6, <1>7, <1>8 DEF OneCopy

\* A message that is new in from_message and has not been anywhere.
LEMMA OneCopySent ==
  ASSUME TInv, OneCopy, NEW a \in Agent, NEW m \in Message,
         from_message' = Sent(from_message, a, m),
         \A x \in Message : Present(x) => Key(x) # Key(m),
         AllDistinct', CopiedOnce', NotYetArrived', NotYetStored',
         \A b \in Agent : CopiedTo(b)' \subseteq CopiedTo(b) /\ Arrived(b)' \subseteq Arrived(b)
  PROVE  OneCopy'
  <1>1. ASSUME NEW b \in Agent
        PROVE  /\ b # a => from_message'[b] = from_message[b]
               /\ \A x \in Elements(from_message'[b]) : x = m \/ x \in Elements(from_message[b])
    BY SendsEffect
  <1>2. ASSUME NEW b \in Agent
        PROVE  /\ Fresh(m, Elements(from_message[b]))
               /\ \A x \in CopiedTo(b) : Key(x) # Key(m)
               /\ \A x \in Arrived(b) : Key(x) # Key(m)
    BY ChannelElements DEF Present, Fresh
  <1>3. WaitsOnce'
    BY <1>1, <1>2 DEF OneCopy, WaitsOnce, Fresh
  <1>4. NotYetSent'
    BY <1>1, <1>2 DEF OneCopy, NotYetSent, Fresh
  <1> QED  BY <1>3, <1>4 DEF OneCopy

LEMMA NewIsFresh ==
  ASSUME TInv, Origin, NEW m \in Message, NewNumber(m), NEW x \in Message, Present(x)
  PROVE  Key(x) # Key(m) /\ (IsAnswer(x) /\ m.kind = "request" => x.number # m.number)
  <1>1. /\ ticks \in Nat /\ outputs \in Nat /\ Len(asked) \in Nat /\ m.number \in Nat
        /\ x.number \in Nat /\ m.kind \in Kind
    BY QueueAssumption, BusAssumption
       DEF TInv, CountTypes, Message, QueueAssumption, BusAssumption
  <1>2. \E s \in Message : /\ Genuine(s)
                           /\ s.by = x.by /\ s.kind = x.kind /\ s.number = x.number
    <2>1. ASSUME NEW b \in Agent, x \in Elements(from_message[b])
          PROVE  /\ Genuine(Published(b, x)) /\ Published(b, x) \in Message
                 /\ Published(b, x).by = x.by /\ Published(b, x).kind = x.kind
                 /\ Published(b, x).number = x.number
      BY <2>1, PublishedType DEF Origin
    <2>2. ASSUME NEW b \in Agent, x \in CopiedTo(b) \/ x \in Arrived(b)
          PROVE  Genuine(x)
      BY <2>2 DEF Origin, CopiedTo, Arrived
    <2> QED  BY <2>1, <2>2 DEF Present
  <1>3. /\ x.by = "client" => x.number <= Len(asked)
        /\ IsAnswer(x) => x.number <= Len(asked)
        /\ x.by = "agent" => /\ x.kind = "handshake" => x.number <= ticks
                             /\ x.kind = "output" => x.number <= outputs
    BY <1>1, <1>2 DEF Genuine, AskedFor, IsAnswer
  <1>4. m.by = "agent" \/ m.by = "client"
    BY DEF Message
  <1>5. Key(x) # Key(m)
    <2> SUFFICES ASSUME x.by = m.by, x.kind = m.kind, x.number = m.number
                 PROVE  FALSE
      BY DEF Key
    <2>1. CASE m.by = "client"
      BY <1>1, <1>3, <2>1 DEF NewNumber
    <2>2. CASE m.by = "agent"
      <3>1. /\ m.kind \in {"handshake", "output"}
            /\ m.kind = "handshake" => m.number > ticks
            /\ m.kind = "output" => m.number > outputs
        BY <2>2 DEF NewNumber
      <3>2. /\ m.kind = "handshake" => m.number <= ticks
            /\ m.kind = "output" => m.number <= outputs
        BY <1>3, <2>2
      <3> QED  BY <1>1, <3>1, <3>2
    <2> QED  BY <1>4, <2>1, <2>2
  <1>6. ASSUME IsAnswer(x), m.kind = "request"
        PROVE  x.number # m.number
    BY <1>1, <1>3, <1>4, <1>6 DEF NewNumber
  <1> QED  BY <1>5, <1>6

LEMMA OneCopyNew ==
  ASSUME TInv, Origin, OneCopy, NotYetAnswered, NEW a \in Agent, NEW m \in Message, New(a, m)
  PROVE  OneCopy' /\ NotYetAnswered'
  <1>1. /\ NewNumber(m) /\ ~IsAnswer(m) /\ from_message' = Sent(from_message, a, m)
        /\ UNCHANGED <<to_core, to_server, messages, air>>
    BY DEF New, NewNumber, IsAnswer
  <1>2. ASSUME NEW b \in Agent
        PROVE  CopiedTo(b)' = CopiedTo(b) /\ Arrived(b)' = Arrived(b)
    BY <1>1 DEF CopiedTo, Arrived
  <1>3. \A x \in Message : Present(x) => Key(x) # Key(m)
    BY <1>1, NewIsFresh
  <1>4. \A b \in Agent : Fresh(m, Elements(from_message[b]))
    BY <1>3, ChannelElements DEF Fresh, Present
  <1>5. AllDistinct'
    BY <1>1, <1>4, SendsEffect DEF OneCopy, AllDistinct
  <1>6. CopiedOnce' /\ NotYetArrived' /\ NotYetStored'
    BY <1>1, <1>2 DEF OneCopy, CopiedOnce, NotYetArrived, NotYetStored
  <1>7. OneCopy'
    BY <1>1, <1>2, <1>3, <1>5, <1>6, OneCopySent
  <1>8. NotYetAnswered'
    <2> SUFFICES ASSUME NEW q \in Message, NEW r \in Message, NEW b \in Agent,
                        q.kind = "request", q.to = b, Coming(q, b)',
                        IsAnswer(r), Present(r)'
                 PROVE  r.number # q.number
      BY DEF NotYetAnswered
    <2>1. \A d \in Agent : \A x \in Elements(from_message'[d]) :
            x = m \/ x \in Elements(from_message[d])
      BY <1>1, SendsEffect
    <2>2. Present(r)
      BY <1>1, <1>2, <2>1 DEF Present
    <2>3. q = m \/ Coming(q, b)
      BY <1>1, <1>2, <2>1 DEF Coming
    <2>4. CASE q = m
      BY <1>1, <2>2, <2>4, NewIsFresh
    <2>5. CASE Coming(q, b)
      BY <2>2, <2>5 DEF NotYetAnswered
    <2> QED  BY <2>3, <2>4, <2>5
  <1> QED  BY <1>7, <1>8

LEMMA OneCopyAnswers ==
  ASSUME TInv, Origin, OneCopy, NotYetAnswered, NEW a \in Agent, NEW h \in Message, Answers(a, h)
  PROVE  OneCopy' /\ NotYetAnswered'
  <1>1. /\ h \in Elements(to_core[a]) /\ Response(h) \in Message
        /\ from_message' = Sent(from_message, a, Response(h))
        /\ UNCHANGED <<to_server, messages>>
    BY AnswersEffect
  <1>2. ASSUME NEW b \in Agent
        PROVE  /\ b # a => to_core'[b] = to_core[b]
               /\ Elements(to_core'[b]) \subseteq Elements(to_core[b])
               /\ CopiedTo(b)' = CopiedTo(b) /\ Arrived(b)' \subseteq Arrived(b)
    BY AnswersEffect
  <1>3. h.kind = "request" /\ h.to = a /\ Coming(h, a) /\ Genuine(h)
    BY <1>1 DEF Answers, ShouldProcess, Coming, Origin
  <1>4. PICK m \in Message : m = Response(h)
    BY <1>1
  <1>5. IsAnswer(m) /\ m.number = h.number /\ m.kind # "request"
    BY <1>4 DEF Response, NewMessage, IsAnswer
  <1>6. \A x \in Message : Present(x) => Key(x) # Key(m)
    <2> SUFFICES ASSUME NEW x \in Message, Present(x), Key(x) = Key(m)
                 PROVE  FALSE
      OBVIOUS
    <2>1. IsAnswer(x) /\ x.number = h.number
      BY <1>5 DEF Key, IsAnswer
    <2> QED  BY <1>3, <2>1 DEF NotYetAnswered
  <1>7. \A b \in Agent : Fresh(m, Elements(from_message[b]))
    BY <1>6, ChannelElements DEF Fresh, Present
  <1>8. from_message' = Sent(from_message, a, m)
    BY <1>1, <1>4
  <1>9. AllDistinct'
    <2> SUFFICES ASSUME NEW b \in Agent
                 PROVE  /\ Distinct(from_message'[b]) /\ Distinct(to_core'[b])
                        /\ Distinct(to_server'[b]) /\ Distinct(messages'[b])
      BY DEF AllDistinct
    <2>1. Distinct(from_message'[b])
      BY <1>7, <1>8, SendsEffect DEF OneCopy, AllDistinct
    <2>2. Distinct(to_core'[b])
      BY AnswersEffect DEF OneCopy, AllDistinct
    <2> QED  BY <1>1, <2>1, <2>2 DEF OneCopy, AllDistinct
  <1>10. CopiedOnce'
    BY <1>2 DEF OneCopy, CopiedOnce
  <1>11. NotYetArrived'
    BY <1>2 DEF OneCopy, NotYetArrived, Fresh
  <1>12. NotYetStored'
    BY <1>1 DEF OneCopy, NotYetStored
  <1>13. OneCopy'
    BY <1>2, <1>6, <1>8, <1>9, <1>10, <1>11, <1>12, OneCopySent
  <1>14. NotYetAnswered'
    <2> SUFFICES ASSUME NEW q \in Message, NEW r \in Message, NEW b \in Agent,
                        q.kind = "request", q.to = b, Coming(q, b)',
                        IsAnswer(r), Present(r)'
                 PROVE  r.number # q.number
      BY DEF NotYetAnswered
    <2>1. \A d \in Agent : \A x \in Elements(from_message'[d]) :
            x = m \/ x \in Elements(from_message[d])
      BY <1>8, SendsEffect
    <2>2. r = m \/ Present(r)
      BY <1>2, <2>1 DEF Present
    <2>3. Coming(q, b) /\ (q \in Elements(to_core'[b]) \/ q \in CopiedTo(b)
                           \/ \E d \in Agent : q \in Elements(from_message[d]))
      BY <1>2, <1>5, <2>1 DEF Coming
    <2>4. CASE Present(r)
      BY <2>3, <2>4 DEF NotYetAnswered
    <2>5. CASE r = m /\ q.number = h.number
      <3>1. PICK s \in Message : /\ Genuine(s) /\ s.by = q.by /\ s.kind = q.kind
                                 /\ s.number = q.number /\ s.to = q.to
        <4>1. ASSUME NEW d \in Agent, q \in Elements(from_message[d])
              PROVE  /\ Genuine(Published(d, q)) /\ Published(d, q) \in Message
                     /\ Published(d, q).by = q.by /\ Published(d, q).kind = q.kind
                     /\ Published(d, q).number = q.number /\ Published(d, q).to = q.to
          BY <4>1, PublishedType DEF Origin
        <4>2. ASSUME q \in CopiedTo(b) \/ q \in Elements(to_core[b])
              PROVE  Genuine(q)
          BY <4>2 DEF Origin, CopiedTo
        <4> QED  BY <2>3, <4>1, <4>2 DEF Coming
      <3>2. s.by = "client" /\ h.by = "client" /\ s = asked[h.number] /\ h = asked[h.number]
        BY <1>3, <2>5, <3>1 DEF Genuine, Message
      <3>3. Key(q) = Key(h) /\ b = a
        BY <1>3, <2>5, <3>1, <3>2 DEF Key
      <3>4. ~(q \in CopiedTo(a)) /\ \A d \in Agent : q \notin Elements(from_message[d])
        <4>1. h \in Arrived(a)
          BY <1>1 DEF Arrived
        <4> QED  BY <3>3, <4>1 DEF OneCopy, NotYetArrived, NotYetSent, Fresh
      <3>5. q \notin Elements(to_core'[a])
        BY <3>3, AnswersEffect DEF OneCopy, AllDistinct, Fresh
      <3> QED  BY <2>3, <3>3, <3>4, <3>5
    <2> QED  BY <1>5, <2>2, <2>4, <2>5
  <1> QED  BY <1>13, <1>14

LEMMA OneCopyPublishes ==
  ASSUME TInv, OneCopy, NotYetAnswered, NEW a \in Agent, NEW h \in Message, Publishes(a, h)
  PROVE  OneCopy' /\ NotYetAnswered'
  <1>1. PICK s \in Message : s = Published(a, h)
    BY PublishedType
  <1>2. /\ Key(s) = Key(h) /\ s.by = h.by /\ s.kind = h.kind
        /\ s.number = h.number /\ s.to = h.to
        /\ h \in Elements(from_message[a])
        /\ messages' = messages
    BY <1>1, PublishesEffect
  <1>3. ASSUME NEW b \in Agent
        PROVE  /\ b # a => from_message'[b] = from_message[b]
               /\ Elements(from_message'[b]) \subseteq Elements(from_message[b])
               /\ \A x \in CopiedTo(b)' : x \in CopiedTo(b) \/ (b # a /\ x = s)
               /\ b # a => to_core'[b] = to_core[b] /\ to_server'[b] = to_server[b]
               /\ \A x \in Elements(to_core'[b]) : x = s \/ x \in Elements(to_core[b])
               /\ \A x \in Elements(to_server'[b]) : x = s \/ x \in Elements(to_server[b])
    BY <1>1, PublishesEffect
  <1>4. ASSUME NEW b \in Agent
        PROVE  /\ Fresh(s, CopiedTo(b)) /\ Fresh(s, Arrived(b))
               /\ Fresh(s, Elements(to_core[b])) /\ Fresh(s, Elements(to_server[b]))
               /\ Fresh(s, Elements(messages[b])) /\ Fresh(s, Elements(from_message'[b]))
    <2>1. Fresh(h, CopiedTo(b)) /\ Fresh(h, Arrived(b))
      BY <1>2 DEF OneCopy, NotYetSent
    <2>2. Fresh(h, Elements(from_message'[b]))
      <3>1. CASE b = a
        BY <3>1, PublishesEffect, <1>1 DEF OneCopy, AllDistinct
      <3>2. CASE b # a
        BY <1>2, <1>3, <3>2 DEF OneCopy, WaitsOnce
      <3> QED  BY <3>1, <3>2
    <2> QED  BY <1>2, <2>1, <2>2 DEF Fresh, Arrived
  <1>5. ASSUME NEW b \in Agent
        PROVE  \A x \in Arrived(b)' : x \in Arrived(b) \/ (b = a /\ x = s)
    BY <1>2, <1>3 DEF Arrived
  <1>6. AllDistinct'
    <2> SUFFICES ASSUME NEW b \in Agent
                 PROVE  /\ Distinct(from_message'[b]) /\ Distinct(to_core'[b])
                        /\ Distinct(to_server'[b]) /\ Distinct(messages'[b])
      BY DEF AllDistinct
    <2>1. /\ Distinct(from_message[b]) /\ Distinct(to_core[b])
          /\ Distinct(to_server[b]) /\ Distinct(messages[b])
      BY DEF OneCopy, AllDistinct
    <2> QED  BY <1>1, <1>2, <1>4, <2>1, PublishesEffect
  <1>7. WaitsOnce'
    BY <1>3 DEF OneCopy, WaitsOnce, Fresh
  <1>8. NotYetSent'
    BY <1>3, <1>4, <1>5 DEF OneCopy, NotYetSent, Fresh
  <1>9. CopiedOnce'
    BY <1>3, <1>4 DEF OneCopy, CopiedOnce, Fresh
  <1>10. NotYetArrived'
    <2> SUFFICES ASSUME NEW b \in Agent, NEW x \in CopiedTo(b)', NEW y \in Arrived(b)'
                 PROVE  Key(x) # Key(y)
      BY DEF NotYetArrived, Fresh
    <2>1. CASE x \in CopiedTo(b) /\ y \in Arrived(b)
      BY <2>1 DEF OneCopy, NotYetArrived, Fresh
    <2>2. CASE x = s /\ b # a
      BY <1>4, <1>5, <2>2 DEF Fresh
    <2>3. CASE x \in CopiedTo(b) /\ y = s
      BY <1>4, <2>3 DEF Fresh
    <2> QED  BY <1>3, <1>5, <2>1, <2>2, <2>3
  <1>11. NotYetStored'
    BY <1>2, <1>3, <1>4 DEF OneCopy, NotYetStored, Fresh
  <1>12. NotYetAnswered'
    <2> SUFFICES ASSUME NEW q \in Message, NEW r \in Message, NEW b \in Agent,
                        q.kind = "request", q.to = b, Coming(q, b)',
                        IsAnswer(r), Present(r)'
                 PROVE  r.number # q.number
      BY DEF NotYetAnswered
    <2>1. \E x \in Message : IsAnswer(x) /\ x.number = r.number /\ Present(x)
      <3>1. r = s \/ Present(r)
        BY <1>3, <1>5 DEF Present
      <3>2. Present(h)
        BY <1>2 DEF Present
      <3>3. IsAnswer(s) => IsAnswer(h)
        BY <1>2 DEF IsAnswer
      <3> QED  BY <1>2, <3>1, <3>2, <3>3
    <2>2. \E x \in Message : x.kind = "request" /\ x.to = b /\ x.number = q.number /\ Coming(x, b)
      <3>1. q = s \/ Coming(q, b)
        BY <1>3 DEF Coming
      <3>2. Coming(h, b)
        BY <1>2 DEF Coming
      <3> QED  BY <1>2, <3>1, <3>2
    <2> QED  BY <2>1, <2>2 DEF NotYetAnswered
  <1> QED  BY <1>6, <1>7, <1>8, <1>9, <1>10, <1>11, <1>12 DEF OneCopy

LEMMA OneCopyArrives ==
  ASSUME TInv, OneCopy, NotYetAnswered, NEW copy \in air, Arrives(copy)
  PROVE  OneCopy' /\ NotYetAnswered'
  <1>1. copy.msg \in CopiedTo(copy.to) /\ copy.to \in Agent /\ copy.msg \in Message
        /\ UNCHANGED <<from_message, messages>>
    <2>1. copy.to \in Agent
      BY DEF TInv, ChannelTypes
    <2> QED  BY <2>1, ArrivesEffect
  <1>2. PICK m \in Message, a \in Agent : m = copy.msg /\ a = copy.to
    BY <1>1
  <1>3. ASSUME NEW b \in Agent
        PROVE  /\ CopiedTo(b)' \subseteq CopiedTo(b)
               /\ b = a => m \notin CopiedTo(b)'
               /\ b # a => to_core'[b] = to_core[b] /\ to_server'[b] = to_server[b]
               /\ \A x \in Elements(to_core'[b]) : x = m \/ x \in Elements(to_core[b])
               /\ \A x \in Elements(to_server'[b]) : x = m \/ x \in Elements(to_server[b])
               /\ Distinct(to_core[b]) /\ Fresh(m, Elements(to_core[b])) => Distinct(to_core'[b])
               /\ Distinct(to_server[b]) /\ Fresh(m, Elements(to_server[b])) => Distinct(to_server'[b])
    BY <1>2, ArrivesEffect
  <1>4. m \in CopiedTo(a)
    BY <1>1, <1>2
  <1>5. /\ Fresh(m, Arrived(a)) /\ Fresh(m, Elements(to_core[a]))
        /\ Fresh(m, Elements(to_server[a])) /\ Fresh(m, Elements(messages[a]))
    BY <1>4 DEF OneCopy, NotYetArrived, Fresh, Arrived
  <1>6. ASSUME NEW b \in Agent
        PROVE  \A x \in Arrived(b)' : x \in Arrived(b) \/ (b = a /\ x = m)
    BY <1>1, <1>3 DEF Arrived
  <1>7. AllDistinct'
    BY <1>1, <1>3, <1>5 DEF OneCopy, AllDistinct
  <1>8. WaitsOnce'
    BY <1>1 DEF OneCopy, WaitsOnce
  <1>9. NotYetSent'
    <2>1. \A b \in Agent : \A x \in Elements(from_message[b]) : Key(x) # Key(m)
      BY <1>4 DEF OneCopy, NotYetSent, Fresh
    <2> QED  BY <1>1, <1>3, <1>6, <2>1 DEF OneCopy, NotYetSent, Fresh
  <1>10. CopiedOnce'
    BY <1>3 DEF OneCopy, CopiedOnce
  <1>11. NotYetArrived'
    <2>1. \A x \in CopiedTo(a)' : Key(x) # Key(m)
      BY <1>3, <1>4 DEF OneCopy, CopiedOnce
    <2> QED  BY <1>3, <1>6, <2>1 DEF OneCopy, NotYetArrived, Fresh
  <1>12. NotYetStored'
    BY <1>1, <1>3, <1>5 DEF OneCopy, NotYetStored, Fresh
  <1>13. NotYetAnswered'
    <2> SUFFICES ASSUME NEW q \in Message, NEW r \in Message, NEW b \in Agent,
                        q.kind = "request", q.to = b, Coming(q, b)',
                        IsAnswer(r), Present(r)'
                 PROVE  r.number # q.number
      BY DEF NotYetAnswered
    <2>1. Present(r)
      BY <1>1, <1>3, <1>4, <1>6 DEF Present
    <2>2. Coming(q, b)
      BY <1>1, <1>3, <1>4 DEF Coming
    <2> QED  BY <2>1, <2>2 DEF NotYetAnswered
  <1> QED  BY <1>7, <1>8, <1>9, <1>10, <1>11, <1>12, <1>13 DEF OneCopy

LEMMA OneCopyStores ==
  ASSUME TInv, OneCopy, NotYetAnswered, NEW a \in Agent, NEW h \in Message, Stores(a, h)
  PROVE  OneCopy' /\ NotYetAnswered'
  <1>1. /\ h \in Elements(to_server[a])
        /\ UNCHANGED <<from_message, to_core>>
    BY StoresEffect
  <1>2. ASSUME NEW b \in Agent
        PROVE  /\ b # a => to_server'[b] = to_server[b] /\ messages'[b] = messages[b]
               /\ Elements(to_server'[b]) \subseteq Elements(to_server[b])
               /\ Distinct(to_server[b]) =>
                    Distinct(to_server'[b]) /\ (b = a => Fresh(h, Elements(to_server'[b])))
               /\ \A x \in Elements(messages'[b]) : x = h \/ x \in Elements(messages[b])
               /\ Distinct(messages[b]) /\ Fresh(h, Elements(messages[b])) => Distinct(messages'[b])
               /\ CopiedTo(b)' = CopiedTo(b) /\ Arrived(b)' \subseteq Arrived(b)
    BY StoresEffect
  <1>3. Fresh(h, Elements(messages[a]))
    BY <1>1 DEF OneCopy, NotYetStored
  <1>4. AllDistinct'
    BY <1>1, <1>2, <1>3 DEF OneCopy, AllDistinct
  <1>5. WaitsOnce'
    BY <1>1 DEF OneCopy, WaitsOnce
  <1>6. NotYetSent'
    BY <1>1, <1>2 DEF OneCopy, NotYetSent, Fresh
  <1>7. CopiedOnce'
    BY <1>2 DEF OneCopy, CopiedOnce
  <1>8. NotYetArrived'
    BY <1>2 DEF OneCopy, NotYetArrived, Fresh
  <1>9. NotYetStored'
    <2>1. Fresh(h, Elements(to_server'[a]))
      BY <1>2 DEF OneCopy, AllDistinct
    <2> QED  BY <1>2, <2>1 DEF OneCopy, NotYetStored, Fresh
  <1>10. NotYetAnswered'
    BY <1>1, <1>2 DEF NotYetAnswered, Coming, Present
  <1> QED  BY <1>4, <1>5, <1>6, <1>7, <1>8, <1>9, <1>10 DEF OneCopy

LEMMA OneCopyStep ==
  ASSUME TInv, TInv', Subscribed, Origin, OneCopy, NotYetAnswered, [Next]_vars
  PROVE  OneCopy' /\ NotYetAnswered'
  BY ChannelSteps, OneCopyLess, OneCopyNew, OneCopyAnswers, OneCopyPublishes, OneCopyArrives,
     OneCopyStores
-----------------------------------------------------------------------------
(* What connections get. *)

\* What a connection got is for one of its ids, and it is what it says it is.
Addressed ==
  /\ \A c \in Conn : conn[c].state = "new" => Elements(Received(c)) = {}
  /\ \A c \in Conn : \A m \in Elements(Received(c)) : Recipient(m) \in Ids[c] /\ Genuine(m)

\* The pairs of an earlier and a later element.
Before(s) ==
  {r \in Message \X Message : \E i, j \in 1 .. Len(s) : i < j /\ r[1] = s[i] /\ r[2] = s[j]}

\* No connection gets a message twice and no two connections of an agent get
\* the same one; and while the agent runs, what a connection got is, in this
\* order, among the messages that the server was given.
GotOnce == \A c \in Conn : Distinct(Received(c))

GotAlone ==
  \A c, d \in Conn :
    c # d /\ conn[c].agent = conn[d].agent /\ conn[c].agent # Nobody =>
      \A m \in Elements(Received(c)) : Fresh(m, Elements(Received(d)))

GotStored ==
  \A c \in Conn, a \in Agent :
    conn[c].agent = a /\ up[a] => /\ Elements(Received(c)) \subseteq Elements(messages[a])
                                  /\ Chain(Received(c), Before(messages[a]))

Handed == GotOnce /\ GotAlone /\ GotStored

LEMMA ReceivedType ==
  ASSUME TInv, NEW c \in Conn
  PROVE  /\ conn[c].got \in Seq(Message) /\ conn[c].queue \in Seq(Message)
         /\ Len(conn[c].queue) <= SubscriberCap
         /\ Received(c) \in Seq(Message)
         /\ Elements(Received(c)) \subseteq Message
  <1>1. /\ conn[c].got \in Seq(Message) /\ conn[c].queue \in Seq(Message)
        /\ Len(conn[c].queue) <= SubscriberCap
    BY DEF TInv, ConnectionTypes, Connection
  <1>2. Received(c) \in Seq(Message)
    BY <1>1, ConcatEntries DEF Received
  <1> QED  BY <1>1, <1>2, ElementsType

\* A connection that keeps what it got, or loses what waited for it.
LEMMA Shrinks ==
  ASSUME TInv, NEW c \in Conn, Received(c)' = Received(c) \/ Received(c)' = conn[c].got
  PROVE  /\ Elements(Received(c)') \subseteq Elements(Received(c))
         /\ \A R : Chain(Received(c), R) => Chain(Received(c)', R)
  <1>1. conn[c].got \in Seq(Message) /\ conn[c].queue \in Seq(Message)
    BY ReceivedType
  <1>2. Elements(conn[c].got) \subseteq Elements(Received(c))
    BY <1>1, ConcatElements DEF Received
  <1>3. ASSUME NEW R, Chain(Received(c), R)
        PROVE  Chain(conn[c].got, R)
    BY <1>1, <1>3, ConcatChain DEF Received
  <1> QED  BY <1>2, <1>3

\* A connection whose channel is sent a message.
LEMMA Grows ==
  ASSUME TInv, NEW c \in Conn, NEW m \in Message,
         Received(c)' = conn[c].got \o Send(conn[c].queue, m, SubscriberCap)
  PROVE  /\ \A x \in Elements(Received(c)') : x = m \/ x \in Elements(Received(c))
         /\ \A R : Chain(Received(c), R) /\ (\A x \in Elements(Received(c)) : <<x, m>> \in R)
                   => Chain(Received(c)', R)
  <1> DEFINE got == conn[c].got
             queue == conn[c].queue
             sent == Send(queue, m, SubscriberCap)
  <1>1. /\ got \in Seq(Message) /\ queue \in Seq(Message) /\ Len(queue) <= SubscriberCap
        /\ SubscriberCap \in Nat \ {0}
    BY ReceivedType, BusAssumption DEF BusAssumption
  <1>2. sent \in Seq(Message) /\ Elements(sent) \subseteq Elements(queue) \cup {m}
    BY <1>1, SendRing
  <1>3. Elements(Received(c)) = Elements(got) \cup Elements(queue)
    BY <1>1, ConcatElements DEF Received
  <1>4. Elements(got \o sent) = Elements(got) \cup Elements(sent)
    BY <1>1, <1>2, ConcatElements
  <1>5. ASSUME NEW R, Chain(Received(c), R), \A x \in Elements(Received(c)) : <<x, m>> \in R
        PROVE  Chain(Received(c)', R)
    <2>1. /\ Chain(got, R) /\ Chain(queue, R)
          /\ \A x \in Elements(got), y \in Elements(queue) : <<x, y>> \in R
      BY <1>1, <1>5, ConcatChain DEF Received
    <2>2. Chain(sent, R)
      BY <1>1, <1>3, <1>5, <2>1, ChainSend
    <2>3. \A x \in Elements(got), y \in Elements(sent) : <<x, y>> \in R
      BY <1>2, <1>3, <1>5, <2>1
    <2> QED  BY <1>1, <1>2, <2>1, <2>2, <2>3, ConcatChain
  <1> QED  BY <1>2, <1>3, <1>4, <1>5

LEMMA EmptyChain == \A s, R : Elements(s) = {} => Chain(s, R)
  BY DEF Elements, Chain


\* A step in which no server is given a message.
LEMMA HandedShrinks ==
  ASSUME TInv, TInv', Counting, Addressed, Handed,
         \A c \in Conn : Received(c)' = Received(c) \/ Received(c)' = conn[c].got,
         \A c \in Conn : conn'[c].agent = conn[c].agent \/ Elements(Received(c)) = {},
         \A c \in Conn : conn'[c].state = "new" => conn[c].state = "new",
         \A a \in Agent : up'[a] => up[a] /\ messages'[a] = messages[a]
  PROVE  Addressed' /\ Handed'
  <1>1. ASSUME NEW c \in Conn
        PROVE  /\ Elements(Received(c)') \subseteq Elements(Received(c))
               /\ \A R : Chain(Received(c), R) => Chain(Received(c)', R)
               /\ Elements(Received(c)) \subseteq Message
    BY Shrinks, ReceivedType
  <1>2. Addressed'
    <2>1. ASSUME NEW c \in Conn, conn'[c].state = "new"
          PROVE  Elements(Received(c)') = {}
      BY <1>1, <2>1 DEF Addressed
    <2>2. ASSUME NEW c \in Conn, NEW m \in Elements(Received(c)')
          PROVE  Recipient(m) \in Ids[c] /\ Genuine(m)'
      BY <1>1, GenuineStays DEF Addressed
    <2> QED  BY <2>1, <2>2 DEF Addressed
  <1>3. GotOnce'
    BY <1>1 DEF Handed, GotOnce, Distinct
  <1>4. GotAlone'
    <2> SUFFICES ASSUME NEW c \in Conn, NEW d \in Conn, c # d, conn'[c].agent = conn'[d].agent,
                        conn'[c].agent # Nobody, NEW x \in Elements(Received(c)'),
                        NEW y \in Elements(Received(d)')
                 PROVE  Key(x) # Key(y)
      BY DEF GotAlone, Fresh
    <2>1. x \in Elements(Received(c)) /\ y \in Elements(Received(d))
      BY <1>1
    <2> QED  BY <2>1 DEF Handed, GotAlone, Fresh
  <1>5. GotStored'
    <2> SUFFICES ASSUME NEW c \in Conn, NEW a \in Agent, conn'[c].agent = a, up'[a]
                 PROVE  /\ Elements(Received(c)') \subseteq Elements(messages'[a])
                        /\ Chain(Received(c)', Before(messages'[a]))
      BY DEF GotStored, Before
    <2>1. up[a] /\ messages'[a] = messages[a]
      OBVIOUS
    <2>2. CASE Elements(Received(c)) = {}
      BY <1>1, <2>2, EmptyChain
    <2>3. CASE conn'[c].agent = conn[c].agent
      BY <1>1, <2>1, <2>3 DEF Handed, GotStored
    <2> QED  BY <2>2, <2>3
  <1> QED  BY <1>2, <1>3, <1>4, <1>5 DEF Handed

LEMMA BeforeAppend ==
  ASSUME NEW s \in Seq(Message), NEW m \in Message
  PROVE  /\ Before(s) \subseteq Before(Append(s, m))
         /\ \A x \in Elements(s) : <<x, m>> \in Before(Append(s, m))
  <1>1. /\ Len(Append(s, m)) = Len(s) + 1 /\ Len(s) \in Nat
        /\ \A i \in 1 .. Len(s) : Append(s, m)[i] = s[i] /\ s[i] \in Message
        /\ Append(s, m)[Len(s) + 1] = m
    BY AppendEntries
  <1>2. ASSUME NEW i \in 1 .. Len(s)
        PROVE  i \in 1 .. Len(Append(s, m))
    BY <1>1
  <1>3. Before(s) \subseteq Before(Append(s, m))
    <2> SUFFICES ASSUME NEW r \in Before(s)
                 PROVE  r \in Before(Append(s, m))
      OBVIOUS
    <2>1. PICK i \in 1 .. Len(s), j \in 1 .. Len(s) : i < j /\ r[1] = s[i] /\ r[2] = s[j]
      BY DEF Before
    <2>2. /\ i \in 1 .. Len(Append(s, m)) /\ j \in 1 .. Len(Append(s, m))
          /\ r[1] = Append(s, m)[i] /\ r[2] = Append(s, m)[j]
      BY <1>1, <1>2, <2>1
    <2> QED  BY <2>1, <2>2 DEF Before
  <1>4. ASSUME NEW x \in Elements(s)
        PROVE  <<x, m>> \in Before(Append(s, m))
    <2>1. PICK i \in 1 .. Len(s) : x = s[i]
      BY DEF Elements
    <2>2. /\ i \in 1 .. Len(Append(s, m)) /\ Len(s) + 1 \in 1 .. Len(Append(s, m))
          /\ i < Len(s) + 1 /\ x = Append(s, m)[i] /\ x \in Message
      BY <1>1, <1>2, <2>1
    <2>3. <<x, m>> \in Message \X Message /\ <<x, m>>[1] = x /\ <<x, m>>[2] = m
      BY <2>2
    <2> QED  BY <1>1, <2>2, <2>3 DEF Before
  <1> QED  BY <1>3, <1>4

LEMMA ChainWidens ==
  ASSUME NEW s, NEW R, NEW Q, R \subseteq Q, Chain(s, R)
  PROVE  Chain(s, Q)
  BY DEF Chain

\* The server's loop gives a message that is new to all connections of its
\* agent to at most one of them.
LEMMA HandedGrows ==
  ASSUME TInv, TInv', Counting, Subscribed, Origin, OneCopy, Addressed, Handed,
         NEW a \in Agent, ServerReceives(a)
  PROVE  Addressed' /\ Handed'
  <1> DEFINE h == Head(to_server[a])
  <1>1. /\ to_server[a] # <<>> /\ h \in Message
        /\ to_server' = [to_server EXCEPT ![a] = Tail(@)]
        /\ messages' = [messages EXCEPT ![a] = Append(@, h)]
        /\ \/ conn' = conn
           \/ \E c \in Conn : /\ Recipient(h) \in PeerId /\ subscribers[a][Recipient(h)] = c
                              /\ IsOpen(c)
                              /\ conn' = [conn EXCEPT ![c].queue = Send(@, h, SubscriberCap)]
        /\ UNCHANGED <<up, from_message, to_core, subscribers, air, countVars>>
    BY StoreStep
  <1>2. PICK m \in Message : m = h
    BY <1>1
  <1>3. up[a]
    BY DEF ServerReceives
  <1>4. m \in Elements(to_server[a])
    <2>1. to_server[a] \in Seq(Message)
      BY ChannelElements
    <2> QED  BY <1>1, <1>2, <2>1, TailElements
  <1>5. Genuine(m)' /\ Fresh(m, Elements(messages[a]))
    BY <1>4, GenuineStays DEF Origin, OneCopy, NotYetStored
  <1>6. /\ messages[a] \in Seq(Message) /\ messages'[a] = Append(messages[a], m)
        /\ \A b \in Agent : b # a => messages'[b] = messages[b]
    BY <1>1, <1>2, ChannelElements
  <1>7. /\ Before(messages[a]) \subseteq Before(messages'[a])
        /\ \A x \in Elements(messages[a]) : <<x, m>> \in Before(messages'[a])
        /\ Elements(messages'[a]) = Elements(messages[a]) \cup {m}
    BY <1>6, BeforeAppend, AppendElements
  <1>8. ASSUME NEW c \in Conn
        PROVE  /\ conn'[c].agent = conn[c].agent /\ conn'[c].state = conn[c].state
               /\ conn'[c].got = conn[c].got
    <2>1. CASE conn' = conn
      BY <2>1
    <2>2. ASSUME NEW d \in Conn, conn' = [conn EXCEPT ![d].queue = Send(@, h, SubscriberCap)]
          PROVE  /\ conn'[c].agent = conn[c].agent /\ conn'[c].state = conn[c].state
                 /\ conn'[c].got = conn[c].got
      <3>1. conn \in [Conn -> Connection] /\ conn[c] \in Connection /\ conn[d] \in Connection
        BY DEF TInv, ConnectionTypes
      <3> QED  BY <2>2, <3>1 DEF Connection
    <2> QED  BY <1>1, <2>1, <2>2
  <1>9. ASSUME NEW c \in Conn, conn[c].agent = a
        PROVE  /\ Elements(Received(c)) \subseteq Elements(messages[a])
               /\ Chain(Received(c), Before(messages[a]))
               /\ Chain(Received(c), Before(messages'[a]))
               /\ Fresh(m, Elements(Received(c)))
    <2>1. /\ Elements(Received(c)) \subseteq Elements(messages[a])
          /\ Chain(Received(c), Before(messages[a]))
      BY <1>3, <1>9 DEF Handed, GotStored
    <2> QED  BY <1>5, <1>7, <2>1, ChainWidens DEF Fresh
  <1>10. ASSUME NEW c \in Conn
         PROVE  /\ Elements(Received(c)) \subseteq Message
                /\ \A x \in Elements(Received(c)) : Recipient(x) \in Ids[c] /\ Genuine(x)'
    BY ReceivedType, GenuineStays DEF Addressed
  <1>11. ASSUME NEW c \in Conn, Received(c)' = Received(c)
         PROVE  /\ conn'[c].state = "new" => Elements(Received(c)') = {}
                /\ \A x \in Elements(Received(c)') : Recipient(x) \in Ids[c] /\ Genuine(x)'
                /\ Distinct(Received(c)')
                /\ \A b \in Agent : conn'[c].agent = b /\ up'[b] =>
                     /\ Elements(Received(c)') \subseteq Elements(messages'[b])
                     /\ Chain(Received(c)', Before(messages'[b]))
    <2>1. /\ conn'[c].state = "new" => Elements(Received(c)') = {}
          /\ \A x \in Elements(Received(c)') : Recipient(x) \in Ids[c] /\ Genuine(x)'
          /\ Distinct(Received(c)')
      BY <1>8, <1>10, <1>11 DEF Addressed, Handed, GotOnce
    <2>2. ASSUME NEW b \in Agent, conn'[c].agent = b, up'[b]
          PROVE  /\ Elements(Received(c)') \subseteq Elements(messages'[b])
                 /\ Chain(Received(c)', Before(messages'[b]))
      <3>1. CASE b = a
        BY <1>7, <1>8, <1>9, <1>11, <2>2, <3>1
      <3>2. CASE b # a
        BY <1>1, <1>6, <1>8, <1>11, <2>2, <3>2 DEF Handed, GotStored
      <3> QED  BY <3>1, <3>2
    <2> QED  BY <2>1, <2>2
  <1>12. CASE conn' = conn
    <2>1. \A c \in Conn : Received(c)' = Received(c)
      BY <1>12 DEF Received
    <2>2. Addressed'
      BY <1>11, <2>1 DEF Addressed
    <2>3. GotOnce'
      BY <1>11, <2>1 DEF GotOnce
    <2>4. GotAlone'
      BY <1>12, <2>1 DEF Handed, GotAlone
    <2>5. GotStored'
      BY <1>11, <2>1 DEF GotStored, Before
    <2> QED  BY <2>2, <2>3, <2>4, <2>5 DEF Handed
  <1>13. ASSUME NEW c \in Conn, Recipient(m) \in PeerId, subscribers[a][Recipient(m)] = c, IsOpen(c),
                conn' = [conn EXCEPT ![c].queue = Send(@, m, SubscriberCap)]
         PROVE  Addressed' /\ Handed'
    <2>1. conn[c].agent = a /\ Recipient(m) \in Ids[c] /\ conn[c].state # "new"
      <3>1. c # NoConn
        BY QueueAssumption DEF QueueAssumption
      <3> QED  BY <1>13, <3>1 DEF Subscribed, IsOpen
    <2>2. \A d \in Conn : d # c => Received(d)' = Received(d)
      BY <1>13 DEF TInv, ConnectionTypes, Received
    <2>3. Received(c)' = conn[c].got \o Send(conn[c].queue, m, SubscriberCap)
      <3>1. conn \in [Conn -> Connection] /\ conn[c] \in Connection
        BY DEF TInv, ConnectionTypes
      <3>2. conn'[c].queue = Send(conn[c].queue, m, SubscriberCap) /\ conn'[c].got = conn[c].got
        BY <1>13, <3>1 DEF Connection
      <3> QED  BY <3>2 DEF Received
    <2>4. /\ \A x \in Elements(Received(c)') : x = m \/ x \in Elements(Received(c))
          /\ \A R : Chain(Received(c), R) /\ (\A x \in Elements(Received(c)) : <<x, m>> \in R)
                    => Chain(Received(c)', R)
      BY <2>3, Grows
    <2>5. Distinct(Received(c)')
      <3>1. \A x \in Elements(Received(c)) : <<x, m>> \in Different
        BY <1>9, <1>10, <2>1 DEF Fresh, Different
      <3> QED  BY <2>4, <3>1 DEF Distinct, Handed, GotOnce
    <2>6. /\ Elements(Received(c)') \subseteq Elements(messages'[a])
          /\ Chain(Received(c)', Before(messages'[a]))
      <3>1. \A x \in Elements(Received(c)) : <<x, m>> \in Before(messages'[a])
        BY <1>7, <1>9, <2>1
      <3> QED  BY <1>7, <1>9, <2>1, <2>4, <3>1
    <2>7. Addressed'
      <3>1. ASSUME NEW d \in Conn, conn'[d].state = "new"
            PROVE  Elements(Received(d)') = {}
        BY <1>8, <1>11, <2>1, <2>2, <3>1
      <3>2. ASSUME NEW d \in Conn, NEW x \in Elements(Received(d)')
            PROVE  Recipient(x) \in Ids[d] /\ Genuine(x)'
        <4>1. CASE d = c
          BY <1>5, <1>10, <2>1, <2>4, <4>1
        <4>2. CASE d # c
          BY <1>11, <2>2, <4>2
        <4> QED  BY <4>1, <4>2
      <3> QED  BY <3>1, <3>2 DEF Addressed
    <2>8. GotOnce'
      BY <1>11, <2>2, <2>5 DEF GotOnce
    <2>9. GotAlone'
      <3> SUFFICES ASSUME NEW d \in Conn, NEW e \in Conn, d # e, conn[d].agent = conn[e].agent,
                          conn[d].agent # Nobody, NEW x \in Elements(Received(d)'),
                          NEW y \in Elements(Received(e)')
                   PROVE  Key(x) # Key(y)
        BY <1>8 DEF GotAlone, Fresh
      <3>1. CASE x \in Elements(Received(d)) /\ y \in Elements(Received(e))
        BY <3>1 DEF Handed, GotAlone, Fresh
      <3>2. CASE d = c /\ x = m
        BY <1>9, <2>1, <2>2, <3>2 DEF Fresh
      <3>3. CASE e = c /\ y = m
        BY <1>9, <2>1, <2>2, <3>3 DEF Fresh
      <3> QED  BY <2>2, <2>4, <3>1, <3>2, <3>3
    <2>10. GotStored'
      <3> SUFFICES ASSUME NEW d \in Conn, NEW b \in Agent, conn'[d].agent = b, up'[b]
                   PROVE  /\ Elements(Received(d)') \subseteq Elements(messages'[b])
                          /\ Chain(Received(d)', Before(messages'[b]))
        BY DEF GotStored, Before
      <3>1. CASE d = c
        BY <1>8, <2>1, <2>6, <3>1
      <3>2. CASE d # c
        BY <1>11, <2>2, <3>2
      <3> QED  BY <3>1, <3>2
    <2> QED  BY <2>7, <2>8, <2>9, <2>10 DEF Handed
  <1> QED  BY <1>1, <1>2, <1>12, <1>13

LEMMA CountingStep ==
  ASSUME TInv, TInv', Subscribed, [Next]_vars
  PROVE  Counting
  BY ChannelSteps, SameCount DEF Less, New, Answers, Publishes, Stores, Arrives

\* Steps that leave connections and servers alone.
LEMMA ConnQuiet ==
  ASSUME TInv, TInv', Counting, Subscribed, Addressed, Handed,
         UNCHANGED <<up, messages, subscribers, conn>>
  PROVE  Subscribed' /\ Addressed' /\ Handed'
  <1>1. Subscribed'
    BY DEF Subscribed, IsOpen
  <1>2. \A c \in Conn : Received(c)' = Received(c)
    BY DEF Received
  <1> QED  BY <1>1, <1>2, HandedShrinks

\* A step of one connection.
LEMMA ConnUpdate ==
  ASSUME TInv, TInv', Counting, Subscribed, Addressed, Handed, NEW c \in Conn,
         NEW r \in Connection, conn' = [conn EXCEPT ![c] = r],
         r.got \o r.queue \in {Received(c), conn[c].got},
         \/ r.agent = conn[c].agent /\ r.state \in {conn[c].state, "closed"} /\ conn[c].state # "new"
         \/ /\ conn[c].state = "new" /\ r.state = "open"
            /\ r.agent \in Agent /\ up[r.agent],
         UNCHANGED <<up, messages, subscribers>>
  PROVE  Subscribed' /\ Addressed' /\ Handed'
  <1>1. /\ conn'[c] = r /\ \A d \in Conn : d # c => conn'[d] = conn[d]
        /\ conn \in [Conn -> Connection]
    BY DEF TInv, ConnectionTypes
  <1>2. ASSUME NEW d \in Conn
        PROVE  /\ Received(d)' = Received(d) \/ Received(d)' = conn[d].got
               /\ conn'[d].agent = conn[d].agent \/ Elements(Received(d)) = {}
               /\ conn'[d].state = "new" => conn[d].state = "new"
    <2>1. CASE d = c
      <3>1. Received(c)' = r.got \o r.queue
        BY <1>1 DEF Received
      <3>2. conn[c].state = "new" => Elements(Received(c)) = {}
        BY DEF Addressed
      <3> QED  BY <1>1, <2>1, <3>1, <3>2
    <2>2. CASE d # c
      BY <1>1, <2>2 DEF Received
    <2> QED  BY <2>1, <2>2
  <1>3. Addressed' /\ Handed'
    BY <1>2, HandedShrinks
  <1>4. Nobody \notin Agent
    BY QueueAssumption DEF QueueAssumption, PeerId
  <1>5. Subscribed'
    <2>1. ASSUME NEW d \in Conn
          PROVE  /\ conn'[d].state = "new" <=> conn'[d].agent = Nobody
                 /\ IsOpen(d)' => conn'[d].agent \in Agent /\ up'[conn'[d].agent]
      <3>1. CASE d = c
        BY <1>1, <1>4, <3>1 DEF Subscribed, IsOpen
      <3>2. CASE d # c
        BY <1>1, <3>2 DEF Subscribed, IsOpen
      <3> QED  BY <3>1, <3>2
    <2>2. ASSUME NEW a \in Agent, NEW p \in PeerId, subscribers'[a][p] # NoConn
          PROVE  /\ p \in Ids[subscribers'[a][p]]
                 /\ conn'[subscribers'[a][p]].agent = a
      <3>1. PICK d \in Conn : d = subscribers[a][p]
        BY <2>2 DEF TInv, ConnectionTypes
      <3>2. p \in Ids[d] /\ conn[d].agent = a
        BY <2>2, <3>1 DEF Subscribed
      <3>3. conn'[d].agent = a
        BY <1>1, <1>4, <3>2 DEF Subscribed
      <3> QED  BY <3>1, <3>2, <3>3
    <2> QED  BY <2>1, <2>2 DEF Subscribed
  <1> QED  BY <1>3, <1>5

LEMMA ConnStep ==
  ASSUME TInv, TInv', Counting, Subscribed, Origin, OneCopy, Addressed, Handed, [Next]_vars
  PROVE  Subscribed' /\ Addressed' /\ Handed'
  <1>1. ASSUME NEW c \in Conn, NEW a \in Agent, Connect(c, a)
        PROVE  Subscribed' /\ Addressed' /\ Handed'
    <2>1. conn[c] \in Connection /\ conn \in [Conn -> Connection]
      BY DEF TInv, ConnectionTypes
    <2> DEFINE s == [conn[c] EXCEPT !.state = "open", !.agent = a]
    <2>2. /\ s \in Connection /\ s.got = conn[c].got /\ s.queue = conn[c].queue
          /\ s.state = "open" /\ s.agent = a
      BY <2>1 DEF Connection
    <2>3. conn' = [conn EXCEPT ![c] = s]
      BY <1>1, <2>1 DEF Connect
    <2> HIDE DEF s
    <2>4. PICK r \in Connection : r = s
      BY <2>2
    <2>5. r.got \o r.queue = Received(c)
      BY <2>2, <2>4 DEF Received
    <2> QED  BY <1>1, <2>2, <2>3, <2>4, <2>5, ConnUpdate DEF Connect, agentVars
  <1>2. ASSUME NEW c \in Conn, NEW p \in PeerId, Subscribe(c, p)
        PROVE  Subscribed' /\ Addressed' /\ Handed'
    <2>1. UNCHANGED <<up, messages, conn>>
      BY <1>2 DEF Subscribe
    <2>2. \A d \in Conn : Received(d)' = Received(d)
      BY <2>1 DEF Received
    <2>3. Addressed' /\ Handed'
      BY <2>1, <2>2, HandedShrinks
    <2>4. IsOpen(c) /\ p \in Ids[c] /\ conn[c].agent \in Agent
      BY <1>2 DEF Subscribe, Subscribed
    <2>5. ASSUME NEW a \in Agent, NEW q \in PeerId
          PROVE  subscribers'[a][q] =
                   IF a = conn[c].agent /\ q = p THEN c ELSE subscribers[a][q]
      BY <1>2, <2>4 DEF Subscribe, AddSubscriber, TInv, ConnectionTypes
    <2>6. Subscribed'
      BY <2>1, <2>4, <2>5 DEF Subscribed, IsOpen
    <2> QED  BY <2>3, <2>6
  <1>3. ASSUME NEW c \in Conn, Disconnect(c)
        PROVE  Subscribed' /\ Addressed' /\ Handed'
    <2>1. conn[c] \in Connection /\ conn \in [Conn -> Connection]
      BY DEF TInv, ConnectionTypes
    <2> DEFINE s == [conn[c] EXCEPT !.state = "closed", !.queue = <<>>]
    <2>2. /\ s \in Connection /\ s.got = conn[c].got /\ s.queue = <<>>
          /\ s.state = "closed" /\ s.agent = conn[c].agent
      BY <2>1, ClosedType DEF Connection
    <2>3. conn' = [conn EXCEPT ![c] = s]
      BY <1>3, <2>1 DEF Disconnect
    <2> HIDE DEF s
    <2>4. PICK r \in Connection : r = s
      BY <2>2
    <2>5. r.got \o r.queue = conn[c].got
      BY <2>1, <2>2, <2>4 DEF Connection
    <2> QED  BY <1>3, <2>2, <2>3, <2>4, <2>5, ConnUpdate DEF Disconnect, IsOpen, agentVars
  <1>4. ASSUME NEW c \in Conn, ConnectionSends(c)
        PROVE  Subscribed' /\ Addressed' /\ Handed'
    <2>1. conn[c] \in Connection /\ conn \in [Conn -> Connection]
      BY DEF TInv, ConnectionTypes
    <2> DEFINE s == [conn[c] EXCEPT !.queue = Tail(conn[c].queue),
                                    !.got = Append(conn[c].got, Head(conn[c].queue))]
    <2>2. conn[c].queue \in Seq(Message) /\ conn[c].got \in Seq(Message) /\ conn[c].queue # <<>>
      BY <1>4, <2>1 DEF Connection, ConnectionSends
    <2>3. /\ Tail(conn[c].queue) \in Seq(Message)
          /\ Append(conn[c].got, Head(conn[c].queue)) \in Seq(Message)
      BY <2>2, HeadTail
    <2>4. /\ s \in Connection /\ s.got = Append(conn[c].got, Head(conn[c].queue))
          /\ s.queue = Tail(conn[c].queue)
          /\ s.state = conn[c].state /\ s.agent = conn[c].agent
      BY <2>1, <2>3 DEF Connection
    <2>5. conn' = [conn EXCEPT ![c] = s]
      BY <1>4, <2>1 DEF ConnectionSends
    <2> HIDE DEF s
    <2>6. PICK r \in Connection : r = s
      BY <2>4
    <2>7. r.got \o r.queue = Received(c)
      BY <2>2, <2>4, <2>6, MoveHead DEF Received
    <2> QED  BY <1>4, <2>4, <2>5, <2>6, <2>7, ConnUpdate DEF ConnectionSends, IsOpen, agentVars
  <1>5. ASSUME NEW a \in Agent, ServerReceives(a)
        PROVE  Subscribed' /\ Addressed' /\ Handed'
    <2> DEFINE h == Head(to_server[a])
    <2>1. /\ h \in Message /\ UNCHANGED <<up, subscribers>>
          /\ \/ conn' = conn
             \/ \E c \in Conn : conn' = [conn EXCEPT ![c].queue = Send(@, h, SubscriberCap)]
      BY <1>5, StoreStep
    <2> HIDE DEF h
    <2>2. ASSUME NEW d \in Conn
          PROVE  conn'[d].agent = conn[d].agent /\ conn'[d].state = conn[d].state
      <3>1. conn \in [Conn -> Connection] /\ conn[d] \in Connection
        BY DEF TInv, ConnectionTypes
      <3>2. ASSUME NEW c \in Conn, conn' = [conn EXCEPT ![c].queue = Send(@, h, SubscriberCap)]
            PROVE  conn'[d].agent = conn[d].agent /\ conn'[d].state = conn[d].state
        BY <3>1, <3>2 DEF Connection
      <3> QED  BY <2>1, <3>2
    <2>3. Subscribed'
      <3>1. \A b \in Agent, p \in PeerId : subscribers[b][p] \in Conn \cup {NoConn}
        BY DEF TInv, ConnectionTypes
      <3> QED  BY <2>1, <2>2, <3>1 DEF Subscribed, IsOpen
    <2> QED  BY <1>5, <2>3, HandedGrows
  <1>6. ASSUME NEW a \in Agent, CoreFails(a)
        PROVE  Subscribed' /\ Addressed' /\ Handed'
    <2>1. ASSUME NEW d \in Conn
          PROVE  /\ Received(d)' = Received(d) \/ Received(d)' = conn[d].got
                 /\ conn'[d].agent = conn[d].agent
                 /\ conn[d].agent = a => conn'[d].state = "closed"
                 /\ conn[d].agent # a => conn'[d].state = conn[d].state
      <3>1. conn[d] \in Connection
        BY DEF TInv, ConnectionTypes
      <3>2. conn'[d] = IF conn[d].agent = a
                       THEN [conn[d] EXCEPT !.state = "closed", !.queue = <<>>] ELSE conn[d]
        BY <1>6 DEF CoreFails
      <3>3. CASE conn[d].agent = a
        <4>1. /\ conn'[d].got = conn[d].got /\ conn'[d].queue = <<>>
              /\ conn'[d].state = "closed" /\ conn'[d].agent = conn[d].agent
              /\ conn[d].got \in Seq(Message)
          BY <3>1, <3>2, <3>3 DEF Connection
        <4>2. conn[d].got \o <<>> = conn[d].got
          BY <4>1
        <4> QED  BY <3>3, <4>1, <4>2 DEF Received
      <3>4. CASE conn[d].agent # a
        BY <3>2, <3>4 DEF Received
      <3> QED  BY <3>3, <3>4
    <2>2. /\ up' = [up EXCEPT ![a] = FALSE] /\ messages' = [messages EXCEPT ![a] = <<>>]
          /\ subscribers' = [subscribers EXCEPT ![a] = [p \in PeerId |-> NoConn]]
      BY <1>6 DEF CoreFails
    <2>3. ASSUME NEW b \in Agent, up'[b]
          PROVE  b # a /\ up[b] /\ messages'[b] = messages[b]
      <3>1. up \in [Agent -> BOOLEAN] /\ messages \in [Agent -> Seq(Message)]
        BY DEF TInv, ConnectionTypes, ChannelTypes
      <3>2. b # a
        BY <2>2, <2>3, <3>1
      <3> QED  BY <2>2, <2>3, <3>1, <3>2
    <2>4. ASSUME NEW d \in Conn, conn'[d].state = "new"
          PROVE  conn[d].state = "new"
      BY <2>1, <2>4
    <2>5. Addressed' /\ Handed'
      BY <2>1, <2>3, <2>4, HandedShrinks
    <2>6. Subscribed'
      <3>1. Nobody \notin Agent
        BY QueueAssumption DEF QueueAssumption, PeerId
      <3>2. ASSUME NEW d \in Conn
            PROVE  /\ conn'[d].state = "new" <=> conn'[d].agent = Nobody
                   /\ IsOpen(d)' => conn'[d].agent \in Agent /\ up'[conn'[d].agent]
        <4>1. conn'[d].state = "new" <=> conn'[d].agent = Nobody
          BY <2>1, <3>1 DEF Subscribed
        <4>2. ASSUME IsOpen(d)'
              PROVE  conn'[d].agent \in Agent /\ up'[conn'[d].agent]
          <5>1. conn[d].agent # a /\ conn[d].state = "open"
            BY <2>1, <4>2 DEF IsOpen
          <5>2. conn[d].agent \in Agent /\ up[conn[d].agent]
            BY <5>1 DEF Subscribed, IsOpen
          <5> QED  BY <2>1, <2>2, <5>1, <5>2
        <4> QED  BY <4>1, <4>2
      <3>3. ASSUME NEW b \in Agent, NEW p \in PeerId, subscribers'[b][p] # NoConn
            PROVE  p \in Ids[subscribers'[b][p]] /\ conn'[subscribers'[b][p]].agent = b
        <4>1. subscribers \in [Agent -> [PeerId -> Conn \cup {NoConn}]]
          BY DEF TInv, ConnectionTypes
        <4>2. subscribers'[b][p] = subscribers[b][p]
          BY <2>2, <3>3, <4>1
        <4>3. subscribers[b][p] \in Conn
          BY <3>3, <4>1, <4>2
        <4> QED  BY <2>1, <3>3, <4>2, <4>3 DEF Subscribed
      <3> QED  BY <3>2, <3>3 DEF Subscribed
    <2> QED  BY <2>5, <2>6
  <1>7. ASSUME UNCHANGED <<up, messages, subscribers, conn>>
        PROVE  Subscribed' /\ Addressed' /\ Handed'
    BY <1>7, ConnQuiet
  <1>8. ASSUME NEW c \in Conn, NEW t \in Sending[c], ClientSends(c, t)
        PROVE  UNCHANGED <<up, messages, subscribers, conn>>
    BY <1>8 DEF ClientSends
  <1>9. ASSUME NEW a \in Agent, LibP2pSends(a)
        PROVE  UNCHANGED <<up, messages, subscribers, conn>>
    BY <1>9 DEF LibP2pSends
  <1>10. ASSUME NEW copy \in air, LibP2pReceives(copy) \/ Lose(copy)
         PROVE  UNCHANGED <<up, messages, subscribers, conn>>
    BY <1>10 DEF LibP2pReceives, Lose, agentVars
  <1>11. ASSUME NEW a \in Agent, CoreReceives(a) \/ HandshakeTick(a)
         PROVE  UNCHANGED <<up, messages, subscribers, conn>>
    BY <1>11 DEF CoreReceives, HandshakeTick
  <1>12. ASSUME NEW a \in Agent, NEW p \in Client, MessangerSends(a, p)
         PROVE  UNCHANGED <<up, messages, subscribers, conn>>
    BY <1>12 DEF MessangerSends
  <1>13. CASE UNCHANGED vars
    BY <1>7, <1>13 DEF vars
  <1> QED  BY <1>1, <1>2, <1>3, <1>4, <1>5, <1>6, <1>7, <1>8, <1>9, <1>10, <1>11, <1>12, <1>13
           DEF Next, LibP2pTask, CoreTask, ClientAt
-----------------------------------------------------------------------------
(* The inductive invariant, and what follows from it. *)

BusInv ==
  /\ TInv /\ Subscribed /\ Origin /\ OneCopy /\ NotYetAnswered /\ Addressed /\ Handed

LEMMA BusInit == Init => BusInv
  <1> SUFFICES ASSUME Init
               PROVE  BusInv
    OBVIOUS
  <1>1. TInv
    BY TypeInit
  <1>2. ASSUME NEW a \in Agent
        PROVE  /\ from_message[a] = <<>> /\ to_core[a] = <<>> /\ to_server[a] = <<>>
               /\ messages[a] = <<>>
               /\ CopiedTo(a) = {} /\ Arrived(a) = {} /\ Elements(from_message[a]) = {}
               /\ Elements(to_core[a]) = {} /\ Elements(to_server[a]) = {}
               /\ Elements(messages[a]) = {}
    BY EmptyElements DEF Init, CopiedTo, Arrived
  <1>3. ASSUME NEW c \in Conn
        PROVE  Elements(Received(c)) = {} /\ conn[c].state = "new" /\ conn[c].agent = Nobody
    <2>1. conn[c] = [state |-> "new", agent |-> Nobody, queue |-> <<>>, got |-> <<>>]
      BY DEF Init
    <2>2. Received(c) = <<>>
      BY <2>1 DEF Received
    <2> QED  BY <2>1, <2>2, EmptyElements
  <1>4. Subscribed
    BY <1>3 DEF Subscribed, IsOpen, Init
  <1>5. Origin
    BY <1>2 DEF Origin, Init
  <1>6. OneCopy
    <2>1. AllDistinct
      BY <1>2, EmptyChain, EmptyElements DEF AllDistinct, Distinct
    <2> QED  BY <1>2, <2>1 DEF OneCopy, WaitsOnce, NotYetSent, CopiedOnce, NotYetArrived, NotYetStored
  <1>7. NotYetAnswered
    BY <1>2 DEF NotYetAnswered, Present
  <1>8. Addressed
    BY <1>3 DEF Addressed
  <1>9. Handed
    BY <1>3, EmptyChain DEF Handed, GotOnce, Distinct, GotAlone, GotStored
  <1> QED  BY <1>1, <1>4, <1>5, <1>6, <1>7, <1>8, <1>9 DEF BusInv

LEMMA BusStep == BusInv /\ [Next]_vars => BusInv'
  <1> SUFFICES ASSUME BusInv, [Next]_vars
               PROVE  BusInv'
    OBVIOUS
  <1>1. TInv /\ Subscribed /\ Origin /\ OneCopy /\ NotYetAnswered /\ Addressed /\ Handed
    BY DEF BusInv
  <1>2. TInv'
    BY <1>1, TypeStep
  <1>3. Counting
    BY <1>1, <1>2, CountingStep
  <1>4. Origin'
    BY <1>1, <1>2, OriginStep
  <1>5. OneCopy' /\ NotYetAnswered'
    BY <1>1, <1>2, OneCopyStep
  <1>6. Subscribed' /\ Addressed' /\ Handed'
    BY <1>1, <1>2, <1>3, ConnStep
  <1> QED  BY <1>2, <1>4, <1>5, <1>6 DEF BusInv

\* What holds of the messages under way between the tasks of all agents, and
\* of what connections were handed.
THEOREM BusInvariant == Spec => []BusInv
  <1> QED  BY BusInit, BusStep, PTL DEF Spec

\* The types of the channels, the connections and the counters, and that no
\* broadcast channel holds more than its capacity.
THEOREM TypeCorrect == Spec => []TypeOK
  <1>1. BusInv => TypeOK
    BY TInvTypes DEF BusInv
  <1> QED  BY <1>1, BusInvariant, PTL

LEMMA ReceivedBelongs ==
  ASSUME BusInv
  PROVE  AnswersBelong
  <1>1. TInv /\ Addressed
    BY DEF BusInv
  <1> SUFFICES ASSUME NEW c \in Conn, NEW i \in 1 .. MaxNumber, NEW j \in 1 .. Len(Received(c)),
                      NEW m, m = Received(c)[j]
               PROVE  /\ Recipient(m) \in Ids[c]
                      /\ IsAnswer(m) /\ m.number = i =>
                           /\ i <= Len(asked) /\ asked[i].kind = "request"
                           /\ asked[i].from = m.to /\ asked[i].to = m.signer
                           /\ asked[i].signer \in Authorized
    BY DEF AnswersBelong
  <1>2. m \in Elements(Received(c))
    BY DEF Elements
  <1>3. Recipient(m) \in Ids[c] /\ Genuine(m)
    BY <1>1, <1>2 DEF Addressed
  <1>4. Len(asked) \in Nat
    BY <1>1 DEF TInv, CountTypes
  <1> QED  BY <1>3, <1>4 DEF Genuine, AskedFor, IsAnswer

\* A client gets messages for its own peer ids only, and each response of an
\* agent among them answers a request that names that id as its origin, comes
\* from the agent that was asked, and was given to a key authorised there,
\* whatever clients compose and sign, in whoever's name, and whatever the
\* network loses and the channels overrun: should_process looks at the key
\* that signed, and the subscriptions at the receiver.
THEOREM AnswersBelongHolds == Spec => []AnswersBelong
  <1>1. BusInv => AnswersBelong
    BY ReceivedBelongs
  <1> QED  BY <1>1, BusInvariant, PTL

LEMMA ReceivedOnce ==
  ASSUME BusInv
  PROVE  AnsweredOnce
  <1>1. TInv /\ Subscribed /\ Addressed /\ GotOnce /\ GotAlone
    BY DEF BusInv, Handed
  <1> SUFFICES ASSUME NEW c \in Conn, NEW d \in Conn,
                      NEW i \in 1 .. Len(conn[c].got), NEW j \in 1 .. Len(conn[d].got),
                      IsAnswer(conn[c].got[i]), IsAnswer(conn[d].got[j]),
                      conn[c].got[i].number = conn[d].got[j].number
               PROVE  (c = d /\ i = j) \/ (c # d /\ conn[c].agent # conn[d].agent)
    BY DEF AnsweredOnce
  <1>2. Key(conn[c].got[i]) = Key(conn[d].got[j])
    BY DEF Key, IsAnswer
  <1>3. ASSUME NEW e \in Conn
        PROVE  /\ conn[e].got \in Seq(Message) /\ Distinct(conn[e].got)
               /\ Elements(conn[e].got) \subseteq Elements(Received(e))
    <2>1. conn[e].got \in Seq(Message) /\ conn[e].queue \in Seq(Message)
      BY <1>1, ReceivedType
    <2>2. Chain(Received(e), Different)
      BY <1>1 DEF GotOnce, Distinct
    <2> QED  BY <2>1, <2>2, ConcatChain, ConcatElements DEF Received, Distinct
  <1>4. /\ conn[c].got[i] \in Elements(Received(c)) /\ conn[d].got[j] \in Elements(Received(d))
    BY <1>3 DEF Elements
  <1>5. CASE c = d
    <2>1. ASSUME i < j
          PROVE  FALSE
      <3>1. <<conn[c].got[i], conn[c].got[j]>> \in Different
        BY <1>3, <1>5, <2>1 DEF Distinct, Chain
      <3> QED  BY <1>2, <1>5, <3>1 DEF Different
    <2>2. ASSUME j < i
          PROVE  FALSE
      <3>1. <<conn[c].got[j], conn[c].got[i]>> \in Different
        BY <1>3, <1>5, <2>2 DEF Distinct, Chain
      <3> QED  BY <1>2, <1>5, <3>1 DEF Different
    <2>3. i \in Nat /\ j \in Nat
      BY <1>3
    <2> QED  BY <1>5, <2>1, <2>2, <2>3
  <1>6. CASE c # d
    <2>1. conn[c].agent # Nobody
      BY <1>1, <1>4 DEF Addressed, Subscribed
    <2> QED  BY <1>1, <1>2, <1>4, <1>6, <2>1 DEF GotAlone, Fresh
  <1> QED  BY <1>5, <1>6

\* No two responses to a request reach the clients of an agent, although the
\* agent both forwards its clients' requests to itself and publishes them.
THEOREM AnsweredOnceHolds == Spec => []AnsweredOnce
  <1>1. BusInv => AnsweredOnce
    BY ReceivedOnce
  <1> QED  BY <1>1, BusInvariant, PTL

LEMMA ReceivedInOrder ==
  ASSUME BusInv
  PROVE  InOrderOnce
  <1>1. TInv /\ Subscribed /\ AllDistinct /\ GotStored
    BY DEF BusInv, Handed, OneCopy
  <1> SUFFICES ASSUME NEW c \in Conn, IsOpen(c), NEW i \in 1 .. Len(Received(c)),
                      NEW j \in 1 .. Len(Received(c)), i < j
               PROVE  Position(conn[c].agent, Received(c)[i]) < Position(conn[c].agent, Received(c)[j])
    BY DEF InOrderOnce
  <1>2. PICK a \in Agent : a = conn[c].agent /\ up[a]
    BY <1>1 DEF Subscribed
  <1>3. messages[a] \in Seq(Message) /\ Len(messages[a]) \in Nat
    BY <1>1, ChannelElements
  <1>4. <<Received(c)[i], Received(c)[j]>> \in Before(messages[a])
    BY <1>1, <1>2 DEF GotStored, Chain
  <1>5. PICK p \in 1 .. Len(messages[a]), q \in 1 .. Len(messages[a]) :
          p < q /\ Received(c)[i] = messages[a][p] /\ Received(c)[j] = messages[a][q]
    BY <1>4 DEF Before
  <1>6. ASSUME NEW k \in 1 .. Len(messages[a]), NEW l \in 1 .. Len(messages[a]),
               messages[a][k] = messages[a][l]
        PROVE  k = l
    <2>1. ASSUME NEW x \in 1 .. Len(messages[a]), NEW y \in 1 .. Len(messages[a]), x < y
          PROVE  messages[a][x] # messages[a][y]
      <3>1. Chain(messages[a], Different)
        BY <1>1 DEF AllDistinct, Distinct
      <3>2. <<messages[a][x], messages[a][y]>> \in Different
        BY <2>1, <3>1 DEF Chain
      <3>3. Key(messages[a][x]) # Key(messages[a][y])
        BY <3>2 DEF Different
      <3> QED  BY <3>3
    <2> QED  BY <1>3, <1>6, <2>1
  <1>7. ASSUME NEW k \in 1 .. Len(messages[a])
        PROVE  Position(a, messages[a][k]) = k
    BY <1>6 DEF Position
  <1> QED  BY <1>2, <1>5, <1>7

\* A connection gets messages in the order in which its agent's server was
\* given them, and none twice, whatever overruns its channel on the way.
THEOREM InOrderOnceHolds == Spec => []InOrderOnce
  <1>1. BusInv => InOrderOnce
    BY ReceivedInOrder
  <1> QED  BY <1>1, BusInvariant, PTL
=============================================================================
