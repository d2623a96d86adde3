----------------------------- MODULE MessageBus -----------------------------
(***************************************************************************)
(* How messages travel through and between agents: the core's dispatch     *)
(* (src/core/core.rs), the branch of the libp2p task that signs and        *)
(* publishes (src/node/node.rs) and the web socket server with its         *)
(* connections (src/external_api/web_socket.rs, messages.rs).              *)
(*                                                                         *)
(* In an agent the tasks are joined by two broadcast channels: to_message  *)
(* from the libp2p task to the core and the server, and from_message from  *)
(* all others to the libp2p task.  A client sends commands over its        *)
(* connection and gets the messages for the peer ids it has subscribed to. *)
(* What a request or a job does inside the core is not told apart here.    *)
(***************************************************************************)
EXTENDS MessageQueue, FiniteSets

CONSTANTS
  Serving,      \* the agents that were started with --rpc, and serve web sockets
  Authorized,   \* the keys that are owner or user in the installed configuration
  Ids,          \* the peer ids that each connection may subscribe to (a bound)
  Cap,          \* capacity of from_message and to_message (16 in main.rs)
  SubscriberCap, \* capacity of a connection's channel (16 in web_socket.rs)
  Sending,      \* what each connection may send, numbered as it is sent (a bound)
  MaxOutput,    \* bound on the pieces of output (numbered like requests)
  MaxTicks,     \* bound on the handshakes (numbered too)
  MaxLost       \* bound on the messages that the network loses

\* The messages in which no agent can read an origin and a receiver.
Unreadable == {"sealed", "garbled"}

\* A client composes what it likes.  Over "/send_message" it leaves the origin
\* and the signature to the agent; over "/send_signed_message" it signs with any
\* key that it has, and nothing ties the key to the origin that it names, the
\* receiver inside to the one on the envelope, or the content to a client.
ASSUME BusAssumption ==
  /\ Serving \subseteq Agent /\ Authorized \subseteq PeerId
  /\ Ids \in [Conn -> SUBSET PeerId]
  /\ Cap \in Nat \ {0} /\ SubscriberCap \in Nat \ {0}
  /\ Sending \in [Conn -> SUBSET Message]
  /\ \A c \in Conn : \A m \in Sending[c] :
       /\ m.by = "client"
       /\ m.signer = Nobody =>
            m.envelope = Nobody /\ m.from = Nobody /\ m.to # Nobody /\ m.kind \notin Unreadable
       /\ m.kind \in Unreadable => m.from = Nobody /\ m.to = Nobody
  /\ MaxOutput \in 0 .. MaxNumber /\ MaxTicks \in 0 .. MaxNumber /\ MaxLost \in Nat

VARIABLES
  up,            \* whether an agent runs
  from_message,  \* the channel to the libp2p task
  to_core,       \* the core's receiver of to_message
  to_server,     \* the server's receiver of to_message
  messages,      \* all messages that the server's MessageQueue was given
  subscribers,   \* its subscribers
  conn,          \* the connections
  air,           \* copies of published messages under way, with their receivers
  lost,          \* how many of them were lost
  ticks,         \* handshakes of all agents
  outputs,       \* pieces of output of all agents
  asked          \* history: what clients have sent, as it is published, by number

agentVars == <<up, from_message, to_core, to_server, messages, subscribers>>
countVars == <<lost, ticks, outputs, asked>>
vars == <<up, from_message, to_core, to_server, messages, subscribers, conn, air,
          lost, ticks, outputs, asked>>

\* A connection: its agent, the ring of its subscriber channel, what it got.
Connection == [state : {"new", "open", "closed"}, agent : Agent \cup {Nobody},
               queue : Seq(Message), got : Seq(Message)]

Init ==
  /\ up = [a \in Agent |-> TRUE]
  /\ from_message = [a \in Agent |-> <<>>]
  /\ to_core = from_message /\ to_server = from_message /\ messages = from_message
  /\ subscribers = [a \in Agent |-> [p \in PeerId |-> NoConn]]
  /\ conn = [c \in Conn |-> [state |-> "new", agent |-> Nobody, queue |-> <<>>, got |-> <<>>]]
  /\ air = {} /\ lost = 0 /\ ticks = 0 /\ outputs = 0 /\ asked = <<>>
-----------------------------------------------------------------------------
(* Clients, and the server's task for each connection. *)

IsOpen(c) == conn[c].state = "open"

Connect(c, a) ==
  /\ conn[c].state = "new" /\ up[a] /\ a \in Serving
  /\ conn' = [conn EXCEPT ![c].state = "open", ![c].agent = a]
  /\ UNCHANGED <<agentVars, air, countVars>>

\* "/subscribe_messages".  An earlier subscriber of the id stays connected.
Subscribe(c, p) ==
  /\ IsOpen(c) /\ p \in Ids[c]
  /\ subscribers' = [subscribers EXCEPT ![conn[c].agent] = AddSubscriber(@, p, c)]
  /\ UNCHANGED <<up, from_message, to_core, to_server, messages, conn, air, countVars>>

\* Message::signed, at the agent's libp2p task: the agent is the origin.
Signed(a, m) == [m EXCEPT !.signer = a, !.from = a, !.envelope = m.to]

Published(a, m) == IF m.signer = Nobody THEN Signed(a, m) ELSE m

\* "/send_message" and "/send_signed_message", at the connection of any client.
\* The answer says that the message was sent.
ClientSends(c, t) ==
  /\ IsOpen(c) /\ Len(asked) < MaxNumber
  /\ LET m == [t EXCEPT !.number = Len(asked) + 1]
     IN /\ from_message' = [from_message EXCEPT ![conn[c].agent] = Send(@, m, Cap)]
        /\ asked' = Append(asked, Published(conn[c].agent, m))
  /\ UNCHANGED <<up, to_core, to_server, messages, subscribers, conn, air, lost, ticks,
                 outputs>>

\* The client leaves, or sends something that is not text (a ping, say), and
\* the task ends.  Its subscriptions stay in the MessageQueue.
Disconnect(c) ==
  /\ IsOpen(c)
  /\ conn' = [conn EXCEPT ![c].state = "closed", ![c].queue = <<>>]
  /\ UNCHANGED <<agentVars, air, countVars>>

\* A message from the subscriber's channel goes out on the socket.
ConnectionSends(c) ==
  /\ IsOpen(c) /\ conn[c].queue # <<>>
  /\ conn' = [conn EXCEPT ![c].queue = Tail(@), ![c].got = Append(@, Head(conn[c].queue))]
  /\ UNCHANGED <<agentVars, air, countVars>>

\* The server's own loop: add_message and broadcast_messages under one lock.
\* An error of send (the subscriber's task has ended) is only logged.
ServerReceives(a) ==
  /\ up[a] /\ to_server[a] # <<>>
  /\ to_server' = [to_server EXCEPT ![a] = Tail(@)]
  /\ messages' = [messages EXCEPT ![a] = Append(@, Head(to_server[a]))]
  /\ LET c == Subscriber(subscribers[a], messages'[a])
     IN IF c # NoConn /\ IsOpen(c)
        THEN conn' = [conn EXCEPT ![c].queue = Send(@, LastMessage(messages'[a]), SubscriberCap)]
        ELSE UNCHANGED conn
  /\ UNCHANGED <<up, from_message, to_core, subscribers, air, countVars>>
-----------------------------------------------------------------------------
(* The libp2p task. *)

\* Variant: what verifies is sent to the core once more.
ForwardTwice(a, m) ==
  /\ to_core' = [to_core EXCEPT ![a] = Send(Send(@, m, Cap), m, Cap)]
  /\ to_server' = IF a \in Serving THEN [to_server EXCEPT ![a] = Send(@, m, Cap)] ELSE to_server

\* A message goes to the core and the server.
Forward(a, m) ==
  /\ to_core' = [to_core EXCEPT ![a] = Send(@, m, Cap)]
  /\ to_server' = IF a \in Serving THEN [to_server EXCEPT ![a] = Send(@, m, Cap)] ELSE to_server

\* What verifies is forwarded if it is encrypted or parses.
ProcessSignedMessage(a, m) ==
  IF m.kind = "garbled" THEN UNCHANGED <<to_core, to_server>> ELSE Forward(a, m)

\* gossipsub hands a message to all other agents, once, but not to its sender.
Copies(a, m) == {[msg |-> m, to |-> b] : b \in {b \in Agent \ {a} : up[b]}}

\* A Message gets the agent's peer id and signature; a SignedMessage of a client
\* is processed here as if it had come from the network, and published.
LibP2pSends(a) ==
  /\ up[a] /\ from_message[a] # <<>>
  /\ from_message' = [from_message EXCEPT ![a] = Tail(@)]
  /\ LET m == Head(from_message[a])
     IN IF m.signer = Nobody
        THEN /\ air' = air \cup Copies(a, Signed(a, m))
             /\ UNCHANGED <<to_core, to_server>>
        ELSE /\ air' = air \cup Copies(a, m)
             /\ ProcessSignedMessage(a, m)
  /\ UNCHANGED <<up, messages, subscribers, conn, countVars>>

LibP2pReceives(copy) ==
  /\ copy \in air /\ up[copy.to]
  /\ air' = air \ {copy}
  /\ ProcessSignedMessage(copy.to, copy.msg)
  /\ UNCHANGED <<up, from_message, messages, subscribers, conn, countVars>>

Lose(copy) ==
  /\ copy \in air /\ lost < MaxLost
  /\ air' = air \ {copy} /\ lost' = lost + 1
  /\ UNCHANGED <<agentVars, conn, ticks, outputs, asked>>
-----------------------------------------------------------------------------
(* The core task. *)

\* Variant: the role is looked up for the origin that the message names.
TrustsOrigin(a, m) == m.kind = "handshake" \/ (m.to = a /\ m.from \in Authorized)

\* Is the message for this agent, and the key that signed it one that may give
\* orders?  The origin that the message names plays no part in it.
ShouldProcess(a, m) == m.kind = "handshake" \/ (m.to = a /\ m.signer \in Authorized)

\* Message::new, as the agent's tasks use it: origin and signature come later.
NewMessage(kind, number, to) ==
  [by |-> "agent", kind |-> kind, number |-> number, signer |-> Nobody, envelope |-> Nobody,
   from |-> Nobody, to |-> to]

\* Variant: the answer goes to whoever listens.
ResponseToRobot(m) == NewMessage("response", m.number, Nobody)

\* The answer goes to the peer id that the request names as its origin.
Response(m) == NewMessage("response", m.number, m.from)

\* An encrypted message for this agent is read as if it were not.
DoesNotParse(a, m) == m.kind = "sealed" /\ m.envelope = a

\* The branch of main_normal for a message it can read.  Only requests have an
\* answer; an encrypted message for someone else is skipped.
CoreReceives(a) ==
  /\ up[a] /\ to_core[a] # <<>>
  /\ to_core' = [to_core EXCEPT ![a] = Tail(@)]
  /\ LET m == Head(to_core[a])
     IN /\ ~DoesNotParse(a, m)
        /\ from_message' =
             IF m.kind = "request" /\ ShouldProcess(a, m)
             THEN [from_message EXCEPT ![a] = Send(@, Response(m), Cap)]
             ELSE from_message
  /\ UNCHANGED <<up, to_server, messages, subscribers, conn, air, countVars>>

\* What does not parse ends main_normal by its question mark, and main returns.
CoreFails(a) ==
  /\ up[a] /\ to_core[a] # <<>>
  /\ DoesNotParse(a, Head(to_core[a]))
  /\ up' = [up EXCEPT ![a] = FALSE]
  /\ from_message' = [from_message EXCEPT ![a] = <<>>]
  /\ to_core' = [to_core EXCEPT ![a] = <<>>] /\ to_server' = [to_server EXCEPT ![a] = <<>>]
  /\ messages' = [messages EXCEPT ![a] = <<>>]
  /\ subscribers' = [subscribers EXCEPT ![a] = [p \in PeerId |-> NoConn]]
  /\ conn' = [c \in Conn |-> IF conn[c].agent = a
                             THEN [conn[c] EXCEPT !.state = "closed", !.queue = <<>>]
                             ELSE conn[c]]
  /\ air' = {copy \in air : copy.to # a}
  /\ UNCHANGED countVars

\* The 15 s timer's handshake to everybody.
HandshakeTick(a) ==
  /\ up[a] /\ ticks < MaxTicks
  /\ ticks' = ticks + 1
  /\ from_message' = [from_message EXCEPT ![a] =
       Send(@, NewMessage("handshake", ticks', Nobody), Cap)]
  /\ UNCHANGED <<up, to_core, to_server, messages, subscribers, conn, air, lost, outputs, asked>>

\* start_tunnel_messanger passes on a piece of output for the client p.
MessangerSends(a, p) ==
  /\ up[a] /\ outputs < MaxOutput
  /\ outputs' = outputs + 1
  /\ from_message' = [from_message EXCEPT ![a] =
       Send(@, NewMessage("output", outputs', p), Cap)]
  /\ UNCHANGED <<up, to_core, to_server, messages, subscribers, conn, air, lost, ticks, asked>>
-----------------------------------------------------------------------------
LibP2pTask(a) == LibP2pSends(a) \/ \E copy \in air : copy.to = a /\ LibP2pReceives(copy)

CoreTask(a) == CoreReceives(a) \/ CoreFails(a) \/ HandshakeTick(a)

ClientAt(c) ==
  \/ \E a \in Agent : Connect(c, a)
  \/ \E p \in PeerId : Subscribe(c, p)
  \/ \E t \in Sending[c] : ClientSends(c, t)
  \/ Disconnect(c)

Next ==
  \/ \E a \in Agent : LibP2pTask(a) \/ CoreTask(a) \/ ServerReceives(a)
  \/ \E a \in Agent, p \in Client : MessangerSends(a, p)
  \/ \E c \in Conn : ClientAt(c) \/ ConnectionSends(c)
  \/ \E copy \in air : Lose(copy)

Spec == Init /\ [][Next]_vars
-----------------------------------------------------------------------------
(* Safety. *)

IsRing(r, cap) == r \in Seq(Message) /\ Len(r) <= cap

\* The types of the variables; no channel holds more than its capacity, and
\* nothing that an agent has forwarded or published is unsigned.
TypeOK ==
  /\ up \in [Agent -> BOOLEAN]
  /\ \A a \in Agent : /\ IsRing(from_message[a], Cap)
                      /\ IsRing(to_core[a], Cap) /\ IsRing(to_server[a], Cap)
                      /\ messages[a] \in Seq(Message)
                      /\ subscribers[a] \in [PeerId -> Conn \cup {NoConn}]
  /\ \A c \in Conn : conn[c] \in Connection /\ Len(conn[c].queue) <= SubscriberCap
  /\ air \subseteq [msg : {m \in Message : m.signer # Nobody}, to : Agent]
  /\ lost \in 0 .. MaxLost /\ ticks \in 0 .. MaxTicks /\ outputs \in 0 .. MaxOutput
  /\ asked \in Seq(Message) /\ Len(asked) <= MaxNumber

Received(c) == conn[c].got \o conn[c].queue

\* A response that an agent has made.
IsAnswer(m) == m.by = "agent" /\ m.kind = "response"

\* What a client gets is for a peer id that it may act for.  A response among
\* it that an agent has made answers a request that names that id as its origin,
\* comes from the agent that was asked, and the key that signed the request is
\* authorised there, whatever origin the request names.
AnswersBelong ==
  \A c \in Conn, i \in 1 .. MaxNumber :
    \A j \in 1 .. Len(Received(c)) :
      LET m == Received(c)[j]
      IN /\ Recipient(m) \in Ids[c]
         /\ IsAnswer(m) /\ m.number = i =>
              /\ i <= Len(asked) /\ asked[i].kind = "request"
              /\ asked[i].from = m.to /\ asked[i].to = m.signer
              /\ asked[i].signer \in Authorized

\* Where a message is in what the agent's server was given.
Position(a, m) == CHOOSE i \in 1 .. Len(messages[a]) : messages[a][i] = m

\* A connection gets messages in the order in which its agent's server was
\* given them, and none twice, whatever overruns its channel.
InOrderOnce ==
  \A c \in Conn : IsOpen(c) =>
    \A i, j \in 1 .. Len(Received(c)) :
      i < j => Position(conn[c].agent, Received(c)[i]) < Position(conn[c].agent, Received(c)[j])

\* A request is carried out at most once, although an agent forwards its
\* clients' messages to itself and publishes them: no two responses to it.
AnsweredOnce ==
  \A c, d \in Conn : \A i \in 1 .. Len(conn[c].got), j \in 1 .. Len(conn[d].got) :
    /\ IsAnswer(conn[c].got[i]) /\ IsAnswer(conn[d].got[j])
    /\ conn[c].got[i].number = conn[d].got[j].number
    => \/ c = d /\ i = j
       \/ c # d /\ conn[c].agent # conn[d].agent
-----------------------------------------------------------------------------
(* Liveness. *)

\* tokio runs every task that can go on, and gossip delivers what it does not
\* lose.
Fairness ==
  /\ \A a \in Agent : /\ WF_vars(LibP2pSends(a))
                      /\ WF_vars(\E copy \in air : copy.to = a /\ LibP2pReceives(copy))
                      /\ WF_vars(CoreReceives(a)) /\ WF_vars(CoreFails(a))
                      /\ WF_vars(ServerReceives(a))
  /\ \A c \in Conn : WF_vars(ConnectionSends(c))

FairSpec == Spec /\ Fairness

\* The request of this number, if it is one that an agent can answer.
Asked(i) ==
  {m \in {asked[k] : k \in {i} \cap DOMAIN asked} :
     m.kind = "request" /\ m.from \in PeerId /\ m.to \in Agent}

IsSubscriber(c, p) == \E a \in Agent : conn[c].agent = a /\ subscribers[a][p] = c

\* A request that is signed by an authorised key, and that waits at the agent of
\* a connection to go to another agent, is answered on that connection if it is
\* the subscriber of the id the request names as its origin, unless it leaves,
\* someone else takes the subscription, or an agent stops (provided that the
\* network loses nothing and no channel overruns).
Answered ==
  \A i \in 1 .. MaxNumber, c \in Conn :
    (/\ IsOpen(c)
     /\ \E m \in Asked(i) : /\ m.signer \in Authorized /\ m.to # conn[c].agent
                            /\ IsSubscriber(c, m.from)
     /\ \E j \in DOMAIN from_message[conn[c].agent] :
          LET m == from_message[conn[c].agent][j] IN m.by = "client" /\ m.number = i)
    ~> (\/ \E j \in DOMAIN conn[c].got : IsAnswer(conn[c].got[j]) /\ conn[c].got[j].number = i
        \/ ~IsOpen(c)
        \/ \E m \in Asked(i) : ~IsSubscriber(c, m.from) \/ ~up[m.to])
=============================================================================
