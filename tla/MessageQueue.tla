---------------------------- MODULE MessageQueue ----------------------------
(***************************************************************************)
(* Messages, the broadcast channels they go through inside an agent, and   *)
(* the MessageQueue of src/external_api/messages.rs, which hands them to   *)
(* local clients.                                                          *)
(***************************************************************************)
EXTENDS Naturals, Sequences

CONSTANTS
  Agent,       \* agents, also their peer ids
  Client,      \* the peer ids of users at local clients
  Conn,        \* connections of local clients
  NoConn,      \* nobody has subscribed
  Nobody,      \* a message without "to", "from" or signature
  MaxNumber    \* bound on the numbers that tell messages apart

PeerId == Agent \cup Client

ASSUME QueueAssumption ==
  /\ MaxNumber \in Nat
  /\ Agent \cap Client = {} /\ Nobody \notin PeerId /\ NoConn \notin Conn

\* MessageContent, as far as the agents' tasks tell contents apart: a request
\* and the response to it, the output of a job, a handshake, a message that is
\* encrypted, and one that is neither encrypted nor parses.
Kind == {"request", "response", "output", "handshake", "sealed", "garbled"}

\* A Message in a SignedMessage, or, without a signer, a Message alone.  The
\* envelope is the receiver that the SignedMessage names, outside of what is
\* signed; the message inside names its origin and its receiver again.  Who
\* composed the message, and its number, are history: they tell messages apart
\* (a response has the number of its request) and no task looks at them.
Message == [by : {"agent", "client"}, kind : Kind, number : 0 .. MaxNumber,
            signer : PeerId \cup {Nobody}, envelope : PeerId \cup {Nobody},
            from : PeerId \cup {Nobody}, to : PeerId \cup {Nobody}]
-----------------------------------------------------------------------------
\* Variant: a channel without a limit.
SendUnbounded(ring, m, cap) == Append(ring, m)

\* broadcast::Sender::send at one receiver.  A full ring loses its oldest
\* message; the readers of these channels log the Lagged error and go on.
Send(ring, m, cap) == Append(IF Len(ring) < cap THEN ring ELSE Tail(ring), m)

\* MessageQueue::add_subscriber.
AddSubscriber(subs, p, c) == [subs EXCEPT ![p] = c]

\* Variant: the first message.
FirstMessage(messages) == messages[1]

\* broadcast_messages looks at the last message of the queue ...
LastMessage(messages) == messages[Len(messages)]

\* ... and sends it to the subscriber of the peer id it is for: the one on the
\* envelope or, without one, the one in the message.
Recipient(m) == IF m.envelope # Nobody THEN m.envelope ELSE m.to

Subscriber(subs, messages) ==
  LET p == Recipient(LastMessage(messages)) IN IF p = Nobody THEN NoConn ELSE subs[p]
=============================================================================
