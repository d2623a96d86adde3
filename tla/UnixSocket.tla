----------------------------- MODULE UnixSocket -----------------------------
(***************************************************************************)
(* The unix socket server of src/external_api/unix_socket.rs: one task     *)
(* that accepts clients and queues messages in turn, and that awaits the   *)
(* handling of a client's stream (handle_stream) before it goes on.        *)
(*                                                                         *)
(* handle_stream reads once, answers what it read if that is a command,    *)
(* and then waits for messages to its subscriber without end; an error     *)
(* that it returns ends the task.  The wait is no action: handle_stream's  *)
(* caller is the only one to send to subscribers, so nothing ever arrives  *)
(* there.                                                                  *)
(***************************************************************************)
EXTENDS MessageQueue

CONSTANTS
  Cap,         \* capacity of to_message (16 in main.rs)
  Command      \* the kinds of commands that clients write

\* "subscribe", and "answered" for other commands with an answer; "unanswered":
\* process_command finds none ("/me", an unknown action, no content) or fails;
\* "garbled": text that is not a command; "binary": not even text.
ASSUME UnixSocketAssumption ==
  /\ Cap \in Nat \ {0}
  /\ Command \subseteq {"subscribe", "answered", "unanswered", "garbled", "binary"}

VARIABLES
  server,      \* where the task is
  serving,     \* the client whose stream it handles
  backlog,     \* connections not yet accepted, in order
  client,      \* of each: its state, its command, what became of it (history)
  to_server,   \* the server's receiver of to_message
  messages,    \* the messages in the MessageQueue
  subscribers, \* the subscribers in the MessageQueue
  delivered,   \* history: how many messages each subscriber's channel was sent
  arrived      \* how many messages the libp2p task has passed on

vars == <<server, serving, backlog, client, to_server, messages, subscribers, delivered,
          arrived>>
clientVars == <<backlog, client>>
queueVars == <<to_server, messages, subscribers, delivered, arrived>>

\* "answered": the whole answer was written; "failed": reading the command or
\* writing the answer failed or fell short.
ClientRecord == [state : {"new", "connected", "left"}, command : Command \cup {"none"},
                 outcome : {"none", "answered", "failed"}]

\* A piece of output that the agent a sends to p.
Output(n, a, p) ==
  [by |-> "agent", kind |-> "output", number |-> n, signer |-> a, envelope |-> p,
   from |-> a, to |-> p]

Init ==
  /\ server = "accepting" /\ serving = NoConn /\ backlog = <<>>
  /\ client = [c \in Conn |-> [state |-> "new", command |-> "none", outcome |-> "none"]]
  /\ to_server = <<>> /\ messages = <<>>
  /\ subscribers = [p \in PeerId |-> NoConn]
  /\ delivered = [c \in Conn |-> 0] /\ arrived = 0
-----------------------------------------------------------------------------
(* Clients and the libp2p task. *)

\* The listener goes with the task.
Connect(c) ==
  /\ client[c].state = "new" /\ server # "ended"
  /\ client' = [client EXCEPT ![c].state = "connected"]
  /\ backlog' = Append(backlog, c)
  /\ UNCHANGED <<server, serving, queueVars>>

WriteCommand(c, k) ==
  /\ client[c].state = "connected" /\ client[c].command = "none"
  /\ client' = [client EXCEPT ![c].command = k]
  /\ UNCHANGED <<server, serving, backlog, queueVars>>

Leave(c) ==
  /\ client[c].state = "connected"
  /\ client' = [client EXCEPT ![c].state = "left"]
  /\ UNCHANGED <<server, serving, backlog, queueVars>>

\* process_signed_message in node.rs; nobody reads while a stream is handled.
MessageArrives(a, p) ==
  /\ arrived < MaxNumber
  /\ arrived' = arrived + 1
  /\ to_server' = Send(to_server, Output(arrived', a, p), Cap)
  /\ UNCHANGED <<server, serving, clientVars, messages, subscribers, delivered>>
-----------------------------------------------------------------------------
(* The task. *)

\* Accepted clients are handled in the order in which they connected.
Accept ==
  /\ server = "accepting" /\ backlog # <<>>
  /\ server' = "reading" /\ serving' = Head(backlog)
  /\ backlog' = Tail(backlog)
  /\ UNCHANGED <<client, queueVars>>

\* add_message and broadcast_messages.
QueueMessage ==
  /\ server = "accepting" /\ to_server # <<>>
  /\ to_server' = Tail(to_server)
  /\ messages' = Append(messages, Head(to_server))
  /\ LET c == Subscriber(subscribers, messages')
     IN delivered' = IF c = NoConn THEN delivered ELSE [delivered EXCEPT ![c] = @ + 1]
  /\ UNCHANGED <<server, serving, clientVars, subscribers, arrived>>

\* Variant: a subscriber gets its messages and no answer before.
AfterCommandSilent(k) ==
  CASE k \in {"none", "garbled", "subscribe"} -> "held"
    [] k \in {"unanswered", "binary"} -> "ended"
    [] k = "answered" -> "answering"

\* Where handle_stream is after it has read k, "none" at the end of the stream.
\* What is not a command is only logged; the question marks after from_utf8 and
\* process_command end handle_stream, and the one after handle_stream the task.
AfterCommand(k) ==
  CASE k \in {"none", "garbled"} -> "held"
    [] k \in {"unanswered", "binary"} -> "ended"
    [] k \in {"subscribe", "answered"} -> "answering"

\* The stream is readable: there is a command, or its end.
Readable == client[serving].command # "none" \/ client[serving].state = "left"

\* try_read gets the whole command.
ReadCommand ==
  /\ server = "reading" /\ Readable
  /\ server' = AfterCommand(client[serving].command)
  /\ subscribers' \in IF client[serving].command = "subscribe"
                      THEN {AddSubscriber(subscribers, p, serving) : p \in Client}
                      ELSE {subscribers}
  /\ UNCHANGED <<serving, clientVars, to_server, messages, delivered, arrived>>

\* try_read fails, or gets a part of the command: what fits in 65536 bytes, or
\* what has come so far.  A part is no command; it goes the way of text that is
\* none or, cut within a character, of what is not text.
ReadFails ==
  /\ server = "reading" /\ Readable
  /\ server' \in {"held", "ended"}
  /\ client' = [client EXCEPT ![serving].outcome = "failed"]
  /\ UNCHANGED <<serving, backlog, queueVars>>

\* handle_stream's loop has no exit, whether the client is there or not.
AfterAnswer == "held"

\* try_write takes the whole answer.
WriteAnswer ==
  /\ server = "answering" /\ client[serving].state # "left"
  /\ server' = AfterAnswer
  /\ client' = [client EXCEPT ![serving].outcome = "answered"]
  /\ UNCHANGED <<serving, backlog, queueVars>>

\* try_write fails or takes a part of the answer, which is logged or not even
\* noticed; only an error of writable() is returned.
WriteFails ==
  /\ server = "answering"
  /\ server' \in {AfterAnswer, "ended"}
  /\ client' = [client EXCEPT ![serving].outcome = "failed"]
  /\ UNCHANGED <<serving, backlog, queueVars>>
-----------------------------------------------------------------------------
Next ==
  \/ \E c \in Conn : Connect(c) \/ Leave(c) \/ \E k \in Command : WriteCommand(c, k)
  \/ \E a \in Agent, p \in Client : MessageArrives(a, p)
  \/ Accept \/ QueueMessage
  \/ ReadCommand \/ ReadFails \/ WriteAnswer \/ WriteFails

\* tokio runs the task while it can go on.
Fairness ==
  WF_vars(Accept) /\ WF_vars(ReadCommand \/ ReadFails) /\ WF_vars(WriteAnswer \/ WriteFails)

Spec == Init /\ [][Next]_vars /\ Fairness
-----------------------------------------------------------------------------
\* The types of the variables, and the bound of the ring that nobody reads.
TypeOK ==
  /\ server \in {"accepting", "reading", "answering", "held", "ended"}
  /\ serving \in Conn \cup {NoConn}
  /\ backlog \in Seq(Conn) /\ client \in [Conn -> ClientRecord]
  /\ to_server \in Seq(Message) /\ Len(to_server) <= Cap /\ messages \in Seq(Message)
  /\ subscribers \in [PeerId -> Conn \cup {NoConn}]
  /\ delivered \in [Conn -> 0 .. MaxNumber] /\ arrived \in 0 .. MaxNumber

\* A client is answered on the one stream that the task handles in its life, and
\* what was queued before went to nobody: a subscriber's channel stays empty.
OnlyOneServed ==
  \A c \in Conn : /\ client[c].outcome = "answered" => serving = c
                  /\ delivered[c] = 0

Answerable(c) == client[c].command \in {"answered", "subscribe"}

\* What ends a client's wait: an answer, reading or writing that fails or falls
\* short, or that it leaves.
Served(c) == client[c].outcome # "none" \/ client[c].state = "left"

\* The first client in the backlog of a task that has served nobody is
\* answered, if it writes a command that has an answer and stays, unless the
\* command is not read or the answer not written as a whole.
FirstAnswered ==
  \A c \in Conn :
    (server = "accepting" /\ backlog # <<>> /\ Head(backlog) = c /\ Answerable(c)) ~> Served(c)
-----------------------------------------------------------------------------
(* What the README promises, and the code does not keep. *)

\* One command of the command line after another gets its answer: a client that
\* connects and writes a command that has an answer is served once the client
\* before it was answered and has left, unless an error has ended the server.
NextAnswered ==
  \A c, d \in Conn :
    (/\ client[d].outcome = "answered" /\ client[d].state = "left"
     /\ client[c].state = "connected" /\ Answerable(c))
    ~> (Served(c) \/ server = "ended")
=============================================================================
