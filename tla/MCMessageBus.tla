---------------------------- MODULE MCMessageBus ----------------------------
(* Small instances of MessageBus: a gateway with local clients and a robot. *)
EXTENDS MessageBus, TLC

CONSTANTS gateway, robot, user, guest, c1, c2

\* Two connections that share the user's id; the second may also act for the
\* guest, who is not authorised.
SharedIds == (c1 :> {user}) @@ (c2 :> {user, guest})
OneId == (c1 :> {user})

\* Messages as clients sign them, or leave them to the agent to sign.
SignedBy(p, kind, from, envelope, to) ==
  [by |-> "client", kind |-> kind, number |-> 0, signer |-> p, envelope |-> envelope,
   from |-> from, to |-> to]
Unsigned(kind, to) == SignedBy(Nobody, kind, Nobody, Nobody, to)

\* The first client asks in the user's name.  The second asks with either key under
\* the id of the other, and composes a response.
Requests ==
  (c1 :> {SignedBy(user, "request", user, robot, robot)})
  @@ (c2 :> {SignedBy(user, "request", guest, robot, robot),
             SignedBy(guest, "request", user, robot, robot),
             SignedBy(guest, "response", robot, user, user)})

\* A request with another receiver on its envelope, output that no job has made,
\* and what the agents cannot read.
Mixed ==
  (c1 :> {SignedBy(user, "request", user, user, gateway), Unsigned("output", user),
          SignedBy(user, "sealed", Nobody, robot, Nobody),
          SignedBy(user, "garbled", Nobody, Nobody, Nobody)})
=============================================================================
