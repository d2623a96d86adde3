-------------------------- MODULE ConfigRegister --------------------------
(***************************************************************************)
(* What an agent promises about the configuration of its owner, without    *)
(* saying how configurations travel: each agent has a register that only   *)
(* ever takes a newer configuration, one its owner has published, and a    *)
(* durable copy from which the register is set when the agent starts, for  *)
(* the same owner or for another one.  The copy may lag behind or be lost; *)
(* it is never ahead, and never torn.                                      *)
(***************************************************************************)
EXTENDS Naturals

CONSTANTS
  Node,       \* the agents
  Message,    \* the signed configurations
  NoMessage,  \* an empty register or copy
  Owners,     \* Owners[n]: the keys that agent n may belong to
  Signer,     \* Signer[m]: the key that signed m
  Version     \* Version[m]: the version m carries

VARIABLES
  owner,      \* owner[n]: the key that agent n belongs to
  published,  \* the configurations that exist so far
  current,    \* current[n]: the register of agent n
  saved,      \* saved[n]: its durable copy
  up          \* the agents that are running

vars == <<owner, published, current, saved, up>>

Init ==
  /\ \A n \in Node : owner[n] \in Owners[n]
  /\ published = {}
  /\ current = [n \in Node |-> NoMessage]
  /\ saved = [n \in Node |-> NoMessage]
  /\ up = {}

Publish ==
  /\ \E m \in Message : published' = published \cup {m}
  /\ UNCHANGED <<owner, current, saved, up>>

\* What may replace m; version 0 is what an agent without configuration has.
Supersedes(m, old) ==
  Version[m] > (IF old = NoMessage THEN 0 ELSE Version[old])

\* The durable copy becomes m, or stays, or is lost.
Save(n, m) ==
  \E to \in {m, saved[n], NoMessage} : saved' = [saved EXCEPT ![n] = to]

Install(n) ==
  /\ n \in up
  /\ \E m \in published :
       /\ Signer[m] = owner[n]
       /\ Supersedes(m, current[n])
       /\ current' = [current EXCEPT ![n] = m]
       /\ Save(n, m)
  /\ UNCHANGED <<owner, published, up>>

SaveAgain(n) ==
  /\ n \in up
  /\ Save(n, current[n])
  /\ UNCHANGED <<owner, published, current, up>>

Start(n) ==
  /\ n \notin up
  /\ up' = up \cup {n}
  /\ \E k \in Owners[n] : owner' = [owner EXCEPT ![n] = k]
  /\ current' = [current EXCEPT ![n] = saved[n]]
  /\ UNCHANGED <<published, saved>>

Stop(n) ==
  /\ n \in up
  /\ up' = up \ {n}
  /\ current' = [current EXCEPT ![n] = NoMessage]
  /\ Save(n, saved[n])
  /\ UNCHANGED <<owner, published>>

Next ==
  \/ Publish
  \/ \E n \in Node : Install(n) \/ SaveAgain(n) \/ Start(n) \/ Stop(n)

Spec == Init /\ [][Next]_vars
=============================================================================
