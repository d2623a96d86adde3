----------------------------- MODULE PeerHealth -----------------------------
(***************************************************************************)
(* Who is online: the NetworkManager of src/store/network_manager.rs, and  *)
(* the branches of src/core/core.rs that feed and clean it.                *)
(*                                                                         *)
(* Every verified message counts as a handshake of the one who signed it.  *)
(* Every Tick seconds a core publishes a handshake of its own and marks    *)
(* those offline that have been silent for more than Limit seconds.  The   *)
(* timer runs on the monotonic clock ("now"), the silence is measured on   *)
(* the wall clock, which an operator or NTP may set.                       *)
(*                                                                         *)
(* Time is discrete.  A message takes at most MaxDelay from publication to *)
(* the core that reads it, unless it is lost, and a core runs a due tick   *)
(* at most Lateness late: time does not go on before they have happened.   *)
(***************************************************************************)
EXTENDS Integers

CONSTANTS
  Agent,
  NoPeer,          \* no entry for this peer
  Tick,            \* the handshake timer's period (15 s in core.rs)
  Limit,           \* the silence that is tolerated (30 s in network_manager.rs)
  Lateness,        \* bound on how late a tick is handled
  MaxDelay,        \* bound on a message's time to the core
  MaxTime,         \* bound on time
  MaxLost,         \* bound on the messages that are lost
  MaxBack,         \* bound on how far a wall clock is set back in all
  MaxAhead,        \* bound on how far a wall clock is set ahead
  Width,           \* one more than the largest u64
  Adjusted,        \* the agents whose wall clock may be set (a bound)
  Stoppable,       \* the agents that may stop and start again (a bound)
  Talkers,         \* the agents that publish other messages too (a bound)
  Relayed          \* those of whom peers pass on messages that they signed earlier

ASSUME PeerHealthAssumption ==
  /\ Tick \in Nat \ {0} /\ Limit \in Nat
  /\ Lateness \in Nat /\ MaxDelay \in Nat /\ MaxTime \in Nat /\ MaxLost \in Nat
  /\ MaxBack \in Nat /\ MaxAhead \in Nat
  /\ Width \in Nat /\ Width > MaxBack + Limit
  /\ Relayed \subseteq Agent
  /\ Adjusted \subseteq Agent /\ Stoppable \subseteq Agent /\ Talkers \subseteq Agent
  /\ NoPeer \notin [last_handshake : Nat, is_online : BOOLEAN]

VARIABLES
  now,         \* the monotonic clock of all agents
  up,          \* whether an agent runs
  due,         \* when its timer ticks next
  peers_info,  \* its NetworkManager: what it knows of each peer
  transit,     \* the messages under way, one copy for each receiver
  lost,        \* how many copies were lost
  skew,        \* how far an agent's wall clock is from where it was at first
  back,        \* how far it was set back in all
  since,       \* history: when an agent started
  spoke,       \* history: when an agent last published something, or -1
  heard        \* history: when an agent last processed something of a peer, or -1

clockVars == <<skew, back>>
historyVars == <<since, spoke, heard>>
vars == <<now, up, due, peers_info, transit, lost, skew, back, since, spoke, heard>>

Time == 0 .. MaxTime

\* PeerInfo, less the key it is filed under and the list of peers.
PeerInfo == [last_handshake : Nat, is_online : BOOLEAN]

Message == [from : Agent, to : Agent, sent : Time]

\* SystemTime::now() in seconds.
Clock(a) == MaxBack + now + skew[a]
-----------------------------------------------------------------------------
(* NetworkManager. *)

\* Variant: only peers that are known already are entered.
ProcessHandshakeKnown(table, p, cur_time) ==
  IF table[p] = NoPeer THEN table
  ELSE [table EXCEPT ![p] = [last_handshake |-> cur_time, is_online |-> TRUE]]

ProcessHandshake(table, p, cur_time) ==
  [table EXCEPT ![p] = [last_handshake |-> cur_time, is_online |-> TRUE]]

\* cur_time - last_handshake in u64, in a release build.
Elapsed(cur_time, last) ==
  IF cur_time >= last THEN cur_time - last ELSE Width - (last - cur_time)

\* Variants: at the limit already; one tick more.
TooOldAtLimit(info, cur_time) == Elapsed(cur_time, info.last_handshake) >= Limit
TooOldNextTick(info, cur_time) == Elapsed(cur_time, info.last_handshake) > Limit + Tick

TooOld(info, cur_time) == Elapsed(cur_time, info.last_handshake) > Limit

CleanOldHandshakes(table, cur_time) ==
  [p \in Agent |-> IF table[p] # NoPeer /\ TooOld(table[p], cur_time)
                   THEN [table[p] EXCEPT !.is_online = FALSE]
                   ELSE table[p]]

\* The subtraction goes below 0 for some entry: in a debug build it panics.
GoesBelowZero(table, cur_time) ==
  \E p \in Agent : table[p] # NoPeer /\ table[p].last_handshake > cur_time
-----------------------------------------------------------------------------
Init ==
  /\ now = 0 /\ transit = {} /\ lost = 0
  /\ up = [a \in Agent |-> FALSE]
  /\ due = [a \in Agent |-> 0] /\ since = due /\ skew = due /\ back = due
  /\ peers_info = [a \in Agent |-> [p \in Agent |-> NoPeer]]
  /\ spoke = [a \in Agent |-> -1]
  /\ heard = [a \in Agent |-> [p \in Agent |-> -1]]

\* The core starts with no peers; the first tick of tokio's interval is due
\* at once.
Start(a) ==
  /\ ~up[a]
  /\ up' = [up EXCEPT ![a] = TRUE]
  /\ due' = [due EXCEPT ![a] = now] /\ since' = [since EXCEPT ![a] = now]
  /\ UNCHANGED <<now, peers_info, transit, lost, clockVars, spoke, heard>>

\* The process ends: its NetworkManager and what was under way to it are gone.
StopProcess(a) ==
  /\ up' = [up EXCEPT ![a] = FALSE]
  /\ peers_info' = [peers_info EXCEPT ![a] = [p \in Agent |-> NoPeer]]
  /\ heard' = [heard EXCEPT ![a] = [p \in Agent |-> -1]]

Crash(a) ==
  /\ up[a] /\ a \in Stoppable
  /\ StopProcess(a)
  /\ transit' = {m \in transit : m.to # a}
  /\ UNCHANGED <<now, due, lost, clockVars, since, spoke>>

\* What is published reaches the agents that run.
Copies(a) == {[from |-> a, to |-> p, sent |-> now] : p \in {q \in Agent \ {a} : up[q]}}

\* The timer's branch of main_normal.  A tick that comes late does not move
\* the next ones.
HandshakeTick(a) ==
  /\ up[a] /\ now >= due[a]
  /\ transit' = transit \cup Copies(a)
  /\ peers_info' = [peers_info EXCEPT ![a] = CleanOldHandshakes(@, Clock(a))]
  /\ due' = [due EXCEPT ![a] = @ + Tick]
  /\ spoke' = [spoke EXCEPT ![a] = now]
  /\ UNCHANGED <<now, up, lost, clockVars, since, heard>>

\* In a debug build the core panics after it has handed its handshake to the
\* libp2p task, and main returns, before or after that has published it.
HandshakeTickPanics(a) ==
  /\ up[a] /\ now >= due[a]
  /\ GoesBelowZero(peers_info[a], Clock(a))
  /\ StopProcess(a)
  /\ \/ /\ transit' = {m \in transit \cup Copies(a) : m.to # a}
        /\ spoke' = [spoke EXCEPT ![a] = now]
     \/ /\ transit' = {m \in transit : m.to # a}
        /\ UNCHANGED spoke
  /\ UNCHANGED <<now, due, lost, clockVars, since>>

\* Any other message that an agent publishes: a request, an answer, output.
Talk(a) ==
  /\ up[a] /\ a \in Talkers
  /\ transit' = transit \cup Copies(a)
  /\ spoke' = [spoke EXCEPT ![a] = now]
  /\ UNCHANGED <<now, up, due, peers_info, lost, clockVars, since, heard>>

\* main_normal calls process_handshake for every message it can read, before
\* it looks at the message's receiver and its sender's role.
Hear(m) ==
  /\ m \in transit /\ up[m.to]
  /\ transit' = transit \ {m}
  /\ peers_info' = [peers_info EXCEPT ![m.to] = ProcessHandshake(@, m.from, Clock(m.to))]
  /\ heard' = [heard EXCEPT ![m.to][m.from] = now]
  /\ UNCHANGED <<now, up, due, lost, clockVars, since, spoke>>

\* A message is lost by the network, or overwritten in the channel to the core.
Lose(m) ==
  /\ m \in transit /\ lost < MaxLost
  /\ transit' = transit \ {m}
  /\ lost' = lost + 1
  /\ UNCHANGED <<now, up, due, peers_info, clockVars, historyVars>>

\* Someone shares a configuration that p has signed at any time before
\* (ShareConfigMessage goes through process_signed_message like gossip).
Relay(p, a) ==
  /\ p \in Relayed /\ up[a] /\ a # p /\ spoke[p] >= 0
  /\ transit' = transit \cup {[from |-> p, to |-> a, sent |-> now]}
  /\ UNCHANGED <<now, up, due, peers_info, lost, clockVars, historyVars>>

SetClockBack(a) ==
  /\ a \in Adjusted /\ back[a] < MaxBack
  /\ skew' = [skew EXCEPT ![a] = @ - 1] /\ back' = [back EXCEPT ![a] = @ + 1]
  /\ UNCHANGED <<now, up, due, peers_info, transit, lost, historyVars>>

SetClockAhead(a) ==
  /\ a \in Adjusted /\ skew[a] < MaxAhead
  /\ skew' = [skew EXCEPT ![a] = @ + 1]
  /\ UNCHANGED <<now, up, due, peers_info, transit, lost, back, historyVars>>

AdvanceTime ==
  /\ now < MaxTime
  /\ \A a \in Agent : up[a] => now < due[a] + Lateness
  /\ \A m \in transit : now < m.sent + MaxDelay
  /\ now' = now + 1
  /\ UNCHANGED <<up, due, peers_info, transit, lost, clockVars, historyVars>>

Core(a) == HandshakeTick(a) \/ HandshakeTickPanics(a) \/ Talk(a)

Environment(a) ==
  \/ Start(a) \/ Crash(a) \/ SetClockBack(a) \/ SetClockAhead(a)
  \/ \E p \in Agent : Relay(p, a)

Next ==
  \/ \E a \in Agent : Core(a) \/ Environment(a)
  \/ \E m \in transit : Hear(m) \/ Lose(m)
  \/ AdvanceTime

Spec == Init /\ [][Next]_vars
-----------------------------------------------------------------------------
(* Safety. *)

\* The types of the variables; an agent has an entry for those it has heard.
TypeOK ==
  /\ now \in Time /\ lost \in 0 .. MaxLost
  /\ transit \subseteq Message
  /\ up \in [Agent -> BOOLEAN] /\ due \in [Agent -> Nat] /\ since \in [Agent -> Time]
  /\ skew \in [Agent -> Int] /\ back \in [Agent -> 0 .. MaxBack]
  /\ \A a \in Agent : -back[a] <= skew[a] /\ skew[a] <= MaxAhead
  /\ peers_info \in [Agent -> [Agent -> PeerInfo \cup {NoPeer}]]
  /\ spoke \in [Agent -> Time \cup {-1}]
  /\ heard \in [Agent -> [Agent -> Time \cup {-1}]]
  /\ \A a, p \in Agent : peers_info[a][p] = NoPeer <=> heard[a][p] = -1

IsOnline(a, p) == peers_info[a][p] # NoPeer /\ peers_info[a][p].is_online

\* A peer that an agent shows online has published something not long ago: the
\* tolerated silence, until the next tick and the delays, and as much longer as
\* the agent's clock was set back meanwhile, wrapping subtraction or not.  (Of
\* those whose configuration others pass on nothing can be said.)
OnlineMeansAlive ==
  \A a \in Agent, p \in Agent \ Relayed :
    up[a] /\ IsOnline(a, p) =>
      spoke[p] >= 0 /\ now - spoke[p] <= Limit + Tick + Lateness + MaxDelay + back[a]

\* Nothing was lost, and no clock was set.
Undisturbed == lost = 0 /\ \A a \in Agent : skew[a] = 0 /\ back[a] = 0

\* A peer that runs is not shown offline once it was heard in its present
\* life, at whatever phase the two timers are and whatever the order of a tick
\* and a handshake that come together, as long as nothing disturbs them
\* (provided that late ticks and delays add up to less than a period).
LivePeerOnline ==
  \A a, p \in Agent :
    Undisturbed /\ up[a] /\ up[p] /\ peers_info[a][p] # NoPeer /\ heard[a][p] >= since[p] =>
      peers_info[a][p].is_online
=============================================================================
