-------------------------- MODULE PeerHealthProofs --------------------------
(***************************************************************************)
(* Proofs about PeerHealth: a peer shown online was alive within a known   *)
(* time, and a live peer is shown online.                                  *)
(***************************************************************************)
EXTENDS PeerHealth, TLAPS

Table == [Agent -> PeerInfo \cup {NoPeer}]

USE DEF Time, Message

LEMMA NoPeerIsNoInfo == ASSUME NEW e \in PeerInfo PROVE e # NoPeer
  BY PeerHealthAssumption DEF PeerHealthAssumption, PeerInfo
-----------------------------------------------------------------------------
(* The NetworkManager's operations. *)

\* Both operations keep the type of the table; only process_handshake adds an
\* entry, and only the one it is called for.
LEMMA ProcessHandshakeEntry ==
  ASSUME NEW table \in Table, NEW p \in Agent, NEW c \in Nat
  PROVE  /\ ProcessHandshake(table, p, c)[p].last_handshake = c
         /\ ProcessHandshake(table, p, c)[p].is_online
  BY DEF Table, ProcessHandshake

LEMMA ProcessHandshakeType ==
  ASSUME NEW table \in Table, NEW p \in Agent, NEW c \in Nat
  PROVE  /\ ProcessHandshake(table, p, c) \in Table
         /\ ProcessHandshake(table, p, c)[p] # NoPeer
  <1> DEFINE entry == [last_handshake |-> c, is_online |-> TRUE]
  <1>1. entry \in PeerInfo
    BY DEF PeerInfo
  <1> HIDE DEF entry
  <1>2. ProcessHandshake(table, p, c) = [table EXCEPT ![p] = entry]
    BY DEF ProcessHandshake, entry
  <1> QED  BY <1>1, <1>2, NoPeerIsNoInfo DEF Table

LEMMA ProcessHandshakeOthers ==
  ASSUME NEW table \in Table, NEW p \in Agent, NEW c, NEW q \in Agent, q # p
  PROVE  ProcessHandshake(table, p, c)[q] = table[q]
  BY DEF Table, ProcessHandshake

LEMMA CleanType ==
  ASSUME NEW table \in Table, NEW c \in Nat
  PROVE  /\ CleanOldHandshakes(table, c) \in Table
         /\ \A p \in Agent : CleanOldHandshakes(table, c)[p] = NoPeer <=> table[p] = NoPeer
  <1>1. ASSUME NEW p \in Agent, table[p] # NoPeer
        PROVE  [table[p] EXCEPT !.is_online = FALSE] \in PeerInfo
    BY <1>1 DEF Table, PeerInfo
  <1> QED  BY <1>1, NoPeerIsNoInfo DEF Table, CleanOldHandshakes

\* clean_old_handshakes leaves the time of an entry, and leaves it online only
\* if it was and its age is within the limit.
LEMMA CleanEntry ==
  ASSUME NEW table \in Table, NEW c \in Nat, NEW p \in Agent, table[p] # NoPeer
  PROVE  LET new == CleanOldHandshakes(table, c)[p]
         IN /\ new.last_handshake = table[p].last_handshake
            /\ new.is_online <=> table[p].is_online /\ ~TooOld(table[p], c)
  BY DEF Table, CleanOldHandshakes, PeerInfo
-----------------------------------------------------------------------------
(* Types. *)

LEMMA ClockType ==
  ASSUME TypeOK, NEW a \in Agent
  PROVE  Clock(a) \in Nat /\ skew[a] \in Int /\ back[a] \in 0 .. MaxBack
  <1>1. skew[a] \in Int /\ back[a] \in 0 .. MaxBack /\ -back[a] <= skew[a] /\ now \in Nat
    BY PeerHealthAssumption DEF TypeOK, PeerHealthAssumption
  <1> QED  BY <1>1, PeerHealthAssumption DEF Clock, PeerHealthAssumption

LEMMA StopType ==
  ASSUME TypeOK, NEW a \in Agent, StopProcess(a)
  PROVE  /\ up' \in [Agent -> BOOLEAN]
         /\ peers_info' \in [Agent -> Table]
         /\ heard' \in [Agent -> [Agent -> Time \cup {-1}]]
         /\ \A b, p \in Agent : peers_info'[b][p] = NoPeer <=> heard'[b][p] = -1
  BY DEF TypeOK, StopProcess, Table

LEMMA CopiesType ==
  ASSUME TypeOK, NEW a \in Agent
  PROVE  /\ Copies(a) \subseteq Message
         /\ \A m \in Copies(a) : m.from = a /\ m.to # a /\ m.sent = now
         /\ \A p \in Agent : p # a /\ up[p] =>
              [from |-> a, to |-> p, sent |-> now] \in Copies(a)
  BY DEF TypeOK, Copies

\* Every action keeps the types.
LEMMA TypeStep == TypeOK /\ [Next]_vars => TypeOK'
<1> SUFFICES ASSUME TypeOK, [Next]_vars PROVE TypeOK'
  OBVIOUS
<1> USE PeerHealthAssumption DEF PeerHealthAssumption
<1>1. ASSUME NEW a \in Agent, Start(a) PROVE TypeOK'
  BY <1>1 DEF TypeOK, Start, clockVars
<1>2. ASSUME NEW a \in Agent, Crash(a) PROVE TypeOK'
  <2>1. StopProcess(a)
    BY <1>2 DEF Crash
  <2> QED  BY <1>2, <2>1, StopType DEF TypeOK, Crash, clockVars, Table
<1>3. ASSUME NEW a \in Agent, HandshakeTick(a) PROVE TypeOK'
  <2>1. /\ CleanOldHandshakes(peers_info[a], Clock(a)) \in Table
        /\ \A p \in Agent : CleanOldHandshakes(peers_info[a], Clock(a))[p] = NoPeer
                            <=> peers_info[a][p] = NoPeer
    BY ClockType, CleanType DEF TypeOK, Table
  <2>2. peers_info' \in [Agent -> [Agent -> PeerInfo \cup {NoPeer}]]
    BY <1>3, <2>1 DEF TypeOK, HandshakeTick, Table
  <2>3. \A b, p \in Agent : peers_info'[b][p] = NoPeer <=> heard'[b][p] = -1
    BY <1>3, <2>1 DEF TypeOK, HandshakeTick
  <2>4. transit' \subseteq Message /\ due' \in [Agent -> Nat]
    BY <1>3, CopiesType DEF TypeOK, HandshakeTick
  <2> QED  BY <1>3, <2>2, <2>3, <2>4 DEF TypeOK, HandshakeTick, clockVars
<1>4. ASSUME NEW a \in Agent, HandshakeTickPanics(a) PROVE TypeOK'
  <2>1. StopProcess(a)
    BY <1>4 DEF HandshakeTickPanics
  <2>2. transit' \subseteq transit \cup Copies(a) /\ spoke' \in [Agent -> Time \cup {-1}]
    BY <1>4 DEF TypeOK, HandshakeTickPanics
  <2>3. transit' \subseteq Message
    BY <2>2, CopiesType DEF TypeOK
  <2> QED  BY <1>4, <2>1, <2>2, <2>3, StopType DEF TypeOK, HandshakeTickPanics, clockVars, Table
<1>5. ASSUME NEW a \in Agent, Talk(a) PROVE TypeOK'
  BY <1>5, CopiesType DEF TypeOK, Talk, clockVars
<1>6. ASSUME NEW m \in transit, Hear(m) PROVE TypeOK'
  <2>1. m.to \in Agent /\ m.from \in Agent
    BY DEF TypeOK
  <2>2. peers_info[m.to] \in Table /\ Clock(m.to) \in Nat
    BY <2>1, ClockType DEF TypeOK, Table
  <2> DEFINE new == ProcessHandshake(peers_info[m.to], m.from, Clock(m.to))
  <2>3. /\ new \in Table /\ new[m.from] # NoPeer
        /\ \A q \in Agent \ {m.from} : new[q] = peers_info[m.to][q]
    <3>1. new \in Table /\ new[m.from] # NoPeer
      BY <2>1, <2>2, ProcessHandshakeType
    <3>2. \A q \in Agent \ {m.from} : new[q] = peers_info[m.to][q]
      BY <2>1, <2>2, ProcessHandshakeOthers
    <3> QED  BY <3>1, <3>2
  <2>4. peers_info' = [peers_info EXCEPT ![m.to] = new]
    BY <1>6 DEF Hear
  <2>5. heard' = [heard EXCEPT ![m.to][m.from] = now]
    BY <1>6 DEF Hear
  <2> HIDE DEF new
  <2>6. peers_info' \in [Agent -> [Agent -> PeerInfo \cup {NoPeer}]]
    BY <2>1, <2>3, <2>4 DEF TypeOK, Table
  <2>7. heard' \in [Agent -> [Agent -> Time \cup {-1}]]
    BY <2>1, <2>5 DEF TypeOK
  <2>8. \A b, p \in Agent : peers_info'[b][p] = NoPeer <=> heard'[b][p] = -1
    BY <2>1, <2>3, <2>4, <2>5 DEF TypeOK
  <2> QED  BY <1>6, <2>6, <2>7, <2>8 DEF TypeOK, Hear, clockVars
<1>7. ASSUME NEW m \in transit, Lose(m) PROVE TypeOK'
  BY <1>7 DEF TypeOK, Lose, clockVars, historyVars
<1>8. ASSUME NEW a \in Agent, NEW p \in Agent, Relay(p, a) PROVE TypeOK'
  BY <1>8 DEF TypeOK, Relay, clockVars, historyVars
<1>9. ASSUME NEW a \in Agent, SetClockBack(a) PROVE TypeOK'
  <2>1. /\ skew' \in [Agent -> Int] /\ back' \in [Agent -> 0 .. MaxBack]
        /\ \A b \in Agent : -back'[b] <= skew'[b] /\ skew'[b] <= MaxAhead
    BY <1>9 DEF TypeOK, SetClockBack
  <2> QED  BY <1>9, <2>1 DEF TypeOK, SetClockBack, historyVars
<1>10. ASSUME NEW a \in Agent, SetClockAhead(a) PROVE TypeOK'
  <2>1. /\ skew' \in [Agent -> Int]
        /\ \A b \in Agent : -back[b] <= skew'[b] /\ skew'[b] <= MaxAhead
    BY <1>10 DEF TypeOK, SetClockAhead
  <2> QED  BY <1>10, <2>1 DEF TypeOK, SetClockAhead, historyVars
<1>11. CASE AdvanceTime
  BY <1>11 DEF TypeOK, AdvanceTime, clockVars, historyVars
<1>12. CASE UNCHANGED vars
  BY <1>12 DEF TypeOK, vars
<1> QED
  BY <1>1, <1>2, <1>3, <1>4, <1>5, <1>6, <1>7, <1>8, <1>9, <1>10, <1>11, <1>12
  DEF Next, Core, Environment

\* The types of all variables, for any agents, periods and bounds.
THEOREM TypeCorrect == Spec => []TypeOK
<1>1. Init => TypeOK
  BY PeerHealthAssumption DEF PeerHealthAssumption, Init, TypeOK
<1> QED  BY <1>1, TypeStep, PTL DEF Spec
-----------------------------------------------------------------------------
(* Timing: what the bounds on lateness and delay give. *)

\* A tick that is due and a message under way have not waited longer than they
\* may, the next tick is at most a period away, and who is down knows nobody.
Timing ==
  /\ \A a \in Agent : up[a] => now <= due[a] + Lateness
  /\ \A a \in Agent : due[a] <= now + Tick /\ since[a] <= now /\ spoke[a] <= now
  /\ \A a, p \in Agent : heard[a][p] <= now
  /\ \A a \in Agent : heard[a][a] = -1
  /\ \A m \in transit : m.sent <= now /\ now <= m.sent + MaxDelay /\ m.from # m.to
  /\ \A a, p \in Agent : ~up[a] => heard[a][p] = -1

LEMMA TimingStep == TypeOK /\ Timing /\ [Next]_vars => Timing'
<1> SUFFICES ASSUME TypeOK, Timing, [Next]_vars PROVE Timing'
  OBVIOUS
<1> USE PeerHealthAssumption DEF PeerHealthAssumption
<1>1. ASSUME NEW a \in Agent, Start(a) PROVE Timing'
  BY <1>1 DEF TypeOK, Timing, Start, clockVars
<1>2. ASSUME NEW a \in Agent, Crash(a) PROVE Timing'
  <2>1. \A b, p \in Agent : heard'[b][p] <= now /\ heard'[b][b] = -1
    BY <1>2 DEF TypeOK, Timing, Crash, StopProcess
  <2>2. \A b, p \in Agent : ~up'[b] => heard'[b][p] = -1
    BY <1>2 DEF TypeOK, Timing, Crash, StopProcess
  <2>3. \A b \in Agent : up'[b] => up[b]
    BY <1>2 DEF TypeOK, Crash, StopProcess
  <2> QED  BY <1>2, <2>1, <2>2, <2>3 DEF TypeOK, Timing, Crash, clockVars
<1>3. ASSUME NEW a \in Agent, HandshakeTick(a) PROVE Timing'
  <2>1. \A m \in transit' : m.sent <= now /\ now <= m.sent + MaxDelay /\ m.from # m.to
    BY <1>3, CopiesType DEF TypeOK, Timing, HandshakeTick
  <2> QED  BY <1>3, <2>1 DEF TypeOK, Timing, HandshakeTick, clockVars
<1>4. ASSUME NEW a \in Agent, HandshakeTickPanics(a) PROVE Timing'
  <2>1. \A m \in transit' : m.sent <= now /\ now <= m.sent + MaxDelay /\ m.from # m.to
    BY <1>4, CopiesType DEF TypeOK, Timing, HandshakeTickPanics
  <2>2. \A b \in Agent : spoke'[b] <= now
    BY <1>4 DEF TypeOK, Timing, HandshakeTickPanics
  <2> QED  BY <1>4, <2>1, <2>2 DEF TypeOK, Timing, HandshakeTickPanics, StopProcess, clockVars
<1>5. ASSUME NEW a \in Agent, Talk(a) PROVE Timing'
  <2>1. \A m \in transit' : m.sent <= now /\ now <= m.sent + MaxDelay /\ m.from # m.to
    BY <1>5, CopiesType DEF TypeOK, Timing, Talk
  <2> QED  BY <1>5, <2>1 DEF TypeOK, Timing, Talk, clockVars
<1>6. ASSUME NEW m \in transit, Hear(m) PROVE Timing'
  BY <1>6 DEF TypeOK, Timing, Hear, clockVars
<1>7. ASSUME NEW m \in transit, Lose(m) PROVE Timing'
  BY <1>7 DEF TypeOK, Timing, Lose, clockVars, historyVars
<1>8. ASSUME NEW a \in Agent, NEW p \in Agent, Relay(p, a) PROVE Timing'
  BY <1>8 DEF TypeOK, Timing, Relay, clockVars, historyVars
<1>9. ASSUME NEW a \in Agent, SetClockBack(a) \/ SetClockAhead(a) PROVE Timing'
  BY <1>9 DEF Timing, SetClockBack, SetClockAhead, historyVars
<1>10. CASE AdvanceTime
  <2>1. /\ now \in Int /\ now' = now + 1
        /\ \A a \in Agent : up[a] => now < due[a] + Lateness
        /\ \A m \in transit : now < m.sent + MaxDelay
        /\ \A m \in transit : m.sent \in Int
        /\ \A a \in Agent : due[a] \in Int /\ since[a] \in Int /\ spoke[a] \in Int
    BY <1>10 DEF TypeOK, AdvanceTime
  <2>2. UNCHANGED <<up, due, transit, since, spoke, heard>>
    BY <1>10 DEF AdvanceTime, historyVars
  <2>3. \A a, p \in Agent : heard[a][p] \in Int
    BY DEF TypeOK
  <2>4. \A a, p \in Agent : heard'[a][p] <= now'
    BY <2>1, <2>2, <2>3 DEF Timing
  <2>5. \A a \in Agent : /\ up'[a] => now' <= due'[a] + Lateness
                         /\ due'[a] <= now' + Tick /\ since'[a] <= now' /\ spoke'[a] <= now'
    BY <2>1, <2>2 DEF Timing
  <2>6. \A m \in transit' : m.sent <= now' /\ now' <= m.sent + MaxDelay /\ m.from # m.to
    BY <2>1, <2>2 DEF Timing
  <2> QED  BY <2>2, <2>4, <2>5, <2>6 DEF Timing
<1>11. CASE UNCHANGED vars
  BY <1>11 DEF Timing, vars
<1> QED
  BY <1>1, <1>2, <1>3, <1>4, <1>5, <1>6, <1>7, <1>8, <1>9, <1>10, <1>11
  DEF Next, Core, Environment

LEMMA TimingHolds == Spec => []Timing
<1>1. Init => Timing
  BY PeerHealthAssumption DEF PeerHealthAssumption, Init, Timing
<1> QED  BY <1>1, TimingStep, TypeCorrect, PTL DEF Spec
-----------------------------------------------------------------------------
(* A peer shown online is alive. *)

\* An entry's age on the wall clock is not less than the silence it stands for,
\* but for what the clock was set back; an entry that is online has been within
\* the limit at the last tick; and nobody is heard who has not spoken.
EntryAged(a, p) ==
  peers_info[a][p] # NoPeer =>
    /\ peers_info[a][p].last_handshake <= MaxBack + heard[a][p] + skew[a] + back[a]
    /\ peers_info[a][p].is_online => due[a] <= heard[a][p] + Limit + Tick + back[a]
    /\ p \notin Relayed => spoke[p] >= 0 /\ heard[a][p] <= spoke[p] + MaxDelay

Aging ==
  /\ \A a, p \in Agent : EntryAged(a, p)
  /\ \A m \in transit : m.from \notin Relayed => m.sent <= spoke[m.from]

\* What a tick leaves online is within the limit.
LEMMA TickAges ==
  ASSUME TypeOK, Timing, Aging, NEW a \in Agent, HandshakeTick(a), NEW p \in Agent
  PROVE  EntryAged(a, p)'
<1> USE PeerHealthAssumption DEF PeerHealthAssumption
<1> SUFFICES ASSUME peers_info'[a][p] # NoPeer PROVE EntryAged(a, p)'
  BY DEF EntryAged
<1> DEFINE old == peers_info[a][p]
           new == peers_info'[a][p]
           h   == heard[a][p]
<1>1. /\ peers_info[a] \in Table /\ Clock(a) \in Nat
      /\ h \in Int /\ due[a] \in Int /\ now \in Int /\ skew[a] \in Int /\ back[a] \in Nat
      /\ back[a] <= MaxBack
  BY ClockType DEF TypeOK, Table
<1>2. new = CleanOldHandshakes(peers_info[a], Clock(a))[p]
  BY <1>1 DEF TypeOK, HandshakeTick
<1>3. old # NoPeer /\ old \in PeerInfo
  <2>1. old # NoPeer
    BY <1>1, <1>2, CleanType
  <2> QED  BY <1>1, <2>1 DEF Table
<1>4. /\ new.last_handshake = old.last_handshake
      /\ new.is_online => old.is_online /\ ~TooOld(old, Clock(a))
  BY <1>1, <1>2, <1>3, CleanEntry
<1>5. /\ heard' = heard /\ back' = back /\ skew' = skew
      /\ due'[a] = due[a] + Tick /\ due[a] <= now
      /\ \A q \in Agent : spoke'[q] = spoke[q] \/ spoke'[q] = now
  BY DEF HandshakeTick, TypeOK, clockVars
<1>6. /\ old.last_handshake <= MaxBack + h + skew[a] + back[a]
      /\ p \notin Relayed => spoke[p] >= 0 /\ h <= spoke[p] + MaxDelay
      /\ h <= now /\ spoke[p] <= now
  BY <1>3 DEF Aging, EntryAged, Timing
<1>7. old.last_handshake \in Nat
  BY <1>3 DEF PeerInfo
<1>8. ASSUME ~TooOld(old, Clock(a)) PROVE now <= h + Limit + back[a]
  BY <1>1, <1>6, <1>7, <1>8 DEF TooOld, Elapsed, Clock
<1>9. p \notin Relayed => spoke'[p] >= 0 /\ h <= spoke'[p] + MaxDelay
  <2>1. now >= 0 /\ spoke[p] \in Int
    BY DEF TypeOK
  <2>2. spoke'[p] = spoke[p] \/ spoke'[p] = now
    BY <1>5
  <2> HIDE DEF h
  <2> QED  BY <1>1, <1>6, <2>1, <2>2
<1> QED  BY <1>1, <1>4, <1>5, <1>6, <1>8, <1>9 DEF EntryAged

\* Every action keeps Aging.
LEMMA AgingStep == TypeOK /\ Timing /\ Aging /\ [Next]_vars => Aging'
<1> SUFFICES ASSUME TypeOK, Timing, Aging, [Next]_vars PROVE Aging'
  OBVIOUS
<1> USE PeerHealthAssumption DEF PeerHealthAssumption
<1>1. ASSUME NEW a \in Agent, Start(a) PROVE Aging'
  BY <1>1 DEF TypeOK, Timing, Aging, EntryAged, Start, clockVars
<1>2. ASSUME NEW a \in Agent, Crash(a) PROVE Aging'
  BY <1>2 DEF TypeOK, Aging, EntryAged, Crash, StopProcess, clockVars
<1>3. ASSUME NEW a \in Agent, HandshakeTick(a) PROVE Aging'
  <2>1. ASSUME NEW b \in Agent \ {a}, NEW p \in Agent PROVE EntryAged(b, p)'
    BY <1>3 DEF TypeOK, Timing, Aging, EntryAged, HandshakeTick, clockVars
  <2>2. \A m \in transit' : m.from \notin Relayed => m.sent <= spoke'[m.from]
    BY <1>3, CopiesType DEF TypeOK, Timing, Aging, HandshakeTick
  <2> QED  BY <1>3, <2>1, <2>2, TickAges DEF Aging
<1>4. ASSUME NEW a \in Agent, HandshakeTickPanics(a) PROVE Aging'
  <2>0. /\ \A q \in Agent : spoke'[q] = spoke[q] \/ spoke'[q] = now
        /\ \/ transit' \subseteq transit
           \/ transit' \subseteq transit \cup Copies(a) /\ spoke'[a] = now
    BY <1>4 DEF TypeOK, HandshakeTickPanics
  <2>1. \A m \in transit' : m.from \notin Relayed => m.sent <= spoke'[m.from]
    <3>1. \A m \in transit : m.from \in Agent /\ m.sent <= now /\ m.sent \in Int
      BY DEF TypeOK, Timing
    <3>2. \A m \in Copies(a) : m.from = a /\ m.sent = now
      BY CopiesType
    <3>3. now \in Int /\ \A q \in Agent : spoke[q] \in Int
      BY DEF TypeOK
    <3> QED  BY <2>0, <3>1, <3>2, <3>3 DEF Aging
  <2>2. ASSUME NEW b \in Agent, NEW p \in Agent, peers_info'[b][p] # NoPeer
        PROVE  /\ peers_info'[b][p] = peers_info[b][p] /\ heard'[b][p] = heard[b][p]
               /\ due' = due /\ skew' = skew /\ back' = back
    BY <1>4, <2>2 DEF TypeOK, HandshakeTickPanics, StopProcess, clockVars
  <2>3. ASSUME NEW b \in Agent, NEW p \in Agent, peers_info'[b][p] # NoPeer
        PROVE  EntryAged(b, p)'
    <3>1. heard[b][p] \in Int /\ spoke[p] \in Int /\ now \in Nat /\ heard[b][p] <= now
      BY DEF TypeOK, Timing
    <3>2. p \notin Relayed => spoke'[p] >= 0 /\ heard[b][p] <= spoke'[p] + MaxDelay
      BY <2>0, <2>2, <2>3, <3>1 DEF Aging, EntryAged
    <3> QED  BY <2>2, <2>3, <3>2 DEF Aging, EntryAged
  <2> QED  BY <2>1, <2>3 DEF Aging, EntryAged
<1>5. ASSUME NEW a \in Agent, Talk(a) PROVE Aging'
  <2>1. \A m \in transit' : m.from \notin Relayed => m.sent <= spoke'[m.from]
    BY <1>5, CopiesType DEF TypeOK, Timing, Aging, Talk
  <2> QED  BY <1>5, <2>1 DEF TypeOK, Timing, Aging, EntryAged, Talk, clockVars
<1>6. ASSUME NEW m \in transit, Hear(m) PROVE Aging'
  <2> DEFINE a == m.to
             p == m.from
  <2>1. a \in Agent /\ p \in Agent /\ m.sent \in Int
    BY DEF TypeOK
  <2>2. /\ peers_info[a] \in Table /\ Clock(a) \in Nat
        /\ now \in Int /\ skew[a] \in Int /\ back[a] \in Nat
    BY <2>1, ClockType DEF TypeOK, Table
  <2> HIDE DEF a, p
  <2>3. /\ peers_info' = [peers_info EXCEPT ![a] = ProcessHandshake(peers_info[a], p, Clock(a))]
        /\ heard' = [heard EXCEPT ![a][p] = now]
        /\ due' = due /\ skew' = skew /\ back' = back /\ spoke' = spoke
        /\ transit' \subseteq transit
    BY <1>6 DEF Hear, clockVars, a, p
  <2>4. /\ peers_info'[a][p].last_handshake = Clock(a)
        /\ heard'[a][p] = now
    BY <2>1, <2>2, <2>3, ProcessHandshakeEntry DEF TypeOK
  <2>5. /\ p \notin Relayed => spoke[p] >= m.sent
        /\ now <= m.sent + MaxDelay /\ m.sent >= 0
    BY <1>6 DEF TypeOK, Timing, Aging, p
  <2>6. due[a] <= now + Tick /\ due[a] \in Int /\ spoke[p] \in Int
    BY <2>1 DEF TypeOK, Timing
  <2>7. EntryAged(a, p)'
    BY <2>1, <2>2, <2>3, <2>4, <2>5, <2>6 DEF EntryAged, Clock
  <2>8. ASSUME NEW b \in Agent, NEW q \in Agent, b # a \/ q # p
        PROVE  peers_info'[b][q] = peers_info[b][q] /\ heard'[b][q] = heard[b][q]
    BY <2>1, <2>2, <2>3, <2>8, ProcessHandshakeOthers DEF TypeOK
  <2>9. ASSUME NEW b \in Agent, NEW q \in Agent, b # a \/ q # p PROVE EntryAged(b, q)'
    BY <2>3, <2>8, <2>9 DEF Aging, EntryAged
  <2> QED  BY <2>3, <2>7, <2>9 DEF Aging
<1>7. ASSUME NEW m \in transit, Lose(m) PROVE Aging'
  BY <1>7 DEF Aging, EntryAged, Lose, clockVars, historyVars
<1>8. ASSUME NEW a \in Agent, SetClockBack(a) PROVE Aging'
  <2>1. UNCHANGED <<due, peers_info, transit, spoke, heard>>
    BY <1>8 DEF SetClockBack, historyVars
  <2>2. \A b \in Agent : /\ skew[b] + back[b] <= skew'[b] + back'[b] /\ back[b] <= back'[b]
                         /\ {skew[b], back[b], skew'[b], back'[b], due[b], spoke[b]} \subseteq Int
    BY <1>8 DEF TypeOK, SetClockBack
  <2>3. ASSUME NEW b \in Agent, NEW p \in Agent PROVE EntryAged(b, p)'
    <3>1. /\ heard[b][p] \in Int
          /\ peers_info[b][p] # NoPeer => peers_info[b][p].last_handshake \in Int
      BY DEF TypeOK, PeerInfo
    <3> QED  BY <2>1, <2>2, <3>1 DEF Aging, EntryAged
  <2> QED  BY <2>1, <2>3 DEF Aging
<1>9. ASSUME NEW a \in Agent, SetClockAhead(a) PROVE Aging'
  <2>1. UNCHANGED <<due, peers_info, transit, spoke, heard>>
    BY <1>9 DEF SetClockAhead, historyVars
  <2>2. \A b \in Agent : /\ skew[b] + back[b] <= skew'[b] + back'[b] /\ back[b] <= back'[b]
                         /\ {skew[b], back[b], skew'[b], back'[b], due[b], spoke[b]} \subseteq Int
    BY <1>9 DEF TypeOK, SetClockAhead
  <2>3. ASSUME NEW b \in Agent, NEW p \in Agent PROVE EntryAged(b, p)'
    <3>1. /\ heard[b][p] \in Int
          /\ peers_info[b][p] # NoPeer => peers_info[b][p].last_handshake \in Int
      BY DEF TypeOK, PeerInfo
    <3> QED  BY <2>1, <2>2, <3>1 DEF Aging, EntryAged
  <2> QED  BY <2>1, <2>3 DEF Aging
<1>10. CASE AdvanceTime
  BY <1>10 DEF Aging, EntryAged, AdvanceTime, clockVars, historyVars
<1>11. CASE UNCHANGED vars
  BY <1>11 DEF Aging, EntryAged, vars
<1>12. ASSUME NEW a \in Agent, NEW p \in Agent, Relay(p, a) PROVE Aging'
  BY <1>12 DEF Aging, EntryAged, Relay, clockVars, historyVars
<1> QED
  BY <1>1, <1>2, <1>3, <1>4, <1>5, <1>6, <1>7, <1>8, <1>9, <1>10, <1>11, <1>12
  DEF Next, Core, Environment

\* A peer shown online has published something within a known time.
THEOREM OnlineMeansAliveHolds == Spec => []OnlineMeansAlive
<1> USE PeerHealthAssumption DEF PeerHealthAssumption
<1>1. Init => Aging
  BY DEF Init, Aging, EntryAged
<1>2. TypeOK /\ Timing /\ Aging => OnlineMeansAlive
  <2> SUFFICES ASSUME TypeOK, Timing, Aging, NEW a \in Agent, NEW p \in Agent \ Relayed,
                      up[a], IsOnline(a, p)
               PROVE  /\ spoke[p] >= 0
                      /\ now - spoke[p] <= Limit + Tick + Lateness + MaxDelay + back[a]
    BY DEF OnlineMeansAlive
  <2>1. /\ due[a] <= heard[a][p] + Limit + Tick + back[a]
        /\ spoke[p] >= 0 /\ heard[a][p] <= spoke[p] + MaxDelay
    BY DEF Aging, EntryAged, IsOnline
  <2>2. now <= due[a] + Lateness
    BY DEF Timing
  <2>3. /\ due[a] \in Int /\ heard[a][p] \in Int /\ spoke[p] \in Int /\ now \in Int
        /\ back[a] \in Int
    BY DEF TypeOK
  <2> QED  BY <2>1, <2>2, <2>3
<1> QED  BY <1>1, <1>2, AgingStep, TypeCorrect, TimingHolds, PTL DEF Spec
-----------------------------------------------------------------------------
(* A live peer is shown online. *)

\* Lateness and delay add up to no more than what the limit leaves over a period
\* (15 s in the code).
Punctual == Tick + Lateness + MaxDelay <= Limit

\* An entry that is not older than the limit is online.
EntryFresh(a, p) ==
  peers_info[a][p] # NoPeer =>
    /\ peers_info[a][p].last_handshake = MaxBack + heard[a][p]
    /\ now <= heard[a][p] + Limit => peers_info[a][p].is_online

\* The next handshake of p is due in time, or under way.
NextComes(a, p) ==
  \/ due[p] <= heard[a][p] + Tick
  \/ \E m \in transit : m.from = p /\ m.to = a /\ m.sent <= heard[a][p] + Tick + Lateness

Awaited(a, p) ==
  up[a] /\ up[p] /\ heard[a][p] # -1 /\ heard[a][p] >= since[p] => NextComes(a, p)

Lively == Undisturbed => \A a, p \in Agent : EntryFresh(a, p) /\ Awaited(a, p)

\* What was disturbed stays so.
LEMMA UndisturbedStep ==
  ASSUME TypeOK, [Next]_vars, Undisturbed'
  PROVE  /\ Undisturbed
         /\ \A a \in Agent : ~SetClockBack(a) /\ ~SetClockAhead(a)
         /\ \A m \in transit : ~Lose(m)
<1>1. ASSUME NEW m \in transit PROVE ~Lose(m)
  BY DEF Lose, TypeOK, Undisturbed
<1>2. ASSUME NEW a \in Agent PROVE ~SetClockBack(a) /\ ~SetClockAhead(a)
  <2>1. skew[a] \in Int /\ back[a] \in Nat /\ -back[a] <= skew[a]
    BY PeerHealthAssumption DEF TypeOK, PeerHealthAssumption
  <2>2. skew'[a] = 0 /\ back'[a] = 0
    BY DEF Undisturbed
  <2>3. ASSUME SetClockBack(a) PROVE FALSE
    <3>1. back'[a] = back[a] + 1
      BY <2>3 DEF TypeOK, SetClockBack
    <3> QED  BY <2>1, <2>2, <3>1
  <2>4. ASSUME SetClockAhead(a) PROVE FALSE
    <3>1. skew'[a] = skew[a] + 1 /\ back'[a] = back[a]
      BY <2>4 DEF TypeOK, SetClockAhead
    <3> QED  BY <2>1, <2>2, <3>1
  <2> QED  BY <2>3, <2>4
<1>3. lost' = lost /\ skew' = skew /\ back' = back
  BY <1>1, <1>2 DEF Next, Core, Environment, Start, Crash, HandshakeTick, HandshakeTickPanics,
    Talk, Hear, Relay, AdvanceTime, clockVars, vars
<1> QED  BY <1>1, <1>2, <1>3 DEF Undisturbed

LEMMA UndisturbedClock ==
  ASSUME TypeOK, Undisturbed, NEW a \in Agent
  PROVE  Clock(a) = MaxBack + now
  <1>1. skew[a] = 0 /\ now \in Int /\ MaxBack \in Int
    BY PeerHealthAssumption DEF TypeOK, Undisturbed, PeerHealthAssumption
  <1> QED  BY <1>1 DEF Clock

LEMMA EntryFreshStep ==
  ASSUME TypeOK, Timing, Lively, [Next]_vars, Undisturbed',
         NEW b \in Agent, NEW q \in Agent
  PROVE  EntryFresh(b, q)'
<1> USE PeerHealthAssumption DEF PeerHealthAssumption
<1>0. Undisturbed
  BY UndisturbedStep
<1> DEFINE Same == /\ peers_info'[b][q] # NoPeer => /\ peers_info'[b][q] = peers_info[b][q]
                                                    /\ heard'[b][q] = heard[b][q]
                   /\ now' \in {now, now + 1}
<1>1. ASSUME Same PROVE EntryFresh(b, q)'
  <2>1. heard[b][q] \in Int /\ now \in Int
    BY DEF TypeOK
  <2> QED  BY <1>0, <1>1, <2>1 DEF Lively, EntryFresh
<1>2. ASSUME NEW a \in Agent, Start(a) \/ Talk(a) PROVE Same
  BY <1>2 DEF Start, Talk
<1>3. ASSUME NEW a \in Agent, Crash(a) \/ HandshakeTickPanics(a) PROVE Same
  <2>1. /\ peers_info' = [peers_info EXCEPT ![a] = [p \in Agent |-> NoPeer]]
        /\ heard' = [heard EXCEPT ![a] = [p \in Agent |-> -1]]
        /\ now' = now
    BY <1>3 DEF Crash, HandshakeTickPanics, StopProcess
  <2>2. CASE b # a
    BY <2>1, <2>2 DEF TypeOK
  <2>3. CASE b = a
    BY <2>1, <2>3 DEF TypeOK
  <2> QED  BY <2>2, <2>3
<1>4. ASSUME NEW a \in Agent, HandshakeTick(a) PROVE EntryFresh(b, q)'
  <2>1. CASE b # a
    <3>1. Same
      BY <1>4, <2>1 DEF TypeOK, HandshakeTick
    <3> QED  BY <1>1, <3>1
  <2>2. CASE b = a /\ peers_info'[b][q] # NoPeer
    <3>1. /\ peers_info[a] \in Table /\ Clock(a) \in Nat /\ Clock(a) = MaxBack + now
          /\ heard[a][q] \in Int /\ heard[a][q] <= now
      BY ClockType, <1>0, UndisturbedClock DEF TypeOK, Table, Timing
    <3>2. /\ peers_info'[a][q] = CleanOldHandshakes(peers_info[a], Clock(a))[q]
          /\ heard' = heard /\ now' = now
      BY <1>4 DEF TypeOK, HandshakeTick
    <3>3. peers_info[a][q] # NoPeer
      BY <2>2, <3>1, <3>2, CleanType
    <3>4. /\ peers_info'[a][q].last_handshake = peers_info[a][q].last_handshake
          /\ peers_info[a][q].is_online /\ ~TooOld(peers_info[a][q], Clock(a))
             => peers_info'[a][q].is_online
      BY <3>1, <3>2, <3>3, CleanEntry
    <3>5. /\ peers_info[a][q].last_handshake = MaxBack + heard[a][q]
          /\ now <= heard[a][q] + Limit => peers_info[a][q].is_online
      BY <1>0, <3>3 DEF Lively, EntryFresh
    <3>6. now <= heard[a][q] + Limit => ~TooOld(peers_info[a][q], Clock(a))
      <4>1. now \in Int /\ MaxBack \in Int
        BY DEF TypeOK
      <4> QED  BY <3>1, <3>5, <4>1 DEF TooOld, Elapsed
    <3> QED  BY <2>2, <3>2, <3>4, <3>5, <3>6 DEF EntryFresh
  <2> QED  BY <2>1, <2>2 DEF EntryFresh
<1>5. ASSUME NEW m \in transit, Hear(m) PROVE EntryFresh(b, q)'
  <2> DEFINE a == m.to
             p == m.from
  <2>1. a \in Agent /\ p \in Agent
    BY DEF TypeOK
  <2>2. peers_info[a] \in Table /\ Clock(a) \in Nat /\ Clock(a) = MaxBack + now
    BY <2>1, ClockType, <1>0, UndisturbedClock DEF TypeOK, Table
  <2> HIDE DEF a, p
  <2>3. /\ peers_info' = [peers_info EXCEPT ![a] = ProcessHandshake(peers_info[a], p, Clock(a))]
        /\ heard' = [heard EXCEPT ![a][p] = now]
        /\ now' = now
    BY <1>5 DEF Hear, a, p
  <2>4. CASE b = a /\ q = p
    <3>1. /\ peers_info'[a][p].last_handshake = MaxBack + now
          /\ peers_info'[a][p].is_online
          /\ heard'[a][p] = now
      BY <2>1, <2>2, <2>3, ProcessHandshakeEntry DEF TypeOK
    <3> QED  BY <2>4, <3>1 DEF EntryFresh
  <2>5. CASE b # a \/ q # p
    <3>1. peers_info'[b][q] = peers_info[b][q] /\ heard'[b][q] = heard[b][q]
      BY <2>1, <2>2, <2>3, <2>5, ProcessHandshakeOthers DEF TypeOK
    <3> QED  BY <1>1, <2>3, <3>1
  <2> QED  BY <2>4, <2>5
<1>6. ASSUME NEW m \in transit, Lose(m) PROVE Same
  BY <1>6 DEF Lose, historyVars
<1>7. ASSUME NEW a \in Agent, NEW p \in Agent, Relay(p, a) PROVE Same
  BY <1>7 DEF Relay, historyVars
<1>8. CASE AdvanceTime
  <2>1. Same
    BY <1>8 DEF AdvanceTime, historyVars
  <2> QED  BY <1>1, <2>1
<1>9. CASE UNCHANGED vars
  <2>1. Same
    BY <1>9 DEF vars
  <2> QED  BY <1>1, <2>1
<1> HIDE DEF Same
<1> QED
  BY <1>1, <1>2, <1>3, <1>4, <1>5, <1>6, <1>7, <1>8, <1>9, UndisturbedStep
  DEF Next, Core, Environment

LEMMA AwaitedStep ==
  ASSUME TypeOK, Timing, Lively, [Next]_vars, Undisturbed',
         NEW b \in Agent, NEW q \in Agent
  PROVE  Awaited(b, q)'
<1> USE PeerHealthAssumption DEF PeerHealthAssumption
<1> SUFFICES ASSUME up'[b], up'[q], heard'[b][q] # -1, heard'[b][q] >= since'[q]
             PROVE  NextComes(b, q)'
  BY DEF Awaited
<1>0. Undisturbed
  BY UndisturbedStep
<1>1. /\ heard[b][q] \in Int /\ heard[b][q] <= now /\ since[q] \in Int
      /\ now \in Int /\ due[q] \in Int /\ due[q] <= now + Tick
  BY DEF TypeOK, Timing
<1> DEFINE Late(m) == m.from = q /\ m.to = b /\ m.sent <= heard[b][q] + Tick + Lateness
\* Nothing changes for the two but messages that come on top.
<1>2. ASSUME up[b], up[q], heard'[b][q] = heard[b][q], since'[q] = since[q],
             due'[q] = due[q], \A m \in transit : Late(m) => m \in transit'
      PROVE  NextComes(b, q)'
  BY <1>0, <1>2 DEF Lively, Awaited, NextComes
<1>3. ASSUME NEW a \in Agent, Start(a) PROVE NextComes(b, q)'
  <2>1. CASE a = b
    BY <1>3, <2>1 DEF Start, Timing
  <2>2. CASE a # b /\ a = q
    <3>1. heard'[b][q] = heard[b][q] /\ since'[q] = now /\ due'[q] = now
      BY <1>3, <2>2 DEF TypeOK, Start
    <3> QED  BY <1>1, <3>1 DEF NextComes
  <2>3. CASE a # b /\ a # q
    BY <1>2, <1>3, <2>3 DEF TypeOK, Start
  <2> QED  BY <2>1, <2>2, <2>3
<1>4. ASSUME NEW a \in Agent, Crash(a) \/ HandshakeTickPanics(a) PROVE NextComes(b, q)'
  <2>1. a # b /\ a # q /\ up[b] /\ up[q] /\ heard'[b] = heard[b]
    BY <1>4 DEF TypeOK, Crash, HandshakeTickPanics, StopProcess
  <2>2. \A m \in transit : m.to = b => m \in transit'
    BY <1>4, <2>1 DEF Crash, HandshakeTickPanics
  <2>3. since' = since /\ due' = due
    BY <1>4 DEF Crash, HandshakeTickPanics
  <2> QED  BY <1>2, <2>1, <2>2, <2>3
<1>5. ASSUME NEW a \in Agent, HandshakeTick(a) PROVE NextComes(b, q)'
  <2>1. up' = up /\ heard' = heard /\ since' = since /\ transit \subseteq transit'
    BY <1>5 DEF HandshakeTick
  <2>2. CASE a # q
    BY <1>2, <1>5, <2>1, <2>2 DEF TypeOK, HandshakeTick
  <2>3. CASE a = q
    <3>1. CASE \E m \in transit : Late(m)
      BY <2>1, <3>1 DEF NextComes
    <3>2. CASE due[q] <= heard[b][q] + Tick
      <4>1. b # q
        BY <2>1 DEF Timing
      <4>2. now <= due[q] + Lateness
        BY <2>1 DEF Timing
      <4> DEFINE m == [from |-> q, to |-> b, sent |-> now]
      <4>3. m \in transit'
        BY <1>5, <2>1, <2>3, <4>1, CopiesType DEF HandshakeTick
      <4>4. m.from = q /\ m.to = b /\ m.sent <= heard'[b][q] + Tick + Lateness
        BY <1>1, <2>1, <3>2, <4>2
      <4> HIDE DEF m
      <4> QED  BY <4>3, <4>4 DEF NextComes
    <3> QED  BY <1>0, <2>1, <3>1, <3>2 DEF Lively, Awaited, NextComes
  <2> QED  BY <2>2, <2>3
<1>6. ASSUME NEW a \in Agent, Talk(a) PROVE NextComes(b, q)'
  BY <1>2, <1>6 DEF Talk
<1>7. ASSUME NEW m \in transit, Hear(m) PROVE NextComes(b, q)'
  <2>1. /\ heard' = [heard EXCEPT ![m.to][m.from] = now] /\ transit' = transit \ {m}
        /\ up' = up /\ due' = due /\ since' = since
    BY <1>7 DEF Hear
  <2>2. m.to \in Agent /\ m.from \in Agent
    BY DEF TypeOK
  <2>3. CASE b = m.to /\ q = m.from
    <3>1. heard'[b][q] = now
      BY <2>1, <2>2, <2>3 DEF TypeOK
    <3> QED  BY <1>1, <2>1, <3>1 DEF NextComes
  <2>4. CASE b # m.to \/ q # m.from
    <3>1. heard'[b][q] = heard[b][q]
      BY <2>1, <2>2, <2>4 DEF TypeOK
    <3>2. \A k \in transit : Late(k) => k \in transit'
      BY <2>1, <2>4
    <3> QED  BY <1>2, <2>1, <3>1, <3>2
  <2> QED  BY <2>3, <2>4
<1>8. ASSUME NEW a \in Agent, NEW p \in Agent, Relay(p, a) PROVE NextComes(b, q)'
  BY <1>2, <1>8 DEF Relay, historyVars
<1>9. CASE AdvanceTime
  BY <1>2, <1>9 DEF AdvanceTime, historyVars
<1>10. CASE UNCHANGED vars
  BY <1>2, <1>10 DEF vars
<1> QED
  BY <1>3, <1>4, <1>5, <1>6, <1>7, <1>8, <1>9, <1>10, UndisturbedStep
  DEF Next, Core, Environment

\* A peer that runs and was heard in its present life is shown online.
THEOREM LivePeerOnlineHolds ==
  ASSUME Punctual
  PROVE  Spec => []LivePeerOnline
<1> USE PeerHealthAssumption DEF PeerHealthAssumption
<1>1. Init => Lively
  BY DEF Init, Lively, EntryFresh, Awaited
<1>2. TypeOK /\ Timing /\ Lively /\ [Next]_vars => Lively'
  BY EntryFreshStep, AwaitedStep DEF Lively
<1>3. TypeOK /\ Timing /\ Lively => LivePeerOnline
  <2> SUFFICES ASSUME TypeOK, Timing, Lively, Undisturbed, NEW a \in Agent, NEW p \in Agent,
                      up[a], up[p], peers_info[a][p] # NoPeer, heard[a][p] >= since[p]
               PROVE  peers_info[a][p].is_online
    BY DEF LivePeerOnline
  <2>1. /\ heard[a][p] \in Int /\ now \in Int /\ due[p] \in Int /\ heard[a][p] # -1
        /\ now <= due[p] + Lateness
        /\ \A m \in transit : m.sent \in Int /\ now <= m.sent + MaxDelay
    BY DEF TypeOK, Timing
  <2>2. NextComes(a, p)
    BY <2>1 DEF Lively, Awaited
  <2>3. now <= heard[a][p] + Tick + Lateness + MaxDelay
    BY <2>1, <2>2 DEF NextComes
  <2>4. now <= heard[a][p] + Limit
    BY <2>1, <2>3 DEF Punctual
  <2> QED  BY <2>4 DEF Lively, EntryFresh
<1> QED  BY <1>1, <1>2, <1>3, TypeCorrect, TimingHolds, PTL DEF Spec
=============================================================================
