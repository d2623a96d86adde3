-------------------------- MODULE JobStreamProofs --------------------------
(***************************************************************************)
(* Proofs about JobRunner: the streams that go out of and into the shells. *)
(* A messanger passes on, and a shell is typed, a piece of one stream      *)
(* without a gap or a repetition, and a tunnel takes over from the earlier *)
(* ones of its job, for any number of launches and tunnels, any channel    *)
(* capacities and any amount of input and output.                          *)
(***************************************************************************)
EXTENDS JobRunnerProofs, SequenceLemmas

\* What a reader has taken and what waits for it.
Stream(r) == r.taken \o r.queue

\* The reader listens, and has been told all that was sent since it began to.
Attentive(r) == r.pc = "reading" /\ ~r.lagged

\* How many pieces there are of each launch.
Counts == [Launch -> Nat]

\* There is one more of launch l.
OneMore(N, l) == [N EXCEPT ![l] = @ + 1]

\* Where there is something of a launch in s, the last piece of it follows.
UpToDate(s, N) ==
  \A i \in 1 .. Len(s) : \E k \in i .. Len(s) : s[k] = <<s[i][1], N[s[i][1]]>>

\* Nothing in s has yet to come.
Bounded(s, N) == \A x \in Elements(s) : x[2] <= N[x[1]]

\* What holds of each reader of a channel, N being the counts of its senders.
Sound(r, N) ==
  /\ r.pc # "reading" => r.queue = <<>> /\ ~r.lagged
  /\ r.pc \in {"unused", "spawned"} => r.taken = <<>>
  /\ Bounded(Stream(r), N)
  /\ Unbroken(r.taken)
  /\ ~r.lagged => Unbroken(Stream(r))

\* A reader that would be told of the next piece has the last one.
Current(r, N) == Attentive(r) => UpToDate(Stream(r), N)

\* What a reader may do of its own accord, or with its process.
Moves(r, r2) ==
  \/ r2 = r
  \/ r.pc = "spawned" /\ r2 = Subscribe(r)
  \/ CanTake(r) /\ r2 = Take(r)
  \/ r.pc # "unused" /\ r2 = Drop(r)
-----------------------------------------------------------------------------
(* Streams. *)

LEMMA PieceFields ==
  ASSUME NEW x \in Piece
  PROVE  x[1] \in Launch /\ x[2] \in Nat /\ x = <<x[1], x[2]>>
  BY DEF Piece

LEMMA EntryType ==
  ASSUME NEW s \in Seq(Piece), NEW i \in 1 .. Len(s)
  PROVE  /\ s[i] \in Piece /\ s[i][1] \in Launch /\ s[i][2] \in Nat /\ Len(s) \in Nat
         /\ s[i] \in Elements(s)
  <1>1. s[i] \in Piece
    OBVIOUS
  <1>2. Len(s) \in Nat
    OBVIOUS
  <1> QED  BY <1>1, <1>2, PieceFields DEF Elements

LEMMA OneMoreType ==
  ASSUME NEW N \in Counts, NEW l \in Launch
  PROVE  /\ OneMore(N, l) \in Counts /\ OneMore(N, l)[l] = N[l] + 1 /\ N[l] \in Nat
         /\ \A k \in Launch : k # l => OneMore(N, l)[k] = N[k]
         /\ \A k \in Launch : N[k] <= OneMore(N, l)[k]
  BY DEF OneMore, Counts

LEMMA EmptyStream ==
  ASSUME NEW N
  PROVE  Unbroken(<<>>) /\ Bounded(<<>>, N) /\ UpToDate(<<>>, N) /\ Elements(<<>>) = {}
  <1>1. Elements(<<>>) = {}
    BY EmptyElements
  <1> QED  BY <1>1 DEF Unbroken, Bounded, UpToDate

\* The beginning of an unbroken stream is unbroken.
LEMMA UnbrokenPrefix ==
  ASSUME NEW s \in Seq(Piece), NEW t \in Seq(Piece), Unbroken(s \o t)
  PROVE  Unbroken(s)
  <1> SUFFICES ASSUME NEW i \in 1 .. Len(s), NEW j \in 1 .. Len(s), i < j, s[i][1] = s[j][1]
               PROVE  s[i][2] < s[j][2] /\ \E k \in i .. j - 1 : s[k] = <<s[j][1], s[j][2] - 1>>
    BY DEF Unbroken
  <1>1. /\ Len(s) \in Nat /\ Len(t) \in Nat /\ Len(s \o t) = Len(s) + Len(t)
        /\ \A k \in 1 .. Len(s) : (s \o t)[k] = s[k]
    BY ConcatEntries
  <1>2. i \in 1 .. Len(s \o t) /\ j \in 1 .. Len(s \o t)
    BY <1>1
  <1>3. (s \o t)[i] = s[i] /\ (s \o t)[j] = s[j]
    BY <1>1
  <1>4. s[i][2] < s[j][2] /\ \E k \in i .. j - 1 : (s \o t)[k] = <<s[j][1], s[j][2] - 1>>
    BY <1>2, <1>3 DEF Unbroken
  <1>5. PICK k \in i .. j - 1 : (s \o t)[k] = <<s[j][1], s[j][2] - 1>>
    BY <1>4
  <1>6. k \in 1 .. Len(s)
    BY <1>1
  <1> QED  BY <1>1, <1>4, <1>5, <1>6

\* The next piece of a launch continues a stream that has had the last one.
LEMMA NextUnbroken ==
  ASSUME NEW s \in Seq(Piece), NEW N \in Counts, NEW l \in Launch, NEW x \in Piece,
         x = <<l, N[l] + 1>>, Unbroken(s), UpToDate(s, N), Bounded(s, N)
  PROVE  Unbroken(Append(s, x))
  <1> DEFINE u == Append(s, x)
  <1>1. /\ Len(u) = Len(s) + 1 /\ Len(s) \in Nat /\ u[Len(s) + 1] = x
        /\ \A i \in 1 .. Len(s) : u[i] = s[i]
    BY AppendEntries
  <1> SUFFICES ASSUME NEW i \in 1 .. Len(u), NEW j \in 1 .. Len(u), i < j, u[i][1] = u[j][1]
               PROVE  u[i][2] < u[j][2] /\ \E k \in i .. j - 1 : u[k] = <<u[j][1], u[j][2] - 1>>
    BY DEF Unbroken
  <1> HIDE DEF u
  <1>2. i \in 1 .. Len(s) /\ u[i] = s[i]
    BY <1>1
  <1>3. CASE j \in 1 .. Len(s)
    <2>1. u[j] = s[j]
      BY <1>1, <1>3
    <2>2. s[i][2] < s[j][2] /\ \E k \in i .. j - 1 : s[k] = <<s[j][1], s[j][2] - 1>>
      BY <1>2, <1>3, <2>1 DEF Unbroken
    <2>3. PICK k \in i .. j - 1 : s[k] = <<s[j][1], s[j][2] - 1>>
      BY <2>2
    <2>4. k \in 1 .. Len(s)
      BY <1>2, <1>3
    <2> QED  BY <1>1, <1>2, <2>1, <2>2, <2>3, <2>4
  <1>4. CASE j = Len(s) + 1
    <2>1. u[j] = x /\ x[1] = l /\ x[2] = N[l] + 1 /\ s[i][1] = l
      BY <1>1, <1>2, <1>4
    <2>2. s[i][2] <= N[l] /\ N[l] \in Nat /\ s[i][2] \in Nat
      BY <1>2, <2>1, EntryType DEF Bounded, Counts
    <2>3. PICK k \in i .. Len(s) : s[k] = <<l, N[l]>>
      BY <1>2, <2>1 DEF UpToDate
    <2>4. k \in 1 .. Len(s) /\ k \in i .. j - 1 /\ u[k] = s[k]
      BY <1>1, <1>2, <1>4
    <2>5. u[i][2] < u[j][2]
      BY <1>2, <2>1, <2>2
    <2>6. u[k] = <<u[j][1], u[j][2] - 1>>
      BY <2>1, <2>2, <2>3, <2>4
    <2> QED  BY <2>4, <2>5, <2>6
  <1> QED  BY <1>1, <1>3, <1>4

LEMMA NextUpToDate ==
  ASSUME NEW s \in Seq(Piece), NEW N \in Counts, NEW l \in Launch, NEW x \in Piece,
         x = <<l, N[l] + 1>>, UpToDate(s, N)
  PROVE  UpToDate(Append(s, x), OneMore(N, l))
  <1> DEFINE u == Append(s, x)
             M == OneMore(N, l)
  <1>1. /\ Len(u) = Len(s) + 1 /\ Len(s) \in Nat /\ u[Len(s) + 1] = x
        /\ \A i \in 1 .. Len(s) : u[i] = s[i]
    BY AppendEntries
  <1>2. M[l] = N[l] + 1 /\ \A k \in Launch : k # l => M[k] = N[k]
    BY OneMoreType
  <1> SUFFICES ASSUME NEW i \in 1 .. Len(u)
               PROVE  \E k \in i .. Len(u) : u[k] = <<u[i][1], M[u[i][1]]>>
    BY DEF UpToDate
  <1> HIDE DEF u, M
  <1>3. Len(u) \in i .. Len(u) /\ u[Len(u)] = <<l, M[l]>>
    BY <1>1, <1>2
  <1>4. CASE u[i][1] = l
    BY <1>3, <1>4
  <1>5. CASE u[i][1] # l
    <2>1. i # Len(u)
      BY <1>3, <1>5
    <2>2. i \in 1 .. Len(s) /\ u[i] = s[i]
      BY <1>1, <2>1
    <2>3. s[i][1] \in Launch
      BY <2>2, EntryType
    <2>4. PICK k \in i .. Len(s) : s[k] = <<s[i][1], N[s[i][1]]>>
      BY <2>2 DEF UpToDate
    <2>5. k \in 1 .. Len(s) /\ k \in i .. Len(u)
      BY <1>1, <2>2
    <2>6. u[k] = <<u[i][1], M[u[i][1]]>>
      BY <1>1, <1>2, <1>5, <2>2, <2>3, <2>4, <2>5
    <2> QED  BY <2>5, <2>6
  <1> QED  BY <1>4, <1>5

\* More pieces than before do not disturb a stream that has none of that launch.
LEMMA OthersUpToDate ==
  ASSUME NEW s \in Seq(Piece), NEW N \in Counts, NEW l \in Launch, UpToDate(s, N),
         \A x \in Elements(s) : x[1] # l
  PROVE  UpToDate(s, OneMore(N, l))
  <1> SUFFICES ASSUME NEW i \in 1 .. Len(s)
               PROVE  \E k \in i .. Len(s) : s[k] = <<s[i][1], OneMore(N, l)[s[i][1]]>>
    BY DEF UpToDate
  <1>1. s[i][1] \in Launch /\ s[i][1] # l
    BY EntryType
  <1>2. OneMore(N, l)[s[i][1]] = N[s[i][1]]
    BY <1>1, OneMoreType
  <1> QED  BY <1>2 DEF UpToDate

LEMMA BoundedMore ==
  ASSUME NEW s \in Seq(Piece), NEW N \in Counts, NEW M \in Counts, Bounded(s, N),
         \A k \in Launch : N[k] <= M[k]
  PROVE  Bounded(s, M)
  <1> SUFFICES ASSUME NEW x \in Elements(s)
               PROVE  x[2] <= M[x[1]]
    BY DEF Bounded
  <1>1. x \in Piece
    BY ElementsType
  <1>2. x[1] \in Launch /\ x[2] \in Nat
    BY <1>1, PieceFields
  <1>3. x[2] <= N[x[1]] /\ N[x[1]] <= M[x[1]] /\ N[x[1]] \in Nat /\ M[x[1]] \in Nat
    BY <1>2 DEF Bounded, Counts
  <1> QED  BY <1>2, <1>3

LEMMA BoundedNext ==
  ASSUME NEW s \in Seq(Piece), NEW N \in Counts, NEW l \in Launch, Bounded(s, N),
         NEW s2 \in Seq(Piece),
         \A y \in Elements(s2) : y \in Elements(s) \/ y = <<l, N[l] + 1>>
  PROVE  Bounded(s2, OneMore(N, l))
  <1> SUFFICES ASSUME NEW y \in Elements(s2)
               PROVE  y[2] <= OneMore(N, l)[y[1]]
    BY DEF Bounded
  <1>1. CASE y \in Elements(s)
    BY <1>1, BoundedMore, OneMoreType DEF Bounded
  <1>2. CASE y = <<l, N[l] + 1>>
    BY <1>2, OneMoreType
  <1> QED  BY <1>1, <1>2
-----------------------------------------------------------------------------
(* Readers of a stream. *)

LEMMA ReaderFields ==
  ASSUME NEW r \in Reader
  PROVE  /\ r.queue \in Seq(Piece) /\ r.taken \in Seq(Piece) /\ r.lagged \in BOOLEAN
         /\ Stream(r) \in Seq(Piece)
         /\ Elements(Stream(r)) = Elements(r.taken) \cup Elements(r.queue)
         /\ \A x \in Elements(Stream(r)) : x \in Piece
  <1>1. r.queue \in Seq(Piece) /\ r.taken \in Seq(Piece) /\ r.lagged \in BOOLEAN
    BY DEF Reader
  <1>2. Stream(r) \in Seq(Piece) /\ Elements(Stream(r)) = Elements(r.taken) \cup Elements(r.queue)
    BY <1>1, ConcatEntries, ConcatElements DEF Stream
  <1>3. \A x \in Elements(Stream(r)) : x \in Piece
    BY <1>2, ElementsType
  <1> QED  BY <1>1, <1>2, <1>3

LEMMA EmptyQueue ==
  ASSUME NEW r \in Reader, r.queue = <<>>
  PROVE  Stream(r) = r.taken
  <1>1. r.taken \in Seq(Piece)
    BY ReaderFields
  <1>2. r.taken \o <<>> = r.taken
    BY <1>1
  <1> QED  BY <1>2 DEF Stream

\* A reader that nobody has begun to use has nothing.
LEMMA NewReaderSound ==
  ASSUME NEW p \in {"unused", "spawned"}, NEW N
  PROVE  /\ Sound(NewReader(p), N) /\ Current(NewReader(p), N)
         /\ NewReader(p) \in Reader /\ NewReader(p).pc = p
         /\ Elements(Stream(NewReader(p))) = {}
  <1>1. /\ NewReader(p) \in Reader /\ NewReader(p).pc = p /\ NewReader(p).queue = <<>>
        /\ NewReader(p).taken = <<>> /\ NewReader(p).lagged = FALSE
    BY NewReaderType DEF NewReader
  <1>2. Stream(NewReader(p)) = <<>>
    BY <1>1, EmptyQueue
  <1> QED  BY <1>1, <1>2, EmptyStream DEF Sound, Current, Attentive

LEMMA SoundMore ==
  ASSUME NEW r \in Reader, NEW N \in Counts, NEW l \in Launch, Sound(r, N)
  PROVE  Sound(r, OneMore(N, l))
  <1>1. Bounded(Stream(r), OneMore(N, l))
    BY ReaderFields, OneMoreType, BoundedMore DEF Sound
  <1> QED  BY <1>1 DEF Sound

LEMMA CurrentMore ==
  ASSUME NEW r \in Reader, NEW N \in Counts, NEW l \in Launch, Current(r, N),
         \A x \in Elements(Stream(r)) : x[1] # l
  PROVE  Current(r, OneMore(N, l))
  BY ReaderFields, OthersUpToDate DEF Current

\* What one step makes of a reader: it stays sound, begins or does not, knows no
\* piece that it did not know, and if it was up to date, it still is.
Keeps(r, r2, N) ==
  /\ Sound(r2, N)
  /\ r2.pc = "unused" <=> r.pc = "unused"
  /\ Elements(Stream(r2)) \subseteq Elements(Stream(r))
  /\ Current(r, N) => Current(r2, N)

LEMMA SubscribeKeeps ==
  ASSUME NEW r \in Reader, NEW N \in Counts, Sound(r, N), r.pc = "spawned"
  PROVE  Keeps(r, Subscribe(r), N)
  <1>1. /\ Subscribe(r) \in Reader /\ Subscribe(r).pc = "reading"
        /\ Subscribe(r).queue = r.queue /\ Subscribe(r).taken = r.taken
        /\ Subscribe(r).lagged = r.lagged
    BY SubscribeType DEF Subscribe, Reader
  <1>2. r.queue = <<>> /\ r.taken = <<>>
    BY DEF Sound
  <1>3. Stream(r) = <<>> /\ Stream(Subscribe(r)) = <<>>
    BY <1>1, <1>2, EmptyQueue
  <1> QED  BY <1>1, <1>2, <1>3, EmptyStream DEF Keeps, Sound, Current

LEMMA TakeKeeps ==
  ASSUME NEW r \in Reader, NEW N \in Counts, Sound(r, N), CanTake(r)
  PROVE  Keeps(r, Take(r), N)
  <1>1. /\ Take(r) \in Reader /\ Take(r).pc = r.pc /\ Take(r).lagged = r.lagged
        /\ Take(r).queue = Tail(r.queue) /\ Take(r).taken = Append(r.taken, Head(r.queue))
    BY TakeType DEF Take, Reader
  <1>2. r.pc = "reading" /\ ~r.lagged /\ r.queue # <<>>
    BY DEF CanTake
  <1>3. r.queue \in Seq(Piece) /\ r.taken \in Seq(Piece)
    BY ReaderFields
  <1>4. Stream(Take(r)) = Stream(r)
    BY <1>1, <1>2, <1>3, MoveHead DEF Stream
  <1>5. Take(r).taken \in Seq(Piece) /\ Take(r).queue \in Seq(Piece)
    BY <1>1, ReaderFields
  <1>6. Unbroken(Take(r).taken \o Take(r).queue)
    BY <1>2, <1>4 DEF Sound, Stream
  <1>7. Unbroken(Take(r).taken)
    BY <1>5, <1>6, UnbrokenPrefix
  <1> QED  BY <1>1, <1>2, <1>4, <1>7 DEF Keeps, Sound, Current, Attentive

LEMMA DropKeeps ==
  ASSUME NEW r \in Reader, NEW N \in Counts, Sound(r, N), r.pc # "unused"
  PROVE  Keeps(r, Drop(r), N)
  <1>1. /\ Drop(r) \in Reader /\ Drop(r).pc = "dead" /\ Drop(r).lagged = FALSE
        /\ Drop(r).queue = <<>> /\ Drop(r).taken = r.taken
    BY DropType DEF Drop, Reader
  <1>2. Stream(Drop(r)) = r.taken
    BY <1>1, EmptyQueue
  <1>3. Elements(r.taken) \subseteq Elements(Stream(r))
    BY ReaderFields
  <1>4. Bounded(r.taken, N)
    BY <1>3 DEF Sound, Bounded
  <1> QED  BY <1>1, <1>2, <1>3, <1>4 DEF Keeps, Sound, Current, Attentive

LEMMA MovesKeeps ==
  ASSUME NEW r \in Reader, NEW r2, NEW N \in Counts, Sound(r, N), Moves(r, r2)
  PROVE  Keeps(r, r2, N)
  <1>1. CASE r2 = r
    BY <1>1 DEF Keeps
  <1> QED  BY <1>1, SubscribeKeeps, TakeKeeps, DropKeeps DEF Moves

\* What broadcast::Sender::send makes of a reader.
LEMMA ReceiveKeeps ==
  ASSUME NEW r \in Reader, NEW N \in Counts, NEW l \in Launch, NEW x \in Piece,
         x = <<l, N[l] + 1>>, NEW cap \in Nat \ {0}, Len(r.queue) <= cap,
         Sound(r, N), Current(r, N)
  PROVE  /\ Sound(Receive(r, x, cap), OneMore(N, l))
         /\ Current(Receive(r, x, cap), OneMore(N, l))
         /\ Receive(r, x, cap).pc = r.pc
         /\ \A y \in Elements(Stream(Receive(r, x, cap))) : y \in Elements(Stream(r)) \/ y = x
         /\ r.pc # "reading" => Receive(r, x, cap) = r
  <1> DEFINE n == Receive(r, x, cap)
             s == Stream(r)
             M == OneMore(N, l)
  <1>1. /\ n \in Reader /\ Len(r.queue) \in Nat
        /\ r.queue \in Seq(Piece) /\ r.taken \in Seq(Piece) /\ s \in Seq(Piece)
    BY ReceiveType, ReaderFields DEF Reader
  <1>2. CASE r.pc # "reading"
    <2>1. n = r
      BY <1>2 DEF Receive
    <2> HIDE DEF n, M
    <2>2. Sound(r, M)
      BY SoundMore DEF M
    <2> QED  BY <1>2, <2>1, <2>2 DEF Current, Attentive, n, M
  <1>3. CASE r.pc = "reading" /\ Len(r.queue) < cap
    <2>1. /\ n.queue = Append(r.queue, x) /\ n.taken = r.taken /\ n.pc = "reading"
          /\ n.lagged = r.lagged
      BY <1>3 DEF Receive, Reader
    <2>2. Stream(n) = Append(s, x)
      <3>1. r.taken \o Append(r.queue, x) = Append(r.taken \o r.queue, x)
        <4> DEFINE t == r.taken
                   q == r.queue
        <4>1. t \in Seq(Piece) /\ q \in Seq(Piece)
          BY <1>1
        <4> HIDE DEF t, q
        <4>2. t \o Append(q, x) = Append(t \o q, x)
          BY <4>1, AppendConcat
        <4> QED  BY <4>2 DEF t, q
      <3> QED  BY <2>1, <3>1 DEF Stream
    <2> HIDE DEF n
    <2>3. \A y \in Elements(Stream(n)) : y \in Elements(s) \/ y = x
      BY <1>1, <2>2, AppendElements
    <2>4. Bounded(Stream(n), M)
      BY <1>1, <2>3, ReaderFields, BoundedNext DEF Sound
    <2>5. ~r.lagged => Unbroken(Stream(n)) /\ UpToDate(Stream(n), M)
      BY <1>1, <1>3, <2>2, NextUnbroken, NextUpToDate DEF Sound, Current, Attentive
    <2>6. Sound(n, M) /\ Current(n, M)
      BY <2>1, <2>4, <2>5 DEF Sound, Current, Attentive
    <2> QED  BY <1>3, <2>1, <2>3, <2>6 DEF n
  <1>4. CASE r.pc = "reading" /\ ~(Len(r.queue) < cap)
    <2>0. r.queue # <<>>
      BY <1>1, <1>4
    <2>1. /\ n.queue = Append(Tail(r.queue), x) /\ n.taken = r.taken /\ n.pc = "reading"
          /\ n.lagged = TRUE
      BY <1>4 DEF Receive, Reader
    <2>2. Tail(r.queue) \in Seq(Piece) /\ Elements(Tail(r.queue)) \subseteq Elements(r.queue)
      BY <1>1, <2>0, HeadTail, TailElements
    <2>3. Elements(n.queue) = Elements(Tail(r.queue)) \cup {x}
      <3> DEFINE q == Tail(r.queue)
      <3>1. q \in Seq(Piece) /\ n.queue = Append(q, x)
        BY <2>1, <2>2
      <3> HIDE DEF q, n
      <3>2. Elements(n.queue) = Elements(q) \cup {x}
        BY <3>1, AppendElements
      <3> QED  BY <3>2 DEF q
    <2> HIDE DEF n
    <2>4. \A y \in Elements(Stream(n)) : y \in Elements(s) \/ y = x
      BY <1>1, <2>1, <2>2, <2>3, ReaderFields
    <2>5. Bounded(Stream(n), M)
      BY <1>1, <2>4, ReaderFields, BoundedNext DEF Sound
    <2>6. Sound(n, M) /\ Current(n, M)
      BY <2>1, <2>5 DEF Sound, Current, Attentive
    <2> QED  BY <1>4, <2>1, <2>4, <2>6 DEF n
  <1> QED  BY <1>2, <1>3, <1>4
-----------------------------------------------------------------------------
(* The invariant. *)

\* The entry of a job has the channel of one of its launches.
Entered(js, jb) == \A j \in JobId : js[j] # NoJob => jb[js[j].launch] = j

\* Tunnel t is the one that the entry of job j has.
Attached(js, j, t) == js[j] # NoJob /\ js[j].tunnel = t

Known(tn, t) == Elements(Stream(tn[t].reader))

\* The tunnels are begun one after the other, each for one job.
Begun(tn) ==
  \A t \in Tunnel : /\ tn[t].reader.pc = "unused" <=> tn[t].job = NoJob
                    /\ \A s \in Tunnel : t < s /\ tn[t].job = NoJob => tn[s].job = NoJob

\* Each knows of a piece of the stream of its job's launches.
Belongs(tn, jb) == \A t \in Tunnel : \A x \in Known(tn, t) : jb[x[1]] = tn[t].job

\* The tunnel that a job's entry has is the job's last.
Newest(tn, js) ==
  \A j \in JobId, t \in Tunnel :
    Attached(js, j, t) => tn[t].job = j /\ \A s \in Tunnel : t < s => tn[s].job # j

\* It is up to date.
Listening(tn, js, N) ==
  \A j \in JobId, t \in Tunnel : Attached(js, j, t) => Current(tn[t].reader, N)

\* An earlier one knows nothing that came after the later one was created.
Superseded(tn) ==
  \A t, s \in Tunnel :
    t < s /\ tn[s].job # NoJob /\ tn[t].job = tn[s].job =>
      \A x \in Known(tn, t) : x[2] <= tn[s].since[x[1]]

TunnelsOK(tn, js, jb, N) ==
  /\ \A t \in Tunnel : Sound(tn[t].reader, N)
  /\ Begun(tn) /\ Belongs(tn, jb) /\ Newest(tn, js) /\ Listening(tn, js, N)
  /\ Superseded(tn)

\* The task for input of each launch is up to date with the one channel it
\* reads, which is that of a launch of the same job.
StdinOK(s, l, jb, N) ==
  /\ Sound(s.reader, N) /\ Current(s.reader, N)
  /\ s.reader.pc # "unused" => jb[s.channel] = jb[l] /\ jb[l] # NoJob
  /\ \A x \in Elements(Stream(s.reader)) : x[1] = s.channel

StdinsOK(sn, jb, N) == \A l \in Launch : StdinOK(sn[l], l, jb, N)

StreamInv ==
  /\ Entered(jobs, job)
  /\ TunnelsOK(tunnel, jobs, job, shown)
  /\ StdinsOK(stdin, job, sent)
-----------------------------------------------------------------------------
(* What the steps of an agent make of the JobManager's entries. *)

\* The entries keep their channels, or go.
EntriesKept(js, js2) ==
  \A j \in JobId : js2[j] # NoJob => /\ js[j] # NoJob
                                     /\ js2[j].launch = js[j].launch
                                     /\ js2[j].tunnel = js[j].tunnel

\* No job gets another tunnel.
TunnelsKept(js, js2) ==
  \A j \in JobId, t \in Tunnel : Attached(js2, j, t) => Attached(js, j, t)

\* No launch goes to another job.
JobsStay(jb, jb2) == \A l \in Launch : jb[l] # NoJob => jb2[l] = jb[l]

LEMMA EntryFields ==
  ASSUME NEW js \in Jobs, NEW j \in JobId, js[j] # NoJob
  PROVE  js[j].launch \in Launch /\ (js[j].tunnel = 0 \/ js[j].tunnel \in Tunnel)
  <1>1. js[j] \in Job
    BY DEF Jobs
  <1> QED  BY <1>1 DEF Job

LEMMA NoTunnel == 0 \notin Tunnel
  BY DEF Tunnel

LEMMA SameEntries ==
  ASSUME NEW js
  PROVE  EntriesKept(js, js) /\ EntriesKept(js, NoJobs)
  BY DEF EntriesKept, NoJobs

LEMMA KeptTunnels ==
  ASSUME NEW js, NEW js2, EntriesKept(js, js2)
  PROVE  TunnelsKept(js, js2)
  BY DEF EntriesKept, TunnelsKept, Attached

LEMMA SetJobInfoKeeps ==
  ASSUME NEW js \in Jobs, NEW j \in JobId, NEW i \in Info
  PROVE  EntriesKept(js, SetJobInfo(js, j, i))
  <1>1. CASE js[j] = NoJob
    BY <1>1, SameEntries DEF SetJobInfo
  <1>2. CASE js[j] # NoJob
    <2> DEFINE entry == [js[j] EXCEPT !.info = i]
    <2>1. js[j] \in Job
      BY <1>2 DEF Jobs
    <2>2. entry.launch = js[j].launch /\ entry.tunnel = js[j].tunnel
      BY <2>1 DEF Job
    <2>3. SetJobInfo(js, j, i) = [js EXCEPT ![j] = entry]
      BY <1>2 DEF SetJobInfo, Jobs
    <2> HIDE DEF entry
    <2> QED  BY <1>2, <2>2, <2>3 DEF Jobs, EntriesKept
  <1> QED  BY <1>1, <1>2

LEMMA SetJobStatusKeeps ==
  ASSUME NEW js \in Jobs, NEW j \in JobId, NEW s \in Status
  PROVE  EntriesKept(js, SetJobStatus(js, j, s))
  <1>1. CASE js[j] = NoJob
    BY <1>1, SameEntries DEF SetJobStatus
  <1>2. CASE js[j] # NoJob
    <2> DEFINE entry == [js[j] EXCEPT !.status = s]
    <2>1. js[j] \in Job
      BY <1>2 DEF Jobs
    <2>2. entry.launch = js[j].launch /\ entry.tunnel = js[j].tunnel
      BY <2>1 DEF Job
    <2>3. SetJobStatus(js, j, s) = [js EXCEPT ![j] = entry]
      BY <1>2 DEF SetJobStatus, Jobs
    <2> HIDE DEF entry
    <2> QED  BY <1>2, <2>2, <2>3 DEF Jobs, EntriesKept
  <1> QED  BY <1>1, <1>2

LEMMA NewJobChannels ==
  ASSUME NEW js \in Jobs, NEW j \in JobId, NEW l \in Launch
  PROVE  /\ TunnelsKept(js, NewJob(js, j, l))
         /\ NewJob(js, j, l)[j].launch = l
  <1> DEFINE entry == [launch |-> l, status |-> "processing", info |-> NoInfo, tunnel |-> 0]
             new == NewJob(js, j, l)
  <1>1. entry.launch = l /\ entry.tunnel = 0
    OBVIOUS
  <1>2. new = [js EXCEPT ![j] = entry]
    BY DEF NewJob
  <1> HIDE DEF entry
  <1>3. new[j] = entry /\ \A k \in JobId : k # j => new[k] = js[k]
    BY <1>2 DEF Jobs
  <1> HIDE DEF new
  <1>4. TunnelsKept(js, new)
    BY <1>1, <1>3, NoTunnel DEF TunnelsKept, Attached
  <1>5. new[j].launch = l
    BY <1>1, <1>3
  <1> QED  BY <1>4, <1>5 DEF new

LEMMA CreateTunnelChannels ==
  ASSUME NEW js \in Jobs, NEW j \in JobId, NEW t \in Tunnel, js[j] # NoJob
  PROVE  /\ \A k \in JobId, s \in Tunnel :
              Attached(CreateTunnel(js, j, t), k, s) <=>
                IF k = j THEN s = t ELSE Attached(js, k, s)
         /\ \A k \in JobId : CreateTunnel(js, j, t)[k] # NoJob =>
              /\ js[k] # NoJob
              /\ CreateTunnel(js, j, t)[k].launch = js[k].launch
  <1> DEFINE entry == [js[j] EXCEPT !.tunnel = t]
             new == CreateTunnel(js, j, t)
  <1>1. js[j] \in Job
    BY DEF Jobs
  <1>2. entry \in Job /\ entry.launch = js[j].launch /\ entry.tunnel = t
    BY <1>1 DEF Job
  <1>3. entry # NoJob
    BY <1>2, JobAssumption DEF JobAssumption
  <1>4. new = [js EXCEPT ![j] = entry]
    BY DEF CreateTunnel, Jobs
  <1> HIDE DEF entry
  <1>5. new[j] = entry /\ \A k \in JobId : k # j => new[k] = js[k]
    BY <1>4 DEF Jobs
  <1> HIDE DEF new
  <1>6. ASSUME NEW k \in JobId, NEW s \in Tunnel
        PROVE  Attached(new, k, s) <=> IF k = j THEN s = t ELSE Attached(js, k, s)
    BY <1>2, <1>3, <1>5 DEF Attached
  <1>7. ASSUME NEW k \in JobId, new[k] # NoJob
        PROVE  js[k] # NoJob /\ new[k].launch = js[k].launch
    BY <1>2, <1>5, <1>7
  <1> QED  BY <1>6, <1>7 DEF new
-----------------------------------------------------------------------------
(* The tunnels. *)

Tunnels == [Tunnel -> Messangers]

LEMMA TunnelFields ==
  ASSUME NEW tn \in Tunnels, NEW t \in Tunnel
  PROVE  /\ tn[t].reader \in Reader /\ tn[t].job \in JobId \cup {NoJob}
         /\ tn[t].since \in [Launch -> 0 .. MaxOutput]
  <1>1. tn[t] \in Messangers
    BY DEF Tunnels
  <1> QED  BY <1>1 DEF Messangers

\* A tunnel that has not begun knows nothing.
LEMMA UnusedKnowsNothing ==
  ASSUME NEW r \in Reader, NEW N, Sound(r, N), r.pc \in {"unused", "spawned"}
  PROVE  Elements(Stream(r)) = {}
  <1>1. r.queue = <<>> /\ r.taken = <<>>
    BY DEF Sound
  <1> QED  BY <1>1, EmptyQueue, EmptyElements

LEMMA KnowsOfJob ==
  ASSUME NEW tn \in Tunnels, NEW t \in Tunnel, NEW js, NEW jb, NEW N, TunnelsOK(tn, js, jb, N),
         NEW x \in Known(tn, t)
  PROVE  tn[t].job # NoJob /\ jb[x[1]] = tn[t].job /\ x \in Piece /\ x[1] \in Launch
  <1>1. Sound(tn[t].reader, N) /\ tn[t].reader \in Reader
    BY TunnelFields DEF TunnelsOK
  <1>2. tn[t].reader.pc # "unused"
    BY <1>1, UnusedKnowsNothing DEF Known
  <1>3. x \in Piece
    BY <1>1, ReaderFields DEF Known
  <1> QED  BY <1>2, <1>3, PieceFields DEF TunnelsOK, Begun, Belongs

\* The readers of the tunnels go on by themselves.
TunnelsMove(tn, tn2) ==
  \A t \in Tunnel : /\ tn2[t].job = tn[t].job /\ tn2[t].since = tn[t].since
                    /\ Moves(tn[t].reader, tn2[t].reader)

LEMMA TunnelsMoved ==
  ASSUME NEW tn \in Tunnels, NEW tn2 \in Tunnels, NEW js, NEW js2, NEW jb, NEW jb2,
         NEW N \in Counts, TunnelsOK(tn, js, jb, N),
         TunnelsMove(tn, tn2), TunnelsKept(js, js2), JobsStay(jb, jb2)
  PROVE  TunnelsOK(tn2, js2, jb2, N)
  <1>1. ASSUME NEW t \in Tunnel
        PROVE  /\ tn2[t].job = tn[t].job /\ tn2[t].since = tn[t].since
               /\ Keeps(tn[t].reader, tn2[t].reader, N)
    <2>1. tn[t].reader \in Reader /\ Sound(tn[t].reader, N)
      BY TunnelFields DEF TunnelsOK
    <2> QED  BY <2>1, MovesKeeps DEF TunnelsMove
  <1>2. \A t \in Tunnel : Known(tn2, t) \subseteq Known(tn, t)
    BY <1>1 DEF Keeps, Known
  <1>3. \A t \in Tunnel : Sound(tn2[t].reader, N)
    BY <1>1 DEF Keeps
  <1>4. Begun(tn2)
    BY <1>1 DEF Keeps, Begun, TunnelsOK
  <1>5. Belongs(tn2, jb2)
    <2> SUFFICES ASSUME NEW t \in Tunnel, NEW x \in Known(tn2, t)
                 PROVE  jb2[x[1]] = tn2[t].job
      BY DEF Belongs
    <2>1. x \in Known(tn, t)
      BY <1>2
    <2>2. tn[t].job # NoJob /\ jb[x[1]] = tn[t].job /\ x[1] \in Launch
      BY <2>1, KnowsOfJob
    <2> QED  BY <1>1, <2>2 DEF JobsStay
  <1>6. Newest(tn2, js2)
    BY <1>1 DEF TunnelsOK, TunnelsKept, Newest
  <1>7. Listening(tn2, js2, N)
    BY <1>1 DEF TunnelsOK, TunnelsKept, Listening, Keeps
  <1>8. Superseded(tn2)
    BY <1>1, <1>2 DEF TunnelsOK, Superseded
  <1> QED  BY <1>3, <1>4, <1>5, <1>6, <1>7, <1>8 DEF TunnelsOK

\* The shell of launch l shows something: the tunnel that its job's entry has,
\* if it has one, receives it.
TunnelsTold(tn, tn2, js, j, x, cap) ==
  \A t \in Tunnel :
    /\ tn2[t].job = tn[t].job /\ tn2[t].since = tn[t].since
    /\ tn2[t].reader = IF Attached(js, j, t) THEN Receive(tn[t].reader, x, cap) ELSE tn[t].reader

LEMMA TunnelsToldOK ==
  ASSUME NEW tn \in Tunnels, NEW tn2 \in Tunnels, NEW js, NEW jb, NEW l \in Launch,
         NEW N \in Counts, TunnelsOK(tn, js, jb, N), jb[l] \in JobId,
         NEW x \in Piece, x = <<l, N[l] + 1>>, NEW cap \in Nat \ {0},
         \A t \in Tunnel : Len(tn[t].reader.queue) <= cap,
         TunnelsTold(tn, tn2, js, jb[l], x, cap)
  PROVE  TunnelsOK(tn2, js, jb, OneMore(N, l))
  <1> DEFINE M == OneMore(N, l)
             j == jb[l]
  <1>0. NoJob \notin JobId
    BY JobStoreAssumption DEF JobStoreAssumption
  <1>1. \A t \in Tunnel : tn2[t].job = tn[t].job /\ tn2[t].since = tn[t].since
    BY DEF TunnelsTold
  <1>2. ASSUME NEW t \in Tunnel, Attached(js, j, t)
        PROVE  /\ Sound(tn2[t].reader, M) /\ Current(tn2[t].reader, M)
               /\ tn2[t].reader.pc = tn[t].reader.pc
               /\ \A y \in Known(tn2, t) : y \in Known(tn, t) \/ y = x
    <2>1. /\ tn[t].reader \in Reader /\ Sound(tn[t].reader, N) /\ Current(tn[t].reader, N)
          /\ Len(tn[t].reader.queue) <= cap
      BY <1>2, TunnelFields DEF TunnelsOK, Listening
    <2>2. tn2[t].reader = Receive(tn[t].reader, x, cap)
      BY <1>2 DEF TunnelsTold
    <2> HIDE DEF M
    <2> QED  BY <2>1, <2>2, ReceiveKeeps DEF Known, M
  <1>3. ASSUME NEW t \in Tunnel, ~Attached(js, j, t)
        PROVE  tn2[t].reader = tn[t].reader /\ Known(tn2, t) = Known(tn, t)
    BY <1>3 DEF TunnelsTold, Known
  <1>4. ASSUME NEW t \in Tunnel
        PROVE  Sound(tn2[t].reader, M)
    <2>1. CASE Attached(js, j, t)
      BY <1>2, <2>1
    <2>2. CASE ~Attached(js, j, t)
      <3>1. tn[t].reader \in Reader /\ Sound(tn[t].reader, N) /\ tn2[t].reader = tn[t].reader
        BY <1>3, <2>2, TunnelFields DEF TunnelsOK
      <3> QED  BY <3>1, SoundMore
    <2> QED  BY <2>1, <2>2
  <1>5. \A t \in Tunnel : tn2[t].reader.pc = tn[t].reader.pc
    BY <1>2, <1>3
  <1>6. Begun(tn2)
    BY <1>1, <1>5 DEF TunnelsOK, Begun
  <1>7. \A t \in Tunnel : Attached(js, j, t) => tn[t].job = j
    BY DEF TunnelsOK, Newest
  <1>8. Belongs(tn2, jb)
    <2> SUFFICES ASSUME NEW t \in Tunnel, NEW y \in Known(tn2, t)
                 PROVE  jb[y[1]] = tn2[t].job
      BY DEF Belongs
    <2>1. CASE y \in Known(tn, t)
      BY <1>1, <2>1 DEF TunnelsOK, Belongs
    <2>2. CASE y \notin Known(tn, t)
      <3>1. Attached(js, j, t) /\ y = x
        BY <1>2, <1>3, <2>2
      <3> QED  BY <1>1, <1>7, <3>1
    <2> QED  BY <2>1, <2>2
  <1>9. Newest(tn2, js)
    BY <1>1 DEF TunnelsOK, Newest
  <1>10. Listening(tn2, js, M)
    <2> SUFFICES ASSUME NEW k \in JobId, NEW t \in Tunnel, Attached(js, k, t)
                 PROVE  Current(tn2[t].reader, M)
      BY DEF Listening
    <2>1. CASE Attached(js, j, t)
      BY <1>2, <2>1
    <2>2. CASE ~Attached(js, j, t)
      <3>1. k # j /\ tn[t].job = k
        BY <2>2 DEF TunnelsOK, Newest
      <3>2. \A y \in Known(tn, t) : y[1] # l
        BY <3>1, KnowsOfJob
      <3>3. tn[t].reader \in Reader /\ Current(tn[t].reader, N) /\ tn2[t].reader = tn[t].reader
        BY <1>3, <2>2, TunnelFields DEF TunnelsOK, Listening
      <3> QED  BY <3>2, <3>3, CurrentMore DEF Known
    <2> QED  BY <2>1, <2>2
  <1>11. Superseded(tn2)
    <2> SUFFICES ASSUME NEW t \in Tunnel, NEW s \in Tunnel, t < s, tn[s].job # NoJob,
                        tn[t].job = tn[s].job, NEW y \in Known(tn2, t)
                 PROVE  y[2] <= tn[s].since[y[1]]
      BY <1>1 DEF Superseded
    <2>1. ~Attached(js, j, t)
      BY <1>7 DEF TunnelsOK, Newest
    <2>2. y \in Known(tn, t)
      BY <1>3, <2>1
    <2> QED  BY <2>2 DEF TunnelsOK, Superseded
  <1> QED  BY <1>4, <1>6, <1>8, <1>9, <1>10, <1>11 DEF TunnelsOK

\* StartTunnel: the next tunnel gets the job.
LEMMA TunnelBegunOK ==
  ASSUME NEW tn \in Tunnels, NEW tn2 \in Tunnels, NEW js \in Jobs, NEW js2, NEW jb,
         NEW N \in Counts, TunnelsOK(tn, js, jb, N),
         NEW j \in JobId, NEW t \in Tunnel, js[j] # NoJob,
         tn[t].reader.pc = "unused", \A s \in Tunnel : s < t => tn[s].reader.pc # "unused",
         js2 = CreateTunnel(js, j, t),
         tn2[t].reader = NewReader("spawned"), tn2[t].job = j, tn2[t].since = N,
         \A s \in Tunnel : s # t => tn2[s] = tn[s]
  PROVE  TunnelsOK(tn2, js2, jb, N)
  <1>0. NoJob \notin JobId
    BY JobStoreAssumption DEF JobStoreAssumption
  <1>1. /\ Sound(tn2[t].reader, N) /\ Current(tn2[t].reader, N)
        /\ tn2[t].reader.pc = "spawned" /\ Known(tn2, t) = {}
    BY NewReaderSound DEF Known
  <1>2. \A s \in Tunnel : s # t => Known(tn2, s) = Known(tn, s)
    BY DEF Known
  <1>3. \A s \in Tunnel : Sound(tn2[s].reader, N)
    BY <1>1 DEF TunnelsOK
  <1>4. /\ tn[t].job = NoJob
        /\ \A s \in Tunnel : t < s => tn[s].job = NoJob
        /\ \A s \in Tunnel : s < t => tn[s].job # NoJob
    BY DEF TunnelsOK, Begun
  <1>5. \A s \in Tunnel : s < t \/ s = t \/ t < s
    BY DEF Tunnel
  <1>a. \A s, u \in Tunnel : ~(s < u /\ u < s) /\ ~(s < s)
    BY DEF Tunnel
  <1>6. Begun(tn2)
    <2>1. \A s \in Tunnel : tn2[s].reader.pc = "unused" <=> tn2[s].job = NoJob
      BY <1>0, <1>1 DEF TunnelsOK, Begun
    <2>2. ASSUME NEW u \in Tunnel, NEW s \in Tunnel, u < s, tn2[u].job = NoJob
          PROVE  tn2[s].job = NoJob
      <3>1. u # t /\ t < u
        BY <1>0, <1>4, <1>5, <2>2
      <3>2. t < s
        BY <2>2, <3>1 DEF Tunnel
      <3> QED  BY <1>4, <1>a, <3>2
    <2> QED  BY <2>1, <2>2 DEF Begun
  <1>7. Belongs(tn2, jb)
    BY <1>1, <1>2 DEF TunnelsOK, Belongs
  <1>8. \A k \in JobId, s \in Tunnel :
          Attached(js2, k, s) <=> IF k = j THEN s = t ELSE Attached(js, k, s)
    BY CreateTunnelChannels
  <1>9. ASSUME NEW k \in JobId, NEW s \in Tunnel, Attached(js, k, s)
        PROVE  s < t /\ tn[s].job = k
    <2>1. tn[s].job = k
      BY <1>9 DEF TunnelsOK, Newest
    <2> QED  BY <1>0, <1>4, <1>5, <2>1
  <1>10. Newest(tn2, js2)
    <2> SUFFICES ASSUME NEW k \in JobId, NEW s \in Tunnel, Attached(js2, k, s)
                 PROVE  tn2[s].job = k /\ \A u \in Tunnel : s < u => tn2[u].job # k
      BY DEF Newest
    <2>1. CASE k = j
      BY <1>0, <1>4, <1>8, <1>a, <2>1
    <2>2. CASE k # j
      <3>1. Attached(js, k, s)
        BY <1>8, <2>2
      <3>2. s # t /\ tn[s].job = k /\ \A u \in Tunnel : s < u => tn[u].job # k
        BY <1>9, <1>a, <3>1 DEF TunnelsOK, Newest
      <3> QED  BY <2>2, <3>2
    <2> QED  BY <2>1, <2>2
  <1>11. Listening(tn2, js2, N)
    <2> SUFFICES ASSUME NEW k \in JobId, NEW s \in Tunnel, Attached(js2, k, s)
                 PROVE  Current(tn2[s].reader, N)
      BY DEF Listening
    <2>1. CASE s = t
      BY <1>1, <2>1
    <2>2. CASE s # t
      <3>1. Attached(js, k, s)
        BY <1>8, <2>2
      <3> QED  BY <2>2, <3>1 DEF TunnelsOK, Listening
    <2> QED  BY <2>1, <2>2
  <1>12. Superseded(tn2)
    <2> SUFFICES ASSUME NEW u \in Tunnel, NEW s \in Tunnel, u < s, tn2[s].job # NoJob,
                        tn2[u].job = tn2[s].job, NEW x \in Known(tn2, u)
                 PROVE  x[2] <= tn2[s].since[x[1]]
      BY DEF Superseded
    <2>1. u # t /\ x \in Known(tn, u)
      BY <1>1, <1>2
    <2>2. CASE s = t
      <3>1. x[2] <= N[x[1]]
        BY <2>1 DEF TunnelsOK, Sound, Bounded, Known
      <3> QED  BY <2>2, <3>1
    <2>3. CASE s # t
      BY <2>1, <2>3 DEF TunnelsOK, Superseded
    <2> QED  BY <2>2, <2>3
  <1> QED  BY <1>3, <1>6, <1>7, <1>10, <1>11, <1>12 DEF TunnelsOK
-----------------------------------------------------------------------------
(* The tasks for input. *)

Stdins == [Launch -> Stdin]

LEMMA StdinFields ==
  ASSUME NEW sn \in Stdins, NEW l \in Launch
  PROVE  sn[l].reader \in Reader /\ sn[l].channel \in Launch
  <1>1. sn[l] \in Stdin
    BY DEF Stdins
  <1> QED  BY <1>1 DEF Stdin

\* The readers of the tasks go on by themselves.
StdinsMove(sn, sn2) ==
  \A l \in Launch : sn2[l].channel = sn[l].channel /\ Moves(sn[l].reader, sn2[l].reader)

LEMMA StdinsMoved ==
  ASSUME NEW sn \in Stdins, NEW sn2 \in Stdins, NEW jb, NEW jb2, NEW N \in Counts,
         StdinsOK(sn, jb, N), StdinsMove(sn, sn2), JobsStay(jb, jb2)
  PROVE  StdinsOK(sn2, jb2, N)
  <1> SUFFICES ASSUME NEW l \in Launch
               PROVE  StdinOK(sn2[l], l, jb2, N)
    BY DEF StdinsOK
  <1> DEFINE s == sn[l]
             s2 == sn2[l]
  <1>1. StdinOK(s, l, jb, N) /\ s2.channel = s.channel /\ Moves(s.reader, s2.reader)
    BY DEF StdinsOK, StdinsMove
  <1>2. s.reader \in Reader /\ s.channel \in Launch
    BY StdinFields
  <1> HIDE DEF s, s2
  <1>3. Keeps(s.reader, s2.reader, N)
    BY <1>1, <1>2, MovesKeeps DEF StdinOK
  <1>4. s2.reader.pc # "unused" => jb2[s2.channel] = jb2[l] /\ jb2[l] # NoJob
    BY <1>1, <1>2, <1>3 DEF StdinOK, Keeps, JobsStay
  <1>5. StdinOK(s2, l, jb2, N)
    BY <1>1, <1>3, <1>4 DEF StdinOK, Keeps
  <1> QED  BY <1>5 DEF s2

\* A piece of input goes into channel c: the tasks that read it receive it.
StdinsTold(sn, sn2, c, x, cap) ==
  \A l \in Launch :
    /\ sn2[l].channel = sn[l].channel
    /\ sn2[l].reader = IF sn[l].channel = c THEN Receive(sn[l].reader, x, cap) ELSE sn[l].reader

LEMMA StdinsToldOK ==
  ASSUME NEW sn \in Stdins, NEW sn2, NEW jb, NEW N \in Counts, NEW c \in Launch,
         NEW x \in Piece, x = <<c, N[c] + 1>>, NEW cap \in Nat \ {0},
         StdinsOK(sn, jb, N), \A l \in Launch : Len(sn[l].reader.queue) <= cap,
         StdinsTold(sn, sn2, c, x, cap)
  PROVE  StdinsOK(sn2, jb, OneMore(N, c))
  <1> SUFFICES ASSUME NEW l \in Launch
               PROVE  StdinOK(sn2[l], l, jb, OneMore(N, c))
    BY DEF StdinsOK
  <1> DEFINE s == sn[l]
             s2 == sn2[l]
             M == OneMore(N, c)
  <1>1. /\ StdinOK(s, l, jb, N) /\ s2.channel = s.channel
        /\ s2.reader = IF s.channel = c THEN Receive(s.reader, x, cap) ELSE s.reader
    BY DEF StdinsOK, StdinsTold
  <1>2. s.reader \in Reader /\ s.channel \in Launch /\ Len(s.reader.queue) <= cap
    BY StdinFields
  <1> HIDE DEF s, s2
  <1>3. CASE s.channel = c
    <2>1. Sound(s.reader, N) /\ Current(s.reader, N) /\ s2.reader = Receive(s.reader, x, cap)
      BY <1>1, <1>3 DEF StdinOK
    <2>2. /\ Sound(s2.reader, M) /\ Current(s2.reader, M) /\ s2.reader.pc = s.reader.pc
          /\ \A y \in Elements(Stream(s2.reader)) : y \in Elements(Stream(s.reader)) \/ y = x
      BY <1>2, <2>1, ReceiveKeeps
    <2>3. \A y \in Elements(Stream(s2.reader)) : y[1] = c
      BY <1>1, <1>3, <2>2 DEF StdinOK
    <2>4. StdinOK(s2, l, jb, M)
      BY <1>1, <1>3, <2>2, <2>3 DEF StdinOK
    <2> QED  BY <2>4 DEF s2
  <1>4. CASE s.channel # c
    <2>1. Sound(s.reader, N) /\ Current(s.reader, N) /\ s2.reader = s.reader
      BY <1>1, <1>4 DEF StdinOK
    <2>2. \A y \in Elements(Stream(s.reader)) : y[1] # c
      BY <1>1, <1>4 DEF StdinOK
    <2>3. Sound(s2.reader, M) /\ Current(s2.reader, M)
      BY <1>2, <2>1, <2>2, SoundMore, CurrentMore
    <2>4. StdinOK(s2, l, jb, M)
      BY <1>1, <2>1, <2>3 DEF StdinOK
    <2> QED  BY <2>4 DEF s2
  <1> QED  BY <1>3, <1>4

\* AttachStdin: launch l gets a task that reads the channel of a launch of its job.
LEMMA StdinAttachedOK ==
  ASSUME NEW sn, NEW sn2, NEW jb, NEW N, StdinsOK(sn, jb, N), NEW l \in Launch,
         sn2[l].reader = NewReader("spawned"), jb[sn2[l].channel] = jb[l], jb[l] # NoJob,
         \A k \in Launch : k # l => sn2[k] = sn[k]
  PROVE  StdinsOK(sn2, jb, N)
  <1>1. StdinOK(sn2[l], l, jb, N)
    BY NewReaderSound DEF StdinOK
  <1> QED  BY <1>1 DEF StdinsOK
-----------------------------------------------------------------------------
(* The steps. *)

\* A step that neither shows nor sends anything, nor begins anything that will.
Quiet ==
  /\ job' = job /\ shown' = shown /\ sent' = sent
  /\ EntriesKept(jobs, jobs')
  /\ TunnelsMove(tunnel, tunnel')
  /\ StdinsMove(stdin, stdin')

LEMMA Unmoved ==
  ASSUME NEW tn, NEW sn
  PROVE  TunnelsMove(tn, tn) /\ StdinsMove(sn, sn)
  BY DEF TunnelsMove, StdinsMove, Moves

LEMMA StreamTypes ==
  ASSUME LifeInv
  PROVE  /\ tunnel \in Tunnels /\ stdin \in Stdins /\ jobs \in Jobs
         /\ shown \in Counts /\ sent \in Counts
         /\ job \in [Launch -> JobId \cup {NoJob}]
         /\ \A l \in Launch : Len(stdin[l].reader.queue) <= InputCap
         /\ \A t \in Tunnel : Len(tunnel[t].reader.queue) <= OutputCap
         /\ \A l \in Launch : pc[l] = "unused" <=> job[l] = NoJob
         /\ InputCap \in Nat \ {0} /\ OutputCap \in Nat \ {0}
  <1>1. tunnel \in Tunnels /\ stdin \in Stdins /\ jobs \in Jobs
    BY DEF LifeInv, TInv, ReaderTypes, JobTypes, Tunnels, Stdins, Messangers, Stdin
  <1>2. shown \in Counts /\ sent \in Counts
    BY JobRunnerAssumption DEF JobRunnerAssumption, LifeInv, TInv, TaskTypes, Counts
  <1>3. \A l \in Launch : pc[l] = "unused" <=> job[l] = NoJob
    BY JobStoreAssumption DEF JobStoreAssumption, LifeInv, TInv, JobKnown, Progress
  <1> QED
    BY <1>1, <1>2, <1>3, JobRunnerAssumption
    DEF JobRunnerAssumption, LifeInv, TInv, TaskTypes, ReaderTypes

LEMMA StreamSteps ==
  ASSUME LifeInv, [Next]_vars
  PROVE  \/ Quiet
         \/ \E l \in Launch, j \in JobId, k \in Kind : StartJob(l, j, k)
         \/ \E j \in JobId, t \in Tunnel : StartTunnel(j, t)
         \/ \E j \in JobId : SendInput(j)
         \/ \E l \in Launch : ShellOutput(l)
         \/ \E l \in Launch : AttachStdin(l)
  <1>0. /\ jobs \in Jobs /\ JobKnown
        /\ stdin \in Stdins /\ tunnel \in Tunnels
    BY StreamTypes DEF LifeInv, TInv
  <1>1. ASSUME UNCHANGED <<job, shown, sent, stdin, tunnel>>, EntriesKept(jobs, jobs')
        PROVE  Quiet
    BY <1>1, Unmoved DEF Quiet
  <1>2. ASSUME NEW l \in Launch, LaunchTask(l), ~ShellOutput(l), ~AttachStdin(l)
        PROVE  Quiet
    <2>1. UNCHANGED <<job, shown, sent, stdin, tunnel>>
      BY <1>2 DEF LaunchTask, BadArgs, PullImage, CreateContainer, StartContainer, OpenShell,
         ResizeShell, ShellEnds, FollowLogs, RemoveContainer, RecordContainer, RecordRemoved,
         Report, TaskFindsPoison
    <2>2. CASE RecordContainer(l) \/ RecordRemoved(l)
      <3>1. job[l] \in JobId
        BY <1>0, <2>2 DEF RecordContainer, RecordRemoved, Goes, JobKnown
      <3>2. \E i \in Info : jobs' = SetJobInfo(jobs, job[l], i)
        BY <2>2, InfoType DEF RecordContainer, RecordRemoved, ContainerState
      <3>3. EntriesKept(jobs, jobs')
        BY <1>0, <3>1, <3>2, SetJobInfoKeeps
      <3> QED  BY <1>1, <2>1, <3>3
    <2>3. CASE Report(l)
      <3>1. job[l] \in JobId
        BY <1>0, <2>3 DEF Report, Goes, JobKnown
      <3>2. \E s \in Status : jobs' = SetJobStatus(jobs, job[l], s)
        BY <2>3 DEF Report, Status
      <3>3. EntriesKept(jobs, jobs')
        BY <1>0, <3>1, <3>2, SetJobStatusKeeps
      <3> QED  BY <1>1, <2>1, <3>3
    <2>4. CASE ~RecordContainer(l) /\ ~RecordRemoved(l) /\ ~Report(l)
      <3>1. jobs' = jobs
        BY <1>2, <2>4 DEF LaunchTask, BadArgs, PullImage, CreateContainer, StartContainer,
           OpenShell, ResizeShell, ShellEnds, FollowLogs, RemoveContainer, TaskFindsPoison
      <3> QED  BY <1>1, <2>1, <3>1, SameEntries
    <2> QED  BY <2>2, <2>3, <2>4
  <1>3. ASSUME NEW l \in Launch, MonitorTask(l)
        PROVE  Quiet
    <2>1. UNCHANGED <<job, shown, sent, stdin, tunnel>>
      BY <1>3 DEF MonitorTask, MonitorInspects, MonitorStores
    <2>2. \/ jobs' = jobs
          \/ /\ job[l] \in JobId
             /\ \E i \in Info : jobs' = SetJobInfo(jobs, job[l], i)
      <3>1. CASE MonitorStores(l)
        <4>1. job[l] \in JobId /\ monitor[l] \notin {"off", "idle"}
          BY <1>0, <3>1 DEF MonitorStores, JobKnown
        <4>2. \/ jobs' = jobs
              \/ /\ jobs[job[l]] # NoJob /\ jobs[job[l]].info # NoInfo
                 /\ jobs' = SetJobInfo(jobs, job[l],
                              [jobs[job[l]].info EXCEPT !.docker_status = monitor[l]])
          BY <3>1 DEF MonitorStores
        <4> QED  BY <4>1, <4>2, MonitorInfoType DEF LifeInv
      <3>2. CASE ~MonitorStores(l)
        BY <1>3, <3>2 DEF MonitorTask, MonitorInspects
      <3> QED  BY <3>1, <3>2
    <2>3. EntriesKept(jobs, jobs')
      BY <1>0, <2>2, SetJobInfoKeeps, SameEntries
    <2> QED  BY <1>1, <2>1, <2>3
  <1>4. ASSUME NEW l \in Launch, StdinTask(l)
        PROVE  Quiet
    <2>1. UNCHANGED <<job, shown, sent, tunnel, jobs>>
      BY <1>4 DEF StdinTask
    <2> DEFINE r == stdin[l].reader
    <2>2. PICK r2 : Moves(r, r2) /\ stdin' = [stdin EXCEPT ![l].reader = r2]
      <3>1. CASE r.pc = "spawned" /\ stdin' = [stdin EXCEPT ![l].reader = Subscribe(r)]
        BY <3>1 DEF Moves
      <3>2. CASE CanTake(r) /\ stdin' = [stdin EXCEPT ![l].reader = Take(r)]
        BY <3>2 DEF Moves
      <3>3. CASE CanPanic(r) /\ stdin' = [stdin EXCEPT ![l].reader = Drop(r)]
        BY <3>3 DEF Moves, CanPanic
      <3> QED  BY <1>4, <3>1, <3>2, <3>3 DEF StdinTask
    <2>3. ASSUME NEW k \in Launch
          PROVE  stdin'[k].channel = stdin[k].channel /\ Moves(stdin[k].reader, stdin'[k].reader)
      <3>1. CASE k = l
        <4>1. stdin'[k] = [stdin[k] EXCEPT !.reader = r2]
          BY <1>0, <2>2, <3>1 DEF Stdins
        <4>2. stdin'[k].channel = stdin[k].channel /\ stdin'[k].reader = r2
          BY <1>0, <4>1 DEF Stdins, Stdin
        <4> QED  BY <2>2, <3>1, <4>2
      <3>2. CASE k # l
        <4>1. stdin'[k] = stdin[k]
          BY <1>0, <2>2, <3>2 DEF Stdins
        <4> QED  BY <4>1 DEF Moves
      <3> QED  BY <3>1, <3>2
    <2>4. StdinsMove(stdin, stdin')
      BY <2>3 DEF StdinsMove
    <2> QED  BY <2>1, <2>4, Unmoved, SameEntries DEF Quiet
  <1>5. ASSUME NEW t \in Tunnel, Messanger(t)
        PROVE  Quiet
    <2>1. UNCHANGED <<job, shown, sent, stdin, jobs>>
      BY <1>5 DEF Messanger
    <2> DEFINE r == tunnel[t].reader
    <2>2. PICK r2 : Moves(r, r2) /\ tunnel' = [tunnel EXCEPT ![t].reader = r2]
      <3>1. CASE r.pc = "spawned" /\ tunnel' = [tunnel EXCEPT ![t].reader = Subscribe(r)]
        BY <3>1 DEF Moves
      <3>2. CASE CanTake(r) /\ tunnel' = [tunnel EXCEPT ![t].reader = Take(r)]
        BY <3>2 DEF Moves
      <3>3. CASE CanPanic(r) /\ tunnel' = [tunnel EXCEPT ![t].reader = Drop(r)]
        BY <3>3 DEF Moves, CanPanic
      <3> QED  BY <1>5, <3>1, <3>2, <3>3 DEF Messanger
    <2>3. ASSUME NEW k \in Tunnel
          PROVE  /\ tunnel'[k].job = tunnel[k].job /\ tunnel'[k].since = tunnel[k].since
                 /\ Moves(tunnel[k].reader, tunnel'[k].reader)
      <3>1. CASE k = t
        <4>1. tunnel'[k] = [tunnel[k] EXCEPT !.reader = r2]
          BY <1>0, <2>2, <3>1 DEF Tunnels
        <4>2. /\ tunnel'[k].job = tunnel[k].job /\ tunnel'[k].since = tunnel[k].since
              /\ tunnel'[k].reader = r2
          BY <1>0, <4>1 DEF Tunnels, Messangers
        <4> QED  BY <2>2, <3>1, <4>2
      <3>2. CASE k # t
        <4>1. tunnel'[k] = tunnel[k]
          BY <1>0, <2>2, <3>2 DEF Tunnels
        <4> QED  BY <4>1 DEF Moves
      <3> QED  BY <3>1, <3>2
    <2>4. TunnelsMove(tunnel, tunnel')
      BY <2>3 DEF TunnelsMove
    <2> QED  BY <2>1, <2>4, Unmoved, SameEntries DEF Quiet
  <1>6. ASSUME NEW to, StopProcess(to)
        PROVE  Quiet
    <2>1. UNCHANGED <<job, shown, sent>> /\ jobs' = NoJobs
      BY <1>6 DEF StopProcess
    <2>2. ASSUME NEW r  PROVE Moves(r, Abandon(r))
      BY DEF Moves, Abandon
    <2>3. ASSUME NEW l \in Launch
          PROVE  stdin'[l].channel = stdin[l].channel /\ Moves(stdin[l].reader, stdin'[l].reader)
      <3>1. stdin'[l] = [stdin[l] EXCEPT !.reader = Abandon(stdin[l].reader)]
        BY <1>6 DEF StopProcess
      <3>2. stdin'[l].channel = stdin[l].channel /\ stdin'[l].reader = Abandon(stdin[l].reader)
        BY <1>0, <3>1 DEF Stdins, Stdin
      <3> QED  BY <2>2, <3>2
    <2>4. ASSUME NEW t \in Tunnel
          PROVE  /\ tunnel'[t].job = tunnel[t].job /\ tunnel'[t].since = tunnel[t].since
                 /\ Moves(tunnel[t].reader, tunnel'[t].reader)
      <3>1. tunnel'[t] = [tunnel[t] EXCEPT !.reader = Abandon(tunnel[t].reader)]
        BY <1>6 DEF StopProcess
      <3>2. /\ tunnel'[t].job = tunnel[t].job /\ tunnel'[t].since = tunnel[t].since
            /\ tunnel'[t].reader = Abandon(tunnel[t].reader)
        BY <1>0, <3>1 DEF Tunnels, Messangers
      <3> QED  BY <2>2, <3>2
    <2>5. TunnelsMove(tunnel, tunnel') /\ StdinsMove(stdin, stdin')
      BY <2>3, <2>4 DEF TunnelsMove, StdinsMove
    <2> QED  BY <2>1, <2>5, SameEntries DEF Quiet
  <1>7. ASSUME StartProcess \/ (\E l \in Launch : ContainerExits(l)) \/ UNCHANGED vars
        PROVE  Quiet
    <2>1. UNCHANGED <<job, shown, sent, stdin, tunnel, jobs>>
      BY <1>7 DEF StartProcess, ContainerExits, taskVars, vars
    <2> QED  BY <1>1, <2>1, SameEntries
  <1>8. CASE CoreTask
    BY <1>6, <1>8 DEF CoreTask, CoreFindsPoison
  <1>9. CASE Environment
    BY <1>6, <1>7, <1>9 DEF Environment, Crash, CrashDuringSave
  <1> QED  BY <1>2, <1>3, <1>4, <1>5, <1>7, <1>8, <1>9 DEF Next

LEMMA QuietStep ==
  ASSUME LifeInv, LifeInv', StreamInv, Quiet
  PROVE  StreamInv'
  <1>1. job' = job /\ shown' = shown /\ sent' = sent /\ JobsStay(job, job')
    BY DEF Quiet, JobsStay
  <1>2. Entered(jobs', job')
    BY <1>1 DEF Quiet, StreamInv, Entered, EntriesKept
  <1>3. TunnelsKept(jobs, jobs')
    BY KeptTunnels DEF Quiet
  <1>4. tunnel' \in Tunnels /\ stdin' \in Stdins
    BY DEF LifeInv, TInv, ReaderTypes, Tunnels, Stdins, Messangers, Stdin
  <1>5. TunnelsOK(tunnel', jobs', job', shown)
    BY <1>1, <1>3, <1>4, StreamTypes, TunnelsMoved DEF StreamInv, Quiet
  <1>6. StdinsOK(stdin', job', sent)
    BY <1>1, <1>4, StreamTypes, StdinsMoved DEF StreamInv, Quiet
  <1> QED  BY <1>1, <1>2, <1>5, <1>6 DEF StreamInv

LEMMA StartJobStep ==
  ASSUME LifeInv, StreamInv, NEW l \in Launch, NEW j \in JobId, NEW k, StartJob(l, j, k)
  PROVE  StreamInv'
  <1>1. /\ jobs' = NewJob(jobs, j, l) /\ job' = [job EXCEPT ![l] = j] /\ pc[l] = "unused"
        /\ shown' = shown /\ sent' = sent /\ tunnel' = tunnel /\ stdin' = stdin
    BY DEF StartJob, Fresh
  <1>2. /\ job'[l] = j /\ job[l] = NoJob
        /\ \A m \in Launch : m # l => job'[m] = job[m]
    BY <1>1, StreamTypes
  <1>3. JobsStay(job, job')
    BY <1>2 DEF JobsStay
  <1>4. TunnelsKept(jobs, jobs') /\ jobs'[j].launch = l
        /\ \A i \in JobId : i # j => jobs'[i] = jobs[i]
    BY <1>1, StreamTypes, NewJobChannels, NewJobEntry
  <1>5. Entered(jobs', job')
    <2> SUFFICES ASSUME NEW i \in JobId, jobs'[i] # NoJob
                 PROVE  job'[jobs'[i].launch] = i
      BY DEF Entered
    <2>1. CASE i = j
      BY <1>2, <1>4, <2>1
    <2>2. CASE i # j
      <3>1. jobs'[i] = jobs[i] /\ jobs[i].launch \in Launch /\ job[jobs[i].launch] = i
        BY <1>4, <2>2, StreamTypes, EntryFields DEF StreamInv, Entered
      <3>2. i # NoJob
        BY JobStoreAssumption DEF JobStoreAssumption
      <3> QED  BY <1>3, <3>1, <3>2 DEF JobsStay
    <2> QED  BY <2>1, <2>2
  <1>6. TunnelsOK(tunnel, jobs', job', shown)
    BY <1>3, <1>4, StreamTypes, Unmoved, TunnelsMoved DEF StreamInv
  <1>7. StdinsOK(stdin, job', sent)
    BY <1>3, StreamTypes, Unmoved, StdinsMoved DEF StreamInv
  <1> QED  BY <1>1, <1>5, <1>6, <1>7 DEF StreamInv

LEMMA StartTunnelStep ==
  ASSUME LifeInv, LifeInv', StreamInv, NEW j \in JobId, NEW t \in Tunnel, StartTunnel(j, t)
  PROVE  StreamInv'
  <1>1. /\ jobs[j] # NoJob /\ jobs' = CreateTunnel(jobs, j, t)
        /\ tunnel[t].reader.pc = "unused"
        /\ \A s \in Tunnel : s < t => tunnel[s].reader.pc # "unused"
        /\ job' = job /\ shown' = shown /\ sent' = sent /\ stdin' = stdin
    BY DEF StartTunnel
  <1>2. tunnel' = [tunnel EXCEPT ![t] =
                     [reader |-> NewReader("spawned"), job |-> j, since |-> shown]]
    BY DEF StartTunnel
  <1>3. /\ tunnel'[t].reader = NewReader("spawned") /\ tunnel'[t].job = j
        /\ tunnel'[t].since = shown
        /\ \A s \in Tunnel : s # t => tunnel'[s] = tunnel[s]
    BY <1>2, StreamTypes DEF Tunnels
  <1>4. tunnel' \in Tunnels
    BY DEF LifeInv, TInv, ReaderTypes, Tunnels, Messangers
  <1>5. TunnelsOK(tunnel', jobs', job, shown)
    BY <1>1, <1>3, <1>4, StreamTypes, TunnelBegunOK DEF StreamInv
  <1>6. Entered(jobs', job)
    BY <1>1, StreamTypes, CreateTunnelChannels DEF StreamInv, Entered
  <1> QED  BY <1>1, <1>5, <1>6 DEF StreamInv

LEMMA SendInputStep ==
  ASSUME LifeInv, StreamInv, NEW j \in JobId, SendInput(j)
  PROVE  StreamInv'
  <1> DEFINE c == jobs[j].launch
             x == <<c, sent[c] + 1>>
  <1>1. /\ jobs[j] # NoJob /\ sent' = OneMore(sent, c)
        /\ jobs' = jobs /\ job' = job /\ shown' = shown /\ tunnel' = tunnel
    BY DEF SendInput, OneMore
  <1>2. \A l \in Launch : stdin'[l] = IF stdin[l].channel = c
          THEN [stdin[l] EXCEPT !.reader = Receive(stdin[l].reader, x, InputCap)] ELSE stdin[l]
    BY DEF SendInput
  <1>3. c \in Launch
    BY <1>1, StreamTypes, EntryFields
  <1>4. x \in Piece
    BY <1>3, StreamTypes DEF Piece, Counts
  <1> HIDE DEF x
  <1>5. ASSUME NEW l \in Launch
        PROVE  /\ stdin'[l].channel = stdin[l].channel
               /\ stdin'[l].reader = IF stdin[l].channel = c
                    THEN Receive(stdin[l].reader, x, InputCap) ELSE stdin[l].reader
    <2> DEFINE new == Receive(stdin[l].reader, x, InputCap)
    <2>1. stdin[l] \in Stdin
      BY StreamTypes DEF Stdins
    <2> HIDE DEF new, c
    <2>2. CASE stdin[l].channel = c
      <3>1. stdin'[l] = [stdin[l] EXCEPT !.reader = new]
        BY <1>2, <2>2 DEF new
      <3>2. stdin'[l].channel = stdin[l].channel /\ stdin'[l].reader = new
        BY <2>1, <3>1 DEF Stdin
      <3> QED  BY <2>2, <3>2 DEF new
    <2>3. CASE stdin[l].channel # c
      BY <1>2, <2>3
    <2> QED  BY <2>2, <2>3
  <1>6. StdinsTold(stdin, stdin', c, x, InputCap)
    BY <1>5 DEF StdinsTold
  <1>7. x = <<c, sent[c] + 1>>
    BY DEF x
  <1> HIDE DEF c
  <1>8. StdinsOK(stdin', job, OneMore(sent, c))
    BY <1>3, <1>4, <1>6, <1>7, StreamTypes, StdinsToldOK DEF StreamInv
  <1> QED  BY <1>1, <1>8 DEF StreamInv

LEMMA ShellOutputStep ==
  ASSUME LifeInv, LifeInv', StreamInv, NEW l \in Launch, ShellOutput(l)
  PROVE  StreamInv'
  <1> DEFINE t == TunnelOf(job[l])
             x == <<l, shown[l] + 1>>
             j == job[l]
  <1>0. 0 \notin Tunnel
    BY NoTunnel
  <1>1. /\ shown' = OneMore(shown, l)
        /\ jobs' = jobs /\ job' = job /\ sent' = sent /\ stdin' = stdin /\ pc[l] = "streaming"
    BY DEF ShellOutput, OneMore
  <1>2. \/ t = 0 /\ tunnel' = tunnel
        \/ /\ t # 0 /\ tunnel[t].reader.pc = "reading"
           /\ tunnel' = [tunnel EXCEPT ![t].reader = Receive(tunnel[t].reader, x, OutputCap)]
        \/ t # 0 /\ tunnel[t].reader.pc # "reading" /\ tunnel' = tunnel
    BY DEF ShellOutput
  <1>3. j \in JobId
    BY <1>1 DEF LifeInv, TInv, JobKnown
  <1>4. x \in Piece
    BY StreamTypes DEF Piece, Counts
  <1>5. /\ t = 0 \/ t \in Tunnel
        /\ \A s \in Tunnel : Attached(jobs, j, s) <=> s = t
    BY <1>0, <1>3, StreamTypes, EntryFields DEF TunnelOf, Attached
  <1>6. x = <<l, shown[l] + 1>>
    OBVIOUS
  <1> HIDE DEF t, x, j
  <1>7. ASSUME NEW s \in Tunnel
        PROVE  /\ tunnel'[s].job = tunnel[s].job /\ tunnel'[s].since = tunnel[s].since
               /\ tunnel'[s].reader = IF Attached(jobs, j, s)
                    THEN Receive(tunnel[s].reader, x, OutputCap) ELSE tunnel[s].reader
    <2> DEFINE new == Receive(tunnel[s].reader, x, OutputCap)
    <2>1. tunnel \in Tunnels /\ tunnel[s] \in Messangers
      BY StreamTypes DEF Tunnels
    <2>2. CASE s # t
      <3>1. tunnel'[s] = tunnel[s]
        BY <1>2, <2>1, <2>2 DEF Tunnels
      <3> QED  BY <1>5, <2>2, <3>1
    <2>3. CASE s = t /\ tunnel' = tunnel /\ tunnel[s].reader.pc # "reading"
      <3>1. new = tunnel[s].reader
        BY <2>3 DEF Receive
      <3> QED  BY <2>3, <3>1
    <2>4. CASE s = t /\ tunnel' = [tunnel EXCEPT ![s].reader = Receive(tunnel[s].reader, x, OutputCap)]
      <3>1. tunnel' = [tunnel EXCEPT ![s].reader = new]
        BY <2>4
      <3> HIDE DEF new
      <3>2. tunnel'[s] = [tunnel[s] EXCEPT !.reader = new]
        BY <2>1, <3>1 DEF Tunnels
      <3>3. /\ tunnel'[s].job = tunnel[s].job /\ tunnel'[s].since = tunnel[s].since
            /\ tunnel'[s].reader = new
        BY <2>1, <3>2 DEF Messangers
      <3> QED  BY <1>5, <2>4, <3>3 DEF new
    <2> QED  BY <1>0, <1>2, <2>2, <2>3, <2>4
  <1>8. TunnelsTold(tunnel, tunnel', jobs, job[l], x, OutputCap)
    BY <1>7 DEF TunnelsTold, j
  <1>9. tunnel' \in Tunnels
    BY DEF LifeInv, TInv, ReaderTypes, Tunnels, Messangers
  <1>10. job[l] \in JobId
    BY <1>3 DEF j
  <1>11. TunnelsOK(tunnel', jobs, job, OneMore(shown, l))
    BY <1>4, <1>6, <1>8, <1>9, <1>10, StreamTypes, TunnelsToldOK DEF StreamInv
  <1> QED  BY <1>1, <1>11 DEF StreamInv

LEMMA AttachStdinStep ==
  ASSUME LifeInv, StreamInv, NEW l \in Launch, AttachStdin(l)
  PROVE  StreamInv'
  <1>1. /\ jobs' = jobs /\ job' = job /\ shown' = shown /\ sent' = sent /\ tunnel' = tunnel
        /\ pc[l] = "opened"
    BY DEF AttachStdin, Goes
  <1>2. job[l] \in JobId /\ job[l] # NoJob
    BY <1>1, JobStoreAssumption DEF JobStoreAssumption, LifeInv, TInv, JobKnown
  <1>3. CASE jobs[job[l]] = NoJob
    <2>1. stdin' = stdin
      BY <1>3 DEF AttachStdin
    <2> QED  BY <1>1, <2>1 DEF StreamInv
  <1>4. CASE jobs[job[l]] # NoJob
    <2> DEFINE entry == [reader |-> NewReader("spawned"), channel |-> InputChannel(job[l])]
    <2>1. stdin' = [stdin EXCEPT ![l] = entry]
      BY <1>4 DEF AttachStdin
    <2>2. entry.reader = NewReader("spawned") /\ entry.channel = jobs[job[l]].launch
      BY DEF InputChannel
    <2> HIDE DEF entry
    <2>3. stdin'[l] = entry /\ \A k \in Launch : k # l => stdin'[k] = stdin[k]
      BY <2>1, StreamTypes DEF Stdins
    <2>4. job[jobs[job[l]].launch] = job[l]
      BY <1>2, <1>4 DEF StreamInv, Entered
    <2>5. stdin'[l].reader = NewReader("spawned") /\ job[stdin'[l].channel] = job[l]
      BY <2>2, <2>3, <2>4
    <2>6. StdinsOK(stdin', job, sent)
      BY <1>2, <2>3, <2>5, StdinAttachedOK DEF StreamInv
    <2> QED  BY <1>1, <2>6 DEF StreamInv
  <1> QED  BY <1>3, <1>4

LEMMA StreamInit == Init => StreamInv
  <1> SUFFICES ASSUME Init  PROVE StreamInv
    OBVIOUS
  <1>1. /\ \A t \in Tunnel : tunnel[t].reader = NewReader("unused") /\ tunnel[t].job = NoJob
        /\ \A l \in Launch : stdin[l].reader = NewReader("unused")
        /\ jobs = NoJobs
    BY DEF Init
  <1>2. \A j \in JobId : jobs[j] = NoJob
    BY <1>1 DEF NoJobs
  <1>3. /\ \A N : Sound(NewReader("unused"), N) /\ Current(NewReader("unused"), N)
        /\ NewReader("unused").pc = "unused" /\ Elements(Stream(NewReader("unused"))) = {}
    BY NewReaderSound
  <1>4. TunnelsOK(tunnel, jobs, job, shown)
    BY <1>1, <1>2, <1>3
    DEF TunnelsOK, Begun, Belongs, Newest, Listening, Superseded, Attached, Known
  <1>5. StdinsOK(stdin, job, sent)
    BY <1>1, <1>3 DEF StdinsOK, StdinOK
  <1>6. Entered(jobs, job)
    BY <1>2 DEF Entered
  <1> QED  BY <1>4, <1>5, <1>6 DEF StreamInv

LEMMA StreamStep ==
  ASSUME LifeInv, LifeInv', StreamInv, [Next]_vars
  PROVE  StreamInv'
  BY StreamSteps, QuietStep, StartJobStep, StartTunnelStep, SendInputStep, ShellOutputStep,
     AttachStdinStep

\* What each reader has taken and has waiting for it is, as long as it listens,
\* up to date with what is sent; each tunnel of a job ends where the next begins.
THEOREM StreamInvariant == Spec => []StreamInv
<1>1. Init => StreamInv
  BY StreamInit
<1>2. LifeInv /\ LifeInv' /\ StreamInv /\ [Next]_vars => StreamInv'
  BY StreamStep
<1>. QED
  BY <1>1, <1>2, LifeInvariant, PTL DEF Spec

\* What start_tunnel_messanger passes on is output of launches of its own job,
\* of each without a gap or a repetition, for any number of tunnels and launches
\* and channels of any capacity.
THEOREM TunnelStreamHolds == Spec => []TunnelStream
<1>1. LifeInv /\ StreamInv => TunnelStream
  <2>. SUFFICES ASSUME LifeInv, StreamInv, NEW t \in Tunnel
                PROVE  /\ Unbroken(tunnel[t].reader.taken)
                       /\ \A i \in 1 .. Len(tunnel[t].reader.taken) :
                            job[tunnel[t].reader.taken[i][1]] = tunnel[t].job
    BY DEF TunnelStream
  <2>1. Unbroken(tunnel[t].reader.taken)
    BY DEF StreamInv, TunnelsOK, Sound
  <2>2. tunnel[t].reader \in Reader
    BY StreamTypes, TunnelFields
  <2>3. \A x \in Elements(tunnel[t].reader.taken) : x \in Known(tunnel, t)
    BY <2>2, ReaderFields DEF Known
  <2>4. \A x \in Known(tunnel, t) : job[x[1]] = tunnel[t].job
    BY DEF StreamInv, TunnelsOK, Belongs
  <2>. QED
    BY <2>1, <2>3, <2>4 DEF Elements
<1>. QED
  BY <1>1, LifeInvariant, StreamInvariant, PTL

\* A later create_job_tunnel for a job takes its output away from the earlier
\* tunnels of that job.
THEOREM TakeOverHolds == Spec => []TakeOver
<1>1. StreamInv => TakeOver
  BY DEF StreamInv, TunnelsOK, Superseded, Known, Stream, Elements, TakeOver
<1>. QED
  BY <1>1, StreamInvariant, PTL

\* What the input task writes to a shell was sent to its own job, to one launch
\* of it, and comes without a gap or a repetition.
THEOREM KeyboardStreamHolds == Spec => []KeyboardStream
<1>1. LifeInv /\ StreamInv => KeyboardStream
  <2>. SUFFICES ASSUME LifeInv, StreamInv, NEW l \in Launch, stdin[l].reader.taken # <<>>
                PROVE  /\ job[stdin[l].channel] = job[l]
                       /\ Unbroken(stdin[l].reader.taken)
                       /\ \A i \in 1 .. Len(stdin[l].reader.taken) :
                            stdin[l].reader.taken[i][1] = stdin[l].channel
    BY DEF KeyboardStream
  <2>1. StdinOK(stdin[l], l, job, sent)
    BY DEF StreamInv, StdinsOK
  <2>2. stdin[l].reader \in Reader
    BY StreamTypes, StdinFields
  <2>3. stdin[l].reader.pc # "unused" /\ Unbroken(stdin[l].reader.taken)
    BY <2>1 DEF StdinOK, Sound
  <2>4. \A x \in Elements(stdin[l].reader.taken) : x[1] = stdin[l].channel
    BY <2>1, <2>2, ReaderFields DEF StdinOK
  <2>. QED
    BY <2>1, <2>3, <2>4 DEF StdinOK, Elements
<1>. QED
  BY <1>1, LifeInvariant, StreamInvariant, PTL
=============================================================================
