-------------------------- MODULE StopAndWaitProofs --------------------------
(* Theorems about StopAndWait, for every number of chunks, every modulus of   *)
(* the sequence numbers from two on, every receive buffer and any number of   *)
(* lost datagrams, whatever k_sendto takes the chunks for.                     *)
EXTENDS StopAndWait, TLAPS

Sender == "user1"
Receiver == "user2"

Last == Transfer!Last

-----------------------------------------------------------------------------
(* The inductive invariant *)

\* The chunks that are sent once.
Raw == {k \in 1..N : file[k] \in RawText}

\* Between chunk k and chunk c only such.
OnlyRaw(k, c) == \A j \in 1..N : k < j /\ j < c => j \in Raw

\* Where the users stand, and what that says of the chunks.
PcInv ==
  /\ pc[Sender] = "ackwait" => chunk <= N /\ chunk \notin Raw
  /\ hand # 0 => pc[Receiver] = "recv"

\* The chunk l taken last is the current chunk c, or there are none between
\* them but such as are sent once; and it did not end the reception.
Progress(l, c) ==
  /\ l <= c /\ (l = c => c <= N /\ c \notin Raw)
  /\ l # 0 => ~BeginsEof(file[l])
  /\ OnlyRaw(l, c)

\* A frame on its way to user2 is a chunk sent once and not yet taken, or it is
\* the current chunk c with the current number s, or the one acknowledged last
\* with the number before; and it is never older than the chunk l taken last.
\* What is no chunk is an EOF, after the last one.
FrameOk(m, c, s, l) ==
  /\ m.n = 0 => m.type = "none" /\ m.text = "EOF" /\ c = N + 1
  /\ m.n # 0 =>
       /\ l <= m.n /\ m.n <= c /\ m.n <= N /\ m.text = file[m.n]
       /\ m.n \in Raw => l < m.n /\ m.n < c /\ m.type # "DATA"
       /\ m.n \notin Raw =>
            /\ m.type = "DATA"
            /\ \/ m.n = c /\ m.seq = s
               \/ m.n < c /\ Succ(m.seq) = s /\ OnlyRaw(m.n, c)

\* Frame m comes before frame k: it is of an older chunk, or of the same again.
Older(m, k) ==
  m.n # 0 /\ k.n # 0 => m.n < k.n \/ (m.n = k.n /\ m.n \notin Raw)

Frames(q, c, s, l) ==
  /\ \A i \in 1..Len(q) : FrameOk(q[i], c, s, l)
  /\ \A i, j \in 1..Len(q) : i < j => Older(q[i], q[j])

\* Only acknowledgements are on their way to user1: of the current chunk, which
\* then is taken, or of the one before; and none of these comes after one of
\* those.
AckOk(m, c, s, l) ==
  /\ m.type = "ACK" /\ m.text = "ACK"
  /\ (m.seq = s /\ l = c) \/ Succ(m.seq) = s

Fresher(m, k, s) == m.seq = s => k.seq = s

Acks(q, c, s, l) ==
  /\ \A i \in 1..Len(q) : AckOk(q[i], c, s, l)
  /\ \A i, j \in 1..Len(q) : i < j => Fresher(q[i], q[j], s)

Inboxes == [User -> Seq(Datagram)]

\* What may be under way in the receive buffers ib as long as user2 receives.
Net(ib, c, s, l) ==
  /\ ib \in Inboxes
  /\ Frames(ib[Receiver], c, s, l)
  /\ Acks(ib[Sender], c, s, l)

Ended == pc[Receiver] \notin {"off", "recv"}

Transferring ==
  /\ Progress(Last, chunk)
  /\ Net(inbox, chunk, next_seq[Sender], Last)

IInv == TypeOK /\ PcInv /\ (Ended \/ Transferring)

-----------------------------------------------------------------------------
(* Sequence numbers *)

\* The number after a number is another one.
LEMMA SuccProperties ==
  \A s \in 0..Modulus-1 : Succ(s) \in 0..Modulus-1 /\ Succ(s) # s
<1> SUFFICES ASSUME NEW s \in 0..Modulus-1
             PROVE  Succ(s) \in 0..Modulus-1 /\ Succ(s) # s
  OBVIOUS
<1>1. CASE s + 1 < Modulus
  BY <1>1, StopAndWaitAssumption DEF Succ
<1>2. CASE s + 1 = Modulus
  BY <1>2, StopAndWaitAssumption DEF Succ
<1> QED
  BY <1>1, <1>2, StopAndWaitAssumption

-----------------------------------------------------------------------------
(* Datagrams that are taken or sent *)

\* What is left when one is taken is still in order.
LEMMA FramesLess ==
  ASSUME NEW q \in Seq(Datagram), q # <<>>, NEW c, NEW s, NEW l, Frames(q, c, s, l)
  PROVE  Frames(Tail(q), c, s, l)
<1>1. Len(Tail(q)) = Len(q) - 1 /\ \A i \in 1..Len(q) - 1 : Tail(q)[i] = q[i + 1]
  OBVIOUS
<1> QED
  BY <1>1 DEF Frames

LEMMA AcksLess ==
  ASSUME NEW q \in Seq(Datagram), q # <<>>, NEW c, NEW s, NEW l, Acks(q, c, s, l)
  PROVE  Acks(Tail(q), c, s, l)
<1>1. Len(Tail(q)) = Len(q) - 1 /\ \A i \in 1..Len(q) - 1 : Tail(q)[i] = q[i + 1]
  OBVIOUS
<1> QED
  BY <1>1 DEF Acks

\* A datagram may be added when it is in order itself and older than none.
LEMMA FramesMore ==
  ASSUME NEW q \in Seq(Datagram), NEW c, NEW s, NEW l, Frames(q, c, s, l),
         NEW m \in Datagram, FrameOk(m, c, s, l),
         \A i \in 1..Len(q) : Older(q[i], m)
  PROVE  Frames(Append(q, m), c, s, l)
<1> DEFINE a == Append(q, m)
<1>1. Len(a) = Len(q) + 1 /\ a[Len(q) + 1] = m /\ \A i \in 1..Len(q) : a[i] = q[i]
  OBVIOUS
<1> HIDE DEF a
<1>2. \A i \in 1..Len(a) : FrameOk(a[i], c, s, l)
  BY <1>1 DEF Frames
<1>3. \A i, j \in 1..Len(a) : i < j => Older(a[i], a[j])
  BY <1>1 DEF Frames
<1> QED
  BY <1>2, <1>3 DEF Frames, a

LEMMA AcksMore ==
  ASSUME NEW q \in Seq(Datagram), NEW c, NEW s, NEW l, Acks(q, c, s, l),
         NEW m \in Datagram, AckOk(m, c, s, l),
         \A i \in 1..Len(q) : Fresher(q[i], m, s)
  PROVE  Acks(Append(q, m), c, s, l)
<1> DEFINE a == Append(q, m)
<1>1. Len(a) = Len(q) + 1 /\ a[Len(q) + 1] = m /\ \A i \in 1..Len(q) : a[i] = q[i]
  OBVIOUS
<1> HIDE DEF a
<1>2. \A i \in 1..Len(a) : AckOk(a[i], c, s, l)
  BY <1>1 DEF Acks
<1>3. \A i, j \in 1..Len(a) : i < j => Fresher(a[i], a[j], s)
  BY <1>1 DEF Acks
<1> QED
  BY <1>2, <1>3 DEF Acks, a

\* A frame of the current chunk comes after all others, and so does an EOF.
LEMMA FramesOlder ==
  ASSUME NEW q \in Seq(Datagram), NEW c \in Nat, NEW s, NEW l, Frames(q, c, s, l),
         NEW m, m.n \in {0, c}
  PROVE  \A i \in 1..Len(q) : Older(q[i], m)
<1> SUFFICES ASSUME NEW i \in 1..Len(q) PROVE Older(q[i], m)
  OBVIOUS
<1>1. q[i] \in Datagram /\ FrameOk(q[i], c, s, l)
  BY DEF Frames
<1>2. q[i].n \in Nat
  BY <1>1, StopAndWaitAssumption DEF Datagram
<1> QED
  BY <1>1, <1>2 DEF FrameOk, Older

\* The next chunk, when the current one is sent once: the frames under way are of
\* chunks before it.
LEMMA FramesPass ==
  ASSUME NEW q \in Seq(Datagram), NEW c \in Raw, NEW s, NEW l, Frames(q, c, s, l)
  PROVE  Frames(q, c + 1, s, l)
<1>1. c \in 1..N /\ c \in Nat
  BY StopAndWaitAssumption DEF Raw
<1>2. ASSUME NEW i \in 1..Len(q) PROVE FrameOk(q[i], c + 1, s, l)
  <2>1. q[i] \in Datagram /\ FrameOk(q[i], c, s, l)
    BY DEF Frames
  <2>2. q[i].n \in Nat
    BY <2>1, StopAndWaitAssumption DEF Datagram
  <2>3. q[i].n # 0
    BY <1>1, <2>1, StopAndWaitAssumption DEF FrameOk
  <2>4. OnlyRaw(q[i].n, c) => OnlyRaw(q[i].n, c + 1)
    BY <1>1, StopAndWaitAssumption DEF OnlyRaw
  <2> QED
    BY <1>1, <2>1, <2>2, <2>3, <2>4 DEF FrameOk
<1> QED
  BY <1>2 DEF Frames

\* The next chunk, when the current one is taken and acknowledged: all frames
\* under way are of the chunk acknowledged.
LEMMA FramesNext ==
  ASSUME NEW q \in Seq(Datagram), NEW c \in 1..N, NEW s, Frames(q, c, s, c)
  PROVE  Frames(q, c + 1, Succ(s), c)
<1>1. c \in Nat /\ c # N + 1
  BY StopAndWaitAssumption
<1>2. ASSUME NEW i \in 1..Len(q) PROVE FrameOk(q[i], c + 1, Succ(s), c)
  <2>1. q[i] \in Datagram /\ FrameOk(q[i], c, s, c)
    BY DEF Frames
  <2>2. q[i].n \in Nat
    BY <2>1, StopAndWaitAssumption DEF Datagram
  <2>3. q[i].n = c /\ q[i].n \notin Raw /\ q[i].seq = s
    BY <1>1, <2>1, <2>2 DEF FrameOk
  <2>4. OnlyRaw(c, c + 1)
    BY <1>1, StopAndWaitAssumption DEF OnlyRaw
  <2> QED
    BY <1>1, <2>1, <2>2, <2>3, <2>4 DEF FrameOk
<1> QED
  BY <1>2 DEF Frames

\* user2 takes a chunk: what is not yet read is not older.
LEMMA FramesTake ==
  ASSUME NEW q \in Seq(Datagram), q # <<>>, NEW c \in Nat, NEW s, NEW l \in Nat,
         Frames(q, c, s, l), Head(q).n # 0
  PROVE  Frames(Tail(q), c, s, Head(q).n)
<1>1. Len(Tail(q)) = Len(q) - 1 /\ \A i \in 1..Len(q) - 1 : Tail(q)[i] = q[i + 1]
  OBVIOUS
<1>2. Head(q) = q[1] /\ \A i \in 1..Len(q) : q[i] \in Datagram
  OBVIOUS
<1>3. ASSUME NEW i \in 1..Len(q) - 1 PROVE FrameOk(q[i + 1], c, s, q[1].n)
  <2>1. Older(q[1], q[i + 1]) /\ FrameOk(q[i + 1], c, s, l)
    BY DEF Frames
  <2>2. q[1].n \in Nat /\ q[i + 1].n \in Nat /\ q[1].n # 0
    BY <1>2, StopAndWaitAssumption DEF Datagram
  <2> QED
    BY <2>1, <2>2 DEF FrameOk, Older
<1>4. \A i, j \in 1..Len(q) - 1 : i < j => Older(q[i + 1], q[j + 1])
  BY DEF Frames
<1> QED
  BY <1>1, <1>2, <1>3, <1>4 DEF Frames

\* The same for the acknowledgements.
LEMMA AcksPass ==
  ASSUME NEW q \in Seq(Datagram), NEW c, NEW s, NEW l, Acks(q, c, s, l), l # c
  PROVE  Acks(q, c + 1, s, l)
BY DEF Acks, AckOk

LEMMA AcksNext ==
  ASSUME NEW q \in Seq(Datagram), q # <<>>, NEW c, NEW s, NEW l, Acks(q, c, s, l),
         Acknowledges(Head(q), s)
  PROVE  Acks(Tail(q), c + 1, Succ(s), l)
<1>1. Len(Tail(q)) = Len(q) - 1 /\ \A i \in 1..Len(q) - 1 : Tail(q)[i] = q[i + 1]
  OBVIOUS
<1>2. Head(q) = q[1]
  OBVIOUS
<1>3. \A i \in 1..Len(q) - 1 : q[i + 1].seq = s
  BY <1>2 DEF Acks, Fresher, Acknowledges
<1>4. \A i \in 1..Len(q) - 1 : AckOk(q[i + 1], c, s, l)
  BY DEF Acks
<1> QED
  BY <1>1, <1>3, <1>4 DEF Acks, AckOk, Fresher

LEMMA AcksTake ==
  ASSUME NEW q \in Seq(Datagram), NEW c \in Nat, NEW s, NEW l \in Nat,
         NEW k \in Nat, l <= k, k <= c, Acks(q, c, s, l)
  PROVE  Acks(q, c, s, k)
BY DEF Acks, AckOk

\* The acknowledgement of the chunk just taken may be added.
LEMMA AcksReply ==
  ASSUME NEW q \in Seq(Datagram), NEW c \in Nat, NEW s \in 0..Modulus-1,
         NEW k \in Nat, Acks(q, c, s, k), NEW m \in Datagram,
         m.type = "ACK", m.text = "ACK",
         (m.seq = s /\ k = c) \/ (Succ(m.seq) = s /\ k # c)
  PROVE  Acks(Append(q, m), c, s, k)
<1>1. AckOk(m, c, s, k)
  BY DEF AckOk
<1>2. ASSUME NEW i \in 1..Len(q) PROVE Fresher(q[i], m, s)
  <2>1. q[i].seq = s => k = c
    BY SuccProperties DEF Acks, AckOk
  <2> QED
    BY <2>1 DEF Fresher
<1> QED
  BY <1>1, <1>2, AcksMore

-----------------------------------------------------------------------------
(* The receive buffers after a system call *)

LEMMA UsersPeers ==
  /\ Sender \in User /\ Receiver \in User /\ Sender # Receiver
  /\ Peer(Sender) = Receiver /\ Peer(Receiver) = Sender
BY DEF Sender, Receiver, User, Peer

LEMMA SentInbox ==
  ASSUME NEW ib \in Inboxes, NEW u \in User, NEW m \in Datagram
  PROVE  /\ Sent(ib, u, m) \in Inboxes
         /\ Sent(ib, u, m)[u] = ib[u]
         /\ \/ Sent(ib, u, m)[Peer(u)] = ib[Peer(u)]
            \/ Sent(ib, u, m)[Peer(u)] = Append(ib[Peer(u)], m)
<1>1. Peer(u) \in User /\ Peer(u) # u
  BY DEF Peer, User
<1>2. Append(ib[Peer(u)], m) \in Seq(Datagram)
  BY <1>1 DEF Inboxes
<1> QED
  BY <1>1, <1>2 DEF Sent, Inboxes

LEMMA TakenInbox ==
  ASSUME TypeOK, NEW u \in User, inbox[u] # <<>>
  PROVE  /\ Taken(u) \in Inboxes
         /\ Taken(u)[u] = Tail(inbox[u])
         /\ Taken(u)[Peer(u)] = inbox[Peer(u)]
         /\ Head(inbox[u]) = inbox[u][1] /\ 1 \in 1..Len(inbox[u])
         /\ Head(inbox[u]) \in Datagram
<1>1. Peer(u) \in User /\ Peer(u) # u
  BY DEF Peer, User
<1>2. inbox[u] \in Seq(Datagram)
  BY DEF TypeOK
<1>3. Tail(inbox[u]) \in Seq(Datagram) /\ Head(inbox[u]) = inbox[u][1]
      /\ 1 \in 1..Len(inbox[u]) /\ Head(inbox[u]) \in Datagram
  BY <1>2
<1> QED
  BY <1>1, <1>3 DEF Taken, TypeOK, Inboxes

\* What the programs send are datagrams.
LEMMA DatagramTypes ==
  ASSUME TypeOK
  PROVE  /\ Control("EOF") \in Datagram /\ Control("EOF_ACK") \in Datagram
         /\ Control("FIN_ACK") \in Datagram
         /\ \A s \in 0..Modulus-1 : Ack(s) \in Datagram
         /\ chunk <= N => DataFrame(Sender) \in Datagram
         /\ chunk <= N => RawFrames(file[chunk], chunk) \subseteq Datagram
         /\ DataFrame(Receiver) \in Datagram
<1>1. chunk <= N => chunk \in 1..N /\ file[chunk] \in Text
  BY StopAndWaitAssumption DEF TypeOK
<1>2. next_seq[Sender] \in 0..Modulus-1 /\ next_seq[Receiver] \in 0..Modulus-1
  BY DEF TypeOK, Sender, Receiver, User
<1>3. {"EOF", "EOF_ACK", "FIN_ACK", "FIN", "ACK"} \subseteq Text
  BY DEF Text, RawText
<1>4. 0 \in 0..N /\ 0 \in 0..Modulus-1 /\ 1..N \subseteq 0..N
  BY StopAndWaitAssumption
<1>5. chunk <= N => DataFrame(Sender) \in Datagram
  BY <1>1, <1>2, <1>4 DEF DataFrame, Frame, Datagram, Sender
<1>6. chunk <= N => RawFrames(file[chunk], chunk) \subseteq Datagram
  BY <1>1, <1>4 DEF RawFrames, Frame, Datagram
<1> QED
  BY <1>2, <1>3, <1>4, <1>5, <1>6 DEF Control, Ack, DataFrame, Frame, Datagram, Receiver

LEMMA ReceivedInbox ==
  ASSUME TypeOK, NEW u \in User, inbox[u] # <<>>, NEW drop \in BOOLEAN,
         NEW m, m = Head(inbox[u])
  PROVE  /\ Received(u, m, drop) \in Inboxes
         /\ Received(u, m, drop)[u] = Tail(inbox[u])
         /\ \/ Received(u, m, drop)[Peer(u)] = inbox[Peer(u)]
            \/ /\ m.type = "DATA"
               /\ Ack(m.seq) \in Datagram
               /\ Received(u, m, drop)[Peer(u)] = Append(inbox[Peer(u)], Ack(m.seq))
<1>1. /\ Taken(u) \in Inboxes /\ Taken(u)[u] = Tail(inbox[u])
      /\ Taken(u)[Peer(u)] = inbox[Peer(u)] /\ m \in Datagram
  BY TakenInbox
<1>2. Ack(m.seq) \in Datagram
  BY <1>1, DatagramTypes DEF Datagram
<1> QED
  BY <1>1, <1>2, SentInbox DEF Received

\* The numbers the lemmas speak of.
LEMMA Numbers ==
  ASSUME TypeOK
  PROVE  /\ chunk \in Nat /\ next_seq[Sender] \in 0..Modulus-1 /\ Last \in Nat
         /\ inbox[Sender] \in Seq(Datagram) /\ inbox[Receiver] \in Seq(Datagram)
<1>1. Last \in Nat
  <2>1. out \in Seq(1..N) /\ hand \in 0..N
    BY DEF TypeOK
  <2>2. ASSUME NEW S, NEW q \in Seq(S), q # <<>> PROVE q[Len(q)] \in S
    BY <2>2
  <2>3. out # <<>> => out[Len(out)] \in 1..N
    BY <2>1, <2>2
  <2> QED
    BY <2>1, <2>3, StopAndWaitAssumption DEF Last, Transfer!Last, Transfer!Written
<1> QED
  BY <1>1, UsersPeers, StopAndWaitAssumption DEF TypeOK

-----------------------------------------------------------------------------
(* Types and places *)

\* The frame k_sendto has in hand is a datagram.
LEMMA FrameType ==
  ASSUME TypeOK, PcInv, NEW u \in User, Transmit(u) \/ InvalidAck(u) \/ Timeout(u)
  PROVE  DataFrame(u) \in Datagram
<1>1. CASE u = Sender
  <2>1. chunk <= N
    BY <1>1 DEF Transmit, InvalidAck, Timeout, PcInv, Sender
  <2> QED
    BY <1>1, <2>1, DatagramTypes
<1>2. CASE u = Receiver
  BY <1>2, DatagramTypes
<1> QED
  BY <1>1, <1>2 DEF User, Sender, Receiver

\* A datagram that is taken, answered or sent leaves the inboxes typed.
LEMMA InboxType ==
  ASSUME TypeOK, PcInv, Next
  PROVE  inbox' \in Inboxes
<1>1. inbox \in Inboxes
  BY DEF TypeOK, Inboxes
<1>2. ASSUME NEW u \in User, Transmit(u) \/ InvalidAck(u) \/ Timeout(u)
      PROVE  inbox' \in Inboxes
  <2>1. DataFrame(u) \in Datagram
    BY <1>2, FrameType
  <2>2. InvalidAck(u) => Taken(u) \in Inboxes
    BY TakenInbox DEF InvalidAck
  <2>3. Sent(inbox, u, DataFrame(u)) \in Inboxes
    BY <1>1, <2>1, SentInbox
  <2>4. InvalidAck(u) => Sent(Taken(u), u, DataFrame(u)) \in Inboxes
    BY <2>1, <2>2, SentInbox
  <2> QED
    BY <1>2, <2>3, <2>4 DEF Transmit, InvalidAck, Timeout
<1>3. ASSUME NEW u \in User, Acked(u) \/ Lose(u)
      PROVE  inbox' \in Inboxes
  BY <1>3, TakenInbox DEF Acked, Lose
<1>4. CASE SendRaw
  <2>1. PICK m \in RawFrames(file[chunk], chunk) : inbox' = Sent(inbox, Sender, m)
    BY <1>4 DEF SendRaw, Sender
  <2>2. m \in Datagram
    BY <1>4, <2>1, DatagramTypes DEF SendRaw
  <2> QED
    BY <1>1, <2>1, <2>2, SentInbox, UsersPeers
<1>5. CASE SendEof
  <2>1. inbox' = Sent(inbox, Sender, Control("EOF"))
    BY <1>5 DEF SendEof, Sender
  <2> QED
    BY <1>1, <2>1, DatagramTypes, SentInbox, UsersPeers
<1>6. ASSUME NEW u \in User, NEW drop \in BOOLEAN, inbox[u] # <<>>
      PROVE  /\ Received(u, Head(inbox[u]), drop) \in Inboxes
             /\ Sent(Received(u, Head(inbox[u]), drop), u, Control("FIN_ACK")) \in Inboxes
             /\ Sent(Received(u, Head(inbox[u]), drop), u, Control("EOF_ACK")) \in Inboxes
  <2>1. Received(u, Head(inbox[u]), drop) \in Inboxes
    BY <1>6, ReceivedInbox
  <2> QED
    BY <2>1, DatagramTypes, SentInbox
<1>7. ASSUME NEW ib \in Inboxes, NEW u \in User
      PROVE  [ib EXCEPT ![u] = <<>>] \in Inboxes
  BY DEF Inboxes
<1>8. ASSUME NEW drop \in BOOLEAN, AwaitEofAck(drop) PROVE inbox' \in Inboxes
  BY <1>6, <1>8, UsersPeers DEF AwaitEofAck, Sender
<1>9. ASSUME NEW drop \in BOOLEAN, AwaitFin(drop) PROVE inbox' \in Inboxes
  <2> DEFINE after == Received(Sender, Head(inbox[Sender]), drop)
             answered == Sent(after, Sender, Control("FIN_ACK"))
  <2>1. inbox[Sender] # <<>>
        /\ inbox' \in {after, [answered EXCEPT ![Sender] = <<>>]}
    BY <1>9 DEF AwaitFin, Sender
  <2>2. after \in Inboxes /\ answered \in Inboxes
    BY <1>6, <2>1, UsersPeers
  <2> HIDE DEF after, answered
  <2> QED
    BY <1>7, <2>1, <2>2, UsersPeers
<1>10. ASSUME NEW drop \in BOOLEAN, Receive(drop) PROVE inbox' \in Inboxes
  <2> DEFINE after == Received(Receiver, Head(inbox[Receiver]), drop)
  <2>1. inbox[Receiver] # <<>>
        /\ inbox' \in {after, Sent(after, Receiver, Control("EOF_ACK"))}
    BY <1>10 DEF Receive, Receiver
  <2> QED
    BY <1>6, <2>1, UsersPeers
<1>11. ASSUME NEW drop \in BOOLEAN, AwaitFinAck(drop) PROVE inbox' \in Inboxes
  <2> DEFINE after == Received(Receiver, Head(inbox[Receiver]), drop)
  <2>1. inbox[Receiver] # <<>>
        /\ inbox' \in {after, [after EXCEPT ![Receiver] = <<>>]}
    BY <1>11 DEF AwaitFinAck, Receiver
  <2>2. after \in Inboxes
    BY <1>6, <2>1, UsersPeers
  <2> HIDE DEF after
  <2> QED
    BY <1>7, <2>1, <2>2, UsersPeers
<1>12. CASE Start \/ Write \/ Stopped
  BY <1>1, <1>12 DEF Start, Write, Stopped, vars
<1> QED
  BY <1>2, <1>3, <1>4, <1>5, <1>8, <1>9, <1>10, <1>11, <1>12
     DEF Next, Sending, User1, User2

\* What user2 holds is in range, and so is what it writes.
LEMMA HandType ==
  ASSUME TypeOK, Next
  PROVE  hand' \in 0..N /\ out' \in Seq(1..N)
<1>1. ASSUME NEW drop \in BOOLEAN, Receive(drop) PROVE hand' \in 0..N
  <2>1. inbox[Receiver] # <<>> /\ hand' \in {hand, 0, Head(inbox[Receiver]).n}
    BY <1>1 DEF Receive, Receiver
  <2>2. Head(inbox[Receiver]) \in Datagram
    BY <2>1, TakenInbox, UsersPeers
  <2>3. Head(inbox[Receiver]).n \in 0..N
    BY <2>2 DEF Datagram
  <2> QED
    BY <2>1, <2>3, StopAndWaitAssumption DEF TypeOK
<1>2. ASSUME NEW drop \in BOOLEAN, Receive(drop) PROVE out' = out
  BY <1>2 DEF Receive
<1>3. CASE Write
  <2>1. hand \in 1..N /\ out \in Seq(1..N)
    BY <1>3, StopAndWaitAssumption DEF Write, TypeOK
  <2> QED
    BY <1>3, <2>1, StopAndWaitAssumption DEF Write
<1>4. ASSUME NEW u \in User, Sending(u) \/ Lose(u) PROVE UNCHANGED <<hand, out>>
  BY <1>4 DEF Sending, Transmit, Acked, InvalidAck, Timeout, Lose
<1>5. ASSUME NEW drop \in BOOLEAN, User1(drop) \/ AwaitFinAck(drop)
      PROVE  UNCHANGED <<hand, out>>
  BY <1>5 DEF User1, AwaitEofAck, AwaitFin, AwaitFinAck
<1>6. CASE SendRaw \/ SendEof \/ Start \/ Stopped
  BY <1>6 DEF SendRaw, SendEof, Start, Stopped, vars, TypeOK
<1>7. hand \in 0..N /\ out \in Seq(1..N)
  BY DEF TypeOK
<1> QED
  BY <1>1, <1>2, <1>3, <1>4, <1>5, <1>6, <1>7 DEF Next, User2

\* The other variables.
LEMMA OtherTypes ==
  ASSUME TypeOK, PcInv, Next
  PROVE  /\ next_seq' \in [User -> 0..Modulus-1] /\ file' = file
         /\ chunk' \in 1..N+1 /\ lost' \in 0..MaxLost
<1>1. ASSUME NEW u \in User, Acked(u)
      PROVE  /\ next_seq' \in [User -> 0..Modulus-1] /\ file' = file
             /\ chunk' \in 1..N+1 /\ lost' = lost
  <2>1. next_seq' \in [User -> 0..Modulus-1]
    BY <1>1, SuccProperties DEF Acked, TypeOK
  <2>2. u = "user1" => chunk <= N
    BY <1>1 DEF Acked, PcInv, Sender
  <2>3. chunk' \in 1..N+1
    BY <1>1, <2>2, StopAndWaitAssumption DEF Acked, TypeOK
  <2> QED
    BY <1>1, <2>1, <2>3 DEF Acked
<1>2. ASSUME NEW u \in User, Lose(u)
      PROVE  lost' \in 0..MaxLost /\ UNCHANGED <<next_seq, file, chunk>>
  BY <1>2, StopAndWaitAssumption DEF Lose, TypeOK
<1>3. CASE SendRaw
  <2>1. chunk' \in 1..N+1
    BY <1>3, StopAndWaitAssumption DEF SendRaw, TypeOK
  <2> QED
    BY <1>3, <2>1 DEF SendRaw, TypeOK
<1>4. ASSUME NEW u \in User, Transmit(u) \/ InvalidAck(u) \/ Timeout(u)
      PROVE  UNCHANGED <<next_seq, file, chunk, lost>>
  BY <1>4 DEF Transmit, InvalidAck, Timeout
<1>5. ASSUME NEW drop \in BOOLEAN, User1(drop) \/ User2(drop)
      PROVE  UNCHANGED <<next_seq, file, chunk, lost>>
  BY <1>5 DEF User1, User2, AwaitEofAck, AwaitFin, Receive, AwaitFinAck
<1>6. CASE SendEof \/ Start \/ Write \/ Stopped
  BY <1>6 DEF SendEof, Start, Write, Stopped, vars, TypeOK
<1>7. /\ next_seq \in [User -> 0..Modulus-1]
      /\ chunk \in 1..N+1 /\ lost \in 0..MaxLost
  BY DEF TypeOK
<1> QED
  BY <1>1, <1>2, <1>3, <1>4, <1>5, <1>6, <1>7 DEF Next, Sending

\* Where the users may go.
LEMMA PcSteps ==
  ASSUME TypeOK, PcInv, Next
  PROVE  /\ pc' \in [User -> {"off", "data", "ackwait", "eofwait", "recv", "fin",
                               "finwait", "closed"}]
         /\ PcInv'
<1> DEFINE Place == {"off", "data", "ackwait", "eofwait", "recv", "fin", "finwait",
                     "closed"}
<1>1. pc \in [User -> Place] /\ Sender \in User /\ Receiver \in User
      /\ Sender # Receiver
  BY UsersPeers DEF TypeOK
<1>2. file' = file
  BY OtherTypes
<1>3. ASSUME pc' = pc, chunk' = chunk, hand' = hand
      PROVE  pc' \in [User -> Place] /\ PcInv'
  BY <1>1, <1>2, <1>3 DEF PcInv, Raw
<1>4. ASSUME NEW u \in User, Transmit(u)
      PROVE  pc' \in [User -> Place] /\ PcInv'
  <2>1. pc' = [pc EXCEPT ![u] = "ackwait"] /\ UNCHANGED <<chunk, hand>>
    BY <1>4 DEF Transmit, Goto
  <2>2. u = Sender => chunk <= N /\ chunk \notin Raw
    BY <1>4 DEF Transmit, Raw, Sender
  <2>3. u = Receiver => hand = 0
    BY <1>4 DEF Transmit, PcInv, Sender, Receiver
  <2> QED
    BY <1>1, <1>2, <2>1, <2>2, <2>3, UsersPeers DEF PcInv, Raw, User, Sender, Receiver
<1>5. ASSUME NEW u \in User, Acked(u)
      PROVE  pc' \in [User -> Place] /\ PcInv'
  <2>1. CASE u = Sender
    <3>1. pc' = [pc EXCEPT ![Sender] = "data"] /\ hand' = hand
      BY <1>5, <2>1 DEF Acked, Goto, Sender
    <3> QED
      BY <1>1, <3>1 DEF PcInv
  <2>2. CASE u = Receiver
    <3>1. /\ pc' = [pc EXCEPT ![Receiver] = "finwait"] /\ UNCHANGED <<chunk, hand>>
          /\ pc[Receiver] = "ackwait"
      BY <1>5, <2>2 DEF Acked, Goto, Receiver
    <3> QED
      BY <1>1, <1>2, <3>1 DEF PcInv, Raw
  <2> QED
    BY <2>1, <2>2 DEF User, Sender, Receiver
<1>6. ASSUME NEW u \in User, InvalidAck(u) \/ Timeout(u) \/ Lose(u)
      PROVE  pc' \in [User -> Place] /\ PcInv'
  BY <1>3, <1>6 DEF InvalidAck, Timeout, Lose
<1>7. CASE SendRaw
  BY <1>1, <1>7 DEF SendRaw, PcInv, Sender
<1>8. CASE SendEof
  <2>1. pc' = [pc EXCEPT ![Sender] = "eofwait"] /\ hand' = hand
    BY <1>8 DEF SendEof, Goto, Sender
  <2> QED
    BY <1>1, <2>1 DEF PcInv
<1>9. ASSUME NEW drop \in BOOLEAN, User1(drop)
      PROVE  pc' \in [User -> Place] /\ PcInv'
  <2>1. \/ pc' = pc
        \/ \E l \in {"finwait", "data", "closed"} : pc' = [pc EXCEPT ![Sender] = l]
    BY <1>9 DEF User1, AwaitEofAck, AwaitFin, Goto, Sender
  <2>2. UNCHANGED <<chunk, hand>>
    BY <1>9 DEF User1, AwaitEofAck, AwaitFin
  <2> QED
    BY <1>1, <1>2, <1>3, <2>1, <2>2 DEF PcInv, Raw
<1>10. CASE Start
  <2>1. /\ pc' = [pc EXCEPT ![Receiver] = "recv"] /\ UNCHANGED <<chunk, hand>>
    BY <1>10 DEF Start, Goto, Receiver
  <2> QED
    BY <1>1, <1>2, <2>1 DEF PcInv, Raw
<1>11. ASSUME NEW drop \in BOOLEAN, Receive(drop)
      PROVE  pc' \in [User -> Place] /\ PcInv'
  <2>1. /\ pc[Receiver] = "recv" /\ hand = 0 /\ chunk' = chunk
        /\ \/ pc' = pc
           \/ pc' = [pc EXCEPT ![Receiver] = "fin"] /\ hand' = hand
    BY <1>11 DEF Receive, Goto, Receiver
  <2> QED
    BY <1>1, <1>2, <2>1 DEF PcInv, Raw
<1>12. CASE Write
  BY <1>1, <1>2, <1>12 DEF Write, PcInv, Raw
<1>13. ASSUME NEW drop \in BOOLEAN, AwaitFinAck(drop)
      PROVE  pc' \in [User -> Place] /\ PcInv'
  <2>1. /\ pc[Receiver] = "finwait" /\ UNCHANGED <<chunk, hand>>
        /\ \E l \in {"fin", "closed"} : pc' = [pc EXCEPT ![Receiver] = l]
    BY <1>13 DEF AwaitFinAck, Goto, Receiver
  <2> QED
    BY <1>1, <1>2, <2>1 DEF PcInv, Raw
<1>14. CASE Stopped
  BY <1>3, <1>14 DEF Stopped, vars
<1> QED
  BY <1>4, <1>5, <1>6, <1>7, <1>8, <1>9, <1>10, <1>11, <1>12, <1>13, <1>14
     DEF Next, Sending, User2

\* Together: types and places are inductive by themselves.
LEMMA TypePcInv ==
  ASSUME TypeOK, PcInv, [Next]_vars
  PROVE  TypeOK' /\ PcInv'
<1>1. CASE Next
  <2>1. inbox' \in Inboxes
    BY <1>1, InboxType
  <2>2. hand' \in 0..N /\ out' \in Seq(1..N)
    BY <1>1, HandType
  <2>3. /\ next_seq' \in [User -> 0..Modulus-1] /\ file' = file
        /\ chunk' \in 1..N+1 /\ lost' \in 0..MaxLost
    BY <1>1, OtherTypes
  <2>4. /\ pc' \in [User -> {"off", "data", "ackwait", "eofwait", "recv", "fin",
                              "finwait", "closed"}]
        /\ PcInv'
    BY <1>1, PcSteps
  <2> QED
    BY <2>1, <2>2, <2>3, <2>4 DEF TypeOK, Inboxes
<1>2. CASE UNCHANGED vars
  BY <1>2 DEF vars, TypeOK, PcInv, Raw
<1> QED
  BY <1>1, <1>2

-----------------------------------------------------------------------------
(* What is under way after a system call *)

\* A datagram is read, or lost.
LEMMA NetTaken ==
  ASSUME TypeOK, NEW u \in User, inbox[u] # <<>>,
         NEW c, NEW s, NEW l, Net(inbox, c, s, l)
  PROVE  Net(Taken(u), c, s, l)
<1>1. /\ Taken(u) \in Inboxes /\ Taken(u)[u] = Tail(inbox[u])
      /\ Taken(u)[Peer(u)] = inbox[Peer(u)]
  BY TakenInbox
<1>2. inbox[u] \in Seq(Datagram)
  BY DEF TypeOK
<1>3. CASE u = Sender
  BY <1>1, <1>2, <1>3, UsersPeers, AcksLess DEF Net
<1>4. CASE u = Receiver
  BY <1>1, <1>2, <1>4, UsersPeers, FramesLess DEF Net
<1> QED
  BY <1>3, <1>4 DEF User, Sender, Receiver

\* user1 sends a frame that comes after those under way.
LEMMA NetFrame ==
  ASSUME NEW ib, NEW c, NEW s, NEW l, Net(ib, c, s, l),
         NEW m \in Datagram, FrameOk(m, c, s, l),
         \A i \in 1..Len(ib[Receiver]) : Older(ib[Receiver][i], m)
  PROVE  Net(Sent(ib, Sender, m), c, s, l)
<1>1. /\ Sent(ib, Sender, m) \in Inboxes /\ Sent(ib, Sender, m)[Sender] = ib[Sender]
      /\ \/ Sent(ib, Sender, m)[Receiver] = ib[Receiver]
         \/ Sent(ib, Sender, m)[Receiver] = Append(ib[Receiver], m)
  BY SentInbox, UsersPeers DEF Net
<1>2. ib[Receiver] \in Seq(Datagram) /\ Frames(ib[Receiver], c, s, l)
  BY UsersPeers DEF Net, Inboxes
<1>3. Frames(Append(ib[Receiver], m), c, s, l)
  BY <1>2, FramesMore
<1> QED
  BY <1>1, <1>2, <1>3 DEF Net

\* The current chunk, or an EOF, comes after those under way.
LEMMA NetCurrent ==
  ASSUME NEW ib, NEW c \in Nat, NEW s, NEW l, Net(ib, c, s, l),
         NEW m \in Datagram, FrameOk(m, c, s, l), m.n \in {0, c}
  PROVE  Net(Sent(ib, Sender, m), c, s, l)
<1>1. ib[Receiver] \in Seq(Datagram) /\ Frames(ib[Receiver], c, s, l)
  BY UsersPeers DEF Net, Inboxes
<1>2. \A i \in 1..Len(ib[Receiver]) : Older(ib[Receiver][i], m)
  BY <1>1, FramesOlder
<1> QED
  BY <1>2, NetFrame

\* The invariant after a step that leaves the chunk, its number and the chunk taken
\* last as they are.
LEMMA TransferringKept ==
  ASSUME UNCHANGED <<next_seq, file, chunk, hand, out>>, Transferring,
         Net(inbox', chunk, next_seq[Sender], Last)
  PROVE  Transferring'
<1>1. Last' = Last /\ Raw' = Raw
  BY DEF Last, Transfer!Last, Transfer!Written, Raw
<1>2. Progress(Last, chunk)'
  BY <1>1 DEF Transferring, Progress, OnlyRaw
<1>3. /\ chunk' = chunk /\ file' = file /\ next_seq'[Sender] = next_seq[Sender]
      /\ inbox' \in Inboxes /\ Inboxes' = Inboxes
  BY DEF Net, Inboxes
<1>4. Acks(inbox[Sender], chunk, next_seq[Sender], Last)'
  BY <1>1, <1>3 DEF Net
<1>5. Frames(inbox[Receiver], chunk, next_seq[Sender], Last)'
  BY <1>1, <1>3 DEF Net, Frames, FrameOk, OnlyRaw, Older
<1> QED
  BY <1>2, <1>3, <1>4, <1>5 DEF Transferring, Net

-----------------------------------------------------------------------------
(* The steps while user2 receives *)

\* The frame k_sendto has in hand may always be sent.
LEMMA TransmitNet ==
  ASSUME IInv, Transferring, Transmit(Sender) \/ InvalidAck(Sender) \/ Timeout(Sender)
  PROVE  Transferring'
<1> DEFINE c == chunk
           s == next_seq[Sender]
           m == DataFrame(Sender)
<1>1. TypeOK /\ PcInv /\ Net(inbox, c, s, Last) /\ Progress(Last, c)
  BY DEF IInv, Transferring
<1>2. chunk <= N /\ chunk \notin Raw
  BY <1>1 DEF Transmit, InvalidAck, Timeout, PcInv, Raw, Sender
<1>3. m \in Datagram
  BY <1>1, <1>2, DatagramTypes
<1>4. c \in Nat /\ s \in 0..Modulus-1 /\ c # 0
  BY <1>1, Numbers DEF TypeOK
<1>5. m.n = c /\ m.type = "DATA" /\ m.seq = s /\ m.text = file[c]
  BY DEF DataFrame, Frame, Sender
<1>6. FrameOk(m, c, s, Last)
  BY <1>1, <1>2, <1>4, <1>5 DEF FrameOk, Progress
<1> HIDE DEF m
<1>7. inbox[Sender] # <<>> => Net(Taken(Sender), c, s, Last)
  BY <1>1, NetTaken, UsersPeers
<1>8. /\ Net(Sent(inbox, Sender, m), c, s, Last)
      /\ inbox[Sender] # <<>> => Net(Sent(Taken(Sender), Sender, m), c, s, Last)
  BY <1>1, <1>3, <1>4, <1>5, <1>6, <1>7, NetCurrent
<1>9. Net(inbox', c, s, Last)
  BY <1>8 DEF Transmit, InvalidAck, Timeout, m
<1>10. UNCHANGED <<next_seq, file, chunk, hand, out>>
  BY DEF Transmit, InvalidAck, Timeout
<1> QED
  BY <1>9, <1>10, TransferringKept

\* An acknowledgement that ends k_sendto is of a chunk that is taken.
LEMMA AckedTaken ==
  ASSUME TypeOK, Transferring, Acked(Sender)
  PROVE  Last = chunk
<1>1. inbox[Sender] # <<>> /\ Acknowledges(Head(inbox[Sender]), next_seq[Sender])
  BY DEF Acked
<1>2. Head(inbox[Sender]) = inbox[Sender][1] /\ 1 \in 1..Len(inbox[Sender])
  BY <1>1, TakenInbox, UsersPeers
<1>3. AckOk(inbox[Sender][1], chunk, next_seq[Sender], Last)
  BY <1>2 DEF Transferring, Net, Acks
<1>4. next_seq[Sender] \in 0..Modulus-1
  BY Numbers
<1> QED
  BY <1>1, <1>2, <1>3, <1>4, SuccProperties DEF AckOk, Acknowledges

\* The acknowledgement of the current chunk reaches user1.
LEMMA AckedNet ==
  ASSUME IInv, Transferring, Acked(Sender)
  PROVE  Transferring'
<1> DEFINE c == chunk
           s == next_seq[Sender]
<1>1. TypeOK /\ PcInv /\ Net(inbox, c, s, Last) /\ Progress(Last, c)
  BY DEF IInv, Transferring
<1>2. /\ inbox[Sender] \in Seq(Datagram) /\ inbox[Sender] # <<>>
      /\ inbox[Receiver] \in Seq(Datagram)
      /\ Acknowledges(Head(inbox[Sender]), s) /\ c \in 1..N
  BY <1>1, Numbers, StopAndWaitAssumption DEF Acked, PcInv, TypeOK, Sender
<1>3. Last = c
  BY <1>1, AckedTaken
<1>4. Frames(inbox[Receiver], c + 1, Succ(s), c)
  BY <1>1, <1>2, <1>3, FramesNext DEF Net
<1>5. Acks(Tail(inbox[Sender]), c + 1, Succ(s), c)
  BY <1>1, <1>2, <1>3, AcksNext DEF Net
<1>6. Progress(c, c + 1)
  BY <1>1, <1>2, <1>3, StopAndWaitAssumption DEF Progress, OnlyRaw
<1>7. /\ inbox' = Taken(Sender) /\ chunk' = c + 1 /\ next_seq'[Sender] = Succ(s)
      /\ UNCHANGED <<file, hand, out>>
  BY <1>1, UsersPeers DEF Acked, TypeOK, Sender
<1>8. Last' = c /\ Raw' = Raw
  BY <1>3, <1>7 DEF Last, Transfer!Last, Transfer!Written, Raw
<1>9. inbox' \in Inboxes /\ inbox'[Sender] = Tail(inbox[Sender])
      /\ inbox'[Receiver] = inbox[Receiver]
  BY <1>1, <1>2, <1>7, TakenInbox, UsersPeers
<1>10. Progress(Last, chunk)'
  BY <1>6, <1>7, <1>8 DEF Progress, OnlyRaw
<1>11. Acks(inbox[Sender], chunk, next_seq[Sender], Last)'
  BY <1>5, <1>7, <1>8, <1>9
<1>12. Frames(inbox[Receiver], chunk, next_seq[Sender], Last)'
  BY <1>4, <1>7, <1>8, <1>9 DEF Frames, FrameOk, OnlyRaw, Older
<1> QED
  BY <1>9, <1>10, <1>11, <1>12 DEF Transferring, Net, Inboxes

\* A chunk is sent once: it is now before the current one, and after the chunk
\* taken last.
LEMMA SendRawNet ==
  ASSUME IInv, Transferring, SendRaw
  PROVE  Transferring'
<1> DEFINE c == chunk
           s == next_seq[Sender]
<1>1. TypeOK /\ PcInv /\ Net(inbox, c, s, Last) /\ Progress(Last, c)
  BY DEF IInv, Transferring
<1>2. /\ c \in Raw /\ c \in 1..N /\ c \in Nat
      /\ inbox[Receiver] \in Seq(Datagram) /\ Last \in Nat
  BY <1>1, Numbers, StopAndWaitAssumption DEF SendRaw, Raw, TypeOK
<1>3. PICK m \in RawFrames(file[c], c) : inbox' = Sent(inbox, Sender, m)
  BY DEF SendRaw, Sender
<1>4. m \in Datagram
  BY <1>1, <1>2, <1>3, DatagramTypes
<1>5. m.n = c /\ m.text = file[c] /\ m.type # "DATA"
  BY <1>3 DEF RawFrames, Frame
<1>6. Last < c
  BY <1>1, <1>2 DEF Progress
<1>7. FrameOk(m, c + 1, s, Last)
  BY <1>2, <1>5, <1>6 DEF FrameOk
<1>8. \A i \in 1..Len(inbox[Receiver]) : Older(inbox[Receiver][i], m)
  BY <1>1, <1>2, <1>5, FramesOlder DEF Net
<1>9. Net(inbox, c + 1, s, Last)
  <2>1. Frames(inbox[Receiver], c + 1, s, Last)
    BY <1>1, <1>2, FramesPass DEF Net
  <2>2. Last # c
    BY <1>2, <1>6
  <2>3. Acks(inbox[Sender], c + 1, s, Last)
    BY <1>1, <2>2, Numbers, AcksPass DEF Net
  <2> QED
    BY <1>1, <2>1, <2>3 DEF Net
<1>10. Net(inbox', c + 1, s, Last)
  BY <1>3, <1>4, <1>7, <1>8, <1>9, NetFrame
<1>11. Progress(Last, c + 1)
  BY <1>1, <1>2, <1>6, StopAndWaitAssumption DEF Progress, OnlyRaw
<1>12. chunk' = c + 1 /\ UNCHANGED <<next_seq, file, hand, out>>
  BY DEF SendRaw
<1>13. Last' = Last /\ Raw' = Raw
  BY <1>12 DEF Last, Transfer!Last, Transfer!Written, Raw
<1>14. Progress(Last, chunk)'
  BY <1>11, <1>12, <1>13 DEF Progress, OnlyRaw
<1>15. Acks(inbox[Sender], chunk, next_seq[Sender], Last)'
  BY <1>10, <1>12, <1>13 DEF Net
<1>16. Frames(inbox[Receiver], chunk, next_seq[Sender], Last)'
  BY <1>10, <1>12, <1>13 DEF Net, Frames, FrameOk, OnlyRaw, Older
<1> QED
  BY <1>10, <1>14, <1>15, <1>16 DEF Transferring, Net, Inboxes

LEMMA SendEofNet ==
  ASSUME IInv, Transferring, SendEof
  PROVE  Transferring'
<1>1. TypeOK /\ Net(inbox, chunk, next_seq[Sender], Last)
  BY DEF IInv, Transferring
<1>2. chunk = N + 1 /\ chunk \in Nat
  BY <1>1, StopAndWaitAssumption DEF SendEof, TypeOK
<1>3. Control("EOF") \in Datagram
  BY <1>1, DatagramTypes
<1>4. FrameOk(Control("EOF"), chunk, next_seq[Sender], Last) /\ Control("EOF").n = 0
  BY <1>2 DEF FrameOk, Control, Frame
<1>5. Net(inbox', chunk, next_seq[Sender], Last)
  BY <1>1, <1>2, <1>3, <1>4, NetCurrent DEF SendEof, Sender
<1> QED
  BY <1>5, TransferringKept DEF SendEof

\* As long as user2 receives, user1 gets nothing but acknowledgements, and does not
\* go on with the closing.
LEMMA User1Net ==
  ASSUME IInv, Transferring, NEW drop \in BOOLEAN, User1(drop)
  PROVE  Transferring'
<1> DEFINE m == Head(inbox[Sender])
<1>1. TypeOK /\ Net(inbox, chunk, next_seq[Sender], Last) /\ inbox[Sender] # <<>>
  BY DEF IInv, Transferring, User1, AwaitEofAck, AwaitFin, Sender
<1>2. m = inbox[Sender][1] /\ 1 \in 1..Len(inbox[Sender])
  BY <1>1, TakenInbox, UsersPeers
<1>3. m.type = "ACK" /\ m.text = "ACK"
  BY <1>1, <1>2 DEF Net, Acks, AckOk
<1>4. Returned(m, drop) \notin {"FIN", "FIN_ACK"}
  BY <1>3 DEF Returned
<1>5. Received(Sender, m, drop) = Taken(Sender)
  BY <1>3 DEF Received
<1>6. inbox' = Taken(Sender) /\ UNCHANGED <<next_seq, file, chunk, hand, out>>
  BY <1>4, <1>5 DEF User1, AwaitEofAck, AwaitFin, Sender
<1>7. Net(inbox', chunk, next_seq[Sender], Last)
  BY <1>1, <1>6, NetTaken, UsersPeers
<1> QED
  BY <1>6, <1>7, TransferringKept

\* user2 takes chunk m.n, and acknowledges it when it is a data frame.
LEMMA TakeNet ==
  ASSUME IInv, Transferring, NEW m, inbox[Receiver] # <<>>, m = Head(inbox[Receiver]),
         m.n # 0, ~BeginsEof(m.text),
         hand' = m.n, UNCHANGED <<next_seq, file, chunk, out>>,
         \/ m.type = "DATA" /\ inbox' = Sent(Taken(Receiver), Receiver, Ack(m.seq))
         \/ m.type # "DATA" /\ inbox' = Taken(Receiver)
  PROVE  Transferring'
<1> DEFINE c == chunk
           s == next_seq[Sender]
           q == inbox[Sender]
           a == Ack(m.seq)
           t == Taken(Receiver)
<1>1. TypeOK /\ PcInv /\ Net(inbox, c, s, Last) /\ Progress(Last, c)
  BY DEF IInv, Transferring
<1>2. /\ c \in Nat /\ s \in 0..Modulus-1 /\ Last \in Nat
      /\ inbox[Receiver] \in Seq(Datagram) /\ q \in Seq(Datagram)
  BY <1>1, Numbers
<1>3. /\ m \in Datagram /\ m = inbox[Receiver][1] /\ 1 \in 1..Len(inbox[Receiver])
      /\ t \in Inboxes /\ t[Receiver] = Tail(inbox[Receiver]) /\ t[Sender] = q
  BY <1>1, TakenInbox, UsersPeers
<1>4. FrameOk(m, c, s, Last) /\ m.n \in Nat
  BY <1>1, <1>3, StopAndWaitAssumption DEF Net, Frames, Datagram
<1>5. Progress(m.n, c) /\ Last <= m.n /\ m.n <= c
  BY <1>1, <1>2, <1>4, StopAndWaitAssumption DEF Progress, FrameOk, OnlyRaw
<1>6. Last' = m.n /\ Raw' = Raw
  BY DEF Last, Transfer!Last, Raw
<1>7. Frames(Tail(inbox[Receiver]), c, s, m.n)
  BY <1>1, <1>2, FramesTake DEF Net
<1>8. Acks(q, c, s, m.n)
  BY <1>1, <1>2, <1>4, <1>5, AcksTake DEF Net
<1>9. m.type = "DATA" => Acks(Append(q, a), c, s, m.n)
  <2> SUFFICES ASSUME m.type = "DATA" PROVE Acks(Append(q, a), c, s, m.n)
    OBVIOUS
  <2>1. a \in Datagram /\ a.type = "ACK" /\ a.text = "ACK" /\ a.seq = m.seq
    BY <1>1, <1>3, DatagramTypes DEF Datagram, Ack, Frame
  <2>2. (a.seq = s /\ m.n = c) \/ (Succ(a.seq) = s /\ m.n # c)
    BY <1>2, <1>4, <2>1 DEF FrameOk
  <2> QED
    BY <1>2, <1>4, <1>8, <2>1, <2>2, AcksReply
<1>10. /\ inbox' \in Inboxes /\ inbox'[Receiver] = Tail(inbox[Receiver])
       /\ Acks(inbox'[Sender], c, s, m.n)
  <2>1. CASE m.type = "DATA"
    <3>1. a \in Datagram
      BY <1>1, <1>3, DatagramTypes DEF Datagram
    <3>2. /\ Sent(t, Receiver, a) \in Inboxes /\ Sent(t, Receiver, a)[Receiver] = t[Receiver]
          /\ Sent(t, Receiver, a)[Sender] \in {t[Sender], Append(t[Sender], a)}
      BY <1>3, <3>1, SentInbox, UsersPeers
    <3> QED
      BY <1>3, <1>8, <1>9, <2>1, <3>2
  <2>2. CASE m.type # "DATA"
    BY <1>3, <1>8, <2>2
  <2> QED
    BY <2>1, <2>2
<1>11. Progress(Last, chunk)'
  BY <1>5, <1>6 DEF Progress, OnlyRaw
<1>12. Acks(inbox[Sender], chunk, next_seq[Sender], Last)'
  BY <1>6, <1>10
<1>13. Frames(inbox[Receiver], chunk, next_seq[Sender], Last)'
  <2>1. /\ chunk' = c /\ file' = file /\ next_seq'[Sender] = s
        /\ inbox'[Receiver] = Tail(inbox[Receiver])
    BY <1>10
  <2>2. Frames(inbox'[Receiver], c, s, m.n)
    BY <1>7, <2>1
  <2> HIDE DEF c, s
  <2>3. ASSUME NEW i \in 1..Len(inbox'[Receiver])
        PROVE  FrameOk(inbox[Receiver][i], chunk, next_seq[Sender], Last)'
    <3>1. FrameOk(inbox'[Receiver][i], c, s, m.n)
      BY <2>2 DEF Frames
    <3> QED
      BY <1>6, <2>1, <3>1 DEF FrameOk, OnlyRaw
  <2>4. ASSUME NEW i \in 1..Len(inbox'[Receiver]), NEW j \in 1..Len(inbox'[Receiver]),
               i < j
        PROVE  Older(inbox[Receiver][i], inbox[Receiver][j])'
    <3>1. Older(inbox'[Receiver][i], inbox'[Receiver][j])
      BY <2>2, <2>4 DEF Frames
    <3> QED
      BY <1>6, <3>1 DEF Older
  <2> QED
    BY <2>3, <2>4 DEF Frames
<1> QED
  BY <1>10, <1>11, <1>12, <1>13 DEF Transferring, Net, Inboxes

\* A turn of the reception loop takes a chunk, drops a frame, or ends.
LEMMA ReceiveCases ==
  ASSUME TypeOK, Transferring, NEW drop \in BOOLEAN, Receive(drop)
  PROVE  LET m == Head(inbox[Receiver]) IN
         /\ hand = 0 /\ inbox[Receiver] # <<>>
         /\ UNCHANGED <<next_seq, file, chunk, out, lost>>
         /\ \/ /\ m.n # 0 /\ ~BeginsEof(m.text) /\ hand' = m.n /\ pc' = pc
               /\ \/ /\ m.type = "DATA"
                     /\ inbox' = Sent(Taken(Receiver), Receiver, Ack(m.seq))
                  \/ m.type # "DATA" /\ inbox' = Taken(Receiver)
            \/ inbox' = Taken(Receiver) /\ UNCHANGED <<pc, hand>>
            \/ /\ BeginsEof(m.text) /\ hand' = hand
               /\ pc' = [pc EXCEPT ![Receiver] = "fin"]
<1> DEFINE m == Head(inbox[Receiver])
           text == Returned(m, drop)
<1>1. /\ hand = 0 /\ inbox[Receiver] # <<>>
      /\ UNCHANGED <<next_seq, file, chunk, out, lost>>
  BY DEF Receive, Receiver
<1>2. m = inbox[Receiver][1] /\ 1 \in 1..Len(inbox[Receiver])
  BY <1>1, TakenInbox, UsersPeers
<1>3. FrameOk(m, chunk, next_seq[Sender], Last)
  BY <1>2 DEF Transferring, Net, Frames
<1>4. CASE BeginsEof(text)
  <2>1. text = m.text
    BY <1>4 DEF Returned, BeginsEof
  <2>2. hand' = hand /\ pc' = [pc EXCEPT ![Receiver] = "fin"]
    BY <1>4 DEF Receive, Goto, Receiver
  <2> QED
    BY <1>1, <1>4, <2>1, <2>2
<1>5. CASE ~BeginsEof(text) /\ text = "error"
  <2>1. hand' = 0 /\ pc' = pc /\ inbox' = Received(Receiver, m, drop)
    BY <1>5 DEF Receive, Receiver
  <2>2. drop \/ m.text = "error"
    BY <1>5 DEF Returned
  <2>3. m.text # "error"
    <3>1. m \in Datagram
      BY <1>1, TakenInbox, UsersPeers
    <3>2. "error" \notin Text
      BY DEF Text, LongText, RawText
    <3> QED
      BY <3>1, <3>2 DEF Datagram
  <2>4. inbox' = Taken(Receiver)
    BY <2>1, <2>2, <2>3 DEF Received
  <2> QED
    BY <1>1, <2>1, <2>4
<1>6. CASE ~BeginsEof(text) /\ text # "error"
  <2>1. hand' = m.n /\ pc' = pc /\ inbox' = Received(Receiver, m, drop)
    BY <1>6 DEF Receive, Receiver
  <2>2. m.n # 0
    BY <1>3, <1>6 DEF FrameOk, Returned, BeginsEof
  <2>5. ~BeginsEof(m.text)
    BY <1>6 DEF Returned
  <2>3. m.type = "DATA" => ~drop
    BY <1>6 DEF Returned
  <2>4. \/ m.type = "DATA" /\ inbox' = Sent(Taken(Receiver), Receiver, Ack(m.seq))
        \/ m.type # "DATA" /\ inbox' = Taken(Receiver)
    BY <2>1, <2>3 DEF Received
  <2> QED
    BY <1>1, <2>1, <2>2, <2>4, <2>5
<1> QED
  BY <1>4, <1>5, <1>6

LEMMA ReceiveNet ==
  ASSUME IInv, Transferring, NEW drop \in BOOLEAN, Receive(drop), ~Ended'
  PROVE  Transferring'
<1> DEFINE m == Head(inbox[Receiver])
<1>1. TypeOK /\ Net(inbox, chunk, next_seq[Sender], Last)
  BY DEF IInv, Transferring
<1>2. /\ hand = 0 /\ inbox[Receiver] # <<>>
      /\ UNCHANGED <<next_seq, file, chunk, out, lost>>
  BY <1>1, ReceiveCases
<1>3. CASE /\ m.n # 0 /\ ~BeginsEof(m.text) /\ hand' = m.n /\ pc' = pc
           /\ \/ m.type = "DATA" /\ inbox' = Sent(Taken(Receiver), Receiver, Ack(m.seq))
              \/ m.type # "DATA" /\ inbox' = Taken(Receiver)
  BY <1>2, <1>3, TakeNet
<1>4. CASE inbox' = Taken(Receiver) /\ UNCHANGED <<pc, hand>>
  BY <1>1, <1>2, <1>4, NetTaken, TransferringKept, UsersPeers
<1>5. pc' # [pc EXCEPT ![Receiver] = "fin"]
  BY <1>1, UsersPeers DEF Ended, TypeOK
<1> QED
  BY <1>1, <1>3, <1>4, <1>5, ReceiveCases

\* fwrite: the chunk taken last is the one written last.
LEMMA WriteNet ==
  ASSUME IInv, Write
  PROVE  Last' = Last /\ (Transferring => Transferring')
<1>1. hand \in 1..N /\ out \in Seq(1..N)
  BY StopAndWaitAssumption DEF IInv, TypeOK, Write
<1>2. out' = Append(out, hand) /\ hand' = 0 /\ UNCHANGED <<pc, next_seq, inbox, file, chunk>>
  BY DEF Write
<1>3. out' # <<>> /\ out'[Len(out')] = hand
  BY <1>1, <1>2
<1>4. Last' = Last /\ Raw' = Raw
  BY <1>1, <1>2, <1>3, StopAndWaitAssumption
     DEF Last, Transfer!Last, Transfer!Written, Raw
<1>5. Progress(Last, chunk) => Progress(Last, chunk)'
  BY <1>2, <1>4 DEF Progress, OnlyRaw
<1>6. Net(inbox, chunk, next_seq[Sender], Last) => Net(inbox, chunk, next_seq[Sender], Last)'
  BY <1>2, <1>4 DEF Net, Acks, Frames, FrameOk, OnlyRaw, Older, Inboxes
<1> QED
  BY <1>4, <1>5, <1>6 DEF Transferring

\* The reception loop is left once and for all.
LEMMA EndedStays ==
  ASSUME TypeOK, Next
  PROVE  /\ Ended => Ended'
         /\ (\E u \in User : Sending(u) \/ Lose(u)) => Ended' = Ended
         /\ (\E drop \in BOOLEAN : User1(drop) \/ AwaitFinAck(drop)) => Ended' = Ended
         /\ SendRaw \/ SendEof \/ Start \/ Write => Ended' = Ended
<1>1. /\ Sender \in User /\ Receiver \in User /\ Sender # Receiver
      /\ \A l : [pc EXCEPT ![Sender] = l][Receiver] = pc[Receiver]
      /\ \A l : [pc EXCEPT ![Receiver] = l][Receiver] = l
  BY UsersPeers DEF TypeOK
<1>2. ASSUME NEW u \in User, Sending(u) \/ Lose(u) PROVE Ended' = Ended
  <2>1. CASE u = Sender
    <3>1. \/ pc' = pc
          \/ \E l \in {"ackwait", "data"} : pc' = [pc EXCEPT ![Sender] = l]
      BY <1>2, <2>1
         DEF Sending, Transmit, Acked, InvalidAck, Timeout, Lose, Goto, Sender
    <3> QED
      BY <1>1, <3>1 DEF Ended
  <2>2. CASE u = Receiver
    <3>1. \/ pc' = pc
          \/ /\ pc[Receiver] \in {"fin", "ackwait"}
             /\ \E l \in {"ackwait", "finwait"} : pc' = [pc EXCEPT ![Receiver] = l]
      BY <1>2, <2>2
         DEF Sending, Transmit, Acked, InvalidAck, Timeout, Lose, Goto, Receiver
    <3> QED
      BY <1>1, <3>1 DEF Ended
  <2> QED
    BY <2>1, <2>2 DEF User, Sender, Receiver
<1>3. ASSUME NEW drop \in BOOLEAN, User1(drop) PROVE Ended' = Ended
  <2>1. \/ pc' = pc
        \/ \E l \in {"finwait", "data", "closed"} : pc' = [pc EXCEPT ![Sender] = l]
    BY <1>3 DEF User1, AwaitEofAck, AwaitFin, Goto, Sender
  <2> QED
    BY <1>1, <2>1 DEF Ended
<1>4. ASSUME NEW drop \in BOOLEAN, AwaitFinAck(drop) PROVE Ended' = Ended
  <2>1. /\ pc[Receiver] = "finwait"
        /\ \E l \in {"fin", "closed"} : pc' = [pc EXCEPT ![Receiver] = l]
    BY <1>4 DEF AwaitFinAck, Goto, Receiver
  <2> QED
    BY <1>1, <2>1 DEF Ended
<1>5. CASE SendRaw \/ SendEof \/ Start \/ Write
  <2>1. \/ pc' = pc
        \/ pc' = [pc EXCEPT ![Sender] = "eofwait"]
        \/ pc[Receiver] = "off" /\ pc' = [pc EXCEPT ![Receiver] = "recv"]
    BY <1>5 DEF SendRaw, SendEof, Start, Write, Goto, Sender, Receiver
  <2> QED
    BY <1>1, <2>1 DEF Ended
<1>6. ASSUME NEW drop \in BOOLEAN, Receive(drop) PROVE ~Ended
  BY <1>6 DEF Receive, Ended, Receiver
<1>7. CASE Stopped
  BY <1>7 DEF Stopped, vars, Ended
<1> QED
  BY <1>2, <1>3, <1>4, <1>5, <1>6, <1>7 DEF Next, User2

-----------------------------------------------------------------------------
(* The theorems *)

LEMMA InitInv == Init => IInv
<1> SUFFICES ASSUME Init PROVE IInv
  OBVIOUS
<1>1. TypeOK
  BY StopAndWaitAssumption DEF Init, TypeOK
<1>2. Last = 0
  BY DEF Init, Last, Transfer!Last, Transfer!Written
<1>3. PcInv
  BY DEF Init, PcInv, User, Sender, Receiver
<1>4. Progress(Last, chunk)
  BY <1>2, StopAndWaitAssumption DEF Init, Progress, OnlyRaw
<1>5. Net(inbox, chunk, next_seq[Sender], Last)
  <2>1. inbox[Sender] = <<>> /\ inbox[Receiver] = <<>> /\ inbox \in Inboxes
    BY <1>1, UsersPeers DEF Init, Inboxes, TypeOK
  <2>2. Len(<<>>) = 0
    OBVIOUS
  <2> QED
    BY <2>1, <2>2 DEF Net, Frames, Acks
<1> QED
  BY <1>1, <1>3, <1>4, <1>5 DEF IInv, Transferring

LEMMA NextInv ==
  ASSUME IInv, [Next]_vars
  PROVE  IInv'
<1>1. TypeOK' /\ PcInv'
  BY TypePcInv DEF IInv
<1>2. CASE Next
  <2> SUFFICES ASSUME ~Ended' PROVE Transferring'
    BY <1>1 DEF IInv
  <2>1. TypeOK /\ ~Ended /\ Transferring
    BY <1>2, EndedStays DEF IInv
  <2>2. ASSUME NEW u \in User, Sending(u) PROVE Transferring'
    <3>1. CASE u = Sender
      BY <2>1, <2>2, <3>1, TransmitNet, AckedNet DEF Sending
    <3>2. CASE u = Receiver
      BY <2>1, <2>2, <3>2
         DEF Sending, Transmit, Acked, InvalidAck, Timeout, Ended, Sender, Receiver
    <3> QED
      BY <3>1, <3>2 DEF User, Sender, Receiver
  <2>3. ASSUME NEW u \in User, Lose(u) PROVE Transferring'
    <3>1. Net(inbox, chunk, next_seq[Sender], Last)
      BY <2>1 DEF Transferring
    <3>2. Net(inbox', chunk, next_seq[Sender], Last)
      BY <2>1, <2>3, <3>1, NetTaken DEF Lose
    <3> QED
      BY <2>1, <2>3, <3>2, TransferringKept DEF Lose
  <2>4. ASSUME NEW drop \in BOOLEAN, User1(drop) PROVE Transferring'
    BY <2>1, <2>4, User1Net
  <2>5. ASSUME NEW drop \in BOOLEAN, User2(drop) PROVE Transferring'
    <3>1. ~AwaitFinAck(drop)
      BY <2>1 DEF AwaitFinAck, Ended, Receiver
    <3> QED
      BY <2>1, <2>5, <3>1, ReceiveNet DEF User2
  <2>6. CASE Start
    <3>1. inbox' = inbox /\ UNCHANGED <<next_seq, file, chunk, hand, out>>
      BY <2>6 DEF Start
    <3> QED
      BY <2>1, <3>1, TransferringKept DEF Transferring
  <2>7. CASE Stopped
    <3>1. inbox' = inbox /\ UNCHANGED <<next_seq, file, chunk, hand, out>>
      BY <2>7 DEF Stopped, vars
    <3> QED
      BY <2>1, <3>1, TransferringKept DEF Transferring
  <2> QED
    BY <1>2, <2>1, <2>2, <2>3, <2>4, <2>5, <2>6, <2>7, SendRawNet, SendEofNet, WriteNet
       DEF Next
<1>3. CASE UNCHANGED vars
  <2>1. Ended' = Ended
    BY <1>3 DEF vars, Ended
  <2>2. Transferring => Transferring'
    <3>1. inbox' = inbox /\ UNCHANGED <<next_seq, file, chunk, hand, out>>
      BY <1>3 DEF vars
    <3> QED
      BY <3>1, TransferringKept DEF Transferring
  <2> QED
    BY <1>1, <2>1, <2>2 DEF IInv
<1> QED
  BY <1>2, <1>3

\* Every variable keeps its range: the sequence numbers wrap, and only chunks of
\* the file are written to output.txt.
THEOREM TypeCorrect == Spec => []TypeOK
<1>1. Init => IInv
  BY InitInv
<1>2. IInv /\ [Next]_vars => IInv'
  BY NextInv
<1>3. IInv => TypeOK
  BY DEF IInv
<1> QED
  BY <1>1, <1>2, <1>3, PTL DEF Spec

\* What the abstract transfer sees.
Seen == <<{k \in 1..N : file[k] \in RawText}, {k \in 1..N : BeginsEof(file[k])},
          chunk - 1, hand, out, pc["user2"] \notin {"off", "recv"}>>

\* A turn of the reception loop takes a chunk of the abstract transfer, or ends it.
LEMMA ReceiveImplements ==
  ASSUME IInv, NEW drop \in BOOLEAN, Receive(drop)
  PROVE  Transfer!Next \/ UNCHANGED Seen
<1> DEFINE m == Head(inbox[Receiver])
<1>1. ~Ended /\ pc[Receiver] = "recv" /\ TypeOK /\ Transferring
  BY DEF Receive, Ended, IInv, Receiver
<1>2. /\ hand = 0 /\ inbox[Receiver] # <<>>
      /\ UNCHANGED <<next_seq, file, chunk, out, lost>>
  BY <1>1, ReceiveCases
<1>3. m = inbox[Receiver][1] /\ 1 \in 1..Len(inbox[Receiver]) /\ m \in Datagram
  BY <1>1, <1>2, TakenInbox, UsersPeers
<1>4. FrameOk(m, chunk, next_seq[Sender], Last) /\ Progress(Last, chunk)
  BY <1>1, <1>3 DEF Transferring, Net, Frames
<1>5. chunk \in Nat /\ Last \in Nat /\ m.n \in Nat /\ m.n \in 0..N
  BY <1>1, <1>3, Numbers, StopAndWaitAssumption DEF Datagram
<1>6. m.n # 0 /\ m.n > Last => Transfer!OnlyRaw(Last, m.n)
  BY <1>4, <1>5, StopAndWaitAssumption
     DEF Transfer!OnlyRaw, Progress, OnlyRaw, FrameOk, Raw
<1>7. CASE /\ m.n # 0 /\ ~BeginsEof(m.text) /\ hand' = m.n /\ pc' = pc
  <2>1. m.n \in 1..N /\ m.n <= chunk - 1 + 1 /\ ~BeginsEof(file[m.n])
    BY <1>4, <1>5, <1>7, StopAndWaitAssumption DEF FrameOk
  <2>2. \/ m.n = Last /\ m.n \notin Raw
        \/ m.n > Last /\ Transfer!OnlyRaw(Last, m.n)
    BY <1>4, <1>5, <1>6, <1>7 DEF FrameOk
  <2>3. Transfer!Take(m.n)
    BY <1>1, <1>2, <1>7, <2>1, <2>2 DEF Transfer!Take, Raw, Last, Receiver
  <2> QED
    BY <2>1, <2>3 DEF Transfer!Next
<1>8. CASE UNCHANGED <<pc, hand>>
  BY <1>2, <1>8 DEF Seen
<1>9. CASE /\ BeginsEof(m.text) /\ hand' = hand
           /\ pc' = [pc EXCEPT ![Receiver] = "fin"]
  <2>1. pc'[Receiver] = "fin"
    BY <1>1, <1>9, UsersPeers DEF TypeOK
  <2>2. \/ chunk - 1 = N /\ Transfer!OnlyRaw(Last, N + 1)
        \/ \E k \in {k \in 1..N : BeginsEof(file[k])} :
             k <= chunk - 1 + 1 /\ k > Last /\ Transfer!OnlyRaw(Last, k)
    <3>1. CASE m.n = 0
      <4>1. chunk = N + 1
        BY <1>4, <3>1 DEF FrameOk
      <4>2. OnlyRaw(Last, N + 1)
        BY <1>4, <4>1 DEF Progress
      <4> QED
        BY <4>1, <4>2, StopAndWaitAssumption DEF Transfer!OnlyRaw, OnlyRaw, Raw
    <3>2. CASE m.n # 0
      <4>1. m.text = file[m.n] /\ Last <= m.n /\ m.n <= chunk /\ m.n \in 1..N
        BY <1>4, <1>5, <3>2, StopAndWaitAssumption DEF FrameOk
      <4>2. m.n # Last
        BY <1>4, <1>9, <3>2, <4>1 DEF Progress
      <4> QED
        BY <1>5, <1>6, <1>9, <3>2, <4>1, <4>2
    <3> QED
      BY <3>1, <3>2
  <2>3. Transfer!End
    BY <1>1, <1>2, <1>9, <2>1, <2>2 DEF Transfer!End, Last, Receiver
  <2> QED
    BY <2>3 DEF Transfer!Next
<1> QED
  BY <1>1, <1>7, <1>8, <1>9, ReceiveCases

\* A step is one of the abstract transfer, or leaves it as it is.
LEMMA StepImplements ==
  ASSUME IInv, [Next]_vars
  PROVE  Transfer!Next \/ UNCHANGED Seen
<1> DEFINE same == UNCHANGED <<file, chunk, hand, out>> /\ Ended' = Ended
<1>1. same => UNCHANGED Seen
  BY DEF Ended, Receiver, Seen
<1>2. TypeOK /\ PcInv /\ (Ended \/ Transferring) /\ chunk \in Nat /\ Last \in Nat
  BY Numbers DEF IInv
<1>3. CASE Next
  <2>1. ASSUME NEW u \in User,
               Transmit(u) \/ InvalidAck(u) \/ Timeout(u) \/ Lose(u) \/ Acked(Receiver)
        PROVE  UNCHANGED Seen
    <3>1. UNCHANGED <<file, chunk, hand, out>>
      BY <2>1 DEF Transmit, InvalidAck, Timeout, Lose, Acked, Receiver
    <3>2. Ended' = Ended
      BY <1>2, <1>3, <2>1, EndedStays, UsersPeers DEF Sending
    <3> QED
      BY <1>1, <3>1, <3>2
  <2>2. CASE Acked(Sender)
    <3>1. chunk <= N
      BY <1>2, <2>2 DEF Acked, PcInv, Sender
    <3>2. Last > chunk - 1 \/ Ended
      BY <1>2, <2>2, AckedTaken
    <3>3. chunk' = chunk + 1 /\ UNCHANGED <<file, hand, out>> /\ Ended' = Ended
      BY <1>2, <1>3, <2>2, EndedStays, UsersPeers DEF Acked, Sending, Sender
    <3>4. Transfer!Return
      BY <1>2, <3>1, <3>2, <3>3, StopAndWaitAssumption
         DEF Transfer!Return, Last, Ended, Receiver
    <3> QED
      BY <3>4 DEF Transfer!Next
  <2>3. CASE SendRaw
    <3>1. chunk <= N /\ file[chunk] \in RawText /\ chunk \in 1..N
      BY <1>2, <2>3, StopAndWaitAssumption DEF SendRaw, TypeOK
    <3>2. chunk' = chunk + 1 /\ UNCHANGED <<file, hand, out>> /\ Ended' = Ended
      BY <1>2, <1>3, <2>3, EndedStays DEF SendRaw
    <3>3. chunk - 1 + 1 \in {k \in 1..N : file[k] \in RawText}
      BY <1>2, <3>1
    <3>4. Transfer!Return
      BY <1>2, <3>1, <3>2, <3>3, StopAndWaitAssumption
         DEF Transfer!Return, Ended, Receiver
    <3> QED
      BY <3>4 DEF Transfer!Next
  <2>4. ASSUME NEW drop \in BOOLEAN, User1(drop) \/ AwaitFinAck(drop)
        PROVE  UNCHANGED Seen
    <3>1. UNCHANGED <<file, chunk, hand, out>>
      BY <2>4 DEF User1, AwaitEofAck, AwaitFin, AwaitFinAck
    <3>2. Ended' = Ended
      BY <1>2, <1>3, <2>4, EndedStays
    <3> QED
      BY <1>1, <3>1, <3>2
  <2>5. CASE SendEof \/ Start
    <3>1. UNCHANGED <<file, chunk, hand, out>>
      BY <2>5 DEF SendEof, Start
    <3>2. Ended' = Ended
      BY <1>2, <1>3, <2>5, EndedStays
    <3> QED
      BY <1>1, <3>1, <3>2
  <2>6. CASE Write
    <3>1. Ended' = Ended
      BY <1>2, <1>3, <2>6, EndedStays
    <3>2. Transfer!Write
      BY <2>6, <3>1 DEF Write, Transfer!Write, Ended, Receiver
    <3> QED
      BY <3>2 DEF Transfer!Next
  <2>7. CASE Stopped
    BY <2>7 DEF Stopped, vars, Seen
  <2>8. ASSUME NEW u \in User, Sending(u) PROVE Transfer!Next \/ UNCHANGED Seen
    BY <2>1, <2>2, <2>8 DEF Sending, User, Sender, Receiver
  <2> QED
    BY <1>3, <2>1, <2>3, <2>4, <2>5, <2>6, <2>7, <2>8, ReceiveImplements
       DEF Next, User2
<1>4. CASE UNCHANGED vars
  BY <1>4 DEF vars, Seen
<1> QED
  BY <1>3, <1>4

\* k_sendto and the reception loop transfer the file at least once and in order,
\* whatever is lost, late or dropped, and with a number of sequence numbers as
\* small as two: when k_sendto returns, user2 has written the chunk or has it in
\* hand.  What becomes of the chunks k_sendto and user2 take for other messages is
\* part of what is proved.
THEOREM AtLeastOnceImplemented == Spec => ImplementsAtLeastOnce
<1>1. Init => IInv
  BY InitInv
<1>2. IInv /\ [Next]_vars => IInv'
  BY NextInv
<1>3. Init => Transfer!Init
  BY DEF Init, Transfer!Init, User
<1>4. IInv /\ [Next]_vars => [Transfer!Next]_Seen
  BY StepImplements
<1> QED
  BY <1>1, <1>2, <1>3, <1>4, PTL DEF Spec, ImplementsAtLeastOnce, Transfer!Spec, Seen

===============================================================================
