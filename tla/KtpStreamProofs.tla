--------------------------- MODULE KtpStreamProofs ---------------------------
(* A stream in one direction, shorter than a round of sequence numbers: what  *)
(* thread R acknowledges is what thread S still holds, no message is lost     *)
(* between the two buffers, and k_recvfrom returns them in order.             *)
EXTENDS KtpProofs

\* A socket that sends fewer messages than there are numbers, to a peer that
\* sends none.
Sender == {i \in Sock : Limit[Peer[i]] = 0 /\ Limit[i] + 1 < MaxSeq}
\* Every socket is a sender or the peer of one.
OneWay == \A i \in Sock : i \in Sender \/ Peer[i] \in Sender

LEMMA SenderFacts ==
  ASSUME NEW i \in Sender
  PROVE  /\ i \in Sock /\ Peer[i] \in Sock /\ Peer[i] # i /\ Peer[Peer[i]] = i
         /\ W \in Nat \ {0} /\ MaxSeq \in Nat /\ MaxSeq > W + 1
         /\ Limit[Peer[i]] = 0 /\ Limit[i] \in Nat /\ Limit[i] + 1 < MaxSeq
BY KtpAssumption DEF Sender

-----------------------------------------------------------------------------
(* The invariant of a sender i and the peer that reads *)

\* Message q has been queued: it is still, or it was released.
Known(i, q) == q \in 1..accepted[i] /\ (q < swnd_start[i] \/ Queued(i, q))

\* What may be on its way to i, and to its peer: acknowledgements of what the
\* peer has taken, and queued messages or the bytes before the buffer.
Acks(i)   == {d \in Datagram : d.type = "ack" /\ d.seq < rwnd_start[Peer[i]]}
Frames(i) == {d \in Datagram : d.type = "data" /\ (d.seq = MaxSeq \/ Known(i, d.seq))}
\* Message q under number q.
Honest == {d \in Datagram : d.seq = MaxSeq \/ d.arg = d.seq}

\* The peer sends nothing, so nothing ever comes into the buffer of i.
Silent(i) ==
  /\ accepted[Peer[i]] = 0
  /\ \A q \in Seqs : ~Queued(Peer[i], q)
  /\ \A s \in Slots : ~sent[Peer[i]][s]
  /\ \A s \in Slots : recv_buffer[i][s].free
  /\ ~no_space[i] /\ delivered[i] = <<>>

\* The windows: what the peer has taken and i has not released is still queued.
Window(i) ==
  /\ net[i] \in Seq(Acks(i)) /\ net[Peer[i]] \in Seq(Frames(i))
  /\ accepted[i] <= Limit[i] /\ max_seq_number_yet[i] <= accepted[i] + 1
  /\ \A q \in Seqs : Queued(i, q) => q <= accepted[i]
  /\ swnd_start[i] <= rwnd_start[Peer[i]] /\ rwnd_start[Peer[i]] <= accepted[i] + 1
  /\ last_ack_received[i] = swnd_start[i] - 1
  /\ last_ack_received[Peer[i]] < rwnd_start[Peer[i]]
  /\ \A q \in swnd_start[i] .. rwnd_start[Peer[i]] - 1 : Queued(i, q)
  /\ \A q \in rwnd_start[Peer[i]] .. MaxSeq : rwnd_valid[Peer[i]][q]

Newest(s) == IF s = <<>> THEN 0 ELSE s[Len(s)]
WasRead(s, b) == \E n \in DOMAIN s : s[n] = b

\* What the slots of a receive buffer hold is what their numbers say, and not
\* older than what was read last.
Sound(buf, s) ==
  \A t \in Slots : ~buf[t].free =>
    buf[t].body = buf[t].seq /\ 0 < buf[t].seq /\ Newest(s) <= buf[t].seq

\* The payloads, unless a message was misnumbered: all that k_sendto took is
\* queued, taken and not read, or read.
Carried(i) ==
  /\ max_seq_number_yet[i] \in {0, accepted[i] + 1}
  /\ \A b \in swnd_start[i] .. accepted[i] : Queued(i, b)
  /\ \A s \in Slots : ~send_buffer[i][s].free =>
       send_buffer[i][s].body = send_buffer[i][s].seq
  /\ net[Peer[i]] \in Seq(Honest)
  /\ Sound(recv_buffer[Peer[i]], delivered[Peer[i]])
  /\ \A b \in 1 .. rwnd_start[Peer[i]] - 1 :
       Holds(recv_buffer[Peer[i]], b) \/ WasRead(delivered[Peer[i]], b)
  /\ \A b \in 1 .. rwnd_start[Peer[i]] - 1 :
       b <= Newest(delivered[Peer[i]]) \/ Holds(recv_buffer[Peer[i]], b)
  /\ Newest(delivered[Peer[i]]) \in 0 .. rwnd_start[Peer[i]]
  /\ InOrderRepeating(delivered[Peer[i]])

Stream(i) == Silent(i) /\ Window(i) /\ (~Resequenced(i) => Carried(i))

LEMMA PairTypes ==
  ASSUME IInv, NEW i \in Sender
  PROVE  /\ accepted[i] \in Nat /\ accepted[Peer[i]] \in Nat
         /\ max_seq_number_yet[i] \in 0..MaxSeq
         /\ swnd_start[i] \in 1..MaxSeq
         /\ rwnd_start[Peer[i]] \in 1..MaxSeq+1
         /\ last_ack_received[i] \in 0..MaxSeq
         /\ last_ack_received[Peer[i]] \in 0..MaxSeq
         /\ \A q \in Seqs : swnd_index[i][q] \in Slots \union {-1}
         /\ net[i] \in Seq(Datagram) /\ net[Peer[i]] \in Seq(Datagram)
<1>1. i \in Sock /\ Peer[i] \in Sock
  BY SenderFacts
<1>2. /\ rwnd_start[Peer[i]] \in 1..MaxSeq+1
      /\ \A q \in Seqs : swnd_index[i][q] \in Slots \union {-1}
  BY <1>1 DEF IInv, TypeOK, ClockWord
<1>3. net[i] \in Seq(Datagram) /\ net[Peer[i]] \in Seq(Datagram)
  BY <1>1 DEF IInv, TypeOK
<1> QED
  BY <1>1, <1>2, <1>3 DEF IInv, TypeOK, Seqs

LEMMA InitStream == ASSUME Init, NEW i \in Sender PROVE Stream(i)
<1>1. /\ i \in Sock /\ Peer[i] \in Sock /\ MaxSeq \in Nat /\ MaxSeq > 1
      /\ Limit[i] \in Nat
  BY SenderFacts
<1>2. \A k \in Sock, q \in Seqs : ~Queued(k, q)
  BY DEF Init, Queued
<1>3. Silent(i)
  BY <1>1, <1>2 DEF Init, Silent, Empty
<1>4. Window(i)
  <2>1. <<>> \in Seq(Acks(i)) /\ <<>> \in Seq(Frames(i))
    BY EmptySeq
  <2>2. 1..0 = {}
    OBVIOUS
  <2> QED
    BY <1>1, <1>2, <2>1, <2>2 DEF Init, Window, Seqs
<1>5. Carried(i)
  <2>1. <<>> \in Seq(Honest)
    BY EmptySeq
  <2>2. InOrderRepeating(<<>>)
    BY EmptySeq DEF InOrderRepeating
  <2>3. Newest(<<>>) = 0
    BY DEF Newest
  <2>4. Sound(recv_buffer[Peer[i]], delivered[Peer[i]])
    BY <1>1 DEF Init, Empty, Sound
  <2>5. rwnd_start[Peer[i]] - 1 = 0 /\ delivered[Peer[i]] = <<>>
    BY <1>1 DEF Init
  <2>6. \A s \in Slots : send_buffer[i][s].free
    BY <1>1 DEF Init, Empty
  <2>7. /\ max_seq_number_yet[i] = 1 /\ accepted[i] = 0 /\ swnd_start[i] = 1
        /\ net[Peer[i]] = <<>> /\ rwnd_start[Peer[i]] = 1
    BY <1>1 DEF Init
  <2> QED
    BY <2>1, <2>2, <2>3, <2>4, <2>5, <2>6, <2>7 DEF Carried
<1> QED
  BY <1>3, <1>4, <1>5 DEF Stream

-----------------------------------------------------------------------------
(* Steps that change neither the buffers nor the windows of the pair *)

Still(i) ==
  /\ \A k \in {i, Peer[i]} :
       /\ accepted'[k] = accepted[k] /\ swnd_index'[k] = swnd_index[k]
       /\ recv_buffer'[k] = recv_buffer[k] /\ delivered'[k] = delivered[k]
       /\ last_ack_received'[k] = last_ack_received[k]
  /\ swnd_start'[i] = swnd_start[i] /\ send_buffer'[i] = send_buffer[i]
  /\ max_seq_number_yet'[i] \in {0, max_seq_number_yet[i]}
  /\ no_space'[i] = no_space[i] /\ sent'[Peer[i]] = sent[Peer[i]]
  /\ rwnd_valid'[Peer[i]] = rwnd_valid[Peer[i]]
  /\ rwnd_start'[Peer[i]] = rwnd_start[Peer[i]]

LEMMA StillStream ==
  ASSUME IInv, NEW i \in Sender, Stream(i), Still(i),
         net'[i] \in Seq(Acks(i)), net'[Peer[i]] \in Seq(Frames(i)),
         ~Resequenced(i) => net'[Peer[i]] \in Seq(Honest)
  PROVE  Stream(i)'
<1>1. \A k \in {i, Peer[i]} : \A q \in Seqs : Queued(k, q)' <=> Queued(k, q)
  BY DEF Queued, Still
<1>2. \A q : Known(i, q)' <=> Known(i, q)
  BY DEF Known, Queued, Still
<1>3. Acks(i)' = Acks(i) /\ Frames(i)' = Frames(i)
  BY <1>2 DEF Acks, Frames, Still
<1>4. Silent(i)'
  BY <1>1 DEF Stream, Silent, Still
<1>5. Window(i)'
  <2>1. \A q : Queued(i, q)' <=> Queued(i, q)
    BY DEF Queued, Still
  <2>2. max_seq_number_yet'[i] <= accepted'[i] + 1
    BY PairTypes DEF Still, Stream, Window
  <2> QED
    BY <1>3, <2>1, <2>2 DEF Stream, Window, Still
<1>6. ASSUME ~Resequenced(i)' PROVE Carried(i)'
  <2>1. ~Resequenced(i)
    BY <1>6 DEF Resequenced, Still
  <2>2. \A q : Queued(i, q)' <=> Queued(i, q)
    BY DEF Queued, Still
  <2>3. max_seq_number_yet'[i] \in {0, accepted'[i] + 1}
    BY <2>1 DEF Stream, Carried, Still
  <2> QED
    BY <2>1, <2>2, <2>3 DEF Stream, Carried, Still
<1> QED
  BY <1>4, <1>5, <1>6 DEF Stream

\* What a step of thread R does to the queues.
LEMMA Exchanged ==
  ASSUME TypeOK, NEW k \in Sock, NEW n \in Arrivals(k), NEW ds, Exchange(k, n, ds)
  PROVE  /\ net'[k] = RemoveAt(net[k], n) /\ net'[Peer[k]] = net[Peer[k]] \o ds
         /\ \A l \in Sock : l \notin {k, Peer[k]} => net'[l] = net[l]
         /\ \A S : net[k] \in Seq(S) => net[k][n] \in S /\ net'[k] \in Seq(S)
<1>1. Peer[k] \in Sock /\ Peer[k] # k /\ n \in DOMAIN net[k]
  BY KtpAssumption DEF Arrivals
<1>2. /\ net'[k] = RemoveAt(net[k], n) /\ net'[Peer[k]] = net[Peer[k]] \o ds
      /\ \A l \in Sock : l \notin {k, Peer[k]} => net'[l] = net[l]
  BY <1>1 DEF Exchange, TypeOK
<1>3. ASSUME NEW S, net[k] \in Seq(S) PROVE net[k][n] \in S /\ net'[k] \in Seq(S)
  BY <1>1, <1>2, <1>3, RemoveAtType, ElementOfSeq, LenProperties
<1> QED
  BY <1>2, <1>3

\* What a socket outside the pair does stays outside.
LEMMA ElsewhereStream ==
  ASSUME IInv, NEW i \in Sender, Stream(i),
         NEW k \in Sock, k \notin {i, Peer[i]}, Step(k)
  PROVE  Stream(i)'
<1>1. /\ i \in Sock /\ Peer[i] \in Sock /\ Peer[i] # i /\ Peer[Peer[i]] = i
      /\ Peer[k] \in Sock /\ Peer[Peer[k]] = k
  BY SenderFacts, KtpAssumption
<1>2. Peer[k] \notin {i, Peer[i]}
  BY <1>1
<1>3. net'[i] = net[i] /\ net'[Peer[i]] = net[Peer[i]]
  <2>1. ASSUME NEW n, NEW ds, Exchange(k, n, ds)
        PROVE  net'[i] = net[i] /\ net'[Peer[i]] = net[Peer[i]]
    BY <1>1, <1>2, <2>1 DEF Exchange, IInv, TypeOK
  <2>2. ASSUME NEW ds, Transmit(k, ds)
        PROVE  net'[i] = net[i] /\ net'[Peer[i]] = net[Peer[i]]
    BY <1>1, <1>2, <2>2 DEF Transmit, IInv, TypeOK
  <2>3. CASE k_sendto(k) \/ k_recvfrom(k) \/ R_AckWild(k)
    BY <2>3 DEF k_sendto, k_recvfrom, R_AckWild
  <2>4. CASE S_Send(k)
    BY <2>2, <2>4 DEF S_Send
  <2>5. CASE S_Retransmit(k)
    BY <2>2, <2>5 DEF S_Retransmit
  <2>6. CASE R_Ack(k)
    BY <2>1, <2>6 DEF R_Ack
  <2>7. CASE R_DataInOrder(k)
    BY <2>1, <2>7 DEF R_DataInOrder
  <2>8. CASE R_DataOutOfOrder(k)
    BY <2>1, <2>8 DEF R_DataOutOfOrder
  <2>9. CASE R_Discard(k)
    BY <2>1, <2>9 DEF R_Discard
  <2>10. CASE R_WindowUpdate(k)
    BY <1>1, <1>2, <2>10 DEF R_WindowUpdate, IInv, TypeOK
  <2>11. CASE Lose(k)
    BY <1>1, <1>2, <2>11 DEF Lose, IInv, TypeOK
  <2> QED
    BY <2>3, <2>4, <2>5, <2>6, <2>7, <2>8, <2>9, <2>10, <2>11 DEF Step, R_Datagram
<1>4. Still(i)
  <2>0. /\ i \in Sock /\ Peer[i] \in Sock /\ k # i /\ k # Peer[i]
        /\ DOMAIN accepted = Sock /\ DOMAIN swnd_index = Sock
        /\ DOMAIN recv_buffer = Sock /\ DOMAIN delivered = Sock
        /\ DOMAIN last_ack_received = Sock /\ DOMAIN swnd_start = Sock
        /\ DOMAIN send_buffer = Sock /\ DOMAIN max_seq_number_yet = Sock
        /\ DOMAIN no_space = Sock /\ DOMAIN sent = Sock
        /\ DOMAIN rwnd_valid = Sock /\ DOMAIN rwnd_start = Sock
    BY <1>1 DEF IInv, TypeOK
  <2> USE <2>0 DEF Still
  <2>1. CASE k_sendto(k) \/ k_recvfrom(k)
    BY <2>1 DEF k_sendto, k_recvfrom, sendVars, recvVars
  <2>2. CASE S_Send(k)
    BY <2>2 DEF S_Send, MarkSent, recvVars
  <2>3. CASE S_Retransmit(k)
    BY <2>3 DEF S_Retransmit, MarkSent
  <2>4. CASE R_Ack(k)
    BY <2>4 DEF R_Ack, recvVars
  <2>5. CASE R_DataInOrder(k)
    BY <2>5 DEF R_DataInOrder, Store, TakeSpace, sendVars
  <2>6. CASE R_DataOutOfOrder(k)
    BY <2>6 DEF R_DataOutOfOrder, Store, TakeSpace, sendVars
  <2>7. CASE R_AckWild(k) \/ R_Discard(k) \/ R_WindowUpdate(k) \/ Lose(k)
    BY <2>7 DEF R_AckWild, R_Discard, R_WindowUpdate, Lose, sendVars, recvVars
  <2> QED
    BY <2>1, <2>2, <2>3, <2>4, <2>5, <2>6, <2>7 DEF Step, R_Datagram
<1> QED
  BY <1>3, <1>4, StillStream DEF Stream, Window, Carried

\* Losses, discarded datagrams and window updates.
LEMMA QuietStream ==
  ASSUME IInv, NEW i \in Sender, Stream(i), NEW k \in {i, Peer[i]},
         R_AckWild(k) \/ R_Discard(k) \/ R_WindowUpdate(k) \/ Lose(k)
  PROVE  Stream(i)'
<1>1. /\ i \in Sock /\ Peer[i] \in Sock /\ Peer[i] # i /\ Peer[Peer[i]] = i
      /\ k \in Sock /\ Peer[k] \in {i, Peer[i]} /\ Peer[k] # k
  BY SenderFacts
<1>2. /\ net[i] \in Seq(Acks(i)) /\ net[Peer[i]] \in Seq(Frames(i))
      /\ ~Resequenced(i) => net[Peer[i]] \in Seq(Honest)
  BY DEF Stream, Window, Carried
<1>3. CASE R_AckWild(k)
  <2>1. Still(i) /\ net' = net
    BY <1>3 DEF Still, R_AckWild, sendVars, recvVars
  <2> QED
    BY <1>2, <2>1, StillStream
<1>4. CASE R_Discard(k)
  <2>1. PICK n \in Arrivals(k) : Exchange(k, n, <<>>)
    BY <1>4 DEF R_Discard
  <2>2. /\ net'[Peer[k]] = net[Peer[k]] \o <<>>
        /\ \A S : net[k] \in Seq(S) => net'[k] \in Seq(S)
    BY <1>1, <2>1, Exchanged DEF IInv
  <2>3. \A S : net[Peer[k]] \in Seq(S) => net'[Peer[k]] \in Seq(S)
    BY <2>2, ConcatEmptySeq
  <2>4. Still(i)
    BY <1>4 DEF Still, R_Discard, sendVars, recvVars
  <2>5. \A S : /\ net[i] \in Seq(S) => net'[i] \in Seq(S)
               /\ net[Peer[i]] \in Seq(S) => net'[Peer[i]] \in Seq(S)
    BY <1>1, <2>2, <2>3
  <2> QED
    BY <1>2, <2>4, <2>5, StillStream
<1>5. CASE Lose(k)
  <2>1. PICK n \in DOMAIN net[k] : net' = [net EXCEPT ![k] = RemoveAt(@, n)]
    BY <1>5 DEF Lose
  <2>2. net'[k] = RemoveAt(net[k], n) /\ net'[Peer[k]] = net[Peer[k]]
    BY <1>1, <2>1 DEF IInv, TypeOK
  <2>3. \A S : net[k] \in Seq(S) => net'[k] \in Seq(S)
    BY <2>1, <2>2, RemoveAtType
  <2>4. Still(i)
    BY <1>5 DEF Still, Lose, sendVars, recvVars
  <2>5. \A S : /\ net[i] \in Seq(S) => net'[i] \in Seq(S)
               /\ net[Peer[i]] \in Seq(S) => net'[Peer[i]] \in Seq(S)
    BY <1>1, <2>2, <2>3
  <2> QED
    BY <1>2, <2>4, <2>5, StillStream
<1>6. CASE R_WindowUpdate(k)
  <2>1. k = Peer[i]
    BY <1>1, <1>6 DEF R_WindowUpdate, Stream, Silent
  <2> DEFINE d == Ack(last_ack_received[Peer[i]], rwnd_size[Peer[i]])
  <2>2. net'[i] = Append(net[i], d) /\ net'[Peer[i]] = net[Peer[i]]
    BY <1>1, <1>6, <2>1 DEF R_WindowUpdate, IInv, TypeOK
  <2>3. d \in Datagram
    BY <1>1, KtpAssumption DEF IInv, TypeOK, Ack, Datagram, Seqs
  <2>4. d \in Acks(i)
    BY <2>3 DEF Acks, Ack, Stream, Window
  <2>5. net'[i] \in Seq(Acks(i))
    BY <1>2, <2>2, <2>4, AppendProperties
  <2>6. Still(i)
    BY <1>1, <1>6, <2>1 DEF Still, R_WindowUpdate, sendVars, IInv, TypeOK
  <2> QED
    BY <1>2, <2>2, <2>5, <2>6, StillStream
<1> QED
  BY <1>3, <1>4, <1>5, <1>6

\* What thread S sends, the bytes before the buffer included.
LEMMA FrameSent ==
  ASSUME IInv, Named, NEW i \in Sender, Stream(i), NEW m \in 1..W+1
  PROVE  /\ DataFor(i, Place(i, m)) \in Frames(i)
         /\ ~Resequenced(i) => DataFor(i, Place(i, m)) \in Honest
<1> DEFINE q == Place(i, m)
           b == send_buffer[i][swnd_index[i][q]]
<1>1. i \in Sock /\ W \in Nat /\ MaxSeq \in Nat /\ MaxSeq > 0
  BY SenderFacts
<1>2. q \in 1..MaxSeq /\ q \in Seqs
  <2>1. swnd_start[i] \in Nat /\ swnd_start[i] > 0 /\ m - 1 \in Nat
    BY <1>1, PairTypes
  <2>2. q = Ahead(swnd_start[i], m - 1)
    BY DEF Place
  <2>3. q \in 1..MaxSeq
    BY <2>1, <2>2, RingType
  <2> QED
    BY <1>1, <2>3 DEF Seqs
<1>3. CASE Queued(i, q)
  <2>1. swnd_index[i][q] \in Slots
    BY <1>2, <1>3, PairTypes DEF Queued
  <2>2. b \in SlotSet
    BY <1>1, <2>1 DEF IInv, TypeOK
  <2>3. ~b.free /\ b.seq = q
    BY <1>1, <1>2, <1>3 DEF Named
  <2>4. Known(i, q)
    BY <1>2, <1>3, PairTypes DEF Known, Stream, Window
  <2>5. DataFor(i, q) = Data(q, b.body) /\ Data(q, b.body) \in Datagram
    BY <1>2, <1>3, <2>2, <2>3 DEF DataFor, Data, Datagram, SlotSet
  <2>6. DataFor(i, q) \in Frames(i)
    BY <2>4, <2>5 DEF Frames, Data
  <2>7. ASSUME ~Resequenced(i) PROVE DataFor(i, q) \in Honest
    <3>1. b.body = b.seq
      BY <2>1, <2>3, <2>7 DEF Stream, Carried
    <3> QED
      BY <2>3, <2>5, <3>1 DEF Honest, Data
  <2> QED
    BY <2>6, <2>7
<1>4. CASE ~Queued(i, q)
  BY <1>1, <1>4 DEF DataFor, Data, Datagram, Seqs, Frames, Honest
<1> QED
  BY <1>3, <1>4

\* Both branches of thread S.
LEMMA S_Stream ==
  ASSUME IInv, Named, NEW i \in Sender, Stream(i), S_Send(i) \/ S_Retransmit(i)
  PROVE  Stream(i)'
<1>1. /\ i \in Sock /\ Peer[i] \in Sock /\ Peer[i] # i /\ W \in Nat
      /\ swnd_size[i] \in 0..W
  BY SenderFacts DEF IInv, TypeOK
<1>2. PICK n \in 0..W+1 : \E ms \in Sweeps[n] :
        Transmit(i, [k \in DOMAIN ms |-> DataFor(i, Place(i, ms[k]))])
  <2>1. swnd_size[i] \in 0..W+1 /\ swnd_size[i] + 1 \in 0..W+1
    BY <1>1
  <2>2. CASE S_Send(i)
    BY <2>1, <2>2 DEF S_Send
  <2>3. CASE S_Retransmit(i)
    BY <2>1, <2>3 DEF S_Retransmit
  <2> QED
    BY <2>2, <2>3
<1>3. PICK ms \in Sweeps[n] :
        Transmit(i, [k \in DOMAIN ms |-> DataFor(i, Place(i, ms[k]))])
  BY <1>2
<1> DEFINE ds == [k \in DOMAIN ms |-> DataFor(i, Place(i, ms[k]))]
<1>4. PICK l \in Nat : ms \in [1..l -> 1..n]
  BY <1>3 DEF Sweeps
<1>5. \A k \in 1..l : ms[k] \in 1..W+1
  BY <1>1, <1>4
<1>6. ds \in Seq(Frames(i))
  <2>1. ds \in [1..l -> Frames(i)]
    BY <1>4, <1>5, FrameSent
  <2> QED
    BY <2>1, IsASeq
<1>7. ASSUME ~Resequenced(i) PROVE ds \in Seq(Honest)
  <2>1. ds \in [1..l -> Honest]
    BY <1>4, <1>5, <1>7, FrameSent
  <2> QED
    BY <2>1, IsASeq
<1>8. net'[i] = net[i] /\ net'[Peer[i]] = net[Peer[i]] \o ds
  BY <1>1, <1>3 DEF Transmit, IInv, TypeOK
<1> HIDE DEF ds
<1>9. /\ net'[i] \in Seq(Acks(i)) /\ net'[Peer[i]] \in Seq(Frames(i))
      /\ ~Resequenced(i) => net'[Peer[i]] \in Seq(Honest)
  BY <1>6, <1>7, <1>8, ConcatProperties DEF Stream, Window, Carried
<1>10. Still(i)
  <2>1. /\ DOMAIN sent = Sock /\ DOMAIN max_seq_number_yet = Sock
        /\ DOMAIN rwnd_start = Sock
    BY DEF IInv, TypeOK
  <2>2. CASE S_Send(i)
    BY <1>1, <2>1, <2>2 DEF S_Send, MarkSent, recvVars, Still
  <2>3. CASE S_Retransmit(i)
    BY <1>1, <2>1, <2>3 DEF S_Retransmit, MarkSent, Still
  <2> QED
    BY <2>2, <2>3
<1> QED
  BY <1>9, <1>10, StillStream

-----------------------------------------------------------------------------
(* The operations of the sender *)

\* The next number is above all that are queued.
LEMMA k_sendtoStream ==
  ASSUME IInv, Named, NEW i \in Sender, Stream(i), k_sendto(i)
  PROVE  Stream(i)'
<1> DEFINE s == FirstFree(send_buffer[i])
           q == max_seq_number_yet[i]
           j == Peer[i]
<1>1. /\ i \in Sock /\ j \in Sock /\ j # i /\ MaxSeq \in Nat /\ MaxSeq > 1
      /\ Limit[i] \in Nat /\ Limit[i] + 1 < MaxSeq /\ accepted[i] < Limit[i]
      /\ accepted[i] \in Nat /\ q \in 0..MaxSeq /\ swnd_start[i] \in 1..MaxSeq
      /\ q <= accepted[i] + 1 /\ q \in Seqs
  BY SenderFacts, PairTypes DEF k_sendto, Stream, Window, Seqs
<1>2. s \in Slots /\ send_buffer[i][s].free
  BY FirstFreeSlot DEF k_sendto
<1>3. /\ max_seq_number_yet'[i] = After(q) /\ After(q) = q + 1
      /\ accepted'[i] = accepted[i] + 1 /\ accepted'[j] = accepted[j]
      /\ swnd_index'[j] = swnd_index[j]
      /\ UNCHANGED <<sent, swnd_size, swnd_start, recvVars, last_ack_received,
                     net, losses, halted>>
  <2>1. After(q) = q + 1
    BY <1>1 DEF After
  <2> QED
    BY <1>1, <2>1 DEF k_sendto, IInv, TypeOK
<1>4. \A r \in Seqs : swnd_index'[i][r] = IF r = q THEN s ELSE swnd_index[i][r]
  BY <1>1 DEF k_sendto, IInv, TypeOK
<1>5. \A t \in Slots : send_buffer'[i][t] =
        IF t = s THEN Message(q, accepted[i] + 1) ELSE send_buffer[i][t]
  BY <1>1, <1>2 DEF k_sendto, IInv, TypeOK
<1>6. \A r \in Seqs : Queued(i, r)' <=> r = q \/ Queued(i, r)
  BY <1>1, <1>2, <1>4 DEF Queued, Slots
<1> HIDE DEF s, q, j
<1>7. \A r : Known(i, r) => Known(i, r)'
  <2> SUFFICES ASSUME NEW r, Known(i, r) PROVE Known(i, r)'
    OBVIOUS
  <2>1. r \in Seqs
    BY <1>1 DEF Known, Seqs, Stream, Window
  <2> QED
    BY <1>1, <1>3, <1>6, <2>1 DEF Known
<1>8. Acks(i)' = Acks(i) /\ Frames(i) \subseteq Frames(i)'
  BY <1>3, <1>7 DEF Acks, Frames, recvVars
<1>9. Silent(i)'
  BY <1>1, <1>3 DEF Stream, Silent, Queued, recvVars, j
<1>10. Window(i)'
  <2>1. net'[i] \in Seq(Acks(i)') /\ net'[j] \in Seq(Frames(i)')
    BY <1>3, <1>8, SeqMonotonic DEF Stream, Window, j
  <2>2. \A r \in Seqs : Queued(i, r)' => r <= accepted'[i]
    BY <1>1, <1>3, <1>6 DEF Stream, Window, Seqs
  <2>3. rwnd_start[j] \in 1..MaxSeq+1 /\ rwnd_start[j] <= accepted[i] + 1
    BY PairTypes DEF Stream, Window, j
  <2>4. \A r \in swnd_start'[i] .. rwnd_start'[j] - 1 : Queued(i, r)'
    <3> SUFFICES ASSUME NEW r \in swnd_start[i] .. rwnd_start[j] - 1
                 PROVE  Queued(i, r)'
      BY <1>3 DEF recvVars
    <3>1. r \in Seqs
      BY <1>1, <2>3 DEF Seqs
    <3> QED
      BY <1>6, <3>1 DEF Stream, Window, j
  <2>5. accepted'[i] <= Limit[i] /\ max_seq_number_yet'[i] <= accepted'[i] + 1
    BY <1>1, <1>3
  <2>6. rwnd_start'[j] <= accepted'[i] + 1
    BY <1>1, <1>3, <2>3 DEF recvVars
  <2> QED
    BY <1>3, <2>1, <2>2, <2>4, <2>5, <2>6 DEF Stream, Window, recvVars, j
<1>11. ASSUME ~Resequenced(i)' PROVE Carried(i)'
  <2>1. q # 0 /\ ~Resequenced(i)
    BY <1>2, <1>5, <1>11 DEF Resequenced, Message
  <2>2. q = accepted[i] + 1 /\ Carried(i)
    BY <2>1 DEF Stream, Carried, q
  <2>3. \A b \in swnd_start'[i] .. accepted'[i] : Queued(i, b)'
    <3> SUFFICES ASSUME NEW b \in swnd_start[i] .. accepted[i] + 1
                 PROVE  Queued(i, b)'
      BY <1>3
    <3>1. b \in Seqs /\ (b = q \/ b \in swnd_start[i] .. accepted[i])
      BY <1>1, <2>2 DEF Seqs
    <3> QED
      BY <1>6, <2>2, <3>1 DEF Carried
  <2>4. \A t \in Slots : ~send_buffer'[i][t].free =>
          send_buffer'[i][t].body = send_buffer'[i][t].seq
    BY <1>5, <2>2 DEF Carried, Message
  <2>5. max_seq_number_yet'[i] = accepted'[i] + 1
    BY <1>3, <2>2
  <2> QED
    BY <1>3, <2>2, <2>3, <2>4, <2>5 DEF Carried, recvVars
<1> QED
  BY <1>9, <1>10, <1>11 DEF Stream

\* An acknowledgement on its way to i, however old, releases the numbers from
\* the start of the window up to it, and these are all queued.
LEMMA AckReleases ==
  ASSUME IInv, NEW i \in Sender, Stream(i), NEW d \in Acks(i), ValidAck(d)
  PROVE  LET p == swnd_start[i]
             a == LastAck(i, d.seq)
         IN  /\ a \in p-1 .. rwnd_start[Peer[i]] - 1
             /\ After(a) = a + 1
             /\ Released(i, d.seq) = p..a
             /\ \A q \in Released(i, d.seq) : Queued(i, q)
<1> DEFINE p == swnd_start[i]
           a == LastAck(i, d.seq)
           r == rwnd_start[Peer[i]]
<1>1. /\ MaxSeq \in Nat /\ MaxSeq > 1 /\ Limit[i] \in Nat /\ Limit[i] + 1 < MaxSeq
      /\ accepted[i] \in Nat /\ p \in 1..MaxSeq /\ r \in 1..MaxSeq+1
      /\ d.seq \in 1..MaxSeq
  BY SenderFacts, PairTypes DEF ValidAck
<1>2. /\ accepted[i] <= Limit[i] /\ p <= r /\ r <= accepted[i] + 1
      /\ last_ack_received[i] = p - 1 /\ d.seq < r
      /\ \A q \in p .. r-1 : Queued(i, q)
  BY DEF Stream, Window, Acks
<1>3. a = IF d.seq > p - 1 THEN d.seq ELSE p - 1
  BY <1>2 DEF LastAck
<1> HIDE DEF p, a, r
<1>4. a \in p-1 .. r-1 /\ a < MaxSeq - 1 /\ a \in Nat
  BY <1>1, <1>2, <1>3
<1>5. After(a) = a + 1
  BY <1>1, <1>4 DEF After
<1>6. Distance(p, a+1) = (a + 1) - p
  <2>1. a + 1 \in 1..MaxSeq /\ p <= a + 1
    BY <1>1, <1>4
  <2> QED
    BY <1>1, <2>1 DEF Distance
<1>7. \A m \in 0 .. a-p : Ahead(p, m) = p + m
  <2> SUFFICES ASSUME NEW m \in 0 .. a-p PROVE Ahead(p, m) = p + m
    OBVIOUS
  <2>1. m \in 0..MaxSeq /\ p + m <= MaxSeq
    BY <1>1, <1>4
  <2> QED
    BY <1>1, <2>1, AheadNear
<1>8. Released(i, d.seq) = p..a
  <2>1. Released(i, d.seq) = {Ahead(p, m) : m \in 0 .. a-p}
    <3>1. ((a + 1) - p) - 1 = a - p
      BY <1>1, <1>4
    <3> QED
      BY <1>5, <1>6, <3>1 DEF Released, p, a
  <2>2. ASSUME NEW q \in p..a PROVE q \in Released(i, d.seq)
    <3>1. q - p \in 0 .. a-p /\ p + (q - p) = q
      BY <1>1, <1>4
    <3> QED
      BY <1>7, <2>1, <3>1
  <2>3. ASSUME NEW m \in 0 .. a-p PROVE Ahead(p, m) \in p..a
    BY <1>1, <1>4, <1>7
  <2> QED
    BY <2>1, <2>2, <2>3
<1>9. \A q \in p..a : Queued(i, q)
  BY <1>1, <1>2, <1>4
<1> QED
  BY <1>4, <1>5, <1>8, <1>9 DEF p, a, r

LEMMA R_AckStream ==
  ASSUME IInv, Named, NEW i \in Sender, Stream(i), R_Ack(i)
  PROVE  Stream(i)'
<1> DEFINE p == swnd_start[i]
           j == Peer[i]
<1>1. PICK n \in Arrivals(i) :
        LET freed == Released(i, net[i][n].seq)
            slots == {swnd_index[i][q] : q \in freed}
        IN  /\ ValidAck(net[i][n])
            /\ last_ack_received' = [last_ack_received EXCEPT
                                       ![i] = LastAck(i, net[i][n].seq)]
            /\ send_buffer' = [send_buffer EXCEPT ![i] =
                 [s \in Slots |-> IF s \in slots THEN Empty ELSE @[s]]]
            /\ sent' = [sent EXCEPT ![i] = [s \in Slots |-> @[s] /\ s \notin slots]]
            /\ swnd_index' = [swnd_index EXCEPT ![i] =
                 [q \in Seqs |-> IF q \in freed THEN -1 ELSE @[q]]]
            /\ swnd_start' = [swnd_start EXCEPT
                                ![i] = After(LastAck(i, net[i][n].seq))]
            /\ Exchange(i, n, <<>>)
            /\ UNCHANGED <<max_seq_number_yet, accepted, recvVars, losses, halted>>
  BY DEF R_Ack
<1>2. /\ i \in Sock /\ j \in Sock /\ j # i /\ MaxSeq \in Nat
      /\ accepted[i] \in Nat /\ p \in 1..MaxSeq /\ rwnd_start[j] \in 1..MaxSeq+1
      /\ accepted[i] < MaxSeq
  BY SenderFacts, PairTypes DEF Stream, Window
<1>3. /\ net[i][n] \in Acks(i) /\ net'[i] \in Seq(Acks(i))
      /\ net'[j] = net[j] \o <<>>
  <2>1. Exchange(i, n, <<>>) /\ TypeOK /\ net[i] \in Seq(Acks(i))
    BY <1>1 DEF IInv, Stream, Window
  <2> QED
    BY <1>2, <2>1, Exchanged
<1>4. net'[j] = net[j]
  BY <1>3, ConcatEmptySeq DEF Stream, Window
<1>5. PICK a : a = LastAck(i, net[i][n].seq)
  OBVIOUS
<1>6. /\ a \in p-1 .. rwnd_start[j] - 1 /\ After(a) = a + 1
      /\ Released(i, net[i][n].seq) = p..a /\ \A q \in p..a : Queued(i, q)
  BY <1>1, <1>3, <1>5, AckReleases
<1>7. /\ last_ack_received'[i] = a /\ swnd_start'[i] = a + 1
      /\ last_ack_received'[j] = last_ack_received[j]
      /\ swnd_index'[j] = swnd_index[j] /\ sent'[j] = sent[j]
      /\ \A q \in Seqs : swnd_index'[i][q] = IF q \in p..a THEN -1
                                                            ELSE swnd_index[i][q]
  BY <1>1, <1>2, <1>5, <1>6 DEF IInv, TypeOK
<1>8. \A s \in Slots : send_buffer'[i][s] =
        IF s \in {swnd_index[i][q] : q \in p..a} THEN Empty ELSE send_buffer[i][s]
  BY <1>1, <1>2, <1>6 DEF IInv, TypeOK
<1>9. UNCHANGED <<max_seq_number_yet, accepted, recvVars, losses, halted>>
  BY <1>1
<1> HIDE DEF p, j
<1>10. \A q \in Seqs : Queued(i, q)' <=> Queued(i, q) /\ q \notin p..a
  BY <1>7 DEF Queued
<1>11. \A q : Known(i, q) => Known(i, q)'
  <2> SUFFICES ASSUME NEW q, Known(i, q) PROVE Known(i, q)'
    OBVIOUS
  <2>1. q \in 1..accepted[i] /\ q \in Seqs /\ (q < p \/ Queued(i, q))
    BY <1>2 DEF Known, Seqs, p
  <2>2. q < a + 1 \/ q \notin p..a
    BY <1>2, <1>6, <2>1
  <2>3. q < p => q < a + 1
    BY <1>2, <1>6, <2>1
  <2> QED
    BY <1>7, <1>9, <1>10, <2>1, <2>2, <2>3 DEF Known
<1>12. Acks(i)' = Acks(i) /\ Frames(i) \subseteq Frames(i)'
  BY <1>9, <1>11 DEF Acks, Frames, recvVars
<1>13. Silent(i)'
  BY <1>2, <1>7, <1>9 DEF Stream, Silent, Queued, recvVars, j
<1>14. Window(i)'
  <2>1. net'[i] \in Seq(Acks(i)') /\ net'[j] \in Seq(Frames(i)')
    BY <1>3, <1>4, <1>12, SeqMonotonic DEF Stream, Window, j
  <2>2. \A q \in swnd_start'[i] .. rwnd_start'[j] - 1 : Queued(i, q)'
    <3> SUFFICES ASSUME NEW q \in a+1 .. rwnd_start[j] - 1 PROVE Queued(i, q)'
      BY <1>7, <1>9 DEF recvVars
    <3>1. q \in p .. rwnd_start[j] - 1 /\ q \in Seqs /\ q \notin p..a
      BY <1>2, <1>6 DEF Seqs
    <3> QED
      BY <1>10, <3>1 DEF Stream, Window, p, j
  <2>3. swnd_start'[i] <= rwnd_start[j] /\ last_ack_received'[i] = swnd_start'[i] - 1
    BY <1>2, <1>6, <1>7
  <2> QED
    BY <1>7, <1>9, <1>10, <2>1, <2>2, <2>3 DEF Stream, Window, recvVars, j
<1>15. ASSUME ~Resequenced(i)' PROVE Carried(i)'
  <2>1. ~Resequenced(i)
    <3> SUFFICES ASSUME NEW s \in Slots, ~send_buffer[i][s].free,
                        send_buffer[i][s].seq = 0
                 PROVE  FALSE
      BY DEF Resequenced
    <3>1. PICK q \in p..a : swnd_index[i][q] = s
      BY <1>8, <1>15 DEF Resequenced
    <3>2. q \in Seqs /\ q # 0
      BY <1>2, <1>6 DEF Seqs, Stream, Window
    <3> QED
      BY <1>2, <1>6, <3>1, <3>2 DEF Named
  <2>2. Carried(i)
    BY <2>1 DEF Stream
  <2>3. \A b \in swnd_start'[i] .. accepted'[i] : Queued(i, b)'
    <3> SUFFICES ASSUME NEW b \in a+1 .. accepted[i] PROVE Queued(i, b)'
      BY <1>7, <1>9
    <3>1. b \in p .. accepted[i] /\ b \in Seqs /\ b \notin p..a
      BY <1>2, <1>6 DEF Seqs
    <3> QED
      BY <1>10, <2>2, <3>1 DEF Carried, p
  <2>4. \A s \in Slots : ~send_buffer'[i][s].free =>
          send_buffer'[i][s].body = send_buffer'[i][s].seq
    BY <1>8, <2>2 DEF Carried, Empty
  <2> QED
    BY <1>4, <1>9, <2>2, <2>3, <2>4 DEF Carried, recvVars, j
<1> QED
  BY <1>13, <1>14, <1>15 DEF Stream

-----------------------------------------------------------------------------
(* The operations of the receiver *)

\* What one more read does to the list of what was read.
LEMMA ReadAppend ==
  ASSUME NEW s \in Seq(Nat), NEW x \in Nat
  PROVE  /\ Newest(Append(s, x)) = x
         /\ \A b : WasRead(s, b) \/ b = x => WasRead(Append(s, x), b)
         /\ (InOrderRepeating(s) /\ x > 0 /\ x \in {Newest(s), Newest(s) + 1})
              => InOrderRepeating(Append(s, x))
<1> DEFINE t == Append(s, x)
<1>1. /\ Len(s) \in Nat /\ DOMAIN s = 1..Len(s)
      /\ t \in Seq(Nat) /\ t # <<>> /\ Len(t) = Len(s) + 1
      /\ \A n \in 1..Len(s) : t[n] = s[n]
      /\ t[Len(s) + 1] = x /\ DOMAIN t = 1..Len(t)
  BY LenProperties, AppendProperties
<1>2. s = <<>> <=> Len(s) = 0
  BY EmptySeq
<1> HIDE DEF t
<1>3. Newest(t) = x
  BY <1>1 DEF Newest
<1>4. \A b : WasRead(s, b) \/ b = x => WasRead(t, b)
  BY <1>1 DEF WasRead
<1>5. ASSUME InOrderRepeating(s), x > 0, x \in {Newest(s), Newest(s) + 1}
      PROVE  InOrderRepeating(t)
  <2>1. CASE Len(s) = 0
    BY <1>1, <1>2, <1>5, <2>1 DEF InOrderRepeating, Newest
  <2>2. CASE Len(s) > 0
    <3>1. Newest(s) = s[Len(s)] /\ s # <<>>
      BY <1>1, <1>2, <2>2 DEF Newest
    <3>2. t[1] = 1
      BY <1>1, <1>5, <2>2, <3>1 DEF InOrderRepeating
    <3>3. ASSUME NEW n \in 1 .. Len(s) PROVE t[n+1] \in {t[n], t[n] + 1}
      <4>1. CASE n = Len(s)
        BY <1>1, <1>5, <2>2, <3>1, <4>1
      <4>2. CASE n < Len(s)
        <5>1. n \in 1 .. Len(s) - 1 /\ n + 1 \in 1..Len(s) /\ n \in 1..Len(s)
          BY <1>1, <4>2
        <5>2. s[n+1] \in {s[n], s[n] + 1}
          BY <1>5, <5>1 DEF InOrderRepeating
        <5>3. t[n] = s[n] /\ t[n+1] = s[n+1]
          BY <1>1, <5>1
        <5> QED
          BY <5>2, <5>3
      <4>3. n = Len(s) \/ n < Len(s)
        <5>1. Len(s) \in Nat
          BY LenProperties
        <5> QED
          BY <5>1
      <4> QED
        BY <4>1, <4>2, <4>3
    <3>4. Len(t) - 1 = Len(s)
      BY <1>1
    <3> QED
      BY <3>2, <3>3, <3>4 DEF InOrderRepeating
  <2> QED
    BY <1>1, <2>1, <2>2
<1> QED
  BY <1>3, <1>4, <1>5 DEF t

\* The application reads the oldest message: it is the one it read last, or the
\* next, because all that R has taken is either read or in the buffer.
LEMMA k_recvfromStream ==
  ASSUME IInv, NEW i \in Sender, Stream(i), k_recvfrom(Peer[i])
  PROVE  Stream(i)'
<1> DEFINE j == Peer[i]
           s == Oldest(recv_buffer[j])
           m == recv_buffer[j][s]
           r == rwnd_start[j]
<1>1. /\ i \in Sock /\ j \in Sock /\ j # i /\ MaxSeq \in Nat /\ MaxSeq > 0
      /\ r \in 1..MaxSeq+1 /\ recv_buffer[j] \in [Slots -> SlotSet]
      /\ delivered[j] \in Seq(Nat)
  <2>1. i \in Sock /\ j \in Sock /\ j # i /\ MaxSeq \in Nat /\ MaxSeq > 0
    BY SenderFacts
  <2>2. r \in 1..MaxSeq+1
    BY PairTypes
  <2> QED
    BY <2>1, <2>2 DEF IInv, TypeOK
<1>2. /\ s \in Slots /\ ~m.free
      /\ \A t \in Slots : ~recv_buffer[j][t].free => m.seq <= recv_buffer[j][t].seq
  BY <1>1, OldestSlot DEF k_recvfrom
<1>3. m \in SlotSet /\ m.seq \in 0..MaxSeq /\ m.body \in Nat
  BY <1>1, <1>2 DEF SlotSet, Seqs
<1>4. /\ m.seq <= r
      /\ recv_buffer' = [recv_buffer EXCEPT ![j][s] = Empty]
      /\ rwnd_valid' = [rwnd_valid EXCEPT ![j][m.seq] = TRUE]
      /\ delivered' = [delivered EXCEPT ![j] = Append(@, m.body)]
      /\ UNCHANGED <<sendVars, rwnd_start, no_space, last_ack_received, net,
                     losses, halted>>
  BY DEF k_recvfrom
<1> HIDE DEF j, s, m, r
<1>5. /\ \A t \in Slots : recv_buffer'[j][t] = IF t = s THEN Empty
                                                        ELSE recv_buffer[j][t]
      /\ recv_buffer'[i] = recv_buffer[i] /\ delivered'[i] = delivered[i]
      /\ delivered'[j] = Append(delivered[j], m.body)
      /\ \A q \in Seqs : rwnd_valid[j][q] => rwnd_valid'[j][q]
  BY <1>1, <1>2, <1>3, <1>4 DEF IInv, TypeOK
<1>6. Acks(i)' = Acks(i) /\ Frames(i)' = Frames(i)
  BY <1>4 DEF Acks, Frames, Known, Queued, sendVars
<1>7. Silent(i)'
  BY <1>4, <1>5 DEF Stream, Silent, Queued, sendVars, j
<1>8. Window(i)'
  <2>1. \A q \in r..MaxSeq : rwnd_valid'[j][q]
    <3> SUFFICES ASSUME NEW q \in r..MaxSeq PROVE rwnd_valid'[j][q]
      OBVIOUS
    <3>1. q \in Seqs
      BY <1>1 DEF Seqs
    <3> QED
      BY <1>5, <3>1 DEF Stream, Window, r, j
  <2> QED
    BY <1>4, <1>6, <2>1 DEF Stream, Window, Queued, sendVars, r, j
<1>9. ASSUME ~Resequenced(i)' PROVE Carried(i)'
  <2>1. Carried(i)
    BY <1>4, <1>9 DEF Stream, Resequenced, sendVars
  <2> DEFINE old == Newest(delivered[j])
  <2>2. old \in 0..r /\ Sound(recv_buffer[j], delivered[j])
    BY <2>1 DEF Carried, j, r
  <2>3. m.body = m.seq /\ 0 < m.seq /\ old <= m.seq
    BY <1>2, <2>2 DEF Sound, m
  <2> HIDE DEF old
  <2>4. m.seq \in {old, old + 1}
    <3> SUFFICES ASSUME m.seq > old + 1 PROVE FALSE
      BY <1>1, <1>3, <2>2, <2>3
    <3>1. old + 1 \in 1 .. r-1 /\ ~(old + 1 <= old)
      BY <1>1, <1>3, <1>4, <2>2
    <3>2. Holds(recv_buffer[j], old + 1)
      BY <2>1, <3>1 DEF Carried, j, r, old
    <3>3. PICK t \in Slots : ~recv_buffer[j][t].free /\ recv_buffer[j][t].body = old + 1
      BY <3>2 DEF Holds
    <3>4. recv_buffer[j][t].seq = old + 1
      BY <2>2, <3>3 DEF Sound
    <3>5. m.seq <= old + 1
      BY <1>2, <3>3, <3>4
    <3> QED
      BY <1>1, <1>3, <2>2, <3>5
  <2>5. /\ Newest(delivered'[j]) = m.seq
        /\ \A b : WasRead(delivered[j], b) \/ b = m.seq => WasRead(delivered'[j], b)
        /\ InOrderRepeating(delivered'[j])
    <3>1. InOrderRepeating(delivered[j])
      BY <2>1 DEF Carried, j
    <3> QED
      BY <1>1, <1>3, <1>5, <2>3, <2>4, <3>1, ReadAppend DEF old
  <2>6. Sound(recv_buffer'[j], delivered'[j])
    BY <1>2, <1>5, <2>2, <2>5 DEF Sound, Empty
  <2>7. \A b : Holds(recv_buffer[j], b) => b = m.seq \/ Holds(recv_buffer'[j], b)
    BY <1>5, <2>3 DEF Holds, m
  <2>8. \A b \in 1 .. r-1 : Holds(recv_buffer'[j], b) \/ WasRead(delivered'[j], b)
    BY <2>1, <2>5, <2>7 DEF Carried, j, r
  <2>9. \A b \in 1 .. r-1 : b <= Newest(delivered'[j]) \/ Holds(recv_buffer'[j], b)
    <3> SUFFICES ASSUME NEW b \in 1 .. r-1
                 PROVE  b <= m.seq \/ Holds(recv_buffer'[j], b)
      BY <2>5
    <3>1. b <= old \/ Holds(recv_buffer[j], b)
      BY <2>1 DEF Carried, j, r, old
    <3>2. b <= old => b <= m.seq
      BY <1>1, <1>3, <2>2, <2>3
    <3>3. b = m.seq => b <= m.seq
      BY <1>1, <1>3
    <3> QED
      BY <2>7, <3>1, <3>2, <3>3
  <2>10. Newest(delivered'[j]) \in 0..r
    BY <1>1, <1>3, <1>4, <2>5
  <2>11. r = rwnd_start'[j]
    BY <1>4 DEF r
  <2> QED
    BY <1>4, <2>1, <2>5, <2>6, <2>8, <2>9, <2>10, <2>11
    DEF Carried, Queued, sendVars, j
<1> QED
  BY <1>7, <1>8, <1>9 DEF Stream

\* A message stored in a free slot covers none.
LEMMA Stored ==
  ASSUME NEW old, NEW new, NEW f \in Slots, old[f].free, NEW q, NEW s,
         \A t \in Slots : new[t] = IF t = f THEN Message(q, q) ELSE old[t],
         Sound(old, s), 0 < q, Newest(s) <= q
  PROVE  /\ Sound(new, s)
         /\ \A b : Holds(old, b) \/ b = q => Holds(new, b)
BY DEF Sound, Holds, Message

\* The search for the next expected number stops at once: above it, every flag
\* is up.
LEMMA NextIs ==
  ASSUME NEW valid, NEW q \in 1 .. MaxSeq-1, ~valid[q], valid[q+1]
  PROVE  NextExpected(valid, q) = q + 1
<1> DEFINE open == {k \in 0..MaxSeq-1 : valid[Ahead(q, k)]}
<1>1. MaxSeq \in Nat /\ MaxSeq > 1
  BY KtpAssumption
<1>2. 0 \in 0..MaxSeq-1 /\ 1 \in 0..MaxSeq-1 /\ q \in 1..MaxSeq
  BY <1>1
<1>3. Ahead(q, 0) = q /\ Ahead(q, 1) = q + 1
  BY <1>1, <1>2, AheadNear
<1>4. 1 \in open /\ 0 \notin open
  BY <1>2, <1>3
<1>5. \A l \in open : 1 <= l
  BY <1>1, <1>4
<1>6. \A k \in open : (\A l \in open : k <= l) => k = 1
  BY <1>1, <1>4, <1>5
<1>7. (CHOOSE k \in open : \A l \in open : k <= l) = 1
  <2> HIDE DEF open
  <2> QED
    BY <1>4, <1>5, <1>6
<1> QED
  BY <1>3, <1>7 DEF NextExpected

\* The message that is next: its number is known and not released, so it is
\* queued, and the acknowledgement sent for it is of a queued message.
LEMMA R_DataInOrderStream ==
  ASSUME IInv, NEW i \in Sender, Stream(i), R_DataInOrder(Peer[i])
  PROVE  Stream(i)'
<1> DEFINE j == Peer[i]
           r == rwnd_start[j]
           f == FirstFree(recv_buffer[j])
           w == rwnd_size[j]
           p == swnd_start[i]
<1>1. /\ i \in Sock /\ j \in Sock /\ j # i /\ Peer[j] = i /\ MaxSeq \in Nat
      /\ MaxSeq > 1 /\ r \in 1..MaxSeq+1 /\ accepted[i] \in Nat /\ p \in 1..MaxSeq
      /\ accepted[i] + 1 < MaxSeq
  <2>1. /\ i \in Sock /\ j \in Sock /\ j # i /\ Peer[j] = i /\ MaxSeq \in Nat
        /\ MaxSeq > 1 /\ Limit[i] \in Nat /\ Limit[i] + 1 < MaxSeq
    BY SenderFacts
  <2>2. r \in 1..MaxSeq+1 /\ accepted[i] \in Nat /\ p \in 1..MaxSeq
    BY PairTypes
  <2>3. accepted[i] <= Limit[i]
    BY DEF Stream, Window
  <2>4. accepted[i] + 1 < MaxSeq
    BY <2>1, <2>2, <2>3
  <2> QED
    BY <2>1, <2>2, <2>4
<1>2. PICK n \in Arrivals(j) :
        LET d     == net[j][n]
            again == \E s \in Slots : recv_buffer[j][s].seq = d.seq
            valid == [rwnd_valid[j] EXCEPT ![d.seq] = FALSE]
            ack   == <<Ack(d.seq, w - 1)>>
        IN  /\ InOrder(j, d)
            /\ last_ack_received' = [last_ack_received EXCEPT ![j] = d.seq]
            /\ IF HasFree(recv_buffer[j])
                 THEN Store(j, f, d)
                 ELSE UNCHANGED <<recv_buffer, rwnd_index>>
            /\ TakeSpace(j)
            /\ rwnd_valid' = [rwnd_valid EXCEPT ![j] = valid]
            /\ rwnd_start' = [rwnd_start EXCEPT ![j] = NextExpected(valid, d.seq)]
            /\ Exchange(j, n, IF again THEN <<Ack(d.seq, w)>> \o ack ELSE ack)
            /\ UNCHANGED <<sendVars, delivered, losses, halted>>
  BY DEF R_DataInOrder
<1>3. PICK d, acks :
        /\ d = net[j][n]
        /\ acks \in {<<Ack(d.seq, w)>> \o <<Ack(d.seq, w - 1)>>, <<Ack(d.seq, w - 1)>>}
        /\ Exchange(j, n, acks)
  BY <1>2
<1>4. /\ net'[j] \in Seq(Frames(i)) /\ d \in Frames(i)
      /\ net'[i] = net[i] \o acks
      /\ net[j] \in Seq(Honest) => net'[j] \in Seq(Honest) /\ d \in Honest
  <2>1. TypeOK /\ net[j] \in Seq(Frames(i))
    BY DEF IInv, Stream, Window
  <2> QED
    BY <1>1, <1>3, <2>1, Exchanged
<1>5. d.seq = r /\ w > 0 /\ HasFree(recv_buffer[j])
  <2>1. InOrder(j, d) /\ TypeOK /\ SpaceAccounting
    BY <1>2, <1>3 DEF IInv
  <2> QED
    BY <1>1, <2>1, RoomLeft DEF InOrder
<1>6. f \in Slots /\ recv_buffer[j][f].free
  BY <1>5, FirstFreeSlot
<1> DEFINE valid == [rwnd_valid[j] EXCEPT ![r] = FALSE]
<1>7. /\ last_ack_received' = [last_ack_received EXCEPT ![j] = r]
      /\ Store(j, f, d) /\ TakeSpace(j)
      /\ rwnd_valid' = [rwnd_valid EXCEPT ![j] = valid]
      /\ rwnd_start' = [rwnd_start EXCEPT ![j] = NextExpected(valid, r)]
      /\ UNCHANGED <<sendVars, delivered, losses, halted>>
  BY <1>2, <1>3, <1>5
<1> HIDE DEF j, f, w, p
<1>8. r <= accepted[i] /\ p <= r /\ Queued(i, r) /\ r \in 1 .. MaxSeq-1
  <2>1. r <= accepted[i] + 1 /\ p <= r
    BY DEF Stream, Window, j, p
  <2>2. r # MaxSeq
    BY <1>1, <2>1
  <2>3. Known(i, r)
    BY <1>4, <1>5, <2>2 DEF Frames
  <2>4. r \in 1..accepted[i] /\ (r < p \/ Queued(i, r))
    BY <2>3 DEF Known, p
  <2> QED
    BY <1>1, <2>1, <2>4
<1>9. /\ \A t \in Slots : recv_buffer'[j][t] =
           IF t = f THEN Message(r, d.arg) ELSE recv_buffer[j][t]
      /\ recv_buffer'[i] = recv_buffer[i] /\ no_space'[i] = no_space[i]
      /\ last_ack_received'[i] = last_ack_received[i]
      /\ last_ack_received'[j] = r
  BY <1>1, <1>5, <1>6, <1>7 DEF Store, TakeSpace, IInv, TypeOK
<1>10. /\ \A q \in r+1 .. MaxSeq : q \in Seqs /\ rwnd_valid[j][q]
       /\ r \in Seqs
  BY <1>1 DEF Stream, Window, Seqs, j
<1>11. rwnd_valid[j] \in [Seqs -> BOOLEAN] /\ rwnd_valid'[j] = valid
  BY <1>1, <1>7 DEF IInv, TypeOK
<1>12. /\ ~valid[r] /\ \A q \in r+1 .. MaxSeq : valid[q]
  <2>1. \A q \in r+1 .. MaxSeq : q # r
    BY <1>1
  <2> QED
    BY <1>10, <1>11, <2>1
<1>13. rwnd_start'[j] = r + 1
  <2>1. r + 1 \in r+1 .. MaxSeq
    BY <1>1, <1>8
  <2>2. NextExpected(valid, r) = r + 1
    <3> HIDE DEF valid
    <3> QED
      BY <1>8, <1>12, <2>1, NextIs
  <2> QED
    BY <1>1, <1>7, <2>2 DEF IInv, TypeOK
<1> HIDE DEF valid, r
<1>14. \A q : Queued(i, q)' <=> Queued(i, q)
  BY <1>7 DEF Queued, sendVars
<1>15. \A q : Known(i, q)' <=> Known(i, q)
  BY <1>7, <1>14 DEF Known, sendVars
<1>16. Frames(i)' = Frames(i)
  BY <1>15 DEF Frames
<1>17. Acks(i) \subseteq Acks(i)' /\ acks \in Seq(Acks(i)')
  <2>1. \A e \in Datagram : e.seq < r => e.seq < r + 1
    BY <1>1 DEF Datagram, Seqs
  <2>2. Acks(i) \subseteq Acks(i)'
    BY <1>13, <2>1 DEF Acks, j, r
  <2>3. w \in Nat /\ w - 1 \in Nat /\ r < r + 1
    <3>1. w \in 0..W /\ W \in Nat
      BY <1>1, KtpAssumption DEF IInv, TypeOK, w
    <3> QED
      BY <1>1, <1>5, <3>1
  <2>4. Ack(r, w) \in Acks(i)' /\ Ack(r, w - 1) \in Acks(i)'
    BY <1>10, <1>13, <2>3 DEF Acks, Ack, Datagram, j
  <2>5. <<Ack(r, w)>> \in Seq(Acks(i)') /\ <<Ack(r, w - 1)>> \in Seq(Acks(i)')
    BY <2>4
  <2>6. <<Ack(r, w)>> \o <<Ack(r, w - 1)>> \in Seq(Acks(i)')
    BY <2>5, ConcatProperties
  <2> QED
    BY <1>3, <1>5, <2>2, <2>5, <2>6
<1>18. Silent(i)'
  BY <1>7, <1>9 DEF Stream, Silent, Queued, sendVars
<1>19. Window(i)'
  <2>1. net'[i] \in Seq(Acks(i)') /\ net'[j] \in Seq(Frames(i)')
    <3>1. net[i] \in Seq(Acks(i)')
      BY <1>17, SeqMonotonic DEF Stream, Window
    <3> QED
      BY <1>4, <1>16, <1>17, <3>1, ConcatProperties
  <2>2. \A q \in p .. (r+1) - 1 : Queued(i, q)
    <3> SUFFICES ASSUME NEW q \in p .. (r+1) - 1 PROVE Queued(i, q)
      OBVIOUS
    <3>1. q = r \/ q \in p .. r-1
      BY <1>1
    <3> QED
      BY <1>8, <3>1 DEF Stream, Window, p, r, j
  <2>3. \A q \in r+1 .. MaxSeq : rwnd_valid'[j][q]
    BY <1>11, <1>12
  <2>4. p <= r + 1 /\ r + 1 <= accepted[i] + 1 /\ r < r + 1
    BY <1>1, <1>8
  <2> QED
    BY <1>7, <1>9, <1>13, <1>14, <2>1, <2>2, <2>3, <2>4
    DEF Stream, Window, sendVars, p, j
<1>20. ASSUME ~Resequenced(i)' PROVE Carried(i)'
  <2>1. Carried(i)
    BY <1>7, <1>20 DEF Stream, Resequenced, sendVars
  <2>2. net'[j] \in Seq(Honest) /\ d.arg = r
    BY <1>1, <1>4, <1>5, <1>8, <2>1 DEF Carried, Honest, j
  <2> DEFINE last == Newest(delivered[j])
  <2>3. last \in 0..r /\ Sound(recv_buffer[j], delivered[j])
    BY <2>1 DEF Carried, j, r
  <2>4. 0 < r /\ last <= r /\ last \in 0 .. r+1
    BY <1>1, <2>3
  <2>5. /\ Sound(recv_buffer'[j], delivered[j])
        /\ \A b : Holds(recv_buffer[j], b) \/ b = r => Holds(recv_buffer'[j], b)
    <3>1. \A t \in Slots : recv_buffer'[j][t] =
            IF t = f THEN Message(r, r) ELSE recv_buffer[j][t]
      BY <1>9, <2>2
    <3>2. 0 < r /\ Newest(delivered[j]) <= r
      BY <2>4
    <3> QED
      BY <1>6, <2>3, <3>1, <3>2, Stored
  <2>6. \A b \in 1 .. (r+1) - 1 : b = r \/ b \in 1 .. r-1
    BY <1>1
  <2>7. \A b \in 1 .. (r+1) - 1 :
          Holds(recv_buffer'[j], b) \/ WasRead(delivered[j], b)
    BY <2>1, <2>5, <2>6 DEF Carried, j, r
  <2>8. \A b \in 1 .. (r+1) - 1 : b <= last \/ Holds(recv_buffer'[j], b)
    BY <2>1, <2>5, <2>6 DEF Carried, j, r
  <2> QED
    BY <1>7, <1>13, <1>14, <2>1, <2>2, <2>4, <2>5, <2>7, <2>8
    DEF Carried, sendVars, j
<1> QED
  BY <1>18, <1>19, <1>20 DEF Stream

\* A message ahead of its turn is a queued one not older than what was read.
LEMMA R_DataOutOfOrderStream ==
  ASSUME IInv, NEW i \in Sender, Stream(i), R_DataOutOfOrder(Peer[i])
  PROVE  Stream(i)'
<1> DEFINE j == Peer[i]
           r == rwnd_start[j]
<1>1. /\ i \in Sock /\ j \in Sock /\ j # i /\ Peer[j] = i /\ MaxSeq \in Nat
      /\ r \in 1..MaxSeq+1 /\ accepted[i] \in Nat /\ accepted[i] + 1 < MaxSeq
  <2>1. /\ i \in Sock /\ j \in Sock /\ j # i /\ Peer[j] = i /\ MaxSeq \in Nat
        /\ Limit[i] \in Nat /\ Limit[i] + 1 < MaxSeq
    BY SenderFacts
  <2>2. r \in 1..MaxSeq+1 /\ accepted[i] \in Nat
    BY PairTypes
  <2>3. accepted[i] <= Limit[i]
    BY DEF Stream, Window
  <2> QED
    BY <2>1, <2>2, <2>3
<1>2. PICK n \in Arrivals(j) :
        /\ Early(j, net[j][n]) /\ Store(j, EarlySlot(j, net[j][n]), net[j][n])
        /\ TakeSpace(j) /\ Exchange(j, n, <<>>)
        /\ UNCHANGED <<sendVars, rwnd_valid, rwnd_start, delivered,
                       last_ack_received, losses, halted>>
  BY DEF R_DataOutOfOrder
<1>3. PICK d, f : d = net[j][n] /\ f = EarlySlot(j, d)
  OBVIOUS
<1>4. /\ net'[j] \in Seq(Frames(i)) /\ d \in Frames(i)
      /\ net'[i] = net[i] \o <<>>
      /\ net[j] \in Seq(Honest) => net'[j] \in Seq(Honest) /\ d \in Honest
  <2>1. TypeOK /\ net[j] \in Seq(Frames(i)) /\ Exchange(j, n, <<>>)
    BY <1>2 DEF IInv, Stream, Window
  <2> QED
    BY <1>1, <1>3, <2>1, Exchanged
<1>5. net'[i] \in Seq(Acks(i))
  BY <1>4, ConcatEmptySeq DEF Stream, Window
<1>6. f \in Slots /\ recv_buffer[j][f].free
  <2>1. d \in Datagram /\ Early(j, d) /\ TypeOK
    BY <1>2, <1>3, <1>4 DEF Frames, IInv
  <2> QED
    BY <1>1, <1>3, <2>1, EarlySlotFree
<1>7. d.seq \in 1..accepted[i] /\ r <= d.seq /\ d.seq # MaxSeq /\ d.seq \in Seqs
  <2>1. d.seq \in 0..MaxSeq /\ After(d.seq) > r
    BY <1>2, <1>3, <1>4 DEF Early, Frames, Datagram, Seqs
  <2>2. d.seq # MaxSeq
    BY <1>1, <2>1 DEF After
  <2>3. d.seq \in 1..accepted[i]
    BY <1>4, <2>2 DEF Frames, Known
  <2>4. After(d.seq) = d.seq + 1
    BY <1>1, <2>3 DEF After
  <2> QED
    BY <1>1, <2>1, <2>2, <2>3, <2>4 DEF Seqs
<1>8. /\ Store(j, f, d) /\ TakeSpace(j)
      /\ UNCHANGED <<sendVars, rwnd_valid, rwnd_start, delivered,
                     last_ack_received, losses, halted>>
  BY <1>2, <1>3
<1> HIDE DEF j, r
<1>9. /\ \A t \in Slots : recv_buffer'[j][t] =
           IF t = f THEN Message(d.seq, d.arg) ELSE recv_buffer[j][t]
      /\ recv_buffer'[i] = recv_buffer[i] /\ no_space'[i] = no_space[i]
  BY <1>1, <1>6, <1>8 DEF Store, TakeSpace, IInv, TypeOK
<1>10. Acks(i)' = Acks(i) /\ Frames(i)' = Frames(i)
  BY <1>8 DEF Acks, Frames, Known, Queued, sendVars
<1>11. Silent(i)'
  BY <1>8, <1>9 DEF Stream, Silent, Queued, sendVars
<1>12. Window(i)'
  BY <1>4, <1>5, <1>8, <1>10 DEF Stream, Window, Queued, sendVars, j
<1>13. ASSUME ~Resequenced(i)' PROVE Carried(i)'
  <2>1. Carried(i)
    BY <1>8, <1>13 DEF Stream, Resequenced, sendVars
  <2>2. net'[j] \in Seq(Honest) /\ d.arg = d.seq
    BY <1>4, <1>7, <2>1 DEF Carried, Honest, j
  <2>3. /\ Newest(delivered[j]) \in 0..r
        /\ Sound(recv_buffer[j], delivered[j])
    BY <2>1 DEF Carried, j, r
  <2>4. 0 < d.seq /\ Newest(delivered[j]) <= d.seq
    BY <1>1, <1>7, <2>3
  <2>5. /\ Sound(recv_buffer'[j], delivered[j])
        /\ \A b : Holds(recv_buffer[j], b) => Holds(recv_buffer'[j], b)
    <3>1. \A t \in Slots : recv_buffer'[j][t] =
            IF t = f THEN Message(d.seq, d.seq) ELSE recv_buffer[j][t]
      BY <1>9, <2>2
    <3> QED
      BY <1>6, <2>3, <2>4, <3>1, Stored
  <2> QED
    BY <1>8, <2>1, <2>2, <2>5 DEF Carried, Queued, sendVars, j
<1> QED
  BY <1>11, <1>12, <1>13 DEF Stream

-----------------------------------------------------------------------------
(* All the steps *)

\* What a sender never does: it receives nothing, so it never reads; and its
\* peer sends nothing and receives no acknowledgement.
LEMMA OneDirection ==
  ASSUME IInv, NEW i \in Sender, Stream(i)
  PROVE  /\ ~k_recvfrom(i) /\ ~R_DataInOrder(i) /\ ~R_DataOutOfOrder(i)
         /\ ~k_sendto(Peer[i]) /\ ~S_Send(Peer[i]) /\ ~S_Retransmit(Peer[i])
         /\ ~R_Ack(Peer[i])
<1>1. /\ i \in Sock /\ Peer[i] \in Sock /\ Limit[Peer[i]] = 0
      /\ MaxSeq \in Nat /\ MaxSeq > 0 /\ W \in Nat
  BY SenderFacts
<1>2. \A n \in Arrivals(i) : net[i][n].type = "ack"
  <2> SUFFICES ASSUME NEW n \in Arrivals(i) PROVE net[i][n].type = "ack"
    OBVIOUS
  <2>1. n \in DOMAIN net[i] /\ net[i] \in Seq(Acks(i))
    BY DEF Arrivals, Stream, Window
  <2>2. net[i][n] \in Acks(i)
    BY <2>1, ElementOfSeq, LenProperties
  <2> QED
    BY <2>2 DEF Acks
<1>3. \A n \in Arrivals(Peer[i]) : net[Peer[i]][n].type = "data"
  <2> SUFFICES ASSUME NEW n \in Arrivals(Peer[i]) PROVE net[Peer[i]][n].type = "data"
    OBVIOUS
  <2>1. n \in DOMAIN net[Peer[i]] /\ net[Peer[i]] \in Seq(Frames(i))
    BY DEF Arrivals, Stream, Window
  <2>2. net[Peer[i]][n] \in Frames(i)
    BY <2>1, ElementOfSeq, LenProperties
  <2> QED
    BY <2>2 DEF Frames
<1>4. ~k_recvfrom(i)
  BY DEF k_recvfrom, Stream, Silent
<1>5. ~R_DataInOrder(i) /\ ~R_DataOutOfOrder(i)
  BY <1>2 DEF R_DataInOrder, R_DataOutOfOrder, InOrder, Early
<1>6. ~k_sendto(Peer[i])
  BY <1>1 DEF k_sendto, Stream, Silent
<1>7. ~S_Retransmit(Peer[i])
  BY DEF S_Retransmit, Stream, Silent
<1>8. ~R_Ack(Peer[i])
  BY <1>3 DEF R_Ack, ValidAck
<1>9. ~S_Send(Peer[i])
  <2>1. ASSUME NEW m \in 1 .. swnd_size[Peer[i]] + 1
        PROVE  ~Fresh(Peer[i], Place(Peer[i], m))
    <3>1. swnd_start[Peer[i]] \in 1..MaxSeq /\ swnd_size[Peer[i]] \in 0..W
      BY <1>1 DEF IInv, TypeOK
    <3>2. /\ swnd_start[Peer[i]] \in Nat /\ swnd_start[Peer[i]] > 0
          /\ m - 1 \in Nat
      BY <1>1, <3>1
    <3>3. Place(Peer[i], m) \in 1..MaxSeq
      BY <3>2, RingType DEF Place
    <3>4. Place(Peer[i], m) \in Seqs
      BY <1>1, <3>3 DEF Seqs
    <3> QED
      BY <3>4 DEF Fresh, Stream, Silent
  <2>2. {m \in 1 .. swnd_size[Peer[i]] + 1 : Fresh(Peer[i], Place(Peer[i], m))} = {}
    BY <2>1
  <2>3. swnd_size[Peer[i]] > 0 => 1 .. swnd_size[Peer[i]] + 1 # {}
    <3>1. swnd_size[Peer[i]] \in 0..W
      BY <1>1 DEF IInv, TypeOK
    <3> QED
      BY <1>1, <3>1
  <2> QED
    BY <2>2, <2>3 DEF S_Send
<1> QED
  BY <1>4, <1>5, <1>6, <1>7, <1>8, <1>9

Streams == \A i \in Sender : Stream(i)

LEMMA StepStreams == IInv /\ Named /\ Streams /\ [Next]_vars => Streams'
<1> SUFFICES ASSUME IInv, Named, Streams, [Next]_vars, NEW i \in Sender
             PROVE  Stream(i)'
  BY DEF Streams
<1>1. Stream(i) /\ Peer[i] \in Sock
  BY SenderFacts DEF Streams
<1>2. CASE UNCHANGED vars
  <2>1. Still(i) /\ net' = net
    BY <1>2 DEF Still, vars, sendVars, recvVars
  <2> QED
    BY <1>1, <2>1, StillStream DEF Stream, Window, Carried
<1>3. CASE Next
  <2>1. PICK k \in Sock : Step(k)
    BY <1>3 DEF Next
  <2>2. CASE k \notin {i, Peer[i]}
    BY <1>1, <2>1, <2>2, ElsewhereStream
  <2>3. CASE k = i
    BY <1>1, <2>1, <2>3, OneDirection, k_sendtoStream, S_Stream, R_AckStream,
       QuietStream DEF Step, R_Datagram
  <2>4. CASE k = Peer[i]
    BY <1>1, <2>1, <2>4, OneDirection, k_recvfromStream, R_DataInOrderStream,
       R_DataOutOfOrderStream, QuietStream DEF Step, R_Datagram
  <2> QED
    BY <2>2, <2>3, <2>4
<1> QED
  BY <1>2, <1>3

\* The invariant of the streams, whatever the other sockets do.
THEOREM StreamsKept == Spec => []Streams
<1>1. Init => Streams
  BY InitStream DEF Streams
<1> QED
  BY Invariance, QueueIsRun, <1>1, StepStreams, PTL DEF Spec

-----------------------------------------------------------------------------
(* The theorems: one direction, fewer messages than numbers *)

\* No acknowledgement on its way, old or new, makes thread R release a message
\* that is not queued, which would clear the bytes before the send buffer.
THEOREM ReleasesQueued ==
  ASSUME OneWay
  PROVE  Spec => []AckReleasesQueued
<1>1. IInv /\ Streams => AckReleasesQueued
  <2> SUFFICES ASSUME IInv, Streams, NEW i \in Sock, NEW n \in DOMAIN net[i],
                      ValidAck(net[i][n])
               PROVE  \A q \in Released(i, net[i][n].seq) : Queued(i, q)
    BY DEF AckReleasesQueued
  <2>1. CASE i \in Sender
    <3>1. net[i] \in Seq(Acks(i)) /\ Stream(i)
      BY <2>1 DEF Streams, Stream, Window
    <3>2. net[i][n] \in Acks(i)
      BY <3>1, ElementOfSeq, LenProperties
    <3> QED
      BY <2>1, <3>1, <3>2, AckReleases
  <2>2. CASE Peer[i] \in Sender
    <3>1. Peer[Peer[i]] = i
      BY KtpAssumption
    <3>2. net[i] \in Seq(Frames(Peer[i]))
      BY <2>2, <3>1 DEF Streams, Stream, Window
    <3>3. net[i][n] \in Frames(Peer[i])
      BY <3>2, ElementOfSeq, LenProperties
    <3> QED
      BY <3>3 DEF Frames, ValidAck
  <2> QED
    BY <2>1, <2>2 DEF OneWay
<1> QED
  BY Invariance, StreamsKept, <1>1, PTL

\* So thread R never writes below the buffers (memset on send_buffer[-1] in
\* receiver_thread): the header of the entry stays, and no stream stops.
THEOREM NeverBelow ==
  ASSUME OneWay
  PROVE  Spec => []~halted
<1>1. Init => ~halted
  BY DEF Init
<1>2. AckReleasesQueued /\ ~halted /\ [Next]_vars => ~halted'
  <2> SUFFICES ASSUME AckReleasesQueued, ~halted, [Next]_vars PROVE ~halted'
    OBVIOUS
  <2>1. ASSUME NEW i \in Sock, R_AckWild(i) PROVE FALSE
    BY <2>1 DEF R_AckWild, AckReleasesQueued, Arrivals
  <2>2. ASSUME NEW i \in Sock, Step(i) PROVE halted' = halted
    <3>1. CASE k_sendto(i) \/ k_recvfrom(i)
      BY <3>1 DEF k_sendto, k_recvfrom
    <3>2. CASE S_Send(i) \/ S_Retransmit(i) \/ R_WindowUpdate(i) \/ Lose(i)
      BY <3>2 DEF S_Send, S_Retransmit, R_WindowUpdate, Lose
    <3>3. CASE R_Datagram(i)
      BY <2>1, <3>3 DEF R_Datagram, R_Ack, R_DataInOrder, R_DataOutOfOrder, R_Discard
    <3> QED
      BY <2>2, <3>1, <3>2, <3>3 DEF Step
  <2>3. CASE UNCHANGED vars
    BY <2>3 DEF vars
  <2> QED
    BY <2>2, <2>3 DEF Next
<1> QED
  BY <1>1, <1>2, ReleasesQueued, PTL DEF Spec

\* As long as no message was misnumbered, k_recvfrom returns the messages in
\* order and without a gap, however datagrams are lost and reordered.
THEOREM DeliveredInOrder ==
  ASSUME OneWay
  PROVE  Spec => []InOrderDelivery
<1>1. Streams => InOrderDelivery
  <2> SUFFICES ASSUME Streams, NEW i \in Sock, ~Resequenced(i)
               PROVE  InOrderRepeating(delivered[Peer[i]])
    BY DEF InOrderDelivery
  <2>1. CASE i \in Sender
    BY <2>1 DEF Streams, Stream, Carried
  <2>2. CASE Peer[i] \in Sender
    <3>1. delivered[Peer[i]] = <<>>
      BY <2>2 DEF Streams, Stream, Silent
    <3> QED
      BY <3>1, EmptySeq DEF InOrderRepeating
  <2> QED
    BY <2>1, <2>2 DEF OneWay
<1> QED
  BY StreamsKept, <1>1, PTL

\* As long as no message was misnumbered, a message k_sendto took is queued, or
\* in the buffer of the peer, or was read.
THEOREM NothingLost ==
  ASSUME OneWay
  PROVE  Spec => []NoLoss
<1>1. IInv /\ Named /\ Streams => NoLoss
  <2> SUFFICES ASSUME IInv, Named, Streams, NEW i \in Sock, ~Resequenced(i),
                      NEW b \in 1..accepted[i]
               PROVE  \/ Holds(send_buffer[i], b)
                      \/ Holds(recv_buffer[Peer[i]], b)
                      \/ WasRead(delivered[Peer[i]], b)
    BY DEF NoLoss, WasRead
  <2>1. CASE i \in Sender
    <3>1. Carried(i) /\ Window(i)
      BY <2>1 DEF Streams, Stream
    <3>2. /\ accepted[i] \in Nat /\ swnd_start[i] \in 1..MaxSeq
          /\ rwnd_start[Peer[i]] \in 1..MaxSeq+1 /\ MaxSeq \in Nat
          /\ swnd_start[i] <= rwnd_start[Peer[i]]
      BY <2>1, <3>1, PairTypes, KtpAssumption DEF Window
    <3>3. CASE b >= swnd_start[i]
      <4>1. Queued(i, b) /\ b \in Seqs
        <5>1. b \in swnd_start[i] .. accepted[i]
          BY <3>2, <3>3
        <5>2. accepted[i] < MaxSeq
          BY <2>1, <3>1, <3>2, SenderFacts DEF Window
        <5> QED
          BY <3>1, <3>2, <5>1, <5>2 DEF Carried, Seqs
      <4>2. swnd_index[i][b] \in Slots
        BY <2>1, <4>1, PairTypes DEF Queued
      <4> QED
        BY <3>1, <4>1, <4>2 DEF Named, Holds, Carried
    <3>4. CASE b < swnd_start[i]
      <4>1. b \in 1 .. rwnd_start[Peer[i]] - 1
        BY <3>2, <3>4
      <4> QED
        BY <3>1, <4>1 DEF Carried
    <3> QED
      BY <3>2, <3>3, <3>4
  <2>2. CASE Peer[i] \in Sender
    <3>1. accepted[i] = 0
      <4>1. Peer[Peer[i]] = i
        BY KtpAssumption
      <4> QED
        BY <2>2, <4>1 DEF Streams, Stream, Silent
    <3> QED
      BY <3>1
  <2> QED
    BY <2>1, <2>2 DEF OneWay
<1> QED
  BY Invariance, QueueIsRun, StreamsKept, <1>1, PTL
===============================================================================
