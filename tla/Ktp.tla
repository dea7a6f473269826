--------------------------------- MODULE Ktp ---------------------------------
(***************************************************************************)
(* The data path of the KTP transport ("Lab 4 Final"): a window protocol   *)
(* over UDP.  The state of a socket is its entry of the shared memory      *)
(* segment (SharedMemoryEntry, ksocket.h), which four parties change, each *)
(* holding sem_SM: the application (k_sendto, k_recvfrom), thread R        *)
(* (datagrams and window updates) and thread S (first transmissions and    *)
(* retransmissions).  Every action below is one such critical section for  *)
(* one socket.  Sockets are bound for the whole behaviour; how they become *)
(* so is the subject of module KtpSockets.                                 *)
(*                                                                         *)
(* A payload is the number of the message in its sender's stream.  A send  *)
(* time is used by the code only to ask "sent?" and "T seconds ago?": the  *)
(* first is a Boolean, the second is left open in thread S.                *)
(***************************************************************************)
EXTENDS Integers, Sequences, FiniteSets, SequencesExt

CONSTANTS
  Sock,        \* the bound KTP sockets
  Peer,        \* Peer[i]: the socket whose address i was bound to send to
  W,           \* slots of a message buffer, and the largest window: 10
  MaxSeq,      \* sequence numbers run from 1 to MaxSeq: 255
  Limit,       \* Limit[i]: messages the application of i sends (bound)
  NetCap,      \* datagrams a UDP receive queue may hold when S sends (bound)
  MaxLosses,   \* datagrams the network may lose (bound)
  Reordering   \* TRUE: the network may deliver datagrams out of order

ASSUME KtpAssumption ==
  /\ Peer \in [Sock -> Sock]
  /\ \A i \in Sock : Peer[i] # i /\ Peer[Peer[i]] = i
  /\ W \in Nat \ {0}
  /\ MaxSeq \in Nat /\ MaxSeq > W + 1
  /\ Limit \in [Sock -> Nat]
  /\ NetCap \in Nat
  /\ MaxLosses \in Nat
  /\ Reordering \in BOOLEAN

VARIABLES
  send_buffer,         \* [i][s]: the slot and its sbuff_free flag
  sent,                \* [i][s]: send_time[s] # -1
  max_seq_number_yet,  \* [i]: sequence number of the next message queued
  swnd_index,          \* [i][q]: swnd.index_seq_num, slot of message q or -1
  swnd_size,           \* [i]: swnd.size, the window the peer last advertised
  swnd_start,          \* [i]: swnd.start_sequence
  recv_buffer,         \* [i][s]: the slot and its rbuff_free flag
  rwnd_index,          \* [i][q]: rwnd.index_seq_num
  rwnd_valid,          \* [i][q]: rwnd.valid_seq_num, FALSE: taken in order
  rwnd_size,           \* [i]: rwnd.size
  rwnd_start,          \* [i]: rwnd.start_sequence, next one expected
  last_ack_received,   \* [i]: shared by the two directions of i
  no_space,            \* [i]: no_space_flags
  net,                 \* [i]: datagrams waiting at the UDP socket of i
  accepted,            \* [i]: messages k_sendto took so far (history)
  losses,              \* datagrams the network lost so far (history)
  delivered,           \* [i]: what k_recvfrom returned so far (history)
  halted               \* thread R wrote below the buffers: see R_AckWild

sendVars == <<send_buffer, sent, max_seq_number_yet, swnd_index, swnd_size,
              swnd_start, accepted>>
recvVars == <<recv_buffer, rwnd_index, rwnd_valid, rwnd_size, rwnd_start,
              no_space, delivered>>
vars == <<sendVars, recvVars, last_ack_received, net, losses, halted>>

-----------------------------------------------------------------------------
(* Slots, sequence numbers, datagrams *)

Slots == 0 .. W-1
Seqs  == 0 .. MaxSeq

\* A freed slot is zeroed, its sequence byte included.
Empty == [free |-> TRUE, seq |-> 0, body |-> 0]
Message(q, b) == [free |-> FALSE, seq |-> q, body |-> b]

\* The low half of time(NULL): beyond every sequence number.
ClockWord == MaxSeq + 1

\* "1 + q % 255": the sequence number after q.
After(q) == (q % MaxSeq) + 1
\* The sequence number n places after q, and how many places q is after p.
Ahead(q, n)    == ((q - 1 + n) % MaxSeq) + 1
Distance(p, q) == (q - p + MaxSeq) % MaxSeq

\* The places a pass over n places of the window may stop at, in order.
Sweeps == [n \in 0..W+1 |->
  {ms \in UNION {[1..k -> 1..n] : k \in 0..n} :
     \A a, b \in DOMAIN ms : a < b => ms[a] < ms[b]}]

\* (mutant: the search for a free slot never looks further than slot 0)
FirstSlot(buf) == 0
FirstFree(buf) ==
  CHOOSE s \in Slots : buf[s].free /\ \A t \in Slots : buf[t].free => s <= t
HasFree(buf) == \E s \in Slots : buf[s].free

Data(q, b) == [type |-> "data", seq |-> q, arg |-> b]
Ack(q, w)  == [type |-> "ack",  seq |-> q, arg |-> w]

\* Where thread R may find its next datagram in the queue of i.
Arrivals(i) == IF Reordering THEN DOMAIN net[i]
                             ELSE {n \in DOMAIN net[i] : n = 1}

\* R takes datagram n of the queue of i and sends ds to the peer.
Exchange(i, n, ds) ==
  net' = [net EXCEPT ![i] = RemoveAt(@, n), ![Peer[i]] = @ \o ds]

Init ==
  /\ send_buffer        = [i \in Sock |-> [s \in Slots |-> Empty]]
  /\ sent               = [i \in Sock |-> [s \in Slots |-> FALSE]]
  /\ max_seq_number_yet = [i \in Sock |-> 1]
  /\ swnd_index         = [i \in Sock |-> [q \in Seqs |-> -1]]
  /\ swnd_size          = [i \in Sock |-> W]
  /\ swnd_start         = [i \in Sock |-> 1]
  /\ recv_buffer        = [i \in Sock |-> [s \in Slots |-> Empty]]
  /\ rwnd_index         = [i \in Sock |-> [q \in Seqs |-> -1]]
  /\ rwnd_valid         = [i \in Sock |-> [q \in Seqs |-> TRUE]]
  /\ rwnd_size          = [i \in Sock |-> W]
  /\ rwnd_start         = [i \in Sock |-> 1]
  /\ last_ack_received  = [i \in Sock |-> 0]
  /\ no_space           = [i \in Sock |-> FALSE]
  /\ net                = [i \in Sock |-> <<>>]
  /\ accepted           = [i \in Sock |-> 0]
  /\ delivered          = [i \in Sock |-> <<>>]
  /\ losses             = 0
  /\ halted             = FALSE

-----------------------------------------------------------------------------
(* The application *)

\* The message goes to the first free slot under the next sequence number.
\* A full buffer makes k_sendto return -1 and change nothing.
k_sendto(i) ==
  /\ ~halted /\ accepted[i] < Limit[i]
  /\ HasFree(send_buffer[i])
  /\ LET s == FirstFree(send_buffer[i])
         q == max_seq_number_yet[i]
     IN  /\ max_seq_number_yet' = [max_seq_number_yet EXCEPT ![i] = After(q)]
         /\ swnd_index' = [swnd_index EXCEPT ![i][q] = s]
         /\ send_buffer' = [send_buffer EXCEPT
                              ![i][s] = Message(q, accepted[i] + 1)]
  /\ accepted' = [accepted EXCEPT ![i] = @ + 1]
  /\ UNCHANGED <<sent, swnd_size, swnd_start, recvVars, last_ack_received,
                 net, losses, halted>>

\* (mutant: the lowest busy slot, whatever its number)
LowestBusy(buf) ==
  CHOOSE s \in Slots : ~buf[s].free /\ \A t \in Slots : ~buf[t].free => s <= t
\* The waiting message with the smallest sequence number, in the lowest slot.
Oldest(buf) ==
  CHOOSE s \in Slots :
    /\ ~buf[s].free
    /\ \A t \in Slots : ~buf[t].free =>
         buf[s].seq < buf[t].seq \/ (buf[s].seq = buf[t].seq /\ s <= t)

k_recvfrom(i) ==
  /\ ~halted /\ \E s \in Slots : ~recv_buffer[i][s].free
  /\ LET s == Oldest(recv_buffer[i])
         m == recv_buffer[i][s]
     IN  /\ m.seq <= rwnd_start[i]
         /\ recv_buffer' = [recv_buffer EXCEPT ![i][s] = Empty]
         /\ rwnd_index' = [rwnd_index EXCEPT ![i][m.seq] = -1]
         /\ rwnd_valid' = [rwnd_valid EXCEPT ![i][m.seq] = TRUE]
         /\ delivered' = [delivered EXCEPT ![i] = Append(@, m.body)]
  /\ rwnd_size' = [rwnd_size EXCEPT ![i] = IF @ + 1 > W THEN W ELSE @ + 1]
  /\ UNCHANGED <<sendVars, rwnd_start, no_space, last_ack_received, net,
                 losses, halted>>

-----------------------------------------------------------------------------
(* Thread S: a pass over the entry of i.  The code takes the first branch  *)
(* when a send time is at least T seconds old.  Time passes while S sleeps *)
(* or waits for sem_SM, so either branch is possible for a message in      *)
(* flight, and fairness says that the timeout is seen in the end.          *)

Queued(i, q) == swnd_index[i][q] >= 0
Place(i, m) == Ahead(swnd_start[i], m - 1)
Fresh(i, q) == Queued(i, q) /\ ~sent[i][swnd_index[i][q]]

Transmit(i, ds) ==
  /\ Len(net[Peer[i]]) + Len(ds) <= NetCap
  /\ net' = [net EXCEPT ![Peer[i]] = @ \o ds]
MarkSent(i, ms) ==
  sent' = [sent EXCEPT ![i] = [s \in Slots |->
             @[s] \/ \E n \in DOMAIN ms : swnd_index[i][Place(i, ms[n])] = s]]

\* What goes out for number q.  When q is not queued the index is -1 and
\* send_buffer[-1] is sent, the bytes before the buffer: its sequence byte is
\* rwnd.index_seq_num[148] of the entry before, -1 read as 255.
DataFor(i, q) ==
  IF Queued(i, q) THEN LET m == send_buffer[i][swnd_index[i][q]]
                       IN  Data(m.seq, m.body)
                  ELSE Data(MaxSeq, 0)

\* No timeout: the loop visits size + 1 numbers and sends at most size of
\* those it finds queued and not in flight.
S_Send(i) ==
  LET w   == swnd_size[i]
      all == {m \in 1 .. w+1 : Fresh(i, Place(i, m))}
      due == IF all = 1 .. w+1 THEN 1 .. w ELSE all
  IN  /\ ~halted /\ w > 0 /\ due # {}
      /\ \E ms \in Sweeps[w+1] :
           /\ ToSet(ms) = due
           /\ Transmit(i, [n \in DOMAIN ms |-> DataFor(i, Place(i, ms[n]))])
           /\ MarkSent(i, ms)
      /\ UNCHANGED <<send_buffer, max_seq_number_yet, swnd_index, swnd_size,
                     swnd_start, accepted, recvVars, last_ack_received, losses,
                     halted>>

\* Timeout: all size numbers of the window are sent again, without asking
\* whether they are queued.  For one that is not, send_time[-1] is written:
\* the eight bytes before send_time, which hold rwnd.start_sequence (low half
\* of the clock) and max_seq_number_yet (high half, 0).  Its datagram fails
\* when the bytes before the segment are not readable (first entry).
S_Retransmit(i) ==
  LET w      == swnd_size[i]
      queued == {m \in 1..w : Queued(i, Place(i, m))}
      wild   == queued # 1..w
  IN  /\ ~halted /\ w > 0 /\ \E s \in Slots : sent[i][s]
      /\ \E ms \in Sweeps[w] :
           /\ ToSet(ms) \in {queued, 1..w}
           /\ Transmit(i, [n \in DOMAIN ms |-> DataFor(i, Place(i, ms[n]))])
           /\ MarkSent(i, ms)
      /\ max_seq_number_yet' = [max_seq_number_yet EXCEPT
                                  ![i] = IF wild THEN 0 ELSE @]
      /\ rwnd_start' = [rwnd_start EXCEPT ![i] = IF wild THEN ClockWord ELSE @]
      /\ UNCHANGED <<send_buffer, swnd_index, swnd_size, swnd_start, accepted,
                     recv_buffer, rwnd_index, rwnd_valid, rwnd_size, no_space,
                     delivered, last_ack_received, losses, halted>>

-----------------------------------------------------------------------------
(* Thread R: it takes one datagram of the socket of i and acts on it *)

\* The messages an acknowledgement of q releases: all those from
\* start_sequence on, round the ring, up to the largest number acknowledged.
\* last_ack_received is also set, to a number of the other direction, when
\* data arrive.
LastAck(i, q) == IF q > last_ack_received[i] THEN q ELSE last_ack_received[i]
\* (mutant: the number after the last one acknowledged goes too)
ReleasedOneMore(i, q) ==
  {Ahead(swnd_start[i], m) :
     m \in 0 .. Distance(swnd_start[i], After(LastAck(i, q)))}
Released(i, q) ==
  {Ahead(swnd_start[i], m) :
     m \in 0 .. Distance(swnd_start[i], After(LastAck(i, q))) - 1}
ValidAck(d) == d.type = "ack" /\ d.seq \in 1..MaxSeq /\ d.arg \in 0..W

R_Ack(i) ==
  ~halted /\ \E n \in Arrivals(i) :
    LET d     == net[i][n]
        freed == Released(i, d.seq)
        slots == {swnd_index[i][q] : q \in freed}
    IN  /\ ValidAck(d)
        /\ \A q \in freed : Queued(i, q)
        /\ swnd_size' = [swnd_size EXCEPT ![i] = d.arg]
        /\ last_ack_received' = [last_ack_received EXCEPT
                                   ![i] = LastAck(i, d.seq)]
        /\ send_buffer' = [send_buffer EXCEPT ![i] =
             [s \in Slots |-> IF s \in slots THEN Empty ELSE @[s]]]
        /\ sent' = [sent EXCEPT ![i] = [s \in Slots |-> @[s] /\ s \notin slots]]
        /\ swnd_index' = [swnd_index EXCEPT ![i] =
             [q \in Seqs |-> IF q \in freed THEN -1 ELSE @[q]]]
        /\ swnd_start' = [swnd_start EXCEPT ![i] = After(LastAck(i, d.seq))]
        /\ Exchange(i, n, <<>>)
        /\ UNCHANGED <<max_seq_number_yet, accepted, recvVars, losses, halted>>

\* One of them is not queued: memset zeroes send_buffer[-1], which is the
\* header of this entry (is_free, pid, udp_socket) and the end of the entry
\* before.  No claim is made about what follows: the model stops.
R_AckWild(i) ==
  ~halted /\ \E n \in Arrivals(i) :
    /\ ValidAck(net[i][n])
    /\ \E q \in Released(i, net[i][n].seq) : ~Queued(i, q)
    /\ halted' = TRUE
    /\ UNCHANGED <<sendVars, recvVars, last_ack_received, net, losses>>

\* (mutant: the copy keeps the zeroed sequence byte of the free slot)
StoreStripped(i, s, d) ==
  /\ recv_buffer' = [recv_buffer EXCEPT ![i][s] = Message(0, d.arg)]
  /\ rwnd_index' = [rwnd_index EXCEPT ![i][d.seq] = s]
\* A copy goes to slot s of the receive buffer.
Store(i, s, d) ==
  /\ recv_buffer' = [recv_buffer EXCEPT ![i][s] = Message(d.seq, d.arg)]
  /\ rwnd_index' = [rwnd_index EXCEPT ![i][d.seq] = s]
\* (mutant: a receiver that fills up does not remember to say so later)
TakeSpaceSilently(i) ==
  /\ rwnd_size' = [rwnd_size EXCEPT ![i] = @ - 1]
  /\ UNCHANGED no_space
TakeSpace(i) ==
  /\ rwnd_size' = [rwnd_size EXCEPT ![i] = @ - 1]
  /\ no_space' = [no_space EXCEPT ![i] = @ \/ rwnd_size[i] = 1]

\* (mutants: no look at the space left; any later number is taken as next)
InOrderUnchecked(i, d) == /\ d.type = "data" /\ d.seq = rwnd_start[i]
                          /\ d.seq \in 1..MaxSeq
InOrderGaps(i, d) == /\ d.type = "data" /\ d.seq >= rwnd_start[i]
                     /\ d.seq \in 1..MaxSeq /\ rwnd_size[i] > 0
InOrder(i, d) == /\ d.type = "data" /\ d.seq = rwnd_start[i]
                 /\ d.seq \in 1..MaxSeq /\ rwnd_size[i] > 0

\* The next number whose "valid" flag is up.
NextExpected(valid, q) ==
  LET open == {k \in 0..MaxSeq-1 : valid[Ahead(q, k)]}
  IN  Ahead(q, CHOOSE k \in open : \A l \in open : k <= l)

\* The break of the search for an earlier copy leaves only that search: the
\* copy is acknowledged and the datagram is stored all the same.
R_DataInOrder(i) ==
  ~halted /\ \E n \in Arrivals(i) :
    LET d     == net[i][n]
        again == \E s \in Slots : recv_buffer[i][s].seq = d.seq
        valid == [rwnd_valid[i] EXCEPT ![d.seq] = FALSE]
        ack   == <<Ack(d.seq, rwnd_size[i] - 1)>>
    IN  /\ InOrder(i, d)
        /\ last_ack_received' = [last_ack_received EXCEPT ![i] = d.seq]
        /\ IF HasFree(recv_buffer[i])
             THEN Store(i, FirstFree(recv_buffer[i]), d)
             ELSE UNCHANGED <<recv_buffer, rwnd_index>>
        /\ TakeSpace(i)
        /\ rwnd_valid' = [rwnd_valid EXCEPT ![i] = valid]
        /\ rwnd_start' = [rwnd_start EXCEPT ![i] = NextExpected(valid, d.seq)]
        /\ Exchange(i, n, IF again THEN <<Ack(d.seq, rwnd_size[i])>> \o ack
                                   ELSE ack)
        /\ UNCHANGED <<sendVars, delivered, losses, halted>>

\* Ahead of its turn but within the range the code expects, with a number
\* before it still missing: stored without an acknowledgement, as far from
\* the slot last used for the expected number as it is from that number.
EarlySlot(i, d) ==
  (rwnd_index[i][rwnd_start[i]] + Distance(rwnd_start[i], d.seq)) % W
\* (mutant: the slot may be busy)
Overwritable(i, s) == TRUE
SlotFree(i, s) == recv_buffer[i][s].free
Early(i, d) ==
  LET first == rwnd_start[i]
  IN  /\ d.type = "data" /\ ~InOrder(i, d)
      /\ After(d.seq) > first
      /\ d.seq <= ((first + (W - 1) - rwnd_size[i]) % MaxSeq) + 1
      /\ \E k \in 0 .. Distance(first, d.seq) - 1 :
           rwnd_valid[i][Ahead(first, k)]
      /\ rwnd_valid[i][d.seq]
      /\ SlotFree(i, EarlySlot(i, d))

R_DataOutOfOrder(i) ==
  ~halted /\ \E n \in Arrivals(i) :
    LET d == net[i][n]
    IN  /\ Early(i, d)
        /\ Store(i, EarlySlot(i, d), d)
        /\ TakeSpace(i)
        /\ Exchange(i, n, <<>>)
        /\ UNCHANGED <<sendVars, rwnd_valid, rwnd_start, delivered,
                       last_ack_received, losses, halted>>

\* Consumed without effect: dropMessage(P) struck, or the datagram is none of
\* the above.
R_Discard(i) ==
  ~halted /\ \E n \in Arrivals(i) :
    /\ ~ValidAck(net[i][n])
    /\ Exchange(i, n, <<>>)
    /\ UNCHANGED <<sendVars, recvVars, last_ack_received, losses, halted>>

\* Once a round, before select: a receiver that had announced a closed window
\* and has room again says so, once, and forgets that it had.
R_WindowUpdate(i) ==
  /\ ~halted /\ no_space[i] /\ rwnd_size[i] > 0
  /\ net' = [net EXCEPT ![Peer[i]] =
               Append(@, Ack(last_ack_received[i], rwnd_size[i]))]
  /\ no_space' = [no_space EXCEPT ![i] = FALSE]
  /\ UNCHANGED <<sendVars, recv_buffer, rwnd_index, rwnd_valid, rwnd_size,
                 rwnd_start, delivered, last_ack_received, losses, halted>>

-----------------------------------------------------------------------------
\* The network (external).
Lose(i) ==
  /\ ~halted /\ losses < MaxLosses
  /\ \E n \in DOMAIN net[i] : net' = [net EXCEPT ![i] = RemoveAt(@, n)]
  /\ losses' = losses + 1
  /\ UNCHANGED <<sendVars, recvVars, last_ack_received, halted>>

R_Datagram(i) == R_Ack(i) \/ R_AckWild(i) \/ R_DataInOrder(i)
                 \/ R_DataOutOfOrder(i) \/ R_Discard(i)

Step(i) == k_sendto(i) \/ k_recvfrom(i) \/ S_Send(i) \/ S_Retransmit(i)
           \/ R_Datagram(i) \/ R_WindowUpdate(i) \/ Lose(i)

Next == \E i \in Sock : Step(i)

Spec == Init /\ [][Next]_vars

(* Fairness.  Both threads and the application run round after round, so    *)
(* each reaches every socket again and again: R takes what is queued, S     *)
(* sees the timeout of what stays in flight (strong, because the bound      *)
(* NetCap may make it wait), the application of user2.c keeps reading and   *)
(* that of user1.c keeps trying to send.  dropMessage(P), P < 1, does not   *)
(* strike for ever the datagrams that are next in order (strong), and the   *)
(* network loses finitely many.                                             *)
Fairness ==
  \A i \in Sock :
    /\ WF_vars(k_sendto(i))
    /\ WF_vars(k_recvfrom(i))
    /\ WF_vars(R_Datagram(i))
    /\ WF_vars(R_WindowUpdate(i))
    /\ SF_vars(S_Send(i))
    /\ SF_vars(S_Retransmit(i))
    /\ SF_vars(R_DataInOrder(i))

FairSpec == Spec /\ Fairness

-----------------------------------------------------------------------------
(* Properties *)

SlotSet == [free : BOOLEAN, seq : Seqs, body : Nat]
Datagram == [type : {"data", "ack"}, seq : Seqs, arg : Nat]

\* Every field of an entry keeps its range; the two fields a wild send_time
\* overwrites keep theirs with the overlaid values added.
TypeOK ==
  /\ send_buffer        \in [Sock -> [Slots -> SlotSet]]
  /\ sent               \in [Sock -> [Slots -> BOOLEAN]]
  /\ max_seq_number_yet \in [Sock -> Seqs]
  /\ swnd_index         \in [Sock -> [Seqs -> Slots \union {-1}]]
  /\ swnd_size          \in [Sock -> 0..W]
  /\ swnd_start         \in [Sock -> 1..MaxSeq]
  /\ recv_buffer        \in [Sock -> [Slots -> SlotSet]]
  /\ rwnd_index         \in [Sock -> [Seqs -> Slots \union {-1}]]
  /\ rwnd_valid         \in [Sock -> [Seqs -> BOOLEAN]]
  /\ rwnd_size          \in [Sock -> 0..W]
  /\ rwnd_start         \in [Sock -> 1..ClockWord]
  /\ last_ack_received  \in [Sock -> Seqs]
  /\ no_space           \in [Sock -> BOOLEAN]
  /\ net                \in [Sock -> Seq(Datagram)]
  /\ accepted           \in [Sock -> Nat]
  /\ delivered          \in [Sock -> Seq(Nat)]
  /\ losses             \in Nat
  /\ halted             \in BOOLEAN

\* rwnd.size, which k_recvfrom and two branches of thread R count up and down
\* and every acknowledgement advertises, is the number of free slots of the
\* receive buffer: the window is never announced wider than the space.
SpaceAccounting ==
  \A i \in Sock :
    rwnd_size[i] = Cardinality({s \in Slots : recv_buffer[i][s].free})

\* A "valid" flag that is down (taken in its turn) is that of a message still
\* in the receive buffer.  More flags than slots being up, the loop of thread R
\* that advances start_sequence ends.
TakenIsBuffered ==
  \A i \in Sock : \A q \in 1..MaxSeq : ~rwnd_valid[i][q] =>
    \E s \in Slots : ~recv_buffer[i][s].free /\ recv_buffer[i][s].seq = q

\* Thread S retransmitted what was not queued, which overwrote the counter
\* max_seq_number_yet, and k_sendto numbered a message from there: 0, which no
\* acknowledgement ever releases.
Resequenced(i) ==
  \E s \in Slots : ~send_buffer[i][s].free /\ send_buffer[i][s].seq = 0

\* As long as no message of i was misnumbered, a busy slot of its send buffer
\* and the index of the sending window name each other: k_sendto, which fills
\* them, and thread R, which clears them for an acknowledgement, agree.
SendBookkeeping ==
  \A i \in Sock : ~Resequenced(i) =>
    /\ \A s \in Slots : ~send_buffer[i][s].free =>
         swnd_index[i][send_buffer[i][s].seq] = s
    /\ \A q \in Seqs : Queued(i, q) =>
         LET m == send_buffer[i][swnd_index[i][q]] IN ~m.free /\ m.seq = q

\* Every acknowledgement on its way, however old, releases only messages that
\* are still queued: thread R never indexes the send buffer with -1.
AckReleasesQueued ==
  \A i \in Sock : \A n \in DOMAIN net[i] :
    ValidAck(net[i][n]) =>
      \A q \in Released(i, net[i][n].seq) : Queued(i, q)

\* A message k_sendto took is not lost between the two buffers, whatever the
\* network or dropMessage do: it is still queued, or has arrived, or was read.
Holds(buf, b) == \E s \in Slots : ~buf[s].free /\ buf[s].body = b
NoLoss ==
  \A i \in Sock : ~Resequenced(i) =>
    \A b \in 1..accepted[i] :
      \/ Holds(send_buffer[i], b)
      \/ Holds(recv_buffer[Peer[i]], b)
      \/ \E n \in DOMAIN delivered[Peer[i]] : delivered[Peer[i]][n] = b

\* k_recvfrom returns the messages of the peer in order and without a gap; it
\* may return one again, directly after itself.
InOrderRepeating(s) ==
  /\ s # <<>> => s[1] = 1
  /\ \A n \in 1 .. Len(s) - 1 : s[n+1] \in {s[n], s[n] + 1}
InOrderDelivery ==
  \A i \in Sock : ~Resequenced(i) => InOrderRepeating(delivered[Peer[i]])

\* In the end the reader has read everything the sender was to send, unless a
\* message was misnumbered on the way.
Complete(i) ==
  \A b \in 1..Limit[i] :
    \E n \in DOMAIN delivered[Peer[i]] : delivered[Peer[i]][n] = b
DeliveryLive == \A i \in Sock : <>(Complete(i) \/ Resequenced(i))

=============================================================================
