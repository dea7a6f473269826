------------------------------ MODULE KtpProofs ------------------------------
(* Theorems about Ktp, for every set of sockets, buffer size and ring of      *)
(* sequence numbers, whatever the network and dropMessage do.                 *)
EXTENDS Ktp, FiniteSetTheorems, SequenceTheorems, WellFoundedInduction, TLAPS

-----------------------------------------------------------------------------
(* Numbers *)

\* A set of natural numbers that is not empty has a least element.
LEMMA LeastNatural ==
  ASSUME NEW T, T \subseteq Nat, T # {}
  PROVE  \E x \in T : \A y \in T : x <= y
<1>1. PICK x \in T : \A y \in T : <<y, x>> \notin OpToRel(<, Nat)
  BY WFMin, NatLessThanWellFounded
<1>2. ASSUME NEW y \in T PROVE x <= y
  <2>1. x \in Nat /\ y \in Nat
    OBVIOUS
  <2>2. ~(y < x)
    BY <1>1, <2>1 DEF OpToRel
  <2> QED
    BY <2>1, <2>2
<1> QED
  BY <1>2

\* Sequence numbers stay on the ring 1..MaxSeq.
LEMMA RingType ==
  /\ \A q \in Nat : After(q) \in 1..MaxSeq
  /\ \A q, n \in Nat : q > 0 => Ahead(q, n) \in 1..MaxSeq
  /\ \A p, q \in 0..MaxSeq : Distance(p, q) \in 0 .. MaxSeq - 1
BY KtpAssumption DEF After, Ahead, Distance

\* Going Distance(p, q) places on from p leads to q.
LEMMA RingRound ==
  ASSUME NEW p \in 1..MaxSeq, NEW q \in 1..MaxSeq
  PROVE  Ahead(p, Distance(p, q)) = q
<1>1. MaxSeq \in Nat /\ MaxSeq > 0
  BY KtpAssumption
<1>2. CASE p <= q
  <2>1. Distance(p, q) = q - p
    BY <1>1, <1>2 DEF Distance
  <2> QED
    BY <1>1, <1>2, <2>1 DEF Ahead
<1>3. CASE p > q
  <2>1. Distance(p, q) = q - p + MaxSeq
    BY <1>1, <1>3 DEF Distance
  <2> QED
    BY <1>1, <1>3, <2>1 DEF Ahead
<1> QED
  BY <1>1, <1>2, <1>3

-----------------------------------------------------------------------------
(* Buffers *)

\* The search for a free slot finds one when there is one.
LEMMA FirstFreeSlot ==
  ASSUME NEW buf, HasFree(buf)
  PROVE  FirstFree(buf) \in Slots /\ buf[FirstFree(buf)].free
<1> DEFINE T == {s \in Slots : buf[s].free}
<1>1. T \subseteq Nat /\ T # {}
  BY DEF HasFree, Slots
<1>2. PICK s \in T : \A t \in T : s <= t
  BY <1>1, LeastNatural
<1>3. \E s_1 \in Slots : buf[s_1].free /\ \A t \in Slots : buf[t].free => s_1 <= t
  BY <1>2
<1> QED
  BY <1>3 DEF FirstFree

\* The search for the message to deliver finds one when there is one, and none
\* has a smaller number.
LEMMA OldestSlot ==
  ASSUME NEW buf \in [Slots -> SlotSet], \E s \in Slots : ~buf[s].free
  PROVE  /\ Oldest(buf) \in Slots /\ ~buf[Oldest(buf)].free
         /\ \A t \in Slots : ~buf[t].free => buf[Oldest(buf)].seq <= buf[t].seq
<1> DEFINE Busy == {s \in Slots : ~buf[s].free}
           Low  == {buf[s].seq : s \in Busy}
<1>1. Low \subseteq Nat /\ Low # {}
  BY DEF SlotSet, Seqs
<1>2. PICK q \in Low : \A r \in Low : q <= r
  BY <1>1, LeastNatural
<1> DEFINE T == {s \in Busy : buf[s].seq = q}
<1>3. T \subseteq Nat /\ T # {}
  BY <1>2 DEF Slots
<1>4. PICK s \in T : \A t \in T : s <= t
  BY <1>3, LeastNatural
<1>5. \A t \in Slots : ~buf[t].free =>
        buf[s].seq < buf[t].seq \/ (buf[s].seq = buf[t].seq /\ s <= t)
  <2> SUFFICES ASSUME NEW t \in Slots, ~buf[t].free
               PROVE  buf[s].seq < buf[t].seq
                      \/ (buf[s].seq = buf[t].seq /\ s <= t)
    OBVIOUS
  <2>1. buf[s].seq = q /\ buf[t].seq \in Low
    BY <1>4
  <2>2. q <= buf[t].seq /\ q \in Nat /\ buf[t].seq \in Nat
    BY <1>1, <1>2, <2>1
  <2>3. buf[s].seq = buf[t].seq => t \in T
    BY <2>1
  <2> QED
    BY <1>4, <2>1, <2>2, <2>3
<1>6. s \in Slots /\ ~buf[s].free
  BY <1>4
<1>7. /\ Oldest(buf) \in Slots /\ ~buf[Oldest(buf)].free
      /\ \A t \in Slots : ~buf[t].free =>
           \/ buf[Oldest(buf)].seq < buf[t].seq
           \/ buf[Oldest(buf)].seq = buf[t].seq /\ Oldest(buf) <= t
  BY <1>5, <1>6 DEF Oldest
<1>8. \A t \in Slots : buf[t].seq \in Nat
  BY KtpAssumption DEF SlotSet, Seqs
<1> HIDE DEF Busy, Low, T
<1> QED
  BY <1>7, <1>8

\* Slots are finitely many, W of them.
LEMMA SlotsFinite ==
  /\ IsFiniteSet(Slots) /\ Cardinality(Slots) = W
  /\ \A S \in SUBSET Slots : /\ IsFiniteSet(S)
                             /\ Cardinality(S) \in 0..W
<1>1. IsFiniteSet(Slots) /\ Cardinality(Slots) = W
  BY KtpAssumption, FS_Interval DEF Slots
<1>2. ASSUME NEW S \in SUBSET Slots
      PROVE  IsFiniteSet(S) /\ Cardinality(S) \in 0..W
  BY <1>1, FS_Subset, FS_CardinalityType, KtpAssumption
<1> QED
  BY <1>1, <1>2

-----------------------------------------------------------------------------
(* The queues *)

\* What is left of a sequence after a removal has the same kind of elements.
LEMMA RemoveAtType ==
  ASSUME NEW S, NEW s \in Seq(S), NEW n \in DOMAIN s
  PROVE  RemoveAt(s, n) \in Seq(S)
<1>1. n \in 1..Len(s) /\ Len(s) \in Nat
  BY LenProperties
<1>2. SubSeq(s, 1, n-1) \in Seq(S)
  BY <1>1, SubSeqProperties
<1>3. SubSeq(s, n+1, Len(s)) \in Seq(S)
  BY <1>1, SubSeqProperties
<1> QED
  BY <1>2, <1>3, ConcatProperties DEF RemoveAt

NetOK == net \in [Sock -> Seq(Datagram)]

\* Whatever R takes from a queue is a datagram, and what it sends back, if
\* made of datagrams, keeps the queues well formed.
LEMMA ExchangeType ==
  ASSUME NetOK, NEW i \in Sock, NEW n \in Arrivals(i)
  PROVE  /\ net[i][n] \in Datagram
         /\ \A ds \in Seq(Datagram) : Exchange(i, n, ds) => NetOK'
<1>1. n \in DOMAIN net[i] /\ net[i] \in Seq(Datagram)
  BY DEF Arrivals, NetOK
<1>2. net[i][n] \in Datagram
  BY <1>1, ElementOfSeq, LenProperties
<1>3. RemoveAt(net[i], n) \in Seq(Datagram)
  BY <1>1, RemoveAtType
<1>4. ASSUME NEW ds \in Seq(Datagram), Exchange(i, n, ds)
      PROVE  NetOK'
  <2>1. Peer[i] \in Sock /\ Peer[i] # i
    BY KtpAssumption
  <2>2. net[Peer[i]] \o ds \in Seq(Datagram)
    BY <2>1, ConcatProperties DEF NetOK
  <2> QED
    BY <1>3, <1>4, <2>1, <2>2 DEF Exchange, NetOK
<1> QED
  BY <1>2, <1>4

\* A batch of thread S, too.
LEMMA TransmitType ==
  ASSUME NetOK, NEW i \in Sock, NEW ds \in Seq(Datagram), Transmit(i, ds)
  PROVE  NetOK'
<1>1. Peer[i] \in Sock /\ net[Peer[i]] \o ds \in Seq(Datagram)
  BY KtpAssumption, ConcatProperties DEF NetOK
<1> QED
  BY <1>1 DEF Transmit, NetOK

\* The datagrams of a pass of thread S are well formed, those of numbers that
\* are not queued included.
LEMMA BatchType ==
  ASSUME TypeOK, NEW i \in Sock, NEW n \in 0 .. W+1, NEW ms \in Sweeps[n]
  PROVE  [k \in DOMAIN ms |-> DataFor(i, Place(i, ms[k]))] \in Seq(Datagram)
<1>1. PICK k \in Nat : ms \in [1..k -> 1..n]
  BY DEF Sweeps
<1>2. ASSUME NEW m \in 1..n PROVE DataFor(i, Place(i, m)) \in Datagram
  <2>1. Place(i, m) \in 1..MaxSeq
    <3>1. swnd_start[i] \in 1..MaxSeq
      BY DEF TypeOK
    <3>2. swnd_start[i] \in Nat /\ swnd_start[i] > 0 /\ m - 1 \in Nat
      BY <3>1, KtpAssumption
    <3> QED
      BY <3>2, RingType DEF Place
  <2>2. CASE Queued(i, Place(i, m))
    <3>1. swnd_index[i][Place(i, m)] \in Slots
      <4>1. Place(i, m) \in Seqs
        BY <2>1, KtpAssumption DEF Seqs
      <4>2. swnd_index[i][Place(i, m)] \in Slots \union {-1}
        BY <4>1 DEF TypeOK
      <4> QED
        BY <2>2, <4>2 DEF Queued
    <3>2. send_buffer[i][swnd_index[i][Place(i, m)]] \in SlotSet
      BY <3>1 DEF TypeOK
    <3> QED
      BY <2>2, <3>2 DEF DataFor, Data, Datagram, SlotSet
  <2>3. CASE ~Queued(i, Place(i, m))
    BY <2>3, KtpAssumption DEF DataFor, Data, Datagram, Seqs
  <2> QED
    BY <2>2, <2>3
<1>3. [j \in DOMAIN ms |-> DataFor(i, Place(i, ms[j]))] \in [1..k -> Datagram]
  BY <1>1, <1>2
<1> QED
  BY <1>3, IsASeq

-----------------------------------------------------------------------------
(* The invariant.  Type correctness needs the space accounting (the window   *)
(* is decremented only when a slot is free) and the accounting needs types.  *)

IInv == TypeOK /\ SpaceAccounting /\ TakenIsBuffered

FreeSlots(i) == {s \in Slots : recv_buffer[i][s].free}

\* A freshly initialized table satisfies the invariant.
LEMMA InitInv == Init => IInv
<1> SUFFICES ASSUME Init PROVE IInv
  OBVIOUS
<1>1. TypeOK
  <2>1. net \in [Sock -> Seq(Datagram)] /\ delivered \in [Sock -> Seq(Nat)]
    BY EmptySeq DEF Init
  <2>2. /\ 0 \in Seqs /\ 1 \in Seqs /\ W \in 0..W /\ 1 \in 1..MaxSeq
        /\ 1 \in 1..ClockWord /\ 0 \in Nat
    BY KtpAssumption DEF Seqs, ClockWord
  <2>3. Empty \in SlotSet
    BY <2>2 DEF Empty, SlotSet
  <2>4. /\ send_buffer \in [Sock -> [Slots -> SlotSet]]
        /\ recv_buffer \in [Sock -> [Slots -> SlotSet]]
    BY <2>3 DEF Init
  <2>5. /\ swnd_index \in [Sock -> [Seqs -> Slots \union {-1}]]
        /\ rwnd_index \in [Sock -> [Seqs -> Slots \union {-1}]]
        /\ rwnd_valid \in [Sock -> [Seqs -> BOOLEAN]]
        /\ sent \in [Sock -> [Slots -> BOOLEAN]]
    BY DEF Init
  <2> QED
    BY <2>1, <2>2, <2>4, <2>5 DEF Init, TypeOK
<1>2. SpaceAccounting
  <2> SUFFICES ASSUME NEW i \in Sock
               PROVE  rwnd_size[i] = Cardinality(FreeSlots(i))
    BY DEF SpaceAccounting, FreeSlots
  <2>1. FreeSlots(i) = Slots
    BY DEF Init, FreeSlots, Empty
  <2> QED
    BY <2>1, SlotsFinite DEF Init
<1>3. TakenIsBuffered
  BY DEF Init, TakenIsBuffered, Seqs
<1> QED
  BY <1>1, <1>2, <1>3 DEF IInv

\* A busy slot is filled, a free one emptied: the free slots are counted.
LEMMA FreeCount ==
  ASSUME NEW i \in Sock
  PROVE  /\ IsFiniteSet(FreeSlots(i)) /\ Cardinality(FreeSlots(i)) \in 0..W
         /\ \A s \in Slots : recv_buffer[i][s].free =>
              /\ Cardinality(FreeSlots(i)) > 0
              /\ Cardinality(FreeSlots(i) \ {s}) = Cardinality(FreeSlots(i)) - 1
         /\ \A s \in Slots : ~recv_buffer[i][s].free =>
              /\ Cardinality(FreeSlots(i)) < W
              /\ Cardinality(FreeSlots(i) \union {s})
                   = Cardinality(FreeSlots(i)) + 1
<1>1. FreeSlots(i) \in SUBSET Slots
  BY DEF FreeSlots
<1>2. IsFiniteSet(FreeSlots(i)) /\ Cardinality(FreeSlots(i)) \in 0..W
  BY <1>1, SlotsFinite
<1>3. ASSUME NEW s \in Slots, recv_buffer[i][s].free
      PROVE  /\ Cardinality(FreeSlots(i)) > 0
             /\ Cardinality(FreeSlots(i) \ {s}) = Cardinality(FreeSlots(i)) - 1
  <2>1. s \in FreeSlots(i)
    BY <1>3 DEF FreeSlots
  <2>2. Cardinality(FreeSlots(i) \ {s}) = Cardinality(FreeSlots(i)) - 1
    BY <1>2, <2>1, FS_RemoveElement
  <2>3. Cardinality(FreeSlots(i)) # 0
    BY <1>2, <2>1, FS_EmptySet
  <2> QED
    BY <1>2, <2>2, <2>3, KtpAssumption
<1>4. ASSUME NEW s \in Slots, ~recv_buffer[i][s].free
      PROVE  /\ Cardinality(FreeSlots(i)) < W
             /\ Cardinality(FreeSlots(i) \union {s})
                  = Cardinality(FreeSlots(i)) + 1
  <2>1. s \notin FreeSlots(i)
    BY <1>4 DEF FreeSlots
  <2>2. Cardinality(FreeSlots(i) \union {s}) = Cardinality(FreeSlots(i)) + 1
    BY <1>2, <2>1, FS_AddElement
  <2>3. (FreeSlots(i) \union {s}) \in SUBSET Slots
    BY <1>1
  <2>4. Cardinality(FreeSlots(i) \union {s}) \in 0..W
    BY <2>3, SlotsFinite
  <2> QED
    BY <1>2, <2>2, <2>4, KtpAssumption
<1> QED
  BY <1>2, <1>3, <1>4

-----------------------------------------------------------------------------
(* One lemma per action *)

\* An action that leaves the receive buffers, their indices, flags and sizes
\* alone keeps what the invariant says of them.
LEMMA ReceiverUntouched ==
  ASSUME SpaceAccounting, TakenIsBuffered,
         UNCHANGED <<recv_buffer, rwnd_size, rwnd_valid>>
  PROVE  SpaceAccounting' /\ TakenIsBuffered'
<1>1. \A i \in Sock : FreeSlots(i)' = FreeSlots(i)
  BY DEF FreeSlots
<1>2. SpaceAccounting'
  <2> SUFFICES ASSUME NEW i \in Sock
               PROVE  rwnd_size'[i] = Cardinality(FreeSlots(i)')
    BY DEF SpaceAccounting, FreeSlots
  <2>1. rwnd_size[i] = Cardinality(FreeSlots(i))
    BY DEF SpaceAccounting, FreeSlots
  <2> QED
    BY <1>1, <2>1
<1>3. TakenIsBuffered'
  BY DEF TakenIsBuffered
<1> QED
  BY <1>2, <1>3

\* k_sendto fills a slot of the send buffer only.
LEMMA k_sendtoInv ==
  ASSUME IInv, NEW i \in Sock, k_sendto(i)
  PROVE  IInv'
<1> DEFINE s == FirstFree(send_buffer[i])
           q == max_seq_number_yet[i]
<1>1. s \in Slots
  BY FirstFreeSlot DEF k_sendto
<1>2. q \in Seqs /\ After(q) \in Seqs
  <2>1. q \in 0..MaxSeq
    BY DEF IInv, TypeOK, Seqs
  <2>2. q \in Nat
    BY <2>1, KtpAssumption
  <2>3. After(q) \in 1..MaxSeq
    BY <2>2, RingType
  <2> QED
    BY <2>1, <2>3, KtpAssumption DEF Seqs
<1>3. accepted[i] + 1 \in Nat
  BY DEF IInv, TypeOK
<1>4. Message(q, accepted[i] + 1) \in SlotSet
  BY <1>2, <1>3 DEF Message, SlotSet
<1>5. TypeOK'
  BY <1>1, <1>2, <1>3, <1>4 DEF IInv, TypeOK, k_sendto, recvVars
<1>6. SpaceAccounting' /\ TakenIsBuffered'
  BY ReceiverUntouched DEF IInv, k_sendto, recvVars
<1> QED
  BY <1>5, <1>6 DEF IInv

\* k_recvfrom frees one slot, adds one to the window and raises the flag of the
\* message it returns.
LEMMA k_recvfromInv ==
  ASSUME IInv, NEW i \in Sock, k_recvfrom(i)
  PROVE  IInv'
<1> DEFINE s == Oldest(recv_buffer[i])
           m == recv_buffer[i][s]
<1> USE DEF IInv
<1>1. s \in Slots /\ ~m.free /\ m \in SlotSet
  <2>1. recv_buffer[i] \in [Slots -> SlotSet]
    BY DEF TypeOK
  <2>2. \E t \in Slots : ~recv_buffer[i][t].free
    BY DEF k_recvfrom
  <2>3. s \in Slots /\ ~m.free
    BY <2>1, <2>2, OldestSlot
  <2> QED
    BY <2>1, <2>3
<1>2. m.seq \in Seqs /\ m.body \in Nat /\ Empty \in SlotSet
  BY <1>1, KtpAssumption DEF SlotSet, Empty, Seqs
<1>3. /\ Cardinality(FreeSlots(i)) \in 0..W
      /\ Cardinality(FreeSlots(i)) < W
      /\ Cardinality(FreeSlots(i) \union {s}) = Cardinality(FreeSlots(i)) + 1
  BY <1>1, FreeCount
<1>4. /\ recv_buffer' = [recv_buffer EXCEPT ![i][s] = Empty]
      /\ rwnd_index' = [rwnd_index EXCEPT ![i][m.seq] = -1]
      /\ rwnd_valid' = [rwnd_valid EXCEPT ![i][m.seq] = TRUE]
      /\ delivered' = [delivered EXCEPT ![i] = Append(@, m.body)]
  BY DEF k_recvfrom
<1>5. rwnd_size[i] = Cardinality(FreeSlots(i))
  BY DEF SpaceAccounting, FreeSlots
<1>6. rwnd_size' = [rwnd_size EXCEPT ![i] = Cardinality(FreeSlots(i)) + 1]
  <2>1. ~(rwnd_size[i] + 1 > W)
    BY <1>3, <1>5, KtpAssumption
  <2>2. rwnd_size' = [rwnd_size EXCEPT ![i] =
                        IF rwnd_size[i] + 1 > W THEN W ELSE rwnd_size[i] + 1]
    BY DEF k_recvfrom
  <2> QED
    BY <1>5, <2>1, <2>2
<1>7. TypeOK'
  <2>1. delivered' \in [Sock -> Seq(Nat)]
    <3>1. Append(delivered[i], m.body) \in Seq(Nat)
      BY <1>2, AppendProperties DEF TypeOK
    <3> QED
      BY <1>4, <3>1 DEF TypeOK
  <2>2. rwnd_size' \in [Sock -> 0..W]
    BY <1>3, <1>6, KtpAssumption DEF TypeOK
  <2>3. recv_buffer' \in [Sock -> [Slots -> SlotSet]]
    BY <1>1, <1>2, <1>4 DEF TypeOK
  <2>4. rwnd_index' \in [Sock -> [Seqs -> Slots \union {-1}]]
    BY <1>2, <1>4 DEF TypeOK
  <2>5. rwnd_valid' \in [Sock -> [Seqs -> BOOLEAN]]
    BY <1>2, <1>4 DEF TypeOK
  <2> QED
    BY <2>1, <2>2, <2>3, <2>4, <2>5 DEF TypeOK, k_recvfrom, sendVars
<1>8. SpaceAccounting'
  <2> SUFFICES ASSUME NEW j \in Sock
               PROVE  rwnd_size'[j] = Cardinality(FreeSlots(j)')
    BY DEF SpaceAccounting, FreeSlots
  <2>1. CASE j = i
    <3>1. FreeSlots(i)' = FreeSlots(i) \union {s}
      BY <1>1, <1>4 DEF FreeSlots, Empty, TypeOK
    <3> QED
      BY <1>3, <1>6, <2>1, <3>1 DEF TypeOK
  <2>2. CASE j # i
    <3>1. FreeSlots(j)' = FreeSlots(j) /\ rwnd_size'[j] = rwnd_size[j]
      BY <1>4, <1>6, <2>2 DEF FreeSlots, TypeOK
    <3> QED
      BY <3>1 DEF SpaceAccounting, FreeSlots
  <2> QED
    BY <2>1, <2>2
<1>9. TakenIsBuffered'
  <2> SUFFICES ASSUME NEW j \in Sock, NEW q \in 1..MaxSeq, ~rwnd_valid'[j][q]
               PROVE  \E t \in Slots : /\ ~recv_buffer'[j][t].free
                                       /\ recv_buffer'[j][t].seq = q
    BY DEF TakenIsBuffered
  <2>1. q \in Seqs
    BY DEF Seqs
  <2>2. ~rwnd_valid[j][q] /\ (j = i => q # m.seq)
    BY <1>2, <1>4, <2>1 DEF TypeOK
  <2>3. PICK t \in Slots : ~recv_buffer[j][t].free /\ recv_buffer[j][t].seq = q
    BY <2>2 DEF TakenIsBuffered
  <2>4. j = i => t # s
    BY <2>2, <2>3
  <2> QED
    BY <1>1, <1>4, <2>3, <2>4 DEF TypeOK
<1> QED
  BY <1>7, <1>8, <1>9

\* First transmissions touch the send times and the network only.
LEMMA S_SendInv ==
  ASSUME IInv, NEW i \in Sock, S_Send(i)
  PROVE  IInv'
<1> USE DEF IInv
<1>1. swnd_size[i] + 1 \in 0 .. W+1
  BY KtpAssumption DEF TypeOK
<1>2. PICK ms \in Sweeps[swnd_size[i] + 1] :
        /\ Transmit(i, [n \in DOMAIN ms |-> DataFor(i, Place(i, ms[n]))])
        /\ MarkSent(i, ms)
  BY DEF S_Send
<1>3. NetOK'
  <2>1. [n \in DOMAIN ms |-> DataFor(i, Place(i, ms[n]))] \in Seq(Datagram)
    BY <1>1, BatchType
  <2>2. NetOK
    BY DEF TypeOK, NetOK
  <2> QED
    BY <1>2, <2>1, <2>2, TransmitType
<1>4. sent' \in [Sock -> [Slots -> BOOLEAN]]
  BY <1>2 DEF MarkSent, TypeOK
<1>5. TypeOK'
  BY <1>3, <1>4 DEF TypeOK, NetOK, S_Send, recvVars
<1>6. SpaceAccounting' /\ TakenIsBuffered'
  BY ReceiverUntouched DEF S_Send, recvVars
<1> QED
  BY <1>5, <1>6

\* A retransmission may overwrite rwnd.start_sequence and the counter of
\* k_sendto, with values the type invariant allows.
LEMMA S_RetransmitInv ==
  ASSUME IInv, NEW i \in Sock, S_Retransmit(i)
  PROVE  IInv'
<1> USE DEF IInv
<1>1. swnd_size[i] \in 0 .. W+1
  BY KtpAssumption DEF TypeOK
<1>2. PICK ms \in Sweeps[swnd_size[i]] :
        /\ Transmit(i, [n \in DOMAIN ms |-> DataFor(i, Place(i, ms[n]))])
        /\ MarkSent(i, ms)
  BY DEF S_Retransmit
<1>3. NetOK'
  <2>1. [n \in DOMAIN ms |-> DataFor(i, Place(i, ms[n]))] \in Seq(Datagram)
    BY <1>1, BatchType
  <2>2. NetOK
    BY DEF TypeOK, NetOK
  <2> QED
    BY <1>2, <2>1, <2>2, TransmitType
<1>4. sent' \in [Sock -> [Slots -> BOOLEAN]]
  BY <1>2 DEF MarkSent, TypeOK
<1>5. /\ max_seq_number_yet' \in [Sock -> Seqs]
      /\ rwnd_start' \in [Sock -> 1..ClockWord]
  <2>1. 0 \in Seqs /\ ClockWord \in 1..ClockWord
    BY KtpAssumption DEF Seqs, ClockWord
  <2> QED
    BY <2>1 DEF S_Retransmit, TypeOK
<1>6. TypeOK'
  BY <1>3, <1>4, <1>5 DEF TypeOK, NetOK, S_Retransmit
<1>7. SpaceAccounting' /\ TakenIsBuffered'
  BY ReceiverUntouched DEF S_Retransmit
<1> QED
  BY <1>6, <1>7

\* An acknowledgement clears slots of the send buffer and moves its window.
LEMMA R_AckInv ==
  ASSUME IInv, NEW i \in Sock, R_Ack(i)
  PROVE  IInv'
<1> USE DEF IInv
<1> DEFINE freed(n) == Released(i, net[i][n].seq)
           slots(n) == {swnd_index[i][q] : q \in freed(n)}
<1>1. PICK n \in Arrivals(i) :
        /\ ValidAck(net[i][n])
        /\ swnd_size' = [swnd_size EXCEPT ![i] = net[i][n].arg]
        /\ last_ack_received' = [last_ack_received EXCEPT
                                   ![i] = LastAck(i, net[i][n].seq)]
        /\ send_buffer' = [send_buffer EXCEPT ![i] =
             [s \in Slots |-> IF s \in slots(n) THEN Empty ELSE @[s]]]
        /\ sent' = [sent EXCEPT ![i] =
             [s \in Slots |-> @[s] /\ s \notin slots(n)]]
        /\ swnd_index' = [swnd_index EXCEPT ![i] =
             [q \in Seqs |-> IF q \in freed(n) THEN -1 ELSE @[q]]]
        /\ swnd_start' = [swnd_start EXCEPT
                            ![i] = After(LastAck(i, net[i][n].seq))]
        /\ Exchange(i, n, <<>>)
        /\ UNCHANGED <<max_seq_number_yet, accepted, recvVars, losses, halted>>
  BY DEF R_Ack
<1>2. LastAck(i, net[i][n].seq) \in Seqs
  <2>1. net[i][n].seq \in Seqs
    BY <1>1, KtpAssumption DEF ValidAck, Seqs
  <2>2. last_ack_received[i] \in Seqs
    BY DEF TypeOK
  <2> QED
    BY <2>1, <2>2 DEF LastAck
<1>3. After(LastAck(i, net[i][n].seq)) \in 1..MaxSeq
  BY <1>2, RingType, KtpAssumption DEF Seqs
<1>4. net[i][n].arg \in 0..W
  BY <1>1 DEF ValidAck
<1>5. NetOK'
  BY <1>1, ExchangeType, EmptySeq DEF TypeOK, NetOK
<1>6. send_buffer' \in [Sock -> [Slots -> SlotSet]]
  <2>1. Empty \in SlotSet
    BY KtpAssumption DEF Empty, SlotSet, Seqs
  <2> QED
    BY <1>1, <2>1 DEF TypeOK
<1>7. sent' \in [Sock -> [Slots -> BOOLEAN]]
  BY <1>1 DEF TypeOK
<1>8. swnd_index' \in [Sock -> [Seqs -> Slots \union {-1}]]
  BY <1>1 DEF TypeOK
<1>9. TypeOK'
  BY <1>1, <1>2, <1>3, <1>4, <1>5, <1>6, <1>7, <1>8
     DEF TypeOK, NetOK, recvVars
<1>10. SpaceAccounting' /\ TakenIsBuffered'
  BY <1>1, ReceiverUntouched DEF recvVars
<1> QED
  BY <1>9, <1>10

\* The step that leaves the model changes nothing else.
LEMMA R_AckWildInv ==
  ASSUME IInv, NEW i \in Sock, R_AckWild(i)
  PROVE  IInv'
<1> USE DEF IInv
<1>1. TypeOK'
  BY DEF TypeOK, R_AckWild, sendVars, recvVars
<1>2. SpaceAccounting' /\ TakenIsBuffered'
  BY ReceiverUntouched DEF R_AckWild, recvVars
<1> QED
  BY <1>1, <1>2

\* The loop that advances start_sequence ends on the ring: fewer flags are
\* down than there are sequence numbers.
LEMMA NextExpectedType ==
  ASSUME NEW valid \in [Seqs -> BOOLEAN], NEW buf, NEW q \in 1..MaxSeq,
         \A p \in 1..MaxSeq : ~valid[p] => \E s \in Slots : buf[s].seq = p
  PROVE  NextExpected(valid, q) \in 1..MaxSeq
<1> DEFINE open == {k \in 0 .. MaxSeq-1 : valid[Ahead(q, k)]}
<1>1. \E p \in 1..MaxSeq : valid[p]
  <2> SUFFICES ASSUME \A p \in 1..MaxSeq : ~valid[p] PROVE FALSE
    OBVIOUS
  <2> DEFINE f == [p \in 1..MaxSeq |-> CHOOSE s \in Slots : buf[s].seq = p]
  <2>1. \A p \in 1..MaxSeq : f[p] \in Slots /\ buf[f[p]].seq = p
    OBVIOUS
  <2>2. f \in [1..MaxSeq -> Slots]
    BY <2>1
  <2>3. IsFiniteSet(1..MaxSeq) /\ Cardinality(1..MaxSeq) = MaxSeq
    BY FS_Interval, KtpAssumption
  <2>4. Cardinality(Slots) < Cardinality(1..MaxSeq)
    BY <2>3, SlotsFinite, KtpAssumption
  <2>5. IsFiniteSet(Slots)
    BY SlotsFinite
  <2> DEFINE N == 1..MaxSeq
  <2>6. \E x, y \in N : x # y /\ f[x] = f[y]
    <3>1. f \in [N -> Slots] /\ IsFiniteSet(N)
          /\ Cardinality(Slots) < Cardinality(N)
      BY <2>2, <2>3, <2>4
    <3> HIDE DEF f, N
    <3> QED
      BY <2>5, <3>1, FS_PigeonHole
  <2> QED
    BY <2>1, <2>6
<1>2. PICK p \in 1..MaxSeq : valid[p]
  BY <1>1
<1>3. Distance(q, p) \in open
  <2>1. q \in 0..MaxSeq /\ p \in 0..MaxSeq
    BY KtpAssumption
  <2>2. Distance(q, p) \in 0 .. MaxSeq-1
    BY <2>1, RingType
  <2> QED
    BY <1>2, <2>2, RingRound
<1>4. open \subseteq Nat /\ open # {}
  BY <1>3, KtpAssumption
<1>5. \E k \in open : \A l \in open : k <= l
  BY <1>4, LeastNatural
<1>6. (CHOOSE k \in open : \A l \in open : k <= l) \in Nat
  BY <1>4, <1>5
<1>7. q \in Nat /\ q > 0
  BY KtpAssumption
<1> HIDE DEF open
<1>8. Ahead(q, CHOOSE k \in open : \A l \in open : k <= l) \in 1..MaxSeq
  BY <1>6, <1>7, RingType
<1> QED
  BY <1>8 DEF NextExpected, open

\* One more message in a slot that was free, one unit less of window.
LEMMA StoreInv ==
  ASSUME TypeOK, SpaceAccounting, NEW i \in Sock, NEW s \in Slots,
         recv_buffer[i][s].free, NEW d \in Datagram,
         Store(i, s, d), TakeSpace(i)
  PROVE  /\ recv_buffer' \in [Sock -> [Slots -> SlotSet]]
         /\ rwnd_index' \in [Sock -> [Seqs -> Slots \union {-1}]]
         /\ rwnd_size' \in [Sock -> 0..W]
         /\ no_space' \in [Sock -> BOOLEAN]
         /\ SpaceAccounting'
         /\ \A j \in Sock, t \in Slots : ~recv_buffer[j][t].free =>
              recv_buffer'[j][t] = recv_buffer[j][t]
         /\ ~recv_buffer'[i][s].free /\ recv_buffer'[i][s].seq = d.seq
<1>1. d.seq \in Seqs /\ d.arg \in Nat
  BY DEF Datagram
<1>2. Message(d.seq, d.arg) \in SlotSet
  BY <1>1 DEF Message, SlotSet
<1>3. recv_buffer' = [recv_buffer EXCEPT ![i][s] = Message(d.seq, d.arg)]
  BY DEF Store
<1>4. recv_buffer' \in [Sock -> [Slots -> SlotSet]]
  BY <1>2, <1>3 DEF TypeOK
<1>5. rwnd_index' \in [Sock -> [Seqs -> Slots \union {-1}]]
  BY <1>1 DEF Store, TypeOK
<1>6. /\ Cardinality(FreeSlots(i)) \in 0..W
      /\ Cardinality(FreeSlots(i)) > 0
      /\ Cardinality(FreeSlots(i) \ {s}) = Cardinality(FreeSlots(i)) - 1
  BY FreeCount
<1>7. rwnd_size[i] = Cardinality(FreeSlots(i))
  BY DEF SpaceAccounting, FreeSlots
<1>8. rwnd_size' = [rwnd_size EXCEPT ![i] = Cardinality(FreeSlots(i)) - 1]
  BY <1>7 DEF TakeSpace
<1>9. rwnd_size' \in [Sock -> 0..W]
  <2>1. Cardinality(FreeSlots(i)) - 1 \in 0..W
    BY <1>6, KtpAssumption
  <2> QED
    BY <1>8, <2>1 DEF TypeOK
<1>10. no_space' \in [Sock -> BOOLEAN]
  BY DEF TakeSpace, TypeOK
<1>11. SpaceAccounting'
  <2> SUFFICES ASSUME NEW j \in Sock
               PROVE  rwnd_size'[j] = Cardinality(FreeSlots(j)')
    BY DEF SpaceAccounting, FreeSlots
  <2>1. CASE j = i
    <3>1. FreeSlots(i)' = FreeSlots(i) \ {s}
      BY <1>3 DEF FreeSlots, Message, TypeOK
    <3> QED
      BY <1>6, <1>8, <2>1, <3>1 DEF TypeOK
  <2>2. CASE j # i
    <3>1. FreeSlots(j)' = FreeSlots(j) /\ rwnd_size'[j] = rwnd_size[j]
      BY <1>3, <1>8, <2>2 DEF FreeSlots, TypeOK
    <3> QED
      BY <3>1 DEF SpaceAccounting, FreeSlots
  <2> QED
    BY <2>1, <2>2
<1>12. \A j \in Sock, t \in Slots : ~recv_buffer[j][t].free =>
         recv_buffer'[j][t] = recv_buffer[j][t]
  BY <1>3 DEF TypeOK
<1>13. ~recv_buffer'[i][s].free /\ recv_buffer'[i][s].seq = d.seq
  BY <1>3 DEF Message, TypeOK
<1> QED
  BY <1>4, <1>5, <1>9, <1>10, <1>11, <1>12, <1>13

\* A message is taken in order only when a slot is free.
LEMMA RoomLeft ==
  ASSUME TypeOK, SpaceAccounting, NEW i \in Sock, NEW d, InOrder(i, d)
  PROVE  HasFree(recv_buffer[i])
<1>1. rwnd_size[i] > 0 /\ rwnd_size[i] = Cardinality(FreeSlots(i))
  BY DEF InOrder, SpaceAccounting, FreeSlots
<1>2. FreeSlots(i) # {}
  BY <1>1, FS_EmptySet
<1> QED
  BY <1>2 DEF HasFree, FreeSlots

\* The message that is next is stored, takes one unit of the window and moves
\* the start of the window over everything already taken.
LEMMA R_DataInOrderInv ==
  ASSUME IInv, NEW i \in Sock, R_DataInOrder(i)
  PROVE  IInv'
<1> USE DEF IInv
<1> DEFINE d(n)     == net[i][n]
           s        == FirstFree(recv_buffer[i])
           valid(n) == [rwnd_valid[i] EXCEPT ![d(n).seq] = FALSE]
           ack(n)   == <<Ack(d(n).seq, rwnd_size[i] - 1)>>
           acks(n)  == IF \E t \in Slots : recv_buffer[i][t].seq = d(n).seq
                         THEN <<Ack(d(n).seq, rwnd_size[i])>> \o ack(n)
                         ELSE ack(n)
<1>1. PICK n \in Arrivals(i) :
        /\ InOrder(i, d(n))
        /\ last_ack_received' = [last_ack_received EXCEPT ![i] = d(n).seq]
        /\ IF HasFree(recv_buffer[i])
             THEN Store(i, s, d(n))
             ELSE UNCHANGED <<recv_buffer, rwnd_index>>
        /\ TakeSpace(i)
        /\ rwnd_valid' = [rwnd_valid EXCEPT ![i] = valid(n)]
        /\ rwnd_start' = [rwnd_start EXCEPT
                            ![i] = NextExpected(valid(n), d(n).seq)]
        /\ Exchange(i, n, acks(n))
        /\ UNCHANGED <<sendVars, delivered, losses, halted>>
  BY DEF R_DataInOrder
<1> DEFINE q == d(n).seq
<1>2. q \in 1..MaxSeq /\ q \in Seqs /\ d(n) \in Datagram
  <2>1. q \in 1..MaxSeq
    BY <1>1 DEF InOrder
  <2>2. NetOK
    BY DEF TypeOK, NetOK
  <2> QED
    BY <2>1, <2>2, ExchangeType, KtpAssumption DEF Seqs
<1>3. HasFree(recv_buffer[i])
  BY <1>1, RoomLeft
<1>4. s \in Slots /\ recv_buffer[i][s].free
  BY <1>3, FirstFreeSlot
<1>5. Store(i, s, d(n)) /\ TakeSpace(i)
  BY <1>1, <1>3
<1> HIDE DEF s
<1>6. /\ recv_buffer' \in [Sock -> [Slots -> SlotSet]]
      /\ rwnd_index' \in [Sock -> [Seqs -> Slots \union {-1}]]
      /\ rwnd_size' \in [Sock -> 0..W]
      /\ no_space' \in [Sock -> BOOLEAN]
      /\ SpaceAccounting'
      /\ \A j \in Sock, t \in Slots : ~recv_buffer[j][t].free =>
           recv_buffer'[j][t] = recv_buffer[j][t]
      /\ ~recv_buffer'[i][s].free /\ recv_buffer'[i][s].seq = q
  BY <1>2, <1>4, <1>5, StoreInv
<1>7. valid(n) \in [Seqs -> BOOLEAN] /\ rwnd_valid' \in [Sock -> [Seqs -> BOOLEAN]]
  BY <1>1, <1>2 DEF TypeOK
<1>8. TakenIsBuffered'
  <2> SUFFICES ASSUME NEW j \in Sock, NEW p \in 1..MaxSeq, ~rwnd_valid'[j][p]
               PROVE  \E t \in Slots : /\ ~recv_buffer'[j][t].free
                                       /\ recv_buffer'[j][t].seq = p
    BY DEF TakenIsBuffered
  <2>1. CASE j = i /\ p = q
    BY <1>4, <1>6, <2>1
  <2>2. CASE ~(j = i /\ p = q)
    <3>1. p \in Seqs
      BY KtpAssumption DEF Seqs
    <3>2. ~rwnd_valid[j][p]
      BY <1>1, <1>2, <2>2, <3>1 DEF TypeOK
    <3>3. PICK t \in Slots : /\ ~recv_buffer[j][t].free
                             /\ recv_buffer[j][t].seq = p
      BY <3>2 DEF TakenIsBuffered
    <3> QED
      BY <1>6, <3>3
  <2> QED
    BY <2>1, <2>2
<1>9. rwnd_start' \in [Sock -> 1..ClockWord]
  <2>1. \A p \in 1..MaxSeq : ~valid(n)[p] =>
          \E t \in Slots : recv_buffer'[i][t].seq = p
    <3>1. rwnd_valid'[i] = valid(n)
      BY <1>1 DEF TypeOK
    <3>2. \A p \in 1..MaxSeq : ~rwnd_valid'[i][p] =>
            \E t \in Slots : recv_buffer'[i][t].seq = p
      BY <1>8 DEF TakenIsBuffered
    <3> QED
      BY <3>1, <3>2
  <2>2. NextExpected(valid(n), q) \in 1..MaxSeq
    <3> DEFINE v == valid(n)
               b == recv_buffer'[i]
    <3>1. v \in [Seqs -> BOOLEAN] /\ q \in 1..MaxSeq
      BY <1>2, <1>7
    <3>2. \A p \in 1..MaxSeq : ~v[p] => \E t \in Slots : b[t].seq = p
      BY <2>1
    <3> HIDE DEF v, b, q
    <3>3. NextExpected(v, q) \in 1..MaxSeq
      BY <3>1, <3>2, NextExpectedType
    <3> QED
      BY <3>3 DEF v
  <2> HIDE DEF valid
  <2>3. NextExpected(valid(n), q) \in 1..ClockWord
    BY <2>2, KtpAssumption DEF ClockWord
  <2> QED
    BY <1>1, <2>3 DEF TypeOK
<1>10. NetOK'
  <2>1. rwnd_size[i] \in Nat /\ rwnd_size[i] - 1 \in Nat
    BY <1>1, KtpAssumption DEF InOrder, TypeOK
  <2>2. Ack(q, rwnd_size[i]) \in Datagram /\ Ack(q, rwnd_size[i] - 1) \in Datagram
    BY <1>2, <2>1 DEF Ack, Datagram
  <2>3. ack(n) \in Seq(Datagram) /\ <<Ack(q, rwnd_size[i])>> \in Seq(Datagram)
    BY <2>2
  <2>4. acks(n) \in Seq(Datagram)
    BY <2>3, ConcatProperties
  <2>5. NetOK
    BY DEF TypeOK, NetOK
  <2> HIDE DEF acks
  <2> QED
    BY <1>1, <2>4, <2>5, ExchangeType
<1>11. last_ack_received' \in [Sock -> Seqs]
  BY <1>1, <1>2 DEF TypeOK
<1>12. TypeOK'
  BY <1>1, <1>6, <1>7, <1>9, <1>10, <1>11 DEF TypeOK, NetOK, sendVars
<1> QED
  BY <1>6, <1>8, <1>12

\* The slot of an early message is within the buffer, and free.
LEMMA EarlySlotFree ==
  ASSUME TypeOK, NEW i \in Sock, NEW d \in Datagram, Early(i, d)
  PROVE  EarlySlot(i, d) \in Slots /\ recv_buffer[i][EarlySlot(i, d)].free
<1>1. d.seq \in 0..MaxSeq /\ rwnd_start[i] \in 1..ClockWord
  BY DEF Datagram, Seqs, TypeOK
<1>2. After(d.seq) \in 1..MaxSeq
  <2>1. d.seq \in Nat
    BY <1>1, KtpAssumption
  <2> QED
    BY <2>1, RingType
<1>3. rwnd_start[i] \in 0..MaxSeq
  BY <1>1, <1>2, KtpAssumption DEF ClockWord, Early
<1>4. rwnd_index[i][rwnd_start[i]] \in Int
  <2>1. rwnd_start[i] \in Seqs
    BY <1>3 DEF Seqs
  <2>2. rwnd_index[i][rwnd_start[i]] \in Slots \union {-1}
    BY <2>1 DEF TypeOK
  <2> QED
    BY <2>2 DEF Slots
<1>5. Distance(rwnd_start[i], d.seq) \in Int
  <2>1. Distance(rwnd_start[i], d.seq) \in 0 .. MaxSeq-1
    BY <1>1, <1>3, RingType
  <2> QED
    BY <2>1, KtpAssumption
<1>6. EarlySlot(i, d) \in Slots
  BY <1>4, <1>5, KtpAssumption DEF EarlySlot, Slots
<1> QED
  BY <1>6 DEF Early, SlotFree

\* An early message is stored in a slot that was free; its flag stays up.
LEMMA R_DataOutOfOrderInv ==
  ASSUME IInv, NEW i \in Sock, R_DataOutOfOrder(i)
  PROVE  IInv'
<1> USE DEF IInv
<1> DEFINE d(n) == net[i][n]
<1>1. PICK n \in Arrivals(i) :
        /\ Early(i, d(n))
        /\ Store(i, EarlySlot(i, d(n)), d(n))
        /\ TakeSpace(i)
        /\ Exchange(i, n, <<>>)
        /\ UNCHANGED <<sendVars, rwnd_valid, rwnd_start, delivered,
                       last_ack_received, losses, halted>>
  BY DEF R_DataOutOfOrder
<1> DEFINE s == EarlySlot(i, d(n))
<1>2. NetOK
  BY DEF TypeOK, NetOK
<1>3. d(n) \in Datagram
  BY <1>2, ExchangeType
<1>4. s \in Slots /\ recv_buffer[i][s].free
  BY <1>1, <1>3, EarlySlotFree
<1> HIDE DEF s
<1>5. /\ recv_buffer' \in [Sock -> [Slots -> SlotSet]]
      /\ rwnd_index' \in [Sock -> [Seqs -> Slots \union {-1}]]
      /\ rwnd_size' \in [Sock -> 0..W]
      /\ no_space' \in [Sock -> BOOLEAN]
      /\ SpaceAccounting'
      /\ \A j \in Sock, t \in Slots : ~recv_buffer[j][t].free =>
           recv_buffer'[j][t] = recv_buffer[j][t]
  <2>1. Store(i, s, d(n)) /\ TakeSpace(i)
    BY <1>1 DEF s
  <2> QED
    BY <1>3, <1>4, <2>1, StoreInv
<1>6. TakenIsBuffered'
  <2> SUFFICES ASSUME NEW j \in Sock, NEW p \in 1..MaxSeq, ~rwnd_valid'[j][p]
               PROVE  \E t \in Slots : /\ ~recv_buffer'[j][t].free
                                       /\ recv_buffer'[j][t].seq = p
    BY DEF TakenIsBuffered
  <2>1. ~rwnd_valid[j][p]
    BY <1>1
  <2>2. PICK t \in Slots : ~recv_buffer[j][t].free /\ recv_buffer[j][t].seq = p
    BY <2>1 DEF TakenIsBuffered
  <2> QED
    BY <1>5, <2>2
<1>7. NetOK'
  BY <1>1, <1>2, ExchangeType, EmptySeq
<1>8. TypeOK'
  BY <1>1, <1>5, <1>7 DEF TypeOK, NetOK, sendVars
<1> QED
  BY <1>5, <1>6, <1>8

\* Discarded and lost datagrams and window updates leave the buffers alone.
LEMMA NetworkInv ==
  ASSUME IInv, NEW i \in Sock,
         R_Discard(i) \/ R_WindowUpdate(i) \/ Lose(i)
  PROVE  IInv'
<1> USE DEF IInv
<1>1. NetOK
  BY DEF TypeOK, NetOK
<1>2. CASE R_Discard(i)
  <2>1. NetOK'
    BY <1>1, <1>2, ExchangeType, EmptySeq DEF R_Discard
  <2>2. TypeOK'
    BY <1>2, <2>1 DEF R_Discard, TypeOK, NetOK, sendVars, recvVars
  <2> QED
    BY <1>2, <2>2, ReceiverUntouched DEF R_Discard, recvVars
<1>3. CASE R_WindowUpdate(i)
  <2>1. last_ack_received[i] \in Seqs /\ rwnd_size[i] \in Nat
    BY KtpAssumption DEF TypeOK
  <2>2. Ack(last_ack_received[i], rwnd_size[i]) \in Datagram
    BY <2>1 DEF Ack, Datagram
  <2>3. Peer[i] \in Sock
    BY KtpAssumption
  <2>4. Append(net[Peer[i]], Ack(last_ack_received[i], rwnd_size[i]))
          \in Seq(Datagram)
    BY <1>1, <2>2, <2>3, AppendProperties DEF NetOK
  <2>5. NetOK'
    BY <1>1, <1>3, <2>4 DEF R_WindowUpdate, NetOK
  <2>6. TypeOK'
    BY <1>3, <2>5 DEF R_WindowUpdate, TypeOK, NetOK, sendVars
  <2> QED
    BY <1>3, <2>6, ReceiverUntouched DEF R_WindowUpdate
<1>4. CASE Lose(i)
  <2>1. NetOK'
    BY <1>1, <1>4, RemoveAtType DEF Lose, NetOK
  <2>2. TypeOK'
    BY <1>4, <2>1 DEF Lose, TypeOK, NetOK, sendVars, recvVars
  <2> QED
    BY <1>4, <2>2, ReceiverUntouched DEF Lose, recvVars
<1> QED
  BY <1>2, <1>3, <1>4

-----------------------------------------------------------------------------
(* Theorems *)

\* The invariant is inductive: every operation of the application, of the two
\* threads and of the network keeps it.
THEOREM Invariance == Spec => []IInv
<1>1. IInv /\ [Next]_vars => IInv'
  <2> SUFFICES ASSUME IInv, [Next]_vars PROVE IInv'
    OBVIOUS
  <2>1. CASE UNCHANGED vars
    <3>1. TypeOK'
      BY <2>1 DEF IInv, TypeOK, vars, sendVars, recvVars
    <3> QED
      BY <2>1, <3>1, ReceiverUntouched DEF IInv, vars, recvVars
  <2>2. CASE Next
    <3>1. PICK i \in Sock : Step(i)
      BY <2>2 DEF Next
    <3> QED
      BY <3>1, k_sendtoInv, k_recvfromInv, S_SendInv, S_RetransmitInv,
         R_AckInv, R_AckWildInv, R_DataInOrderInv, R_DataOutOfOrderInv,
         NetworkInv DEF Step, R_Datagram
  <2> QED
    BY <2>1, <2>2
<1> QED
  BY InitInv, <1>1, PTL DEF Spec

\* Every field of a shared memory entry keeps its range.
THEOREM TypeCorrect == Spec => []TypeOK
BY Invariance, PTL DEF IInv

\* The window advertised is the space there is: rwnd.size counts the free slots
\* of the receive buffer in every reachable state.
THEOREM SpaceAccounted == Spec => []SpaceAccounting
BY Invariance, PTL DEF IInv

\* A flag is down only for a message in the buffer, so the loop of thread R
\* that advances start_sequence always ends.
THEOREM TakenBuffered == Spec => []TakenIsBuffered
BY Invariance, PTL DEF IInv

-----------------------------------------------------------------------------
(* The sending side: what is queued is a run of numbers without a hole from   *)
(* the start of the window on, also round the wrap, and the buffer and the     *)
(* index of the window agree on it.                                            *)

-----------------------------------------------------------------------------
(* The ring *)

\* Fewer than a round ahead, the numbers go on by one or begin again at 1.
LEMMA AheadNear ==
  ASSUME NEW p \in 1..MaxSeq, NEW n \in 0..MaxSeq
  PROVE  Ahead(p, n) = IF p + n <= MaxSeq THEN p + n ELSE p + n - MaxSeq
<1>1. MaxSeq \in Nat /\ MaxSeq > 0 /\ p \in Nat /\ n \in Nat
  BY KtpAssumption
<1>2. CASE p + n <= MaxSeq
  <2>1. p-1+n \in 0 .. MaxSeq-1
    BY <1>1, <1>2
  <2>2. (p-1+n) % MaxSeq = p-1+n
    BY <1>1, <2>1
  <2> QED
    BY <1>1, <1>2, <2>2 DEF Ahead
<1>3. CASE p + n > MaxSeq
  <2>1. p-1+n - MaxSeq \in 0 .. MaxSeq-1
    BY <1>1, <1>3
  <2>2. (p-1+n) % MaxSeq = p-1+n - MaxSeq
    BY <1>1, <2>1
  <2> QED
    BY <1>1, <1>3, <2>2 DEF Ahead
<1> QED
  BY <1>1, <1>2, <1>3

\* The number after the one n places ahead, and places ahead of places ahead.
LEMMA AheadNext ==
  ASSUME NEW p \in 1..MaxSeq, NEW n \in 0..MaxSeq-1
  PROVE  /\ Ahead(p, n) \in 1..MaxSeq
         /\ After(Ahead(p, n)) = Ahead(p, n+1)
<1>1. MaxSeq \in Nat /\ MaxSeq > 1
  BY KtpAssumption
<1> DEFINE a == Ahead(p, n)
<1>2. a = IF p + n <= MaxSeq THEN p + n ELSE p + n - MaxSeq
  BY <1>1, AheadNear
<1>3. Ahead(p, n+1) = IF p + (n+1) <= MaxSeq THEN p + (n+1) ELSE p + (n+1) - MaxSeq
  <2>1. n+1 \in 0..MaxSeq
    BY <1>1
  <2> QED
    BY <2>1, AheadNear
<1> HIDE DEF a
<1>4. a \in 1..MaxSeq
  BY <1>1, <1>2
<1>5. After(a) = IF a = MaxSeq THEN 1 ELSE a + 1
  <2>1. CASE a = MaxSeq
    BY <1>1, <2>1 DEF After
  <2>2. CASE a # MaxSeq
    <3>1. a % MaxSeq = a
      BY <1>1, <1>4, <2>2
    <3> QED
      BY <2>2, <3>1 DEF After
  <2> QED
    BY <2>1, <2>2
<1>6. After(a) = Ahead(p, n+1)
  BY <1>1, <1>2, <1>3, <1>5
<1> QED
  BY <1>4, <1>6 DEF a

LEMMA AheadAhead ==
  ASSUME NEW p \in 1..MaxSeq, NEW k \in 0..MaxSeq-1, NEW n \in 0..MaxSeq-1, k <= n
  PROVE  Ahead(Ahead(p, k), n-k) = Ahead(p, n)
<1>1. MaxSeq \in Nat /\ MaxSeq > 1
  BY KtpAssumption
<1> DEFINE a == Ahead(p, k)
<1>2. a \in 1..MaxSeq /\ a = IF p + k <= MaxSeq THEN p + k ELSE p + k - MaxSeq
  BY <1>1, AheadNear, AheadNext
<1>3. Ahead(p, n) = IF p + n <= MaxSeq THEN p + n ELSE p + n - MaxSeq
  BY <1>1, AheadNear
<1> HIDE DEF a
<1>4. n-k \in 0..MaxSeq
  BY <1>1
<1>5. Ahead(a, n-k) = IF a + (n-k) <= MaxSeq THEN a + (n-k) ELSE a + (n-k) - MaxSeq
  BY <1>2, <1>4, AheadNear
<1>6. Ahead(a, n-k) = Ahead(p, n)
  BY <1>1, <1>2, <1>3, <1>5
<1> QED
  BY <1>6 DEF a

\* Within one round no number comes twice.
LEMMA AheadDistinct ==
  ASSUME NEW p \in 1..MaxSeq, NEW k \in 0..MaxSeq-1, NEW n \in 0..MaxSeq-1,
         Ahead(p, k) = Ahead(p, n)
  PROVE  k = n
<1>1. MaxSeq \in Nat /\ MaxSeq > 1
  BY KtpAssumption
<1>2. /\ Ahead(p, k) = IF p + k <= MaxSeq THEN p + k ELSE p + k - MaxSeq
      /\ Ahead(p, n) = IF p + n <= MaxSeq THEN p + n ELSE p + n - MaxSeq
  BY <1>1, AheadNear
<1> DEFINE near(m) == IF p + m <= MaxSeq THEN p + m ELSE p + m - MaxSeq
<1>3. near(k) = near(n)
  BY <1>2
<1> QED
  BY ONLY <1>1, <1>3, p \in 1..MaxSeq, k \in 0..MaxSeq-1, n \in 0..MaxSeq-1

-----------------------------------------------------------------------------
(* The invariant *)

\* What the index says is queued is in the buffer, under that number: this
\* holds whatever numbers k_sendto has used.
Named ==
  \A i \in Sock : \A q \in Seqs : Queued(i, q) =>
    LET m == send_buffer[i][swnd_index[i][q]] IN ~m.free /\ m.seq = q

\* The n numbers from p on are those that are queued, and the next message gets
\* the number after them, unless the counter has been overwritten.
RunOf(i, p, n) ==
  /\ \A q \in Seqs : Queued(i, q) <=> \E m \in 0..n-1 : q = Ahead(p, m)
  /\ max_seq_number_yet[i] \in {0, Ahead(p, n)}
Indexed(i) ==
  \A s \in Slots : ~send_buffer[i][s].free => swnd_index[i][send_buffer[i][s].seq] = s
Run ==
  \A i \in Sock : ~Resequenced(i) =>
    Indexed(i) /\ \E n \in 0..W : RunOf(i, swnd_start[i], n)

LEMMA InitSInv == Init => Named /\ Run
<1> SUFFICES ASSUME Init PROVE Named /\ Run
  OBVIOUS
<1>1. Named
  BY DEF Init, Named, Queued
<1>2. ASSUME NEW i \in Sock PROVE Indexed(i) /\ RunOf(i, swnd_start[i], 0)
  <2>1. Ahead(1, 0) = 1
    BY AheadNear, KtpAssumption
  <2>2. Indexed(i)
    BY DEF Init, Indexed, Empty
  <2>3. RunOf(i, swnd_start[i], 0)
    BY <2>1 DEF Init, RunOf, Queued
  <2> QED
    BY <2>2, <2>3
<1>3. 0 \in 0..W
  BY KtpAssumption
<1> QED
  BY <1>1, <1>2, <1>3 DEF Run

\* Steps that change neither buffer nor index of the sending side, and leave the
\* counter or clear it.
LEMMA QueueUntouched ==
  ASSUME Named, Run, UNCHANGED <<send_buffer, swnd_index, swnd_start>>,
         \A i \in Sock : max_seq_number_yet'[i] \in {0, max_seq_number_yet[i]}
  PROVE  Named' /\ Run'
<1>1. \A i \in Sock, q \in Seqs : Queued(i, q)' <=> Queued(i, q)
  BY DEF Queued
<1>2. Named'
  BY <1>1 DEF Named
<1>3. ASSUME NEW i \in Sock, ~Resequenced(i)'
      PROVE  Indexed(i)' /\ \E n \in 0..W : RunOf(i, swnd_start[i], n)'
  <2>1. ~Resequenced(i)
    BY <1>3 DEF Resequenced
  <2>2. Indexed(i)'
    BY <2>1 DEF Run, Indexed
  <2>3. PICK n \in 0..W : RunOf(i, swnd_start[i], n)
    BY <2>1 DEF Run
  <2>4. RunOf(i, swnd_start[i], n)'
    BY <1>1, <2>3 DEF RunOf
  <2> QED
    BY <2>2, <2>4
<1> QED
  BY <1>2, <1>3 DEF Run

\* With a slot free, fewer than W numbers are queued: each has a slot of its own.
LEMMA RoomInRun ==
  ASSUME TypeOK, Named, NEW i \in Sock, NEW n \in 0..W, RunOf(i, swnd_start[i], n),
         NEW f \in Slots, send_buffer[i][f].free
  PROVE  n < W
<1> DEFINE p == swnd_start[i]
           D == 0..n-1
           Busy == Slots \ {f}
           g == [m \in D |-> swnd_index[i][Ahead(p, m)]]
<1>1. p \in 1..MaxSeq /\ MaxSeq \in Nat /\ W \in Nat \ {0} /\ MaxSeq > W + 1
  BY KtpAssumption DEF TypeOK
<1>2. ASSUME NEW m \in D
      PROVE  /\ g[m] \in Slots /\ ~send_buffer[i][g[m]].free
             /\ send_buffer[i][g[m]].seq = Ahead(p, m)
  <2>1. Ahead(p, m) \in Seqs
    <3>1. m \in 0..MaxSeq-1
      BY <1>1
    <3> QED
      BY <1>1, <3>1, AheadNext DEF Seqs
  <2>2. Queued(i, Ahead(p, m))
    BY <2>1 DEF RunOf
  <2>3. swnd_index[i][Ahead(p, m)] \in Slots
    <3>1. swnd_index[i][Ahead(p, m)] \in Slots \union {-1}
      BY <2>1 DEF TypeOK
    <3> QED
      BY <2>2, <3>1 DEF Queued
  <2> QED
    BY <2>1, <2>2, <2>3 DEF Named
<1>3. g \in [D -> Busy]
  BY <1>2
<1>4. ASSUME NEW k \in D, NEW m \in D, g[k] = g[m] PROVE k = m
  <2>1. Ahead(p, k) = Ahead(p, m)
    BY <1>2, <1>4
  <2>2. k \in 0..MaxSeq-1 /\ m \in 0..MaxSeq-1
    BY <1>1
  <2> QED
    BY <1>1, <2>1, <2>2, AheadDistinct
<1>5. IsFiniteSet(Busy) /\ Cardinality(Busy) = W - 1
  BY SlotsFinite, FS_RemoveElement
<1>6. IsFiniteSet(D) /\ Cardinality(D) = n
  <2>1. IsFiniteSet(D) /\ Cardinality(D) = IF 0 > n-1 THEN 0 ELSE n-1-0+1
    BY <1>1, FS_Interval
  <2> QED
    BY <1>1, <2>1
<1> SUFFICES ASSUME n = W PROVE FALSE
  BY <1>1
<1>7. Cardinality(Busy) < Cardinality(D)
  BY <1>1, <1>5, <1>6
<1> HIDE DEF D, Busy, g
<1>8. \E k, m \in D : k # m /\ g[k] = g[m]
  BY <1>3, <1>5, <1>6, <1>7, FS_PigeonHole
<1> QED
  BY <1>4, <1>8

-----------------------------------------------------------------------------
(* The two operations that change the queue *)

\* k_sendto adds the number after the last of the run.
LEMMA k_sendtoRun ==
  ASSUME IInv, Named, Run, NEW i \in Sock, k_sendto(i)
  PROVE  Named' /\ Run'
<1> DEFINE s == FirstFree(send_buffer[i])
           q == max_seq_number_yet[i]
           p == swnd_start[i]
<1>1. /\ s \in Slots /\ send_buffer[i][s].free /\ q \in Seqs
      /\ p \in 1..MaxSeq /\ MaxSeq \in Nat /\ MaxSeq > W + 1 /\ W \in Nat
  BY FirstFreeSlot, KtpAssumption DEF k_sendto, IInv, TypeOK
<1>2. /\ max_seq_number_yet' = [max_seq_number_yet EXCEPT ![i] = After(q)]
      /\ swnd_index' = [swnd_index EXCEPT ![i][q] = s]
      /\ send_buffer' = [send_buffer EXCEPT ![i][s] = Message(q, accepted[i] + 1)]
      /\ UNCHANGED swnd_start
  BY DEF k_sendto
<1> HIDE DEF s, q
<1>3. /\ \A t \in Slots : t # s => send_buffer'[i][t] = send_buffer[i][t]
      /\ ~send_buffer'[i][s].free /\ send_buffer'[i][s].seq = q
      /\ \A r \in Seqs : swnd_index'[i][r] = IF r = q THEN s ELSE swnd_index[i][r]
      /\ max_seq_number_yet'[i] = After(q)
      /\ \A r \in Seqs : swnd_index[i][r] \in Slots \union {-1}
      /\ \A j \in Sock : j # i => /\ send_buffer'[j] = send_buffer[j]
                                  /\ swnd_index'[j] = swnd_index[j]
                                  /\ max_seq_number_yet'[j] = max_seq_number_yet[j]
  BY <1>1, <1>2 DEF IInv, TypeOK, Message
<1>4. \A r \in Seqs : Queued(i, r)' <=> r = q \/ Queued(i, r)
  BY <1>1, <1>3 DEF Queued, Slots
<1>5. Named'
  <2> SUFFICES ASSUME NEW j \in Sock, NEW r \in Seqs, Queued(j, r)'
               PROVE  /\ ~send_buffer'[j][swnd_index'[j][r]].free
                      /\ send_buffer'[j][swnd_index'[j][r]].seq = r
    BY DEF Named
  <2>1. CASE j # i
    BY <1>3, <2>1 DEF Named, Queued
  <2>2. CASE j = i /\ r = q
    BY <1>3, <2>2
  <2>3. CASE j = i /\ r # q
    <3>1. Queued(i, r) /\ swnd_index'[i][r] = swnd_index[i][r]
      BY <1>3, <1>4, <2>3
    <3>2. swnd_index[i][r] \in Slots
      BY <1>3, <3>1 DEF Queued
    <3>3. swnd_index[i][r] # s
      BY <1>1, <3>1 DEF Named
    <3> QED
      BY <1>3, <2>3, <3>1, <3>2, <3>3 DEF Named
  <2> QED
    BY <2>1, <2>2, <2>3
<1>6. ASSUME ~Resequenced(i)'
      PROVE  Indexed(i)' /\ \E n \in 0..W : RunOf(i, swnd_start[i], n)'
  <2>1. ~Resequenced(i) /\ q # 0
    BY <1>1, <1>3, <1>6 DEF Resequenced
  <2>2. PICK n \in 0..W : RunOf(i, p, n)
    BY <2>1 DEF Run
  <2>3. n < W
    BY <1>1, <2>2, RoomInRun DEF IInv
  <2>4. q = Ahead(p, n) /\ n \in 0..MaxSeq-1
    BY <1>1, <2>1, <2>2 DEF RunOf, q
  <2>5. After(q) = Ahead(p, n+1)
    BY <1>1, <2>4, AheadNext
  <2>6. ~Queued(i, q)
    <3> SUFFICES ASSUME Queued(i, q) PROVE FALSE
      OBVIOUS
    <3>1. PICK m \in 0..n-1 : q = Ahead(p, m)
      BY <1>1, <2>2 DEF RunOf
    <3>2. m \in 0..MaxSeq-1 /\ m # n
      BY <1>1, <2>4
    <3> QED
      BY <1>1, <2>4, <3>1, <3>2, AheadDistinct
  <2>7. Indexed(i)'
    <3> SUFFICES ASSUME NEW t \in Slots, ~send_buffer'[i][t].free
                 PROVE  swnd_index'[i][send_buffer'[i][t].seq] = t
      BY DEF Indexed
    <3>1. CASE t = s
      BY <1>1, <1>3, <3>1
    <3>2. CASE t # s
      <4>1. send_buffer'[i][t] = send_buffer[i][t] /\ send_buffer[i][t].seq \in Seqs
        BY <1>3, <3>2 DEF IInv, TypeOK, SlotSet
      <4>2. swnd_index[i][send_buffer[i][t].seq] = t
        BY <2>1, <4>1 DEF Run, Indexed
      <4>3. Queued(i, send_buffer[i][t].seq)
        BY <4>2 DEF Queued, Slots
      <4> QED
        BY <1>3, <2>6, <4>1, <4>2, <4>3
    <3> QED
      BY <3>1, <3>2
  <2>8. RunOf(i, swnd_start[i], n+1)'
    <3>1. \A r \in Seqs : Queued(i, r)' <=> \E m \in 0..n : r = Ahead(p, m)
      <4>1. \A m \in 0..n : m \in 0..n-1 \/ m = n
        BY <1>1, <2>4
      <4>2. n \in 0..n /\ \A m \in 0..n-1 : m \in 0..n
        BY <1>1, <2>4
      <4> QED
        BY <1>4, <2>2, <2>4, <4>1, <4>2 DEF RunOf
    <3>2. (n+1)-1 = n
      BY <1>1, <2>4
    <3> QED
      BY <1>2, <1>3, <2>5, <3>1, <3>2 DEF RunOf
  <2>9. n+1 \in 0..W
    BY <1>1, <2>3
  <2> QED
    BY <2>7, <2>8, <2>9
<1>7. ASSUME NEW j \in Sock, j # i, ~Resequenced(j)'
      PROVE  Indexed(j)' /\ \E n \in 0..W : RunOf(j, swnd_start[j], n)'
  <2>1. ~Resequenced(j)
    BY <1>3, <1>7 DEF Resequenced
  <2>2. Indexed(j)'
    BY <1>3, <1>7, <2>1 DEF Run, Indexed
  <2>3. PICK n \in 0..W : RunOf(j, swnd_start[j], n)
    BY <2>1 DEF Run
  <2>4. RunOf(j, swnd_start[j], n)'
    BY <1>2, <1>3, <1>7, <2>3 DEF RunOf, Queued
  <2> QED
    BY <2>2, <2>4
<1> QED
  BY <1>5, <1>6, <1>7 DEF Run

\* An acknowledgement takes a part of the run away, from its start: R_Ack is the
\* case in which all it releases is queued.
LEMMA R_AckRun ==
  ASSUME IInv, Named, Run, NEW i \in Sock, R_Ack(i)
  PROVE  Named' /\ Run'
<1> DEFINE p == swnd_start[i]
<1>1. PICK d : /\ ValidAck(d)
               /\ \A q \in Released(i, d.seq) : Queued(i, q)
               /\ send_buffer' = [send_buffer EXCEPT ![i] =
                    [s \in Slots |->
                       IF s \in {swnd_index[i][q] : q \in Released(i, d.seq)}
                       THEN Empty ELSE @[s]]]
               /\ swnd_index' = [swnd_index EXCEPT ![i] =
                    [q \in Seqs |-> IF q \in Released(i, d.seq) THEN -1 ELSE @[q]]]
               /\ swnd_start' = [swnd_start EXCEPT ![i] = After(LastAck(i, d.seq))]
               /\ UNCHANGED max_seq_number_yet
  BY DEF R_Ack
<1> DEFINE freed == Released(i, d.seq)
           slots == {swnd_index[i][q] : q \in freed}
           e     == After(LastAck(i, d.seq))
           D     == Distance(p, e)
<1>2. /\ p \in 1..MaxSeq /\ MaxSeq \in Nat /\ MaxSeq > W + 1 /\ W \in Nat
      /\ e \in 1..MaxSeq
  <2>1. d.seq \in Nat /\ last_ack_received[i] \in Nat
    BY <1>1, KtpAssumption DEF ValidAck, IInv, TypeOK, Seqs
  <2>2. LastAck(i, d.seq) \in Nat
    BY <2>1 DEF LastAck
  <2> QED
    BY <2>2, RingType, KtpAssumption DEF IInv, TypeOK
<1>3. D \in 0..MaxSeq-1 /\ Ahead(p, D) = e
  <2> HIDE DEF e
  <2>1. p \in 0..MaxSeq /\ e \in 0..MaxSeq
    BY <1>2
  <2> QED
    BY <1>2, <2>1, RingType, RingRound
<1>4. freed = {Ahead(p, m) : m \in 0..D-1}
  BY DEF Released
<1> HIDE DEF freed, e, D
<1>5. \A q \in freed : q \in 1..MaxSeq /\ q \in Seqs /\ Queued(i, q)
  <2>1. \A m \in 0..D-1 : Ahead(p, m) \in 1..MaxSeq
    <3>1. \A m \in 0..D-1 : m \in 0..MaxSeq-1
      BY <1>2, <1>3
    <3> QED
      BY <1>2, <3>1, AheadNext
  <2>2. \A q \in freed : q \in 1..MaxSeq
    BY <1>4, <2>1
  <2> QED
    BY <1>1, <1>2, <2>2 DEF freed, Seqs
<1>6. /\ \A t \in Slots : send_buffer'[i][t] =
           IF t \in slots THEN Empty ELSE send_buffer[i][t]
      /\ \A r \in Seqs : swnd_index'[i][r] = IF r \in freed THEN -1 ELSE swnd_index[i][r]
      /\ swnd_start'[i] = e
      /\ \A r \in Seqs : swnd_index[i][r] \in Slots \union {-1}
      /\ \A j \in Sock : j # i => /\ send_buffer'[j] = send_buffer[j]
                                  /\ swnd_index'[j] = swnd_index[j]
                                  /\ swnd_start'[j] = swnd_start[j]
  BY <1>1, <1>2 DEF IInv, TypeOK, freed, e
<1>7. \A r \in Seqs : Queued(i, r)' <=> Queued(i, r) /\ r \notin freed
  BY <1>6 DEF Queued
<1>8. ASSUME NEW r \in Seqs, Queued(i, r), swnd_index[i][r] \in slots
      PROVE  r \in freed
  BY <1>5, <1>8 DEF Named
<1>9. Named'
  <2> SUFFICES ASSUME NEW j \in Sock, NEW r \in Seqs, Queued(j, r)'
               PROVE  /\ ~send_buffer'[j][swnd_index'[j][r]].free
                      /\ send_buffer'[j][swnd_index'[j][r]].seq = r
    BY DEF Named
  <2>1. CASE j # i
    BY <1>6, <2>1 DEF Named, Queued
  <2>2. CASE j = i
    <3>1. Queued(i, r) /\ r \notin freed
      BY <1>7, <2>2
    <3>2. swnd_index[i][r] \in Slots /\ swnd_index[i][r] \notin slots
      BY <1>6, <1>8, <3>1 DEF Queued
    <3>3. /\ swnd_index'[i][r] = swnd_index[i][r]
          /\ send_buffer'[i][swnd_index[i][r]] = send_buffer[i][swnd_index[i][r]]
      BY <1>6, <3>1, <3>2
    <3> QED
      BY <2>2, <3>1, <3>3 DEF Named
  <2> QED
    BY <2>1, <2>2
<1>10. ASSUME ~Resequenced(i)'
       PROVE  Indexed(i)' /\ \E n \in 0..W : RunOf(i, swnd_start[i], n)'
  <2>1. ~Resequenced(i)
    <3> SUFFICES ASSUME NEW t \in Slots, ~send_buffer[i][t].free,
                        send_buffer[i][t].seq = 0
                 PROVE  FALSE
      BY DEF Resequenced
    <3>1. t \notin slots
      <4> SUFFICES ASSUME NEW q \in freed, t = swnd_index[i][q] PROVE FALSE
        OBVIOUS
      <4>1. send_buffer[i][t].seq = q /\ q \in 1..MaxSeq
        BY <1>5 DEF Named
      <4> QED
        BY <1>2, <4>1
    <3> QED
      BY <1>6, <1>10, <3>1 DEF Resequenced
  <2>2. PICK n \in 0..W : RunOf(i, p, n)
    BY <2>1 DEF Run
  <2>3. n \in 0..MaxSeq-1
    BY <1>2
  <2>4. D <= n
    <3> SUFFICES ASSUME D > n PROVE FALSE
      BY <1>3, <2>3
    <3>1. n \in 0..D-1
      BY <1>3, <2>3
    <3>2. Ahead(p, n) \in freed
      BY <1>4, <3>1
    <3>3. PICK m \in 0..n-1 : Ahead(p, n) = Ahead(p, m)
      BY <1>5, <2>2, <3>2 DEF RunOf
    <3>4. m \in 0..MaxSeq-1 /\ m # n
      BY <1>2, <2>3
    <3> QED
      BY <1>2, <2>3, <3>3, <3>4, AheadDistinct
  <2>5. \A k \in 0..MaxSeq-1 : D <= k => Ahead(e, k-D) = Ahead(p, k)
    BY <1>2, <1>3, AheadAhead
  <2>6. \A r \in Seqs : Queued(i, r)' <=> \E m \in 0..(n-D)-1 : r = Ahead(e, m)
    <3>1. ASSUME NEW r \in Seqs, Queued(i, r)'
          PROVE  \E m \in 0..(n-D)-1 : r = Ahead(e, m)
      <4>1. PICK k \in 0..n-1 : r = Ahead(p, k)
        BY <1>7, <2>2, <3>1 DEF RunOf
      <4>2. k \notin 0..D-1
        BY <1>4, <1>7, <3>1, <4>1
      <4>3. k-D \in 0..(n-D)-1 /\ D <= k /\ k \in 0..MaxSeq-1
        BY <1>2, <1>3, <2>3, <4>2
      <4> QED
        BY <2>5, <4>1, <4>3
    <3>2. ASSUME NEW r \in Seqs, NEW m \in 0..(n-D)-1, r = Ahead(e, m)
          PROVE  Queued(i, r)'
      <4>1. /\ D+m \in 0..n-1 /\ D+m \in 0..MaxSeq-1 /\ D <= D+m /\ (D+m)-D = m
            /\ \A k \in 0..D-1 : k \in 0..MaxSeq-1 /\ k # D+m
        BY <1>2, <1>3, <2>3
      <4>2. r = Ahead(p, D+m)
        BY <2>5, <3>2, <4>1
      <4>3. Queued(i, r)
        BY <2>2, <4>1, <4>2 DEF RunOf
      <4>4. r \notin freed
        <5> SUFFICES ASSUME NEW k \in 0..D-1, r = Ahead(p, k) PROVE FALSE
          BY <1>4
        <5> QED
          BY <1>2, <4>1, <4>2, AheadDistinct
      <4> QED
        BY <1>7, <4>3, <4>4
    <3> QED
      BY <3>1, <3>2
  <2>7. PICK x \in 0..W : x = n-D
    BY <1>2, <1>3, <2>4
  <2>8. RunOf(i, swnd_start[i], x)'
    <3>1. max_seq_number_yet'[i] \in {0, Ahead(e, x)}
      BY <1>1, <2>2, <2>3, <2>4, <2>5, <2>7 DEF RunOf
    <3> QED
      BY <1>6, <2>6, <2>7, <3>1 DEF RunOf
  <2>9. Indexed(i)'
    <3> SUFFICES ASSUME NEW t \in Slots, ~send_buffer'[i][t].free
                 PROVE  swnd_index'[i][send_buffer'[i][t].seq] = t
      BY DEF Indexed
    <3>1. t \notin slots /\ send_buffer'[i][t] = send_buffer[i][t]
      BY <1>6 DEF Empty
    <3>2. send_buffer[i][t].seq \in Seqs
      BY DEF IInv, TypeOK, SlotSet
    <3>3. swnd_index[i][send_buffer[i][t].seq] = t
      BY <2>1, <3>1 DEF Run, Indexed
    <3>4. send_buffer[i][t].seq \notin freed
      BY <3>1, <3>3
    <3> QED
      BY <1>6, <3>1, <3>2, <3>3, <3>4
  <2> QED
    BY <2>8, <2>9
<1>11. ASSUME NEW j \in Sock, j # i, ~Resequenced(j)'
       PROVE  Indexed(j)' /\ \E n \in 0..W : RunOf(j, swnd_start[j], n)'
  <2>1. ~Resequenced(j)
    BY <1>6, <1>11 DEF Resequenced
  <2>2. Indexed(j)'
    BY <1>6, <1>11, <2>1 DEF Run, Indexed
  <2>3. PICK n \in 0..W : RunOf(j, swnd_start[j], n)
    BY <2>1 DEF Run
  <2>4. RunOf(j, swnd_start[j], n)'
    BY <1>1, <1>6, <1>11, <2>3 DEF RunOf, Queued
  <2> QED
    BY <2>2, <2>4
<1> QED
  BY <1>9, <1>10, <1>11 DEF Run

-----------------------------------------------------------------------------
(* The theorems *)

LEMMA StepRun == IInv /\ Named /\ Run /\ [Next]_vars => Named' /\ Run'
<1> SUFFICES ASSUME IInv, Named, Run, [Next]_vars PROVE Named' /\ Run'
  OBVIOUS
<1>1. CASE UNCHANGED <<send_buffer, swnd_index, swnd_start, max_seq_number_yet>>
  BY <1>1, QueueUntouched
<1>2. CASE UNCHANGED vars
  BY <1>1, <1>2 DEF vars, sendVars
<1>3. ASSUME NEW i \in Sock, S_Retransmit(i) PROVE Named' /\ Run'
  <2>1. /\ UNCHANGED <<send_buffer, swnd_index, swnd_start>>
        /\ \A j \in Sock : max_seq_number_yet'[j] \in {0, max_seq_number_yet[j]}
    BY <1>3 DEF S_Retransmit, IInv, TypeOK
  <2> QED
    BY <2>1, QueueUntouched
<1>4. ASSUME NEW i \in Sock, k_recvfrom(i) \/ S_Send(i) \/ R_WindowUpdate(i) \/ Lose(i)
      PROVE  Named' /\ Run'
  BY <1>1, <1>4 DEF k_recvfrom, S_Send, R_WindowUpdate, Lose, sendVars
<1>5. ASSUME NEW i \in Sock,
             R_AckWild(i) \/ R_DataInOrder(i) \/ R_DataOutOfOrder(i) \/ R_Discard(i)
      PROVE  Named' /\ Run'
  BY <1>1, <1>5 DEF R_AckWild, R_DataInOrder, R_DataOutOfOrder, R_Discard, sendVars
<1> QED
  BY <1>2, <1>3, <1>4, <1>5, k_sendtoRun, R_AckRun DEF Next, Step, R_Datagram

\* The invariant of the sending side.
THEOREM QueueIsRun == Spec => [](Named /\ Run)
  BY Invariance, InitSInv, StepRun, PTL DEF Spec

\* As long as no message was misnumbered after a wild send time, the busy slots
\* of the send buffer and the index of the sending window name each other, also
\* round the wrap of the numbers and with acknowledgements of either direction.
THEOREM BookkeepingKept == Spec => []SendBookkeeping
<1>1. Named /\ Run => SendBookkeeping
  BY DEF Named, Run, Indexed, SendBookkeeping
<1> QED
  BY QueueIsRun, <1>1, PTL
=============================================================================
