------------------------------ MODULE StopAndWait ------------------------------
(***************************************************************************)
(* The stop-and-wait KTP of src/Lab 4/asg4: user1 sends a file in chunks   *)
(* with k_sendto, user2 writes what k_recvfrom returns, and the two then   *)
(* close with EOF, EOF_ACK, FIN and FIN_ACK.                               *)
(*                                                                         *)
(* k_sendto sends a data frame until it reads an acknowledgement of its    *)
(* sequence number; whatever else it reads makes it send the frame again   *)
(* at once.  k_recvfrom acknowledges every data frame it does not drop and *)
(* never looks at the sequence number.  EOF, EOF_ACK and FIN_ACK go out as *)
(* they are; FIN is sent with a length k_sendto does not know as a control *)
(* message, so it is a data frame.                                         *)
(*                                                                         *)
(* k_sendto looks for control messages, and for acknowledgement frames, in *)
(* the bytes it is given, and user2 for an EOF in what it receives: chunks *)
(* of the file are no exception.                                           *)
(*                                                                         *)
(* A chunk is its number in the file and what its bytes are taken for.     *)
(* The loopback network keeps the order of datagrams; a datagram for a     *)
(* socket that is not open is gone.                                        *)
(***************************************************************************)
EXTENDS Naturals, Sequences

CONSTANTS
  N,          \* the chunks of input.txt
  Files,      \* what its chunks may be taken for
  Modulus,    \* the values of next_seq, a uint8_t: 256 in the code
  MaxLost,    \* bound: datagrams the network loses
  Room        \* the datagrams a socket's receive buffer has room for

\* What k_sendto and user2 take the bytes of a chunk for: "EOF..." is a data
\* frame in which user2 finds an EOF; the messages of RawText go out as they are.
\* Three of them are shorter than PAYLOAD_SIZE, hence at the end of the file:
\* "EOF" with four bytes, "FIN" with three, "ACK", an acknowledgement frame by its
\* length of seven and its first byte.  The others are of any length.
LongText == {"chunk", "EOF...", "EOF_ACK", "FIN_ACK"}
RawText == {"EOF", "EOF_ACK", "FIN", "FIN_ACK", "ACK"}
Text == LongText \cup RawText

ASSUME StopAndWaitAssumption ==
  /\ N \in Nat /\ Modulus \in Nat /\ Modulus > 1
  /\ Files \subseteq [1..N -> Text]
  /\ \A f \in Files : \A k \in 1..N : k < N => f[k] \in LongText
  /\ MaxLost \in Nat /\ Room \in Nat

VARIABLES
  pc,         \* [u]: where user u stands
  next_seq,   \* [u]: ks->next_seq
  inbox,      \* [u]: the datagrams in the receive buffer of u's UDP socket
  file,       \* [k]: what chunk k of input.txt is taken for
  chunk,      \* the chunk user1 reads next, or is sending
  hand,       \* the chunk user2 has received and not yet written; 0: none
  out,        \* the chunks user2 has written to output.txt
  lost        \* how many datagrams the network has lost

vars == <<pc, next_seq, inbox, file, chunk, hand, out, lost>>

User == {"user1", "user2"}
Peer(u) == IF u = "user1" THEN "user2" ELSE "user1"

-----------------------------------------------------------------------------
(* Datagrams *)

Frame(type, seq, text, n) ==
  [type |-> type, seq |-> seq, text |-> text, n |-> n]
Control(text) == Frame("none", 0, text, 0)
Ack(seq) == Frame("ACK", seq, "ACK", 0)

\* The frame k_sendto has in hand: user1's are chunks, user2's are FINs.
DataFrame(u) ==
  IF u = "user1" THEN Frame("DATA", next_seq[u], file[chunk], chunk)
                 ELSE Frame("DATA", next_seq[u], "FIN", 0)

\* What k_sendto sends of a chunk it takes for a control message, or for an
\* acknowledgement: the number in that is some byte of the file.
RawFrames(text, k) ==
  IF text = "ACK" THEN {Frame("ACK", byte, text, k) : byte \in 0..Modulus-1}
                  ELSE {Frame("none", 0, text, k)}

Datagram ==
  [type : {"none", "ACK", "DATA"}, seq : 0..Modulus-1, text : Text, n : 0..N]

Open(u) == pc[u] \notin {"off", "closed"}

\* sendto(): the inboxes ib once u has sent m to its peer.
Sent(ib, u, m) ==
  IF Open(Peer(u)) /\ Len(ib[Peer(u)]) < Room
  THEN [ib EXCEPT ![Peer(u)] = Append(@, m)] ELSE ib

\* recvfrom(): the inboxes once u has taken its first datagram.
Taken(u) == [inbox EXCEPT ![u] = Tail(@)]

\* ks->next_seq++
\* (mutant: an int instead of a uint8_t)
SuccNoWrap(seq) == seq + 1
Succ(seq) == (seq + 1) % Modulus

\* (mutant: control messages may be dropped as well)
ReturnedDropAll(m, drop) == IF drop THEN "error" ELSE m.text
\* What k_recvfrom returns for datagram m, when dropMessage() says drop: only
\* control messages are spared.
Returned(m, drop) == IF m.type # "none" /\ drop THEN "error" ELSE m.text

\* k_recvfrom(): the inboxes once u has taken datagram m and sent the
\* acknowledgement of a data frame that is not dropped.
Received(u, m, drop) ==
  IF m.type = "DATA" /\ ~drop THEN Sent(Taken(u), u, Ack(m.seq)) ELSE Taken(u)

\* strncmp(buffer, "EOF", 3) == 0
BeginsEof(text) == text \in {"EOF", "EOF_ACK", "EOF..."}

\* (mutant: the sequence number of an acknowledgement is not looked at)
AnyAck(m, seq) == m.type = "ACK"
\* The acknowledgement that ends the loop of k_sendto.
Acknowledges(m, seq) == m.type = "ACK" /\ m.seq = seq

Goto(u, label) == pc' = [pc EXCEPT ![u] = label]

-----------------------------------------------------------------------------
(* k_sendto for a data frame: the reliability loop *)

\* The first transmission.
Transmit(u) ==
  /\ IF u = "user1" THEN pc[u] = "data" /\ chunk <= N /\ file[chunk] \notin RawText
                    ELSE pc[u] = "fin"
  /\ inbox' = Sent(inbox, u, DataFrame(u))
  /\ Goto(u, "ackwait")
  /\ UNCHANGED <<next_seq, file, chunk, hand, out, lost>>

\* select() finds a datagram: the acknowledgement awaited, or the frame goes
\* out once more.
Acked(u) ==
  /\ pc[u] = "ackwait" /\ inbox[u] # <<>>
  /\ Acknowledges(Head(inbox[u]), next_seq[u])
  /\ inbox' = Taken(u)
  /\ next_seq' = [next_seq EXCEPT ![u] = Succ(@)]
  /\ chunk' = IF u = "user1" THEN chunk + 1 ELSE chunk
  /\ Goto(u, IF u = "user1" THEN "data" ELSE "finwait")
  /\ UNCHANGED <<file, hand, out, lost>>

InvalidAck(u) ==
  /\ pc[u] = "ackwait" /\ inbox[u] # <<>>
  /\ ~Acknowledges(Head(inbox[u]), next_seq[u])
  /\ inbox' = Sent(Taken(u), u, DataFrame(u))
  /\ UNCHANGED <<pc, next_seq, file, chunk, hand, out, lost>>

\* (mutant: after a timeout k_sendto goes on waiting)
TimeoutIdle(u) ==
  /\ pc[u] = "ackwait" /\ inbox[u] = <<>>
  /\ UNCHANGED vars
\* select() returns 0.
Timeout(u) ==
  /\ pc[u] = "ackwait" /\ inbox[u] = <<>>
  /\ inbox' = Sent(inbox, u, DataFrame(u))
  /\ UNCHANGED <<pc, next_seq, file, chunk, hand, out, lost>>

-----------------------------------------------------------------------------
(* user1 *)

\* k_sendto for a chunk it takes for a control message or an acknowledgement.
SendRaw ==
  /\ pc["user1"] = "data" /\ chunk <= N /\ file[chunk] \in RawText
  /\ \E m \in RawFrames(file[chunk], chunk) : inbox' = Sent(inbox, "user1", m)
  /\ chunk' = chunk + 1
  /\ UNCHANGED <<pc, next_seq, file, hand, out, lost>>

\* The end of the file, and the next turn of the loop that asks for EOF_ACK.
SendEof ==
  /\ pc["user1"] = "data" /\ chunk > N
  /\ inbox' = Sent(inbox, "user1", Control("EOF"))
  /\ Goto("user1", "eofwait")
  /\ UNCHANGED <<next_seq, file, chunk, hand, out, lost>>

AwaitEofAck(drop) ==
  /\ pc["user1"] = "eofwait" /\ inbox["user1"] # <<>>
  /\ LET m == Head(inbox["user1"]) IN
       /\ inbox' = Received("user1", m, drop)
       /\ Goto("user1", IF Returned(m, drop) = "EOF_ACK" THEN "finwait" ELSE "data")
  /\ UNCHANGED <<next_seq, file, chunk, hand, out, lost>>

\* FIN is answered and the socket closed, in one go.
AwaitFin(drop) ==
  /\ pc["user1"] = "finwait" /\ inbox["user1"] # <<>>
  /\ LET m == Head(inbox["user1"])
         got == Returned(m, drop) \in {"FIN", "FIN_ACK"}
         after == Received("user1", m, drop)
     IN IF got
        THEN /\ inbox' = [Sent(after, "user1", Control("FIN_ACK"))
                            EXCEPT !["user1"] = <<>>]
             /\ Goto("user1", "closed")
        ELSE inbox' = after /\ UNCHANGED pc
  /\ UNCHANGED <<next_seq, file, chunk, hand, out, lost>>

-----------------------------------------------------------------------------
(* user2 *)

\* k_socket and k_bind: user1's may have been long before.
Start ==
  /\ pc["user2"] = "off"
  /\ Goto("user2", "recv")
  /\ UNCHANGED <<next_seq, inbox, file, chunk, hand, out, lost>>

\* A turn of the reception loop: k_recvfrom, which acknowledges, and what it
\* returns is tested for EOF.
Receive(drop) ==
  /\ pc["user2"] = "recv" /\ hand = 0 /\ inbox["user2"] # <<>>
  /\ LET m == Head(inbox["user2"])
         text == Returned(m, drop)
         after == Received("user2", m, drop)
     IN IF BeginsEof(text)
        THEN /\ inbox' = Sent(after, "user2", Control("EOF_ACK"))
             /\ Goto("user2", "fin")
             /\ UNCHANGED hand
        ELSE /\ inbox' = after
             /\ hand' = IF text = "error" THEN 0 ELSE m.n
             /\ UNCHANGED pc
  /\ UNCHANGED <<next_seq, file, chunk, out, lost>>

\* fwrite and fflush, after the acknowledgement has gone.
Write ==
  /\ hand # 0
  /\ out' = Append(out, hand)
  /\ hand' = 0
  /\ UNCHANGED <<pc, next_seq, inbox, file, chunk, lost>>

\* After k_sendto of FIN: FIN_ACK, or another FIN.
AwaitFinAck(drop) ==
  /\ pc["user2"] = "finwait" /\ inbox["user2"] # <<>>
  /\ LET m == Head(inbox["user2"])
         after == Received("user2", m, drop)
     IN IF Returned(m, drop) = "FIN_ACK"
        THEN /\ inbox' = [after EXCEPT !["user2"] = <<>>]
             /\ Goto("user2", "closed")
        ELSE inbox' = after /\ Goto("user2", "fin")
  /\ UNCHANGED <<next_seq, file, chunk, hand, out, lost>>

-----------------------------------------------------------------------------
(* The network *)

\* A datagram is lost: which one, is seen when it would be the next to be read.
Lose(u) ==
  /\ lost < MaxLost /\ inbox[u] # <<>>
  /\ inbox' = Taken(u)
  /\ lost' = lost + 1
  /\ UNCHANGED <<pc, next_seq, file, chunk, hand, out>>

-----------------------------------------------------------------------------

Init ==
  /\ pc = [u \in User |-> IF u = "user1" THEN "data" ELSE "off"]
  /\ next_seq = [u \in User |-> 0]
  /\ inbox = [u \in User |-> <<>>]
  /\ file \in Files
  /\ chunk = 1 /\ hand = 0 /\ out = <<>> /\ lost = 0

\* Both programs are through, or a control message is gone and the peers wait
\* for each other.
Stopped ==
  /\ \/ pc["user1"] = "closed"
     \/ pc["user1"] \in {"eofwait", "finwait"} /\ inbox["user1"] = <<>>
  /\ \/ pc["user2"] = "closed"
     \/ /\ pc["user2"] \in {"recv", "finwait"} /\ hand = 0
        /\ inbox["user2"] = <<>>
  /\ UNCHANGED vars

Sending(u) == Transmit(u) \/ Acked(u) \/ InvalidAck(u) \/ Timeout(u)
User1(drop) == AwaitEofAck(drop) \/ AwaitFin(drop)
User2(drop) == Receive(drop) \/ AwaitFinAck(drop)

Next ==
  \/ \E u \in User : Sending(u) \/ Lose(u)
  \/ \E drop \in BOOLEAN : User1(drop) \/ User2(drop)
  \/ SendRaw \/ SendEof \/ Start \/ Write
  \/ Stopped

Spec == Init /\ [][Next]_vars

\* Both programs run, timeouts come, and dropMessage(), which draws anew for
\* every frame, does not drop for ever.
Fairness ==
  /\ WF_vars(SendRaw) /\ WF_vars(SendEof) /\ WF_vars(Start) /\ WF_vars(Write)
  /\ \A u \in User : WF_vars(Sending(u))
  /\ WF_vars(User1(FALSE)) /\ SF_vars(AwaitFin(FALSE)) /\ SF_vars(Receive(FALSE))
  /\ WF_vars(User2(FALSE))

FairSpec == Spec /\ Fairness

-----------------------------------------------------------------------------
(* Properties *)

\* Every variable keeps its range; next_seq wraps.
TypeOK ==
  /\ pc \in [User -> {"off", "data", "ackwait", "eofwait", "recv", "fin",
                      "finwait", "closed"}]
  /\ next_seq \in [User -> 0..Modulus-1]
  /\ inbox \in [User -> Seq(Datagram)]
  /\ file \in [1..N -> Text]
  /\ chunk \in 1..N+1
  /\ hand \in 0..N
  /\ out \in Seq(1..N)
  /\ lost \in 0..MaxLost

\* What the reception loop of user2 and k_sendto promise together.  k_sendto
\* returns only when the chunk is taken (k_recvfrom acknowledges after it has
\* decided not to drop, and an acknowledgement is never taken for the next
\* chunk's): it is in output.txt, or user2 is about to write it.  output.txt is
\* the input in order, with chunks several times over, without some of those
\* k_sendto takes for other messages, and it is closed only when it is complete,
\* or when a chunk begins like an EOF.
Transfer == INSTANCE AtLeastOnce
  WITH raw <- {k \in 1..N : file[k] \in RawText},
       ends <- {k \in 1..N : BeginsEof(file[k])},
       sent <- chunk - 1, ended <- pc["user2"] \notin {"off", "recv"}
ImplementsAtLeastOnce == Transfer!Spec

EofInFile == \E k \in 1..N : BeginsEof(file[k])

\* A file in which no chunk begins like an EOF gets across, although user2 may
\* start late, frames are dropped, and old acknowledgements provoke new
\* transmissions that provoke new acknowledgements.
Transferred == <>(EofInFile \/ chunk > N)

\* Unless the network loses a datagram, a receive buffer fills up or a chunk
\* begins like an EOF, both programs close: whatever the repeated EOFs and FINs
\* are answered with, and although k_sendto throws away what is not its
\* acknowledgement.
BothClose ==
  <>(\/ lost > 0 \/ EofInFile \/ \E u \in User : Len(inbox[u]) = Room
     \/ \A u \in User : pc[u] = "closed")
===============================================================================
