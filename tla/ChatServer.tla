------------------------------ MODULE ChatServer ------------------------------
(***************************************************************************)
(* The number game of Lab_Test_1: a server with select() asks its clients  *)
(* for a number, round by round, and announces the largest.  A pass of the *)
(* server's loop is: select, accept, then the clients one by one, while    *)
(* users type and leave.  Array indices count from 1.  Of a connection the *)
(* bytes on their way to the server matter: one read takes all there are.  *)
(***************************************************************************)
EXTENDS Integers, Sequences, FiniteSets, SequencesExt

CONSTANTS
  Users,        \* connections that may be made (bound)
  MAX_CLIENTS,
  Digits,       \* digits a user types (bound)
  MaxUnread,    \* digits on their way to the server (bound)
  MaxRound      \* nobody types after this round (bound)

Slot     == 1 .. MAX_CLIENTS
serverfd == "serverfd"   \* the listening socket, in tempfds

ASSUME ChatServerAssumption ==
  /\ IsFiniteSet(Users) /\ serverfd \notin Users
  /\ MAX_CLIENTS \in Nat \ {0}
  /\ Digits \subseteq 0..9 /\ MaxUnread \in Nat /\ MaxRound \in Nat

VARIABLES
  clientsockfd,     \* the first numclient entries, as the users they lead to
  client_sent, client_numbers,   \* [slot], the slots past numclient as well
  round,
  tempfds,          \* what select found readable and the pass has not come to
  at, i,            \* where the pass is: "select", "accept", "clients" (and i)
  user,             \* [u]: "off", "on", "left" or "refused"
  backlog,          \* connections made and not accepted
  unread,           \* [u]: digits u sent and the server did not read
  asked,            \* [u]: the last round u was asked a number for, or 0
  announced         \* the last result sent: number and client

game == <<client_sent, client_numbers, round, announced>>
vars == <<clientsockfd, game, tempfds, at, i, user, backlog, unread, asked>>

numclient  == Len(clientsockfd)
Clients    == ToSet(clientsockfd)

Init ==
  /\ clientsockfd = <<>>
  /\ client_sent = [j \in Slot |-> FALSE] /\ client_numbers = [j \in Slot |-> 0]
  /\ round = 1
  /\ tempfds = {} /\ at = "select" /\ i = 1
  /\ user = [u \in Users |-> "off"] /\ backlog = <<>>
  /\ unread = [u \in Users |-> <<>>]
  /\ asked = [u \in Users |-> 0]
  /\ announced = <<>>

-----------------------------------------------------------------------------
(* The users (chatclient.c) *)

Connect(u) ==
  /\ user[u] = "off"
  /\ user' = [user EXCEPT ![u] = "on"]
  /\ backlog' = Append(backlog, u)
  /\ UNCHANGED <<clientsockfd, game, tempfds, at, i, unread, asked>>

\* Whatever was asked: the client sends each line of digits at once.
Type(u, d) ==
  /\ user[u] = "on" /\ Len(unread[u]) < MaxUnread /\ round <= MaxRound
  /\ unread' = [unread EXCEPT ![u] = Append(@, d)]
  /\ UNCHANGED <<clientsockfd, game, tempfds, at, i, user, backlog, asked>>

\* The program is ended from outside (external); what it sent still arrives.
Leave(u) ==
  /\ user[u] = "on"
  /\ user' = [user EXCEPT ![u] = "left"]
  /\ UNCHANGED <<clientsockfd, game, tempfds, at, i, backlog, unread, asked>>

-----------------------------------------------------------------------------
(* The server *)

Readable ==
  {u \in Clients : unread[u] # <<>> \/ user[u] = "left"}
    \union (IF backlog # <<>> THEN {serverfd} ELSE {})

select ==
  /\ at = "select" /\ Readable # {}
  /\ tempfds' = Readable
  /\ at' = "accept"
  /\ UNCHANGED <<clientsockfd, game, i, user, backlog, unread, asked>>

Ask(s, r) == asked' = [u \in Users |-> IF u \in s THEN r ELSE asked[u]]

NoNewClient ==
  /\ at = "accept" /\ serverfd \notin tempfds
  /\ at' = "clients" /\ i' = 1
  /\ UNCHANGED <<clientsockfd, game, tempfds, user, backlog, unread, asked>>

\* Whom a new client gets asked: both of the first two, after that itself.
\* (mutant: the new client only)
AskedItself(u) == IF numclient >= 1 THEN {u} ELSE {}
AskedWith(u) == IF numclient = 1 THEN {clientsockfd[1], u}
                ELSE IF numclient > 1 THEN {u} ELSE {}

\* (mutant: one more than the arrays have room for)
RoomForOneMore == numclient <= MAX_CLIENTS
Room == numclient < MAX_CLIENTS

\* client_sent of its slot is left as it is.
accept ==
  /\ at = "accept" /\ serverfd \in tempfds
  /\ LET u == Head(backlog)
     IN  IF Room
           THEN /\ clientsockfd' = Append(clientsockfd, u)
                /\ Ask(AskedWith(u), round)
                /\ UNCHANGED <<user, unread>>
           ELSE /\ user' = [user EXCEPT ![u] = IF @ = "on" THEN "refused" ELSE @]
                /\ unread' = [unread EXCEPT ![u] = <<>>]
                /\ UNCHANGED <<clientsockfd, asked>>
  /\ backlog' = Tail(backlog)
  /\ tempfds' = tempfds \ {serverfd}
  /\ at' = "clients" /\ i' = 1
  /\ UNCHANGED game

c == clientsockfd[i]   \* the client the pass has come to
At(ready) == at = "clients" /\ i <= numclient /\ (ready <=> c \in tempfds)

NotReady ==
  /\ At(FALSE)
  /\ i' = i + 1
  /\ UNCHANGED <<clientsockfd, game, tempfds, at, user, backlog, unread, asked>>

EndPass ==
  /\ at = "clients" /\ i > numclient
  /\ at' = "select" /\ i' = 1 /\ tempfds' = {}
  /\ UNCHANGED <<clientsockfd, game, user, backlog, unread, asked>>

\* The last slot keeps what it had.
Shifted(a) == [j \in Slot |-> IF i <= j /\ j < numclient THEN a[j+1] ELSE a[j]]

\* (mutant: the loop steps over the client that moved into the slot)
StepOver == i' = i + 1
StepBack == i' = i

\* (mutant: the last entry goes instead)
CloseLast == clientsockfd' = Front(clientsockfd)
Close == clientsockfd' = RemoveAt(clientsockfd, i)

\* Whether the others have all sent by now is not looked at.
Disconnect ==
  /\ At(TRUE) /\ unread[c] = <<>>
  /\ Close
  /\ client_sent' = Shifted(client_sent) /\ client_numbers' = Shifted(client_numbers)
  /\ StepBack
  /\ tempfds' = tempfds \ {c}
  /\ UNCHANGED <<round, announced, at, user, backlog, unread, asked>>

\* All the digits that have arrived are one number.
atoi(digits) == FoldLeft(LAMBDA n, d : 10 * n + d, 0, digits)

Read ==
  /\ At(TRUE) /\ unread[c] # <<>>
  /\ unread' = [unread EXCEPT ![c] = <<>>]
  /\ tempfds' = tempfds \ {c}
  /\ i' = i + 1
  /\ UNCHANGED <<clientsockfd, at, user, backlog>>

Insufficient ==
  /\ Read /\ numclient < 2
  /\ UNCHANGED <<game, asked>>

Duplicate ==
  /\ Read /\ numclient >= 2 /\ client_sent[i]
  /\ UNCHANGED <<game, asked>>

\* (mutant: whether a number was sent before is not looked at)
Unchecked == numclient >= 2
Expected == numclient >= 2 /\ ~client_sent[i]

\* (mutant: the loop goes over all slots)
AllSlotsSent(sent) == \A j \in Slot : sent[j]
AllSent(sent) == \A j \in 1 .. numclient : sent[j]

INT_MIN == -2147483647 - 1
Candidate(numbers, j) == [max_num |-> numbers[j], max_index |-> j]

\* (mutant: each number is compared with INT_MIN, not with the maximum so far)
LaterOf(best, numbers, j) ==
  IF numbers[j] > INT_MIN THEN Candidate(numbers, j) ELSE best
BetterOf(best, numbers, j) ==
  IF numbers[j] > best.max_num THEN Candidate(numbers, j) ELSE best

\* What the loop over the clients has found when it has looked at n of them.
Maximum(numbers) ==
  LET found[n \in 0..numclient] ==
        IF n = 0 THEN [max_num |-> INT_MIN, max_index |-> 1]
        ELSE BetterOf(found[n-1], numbers, n)
  IN  found[numclient]

Number ==
  /\ Read /\ Expected
  /\ client_numbers' = [client_numbers EXCEPT ![i] = atoi(unread[c])]
  /\ LET sent == [client_sent EXCEPT ![i] = TRUE]
         max  == Maximum(client_numbers')
     IN  IF AllSent(sent)
           THEN /\ announced' = <<max.max_num, clientsockfd[max.max_index]>>
                /\ client_sent' = [j \in Slot |-> j > numclient /\ sent[j]]
                /\ round' = round + 1
                /\ Ask(Clients, round + 1)
           ELSE /\ client_sent' = sent
                /\ UNCHANGED <<announced, round, asked>>

main == select \/ NoNewClient \/ accept \/ NotReady \/ EndPass \/ Disconnect
        \/ Insufficient \/ Duplicate \/ Number

Next == main \/ \E u \in Users : Connect(u) \/ Leave(u)
                                 \/ \E d \in Digits : Type(u, d)

Spec == Init /\ [][Next]_vars

-----------------------------------------------------------------------------
(* Properties *)

TypeOK ==
  /\ clientsockfd \in Seq(Users) /\ numclient <= MAX_CLIENTS
  /\ client_sent \in [Slot -> BOOLEAN] /\ client_numbers \in [Slot -> Nat]
  /\ round \in Nat \ {0}
  /\ tempfds \subseteq Users \union {serverfd}
  /\ at \in {"select", "accept", "clients"} /\ i \in 1 .. MAX_CLIENTS+1
  /\ user \in [Users -> {"off", "on", "left", "refused"}]
  /\ backlog \in Seq(Users)
  /\ unread \in [Users -> Seq(Digits)]
  /\ asked \in [Users -> Nat]
  /\ announced \in {<<>>} \union (Nat \X Users)

\* While there are two clients or more, each of them has been asked for a
\* number of the current round, whoever came and left before.
Asked == numclient >= 2 => \A u \in Clients : asked[u] = round

\* A user who is connected has one place, in the backlog or in the table.
NobodyForgotten ==
  /\ \A u \in Users : user[u] = "on" => u \in ToSet(backlog \o clientsockfd)
  /\ Cardinality(ToSet(backlog \o clientsockfd)) = Len(backlog) + numclient

\* A pass comes to every client that select found readable, however the table
\* is shifted under the loop.
PassServesAll == [][EndPass => tempfds = {}]_vars

\* That all clients have sent a number and no result follows happens only after
\* a client has left.
StallsOnlyByLeaving ==
  numclient >= 2 /\ (\A j \in 1..numclient : client_sent[j]) =>
    \E u \in Users : user[u] = "left"

\* The first number of a client in a round stands until the round ends or the
\* client is gone: neither its own duplicates nor the shifts of the table change
\* what is recorded for it.
SlotOf(u) == CHOOSE j \in 1..numclient : clientsockfd[j] = u
FirstNumberStands ==
  [][\A u \in Clients :
       round' = round /\ client_sent[SlotOf(u)] /\ u \in Clients' =>
         /\ client_sent'[SlotOf(u)']
         /\ client_numbers'[SlotOf(u)'] = client_numbers[SlotOf(u)]]_vars

\* A round ends with the announcement of a number that no client's exceeds, and
\* of a client whose number that is.
ResultIsLargest ==
  [][round' # round =>
       /\ \A j \in 1..numclient : client_numbers'[j] <= announced'[1]
       /\ client_numbers'[SlotOf(announced'[2])] = announced'[1]]_vars
=============================================================================
