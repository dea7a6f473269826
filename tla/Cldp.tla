--------------------------------- MODULE Cldp ---------------------------------
(***************************************************************************)
(* CLDP of src/Lab 7: servers announce themselves with HELLO, a client     *)
(* listens for them for a while, sends its queries to those it has heard   *)
(* and prints the responses until it is interrupted.                       *)
(*                                                                         *)
(* All processes have addresses of 127.0.0.0/8, so that every raw socket   *)
(* of the host gets a copy of every packet of protocol 253; each reader    *)
(* picks out what is for it.  Time passes in seconds (Tick): a process     *)
(* reads what has arrived, and acts on the time, before the next second.   *)
(***************************************************************************)
EXTENDS Naturals, SequencesExt

CONSTANTS
  Server, Client,   \* addresses
  Interval,         \* seconds between HELLOs and of a discovery: 10 in the code
  Commands,         \* what may be asked: sequences of kinds of metadata, <<>>
                    \* for a command the client does not know
  MaxRuns           \* bound: [p]: how often a program is started at address p

ASSUME CldpAssumption ==
  /\ Server \cap Client = {} /\ Interval \in Nat \ {0}
  /\ MaxRuns \in [Server \union Client -> Nat]
  \* no command asks for the same twice
  /\ \A ks \in Commands : ks \in Seq(ToSet(ks)) /\ IsInjective(ks)

VARIABLES
  at,        \* [p]: where process p stands
  life,      \* [p]: how often p has been started
  inbox,     \* [p]: the packets in the buffer of p's raw socket
  clock,     \* [p]: seconds since a server's last HELLO, or since a client's
             \* discovery began
  due,       \* the servers whose recvfrom() has waited for a second
  servers,   \* [c]: client c's list, the newest first
  asked,     \* [c]: the queries c has sent, with the server's life (history)
  printed    \* [c]: the responses c has printed (history)

vars == <<at, life, inbox, clock, due, servers, asked, printed>>

Process == Server \union Client
On(p) == at[p] # "off"

-----------------------------------------------------------------------------
(* Packets.  A client chooses a transaction id for each server; the       *)
(* client's life stands for it.                                            *)

Hello(s) == [type |-> "HELLO", src |-> s]
Query(c, s, k) ==
  [type |-> "QUERY", src |-> c, dst |-> s, kind |-> k, tid |-> life[c]]
Response(m) ==
  [type |-> "RESPONSE", src |-> m.dst, dst |-> m.src, kind |-> m.kind,
   tid |-> m.tid]

\* A server reads HELLOs and RESPONSEs, a client QUERYs and, once it has queried,
\* HELLOs, without any effect: they are left out of its inbox.
Concerns(p, m) ==
  \/ m.type = "QUERY" /\ p \in Server
  \/ m.type = "RESPONSE" /\ p \in Client
  \/ m.type = "HELLO" /\ at[p] \in {"discover", "leaving"}

\* sendto(): the inboxes ib with the packets ms added.  They are of one type: a
\* process reads all of them or none.
Delivered(ib, ms) ==
  [p \in Process |->
     IF On(p) /\ \A n \in DOMAIN ms : Concerns(p, ms[n]) THEN ib[p] \o ms ELSE ib[p]]

Taken(p) == [inbox EXCEPT ![p] = Tail(@)]
Emptied(p) == [inbox EXCEPT ![p] = <<>>]

Goto(p, label) == at' = [at EXCEPT ![p] = label]

-----------------------------------------------------------------------------
(* Server *)

StartServer(s) ==
  /\ at[s] = "off" /\ life[s] < MaxRuns[s]
  /\ Goto(s, "recv")
  /\ life' = [life EXCEPT ![s] = @ + 1]
  /\ clock' = [clock EXCEPT ![s] = 0]
  /\ inbox' = Delivered(inbox, <<Hello(s)>>)
  /\ UNCHANGED <<due, servers, asked, printed>>

\* (mutant: start is not set again after a HELLO)
LoopNoReset(s, ib) ==
  /\ inbox' = IF clock[s] > Interval THEN Delivered(ib, <<Hello(s)>>) ELSE ib
  /\ UNCHANGED clock
  /\ due' = due \ {s}
\* The top of the loop, reached with the inboxes ib: another HELLO if it is time.
Loop(s, ib) ==
  /\ IF clock[s] > Interval
     THEN /\ inbox' = Delivered(ib, <<Hello(s)>>)
          /\ clock' = [clock EXCEPT ![s] = 0]
     ELSE inbox' = ib /\ UNCHANGED clock
  /\ due' = due \ {s}

\* (mutant: a query that comes when a HELLO is due is dropped for it)
AnswerUnlessDue(s) ==
  /\ at[s] = "recv" /\ inbox[s] # <<>>
  /\ LET m == Head(inbox[s]) IN
       Loop(s, Delivered(Taken(s), IF m.dst = s /\ clock[s] <= Interval
                                   THEN <<Response(m)>> ELSE <<>>))
  /\ UNCHANGED <<at, life, servers, asked, printed>>
\* A query: answered if it is for this server.
Answer(s) ==
  /\ at[s] = "recv" /\ inbox[s] # <<>>
  /\ LET m == Head(inbox[s]) IN
       Loop(s, Delivered(Taken(s), IF m.dst = s THEN <<Response(m)>> ELSE <<>>))
  /\ UNCHANGED <<at, life, servers, asked, printed>>

\* recvfrom() fails with EAGAIN after a second.
RecvTimeout(s) ==
  /\ at[s] = "recv" /\ inbox[s] = <<>> /\ s \in due
  /\ Loop(s, inbox)
  /\ UNCHANGED <<at, life, servers, asked, printed>>

\* SIGINT: handle_signal(), and the loop ends.
StopServer(s) ==
  /\ at[s] = "recv"
  /\ Goto(s, "off")
  /\ inbox' = Emptied(s)
  /\ clock' = [clock EXCEPT ![s] = 0] /\ due' = due \ {s}
  /\ UNCHANGED <<life, servers, asked, printed>>

-----------------------------------------------------------------------------
(* Client *)

StartClient(c) ==
  /\ at[c] = "off" /\ life[c] < MaxRuns[c]
  /\ Goto(c, "discover")
  /\ life' = [life EXCEPT ![c] = @ + 1]
  /\ clock' = [clock EXCEPT ![c] = 0]
  /\ servers' = [servers EXCEPT ![c] = <<>>]
  /\ asked' = [asked EXCEPT ![c] = {}]
  /\ printed' = [printed EXCEPT ![c] = <<>>]
  /\ UNCHANGED <<inbox, due>>

Discovering(c) == at[c] \in {"discover", "leaving"}

\* The servers known to c once it has read packet m.
Registered(c, m) ==
  IF m.type # "HELLO" \/ m.src \in ToSet(servers[c]) THEN servers[c]
                                                     ELSE <<m.src>> \o servers[c]

\* discover_servers(): one packet.
Discover(c) ==
  /\ Discovering(c) /\ inbox[c] # <<>>
  /\ servers' = [servers EXCEPT ![c] = Registered(c, Head(inbox[c]))]
  /\ inbox' = Taken(c)
  /\ UNCHANGED <<at, life, clock, due, asked, printed>>

\* SIGINT during the discovery.
Interrupt(c) ==
  /\ at[c] = "discover"
  /\ Goto(c, "leaving")
  /\ UNCHANGED <<life, inbox, clock, due, servers, asked, printed>>

\* (mutants: the discovery ends at any time; a second early)
WindowNone(c) == clock[c] >= 0
WindowShort(c) == clock[c] >= Interval - 1 \/ at[c] = "leaving"
\* elapsed.tv_sec >= discovery_timeout, or select() has failed with EINTR.
WindowOver(c) == clock[c] >= Interval \/ at[c] = "leaving"

\* send_query() for each kind, which walks the list.
Queries(c, ks) ==
  FlattenSeq([n \in DOMAIN ks |->
    [i \in DOMAIN servers[c] |-> Query(c, servers[c][i], ks[n])]])

\* The discovery is over: the queries go out, or the command is refused.  An
\* interrupted client sends them too, but does not stay for the answers.
EndDiscovery(c, ks) ==
  /\ Discovering(c) /\ WindowOver(c)
  /\ asked' = [asked EXCEPT ![c] =
       {[server |-> s, kind |-> k, life |-> life[s]] :
          s \in ToSet(servers[c]), k \in ToSet(ks)}]
  /\ LET sent == Delivered(inbox, Queries(c, ks)) IN
       IF at[c] = "leaving" \/ ks = <<>>
       THEN Goto(c, "off") /\ inbox' = [sent EXCEPT ![c] = <<>>]
       ELSE Goto(c, "wait") /\ inbox' = sent
  /\ clock' = [clock EXCEPT ![c] = 0]
  /\ UNCHANGED <<life, due, servers, printed>>

\* What process_response() prints.  It does not look at the transaction id.
Accepts(c, m) ==
  m.type = "RESPONSE" /\ m.dst = c /\ m.src \in ToSet(servers[c])

Read(c) ==
  /\ at[c] = "wait" /\ inbox[c] # <<>>
  /\ LET m == Head(inbox[c]) IN
       printed' = IF Accepts(c, m) THEN [printed EXCEPT ![c] = Append(@, m)]
                                   ELSE printed
  /\ inbox' = Taken(c)
  /\ UNCHANGED <<at, life, clock, due, servers, asked>>

StopClient(c) ==
  /\ at[c] = "wait"
  /\ Goto(c, "off")
  /\ inbox' = Emptied(c)
  /\ UNCHANGED <<life, clock, due, servers, asked, printed>>

-----------------------------------------------------------------------------

\* A second passes: nobody has a packet to read or a timeout to see to.
Tick ==
  /\ \A p \in Process : On(p) => inbox[p] = <<>>
  /\ due = {}
  /\ \A c \in Client : Discovering(c) => clock[c] <= Interval
  /\ clock' = [p \in Process |->
       IF at[p] = "recv" \/ (p \in Client /\ Discovering(p))
       THEN clock[p] + 1 ELSE clock[p]]
  /\ due' = {s \in Server : On(s)}
  /\ UNCHANGED <<at, life, inbox, servers, asked, printed>>

Init ==
  /\ at = [p \in Process |-> "off"]
  /\ life = [p \in Process |-> 0]
  /\ inbox = [p \in Process |-> <<>>]
  /\ clock = [p \in Process |-> 0]
  /\ due = {}
  /\ servers = [c \in Client |-> <<>>]
  /\ asked = [c \in Client |-> {}]
  /\ printed = [c \in Client |-> <<>>]

ServerNext(s) == StartServer(s) \/ Answer(s) \/ RecvTimeout(s) \/ StopServer(s)
ClientNext(c) ==
  \/ StartClient(c) \/ Discover(c) \/ Interrupt(c) \/ Read(c) \/ StopClient(c)
  \/ \E ks \in Commands : EndDiscovery(c, ks)

Next ==
  \/ \E s \in Server : ServerNext(s)
  \/ \E c \in Client : ClientNext(c)
  \/ Tick

Spec == Init /\ [][Next]_vars

\* A process that has a packet to read gets to read it.
Fairness ==
  /\ \A s \in Server : WF_vars(Answer(s))
  /\ \A c \in Client : WF_vars(Read(c))

FairSpec == Spec /\ Fairness

-----------------------------------------------------------------------------
(* Properties *)

Packet ==
  [type : {"HELLO"}, src : Server]
    \union [type : {"QUERY"}, src : Client, dst : Server,
            kind : UNION {ToSet(ks) : ks \in Commands}, tid : Nat]
    \union [type : {"RESPONSE"}, src : Server, dst : Client,
            kind : UNION {ToSet(ks) : ks \in Commands}, tid : Nat]

\* Every variable keeps its range; a running server says HELLO again before
\* Interval + 2 seconds are over, whatever else it reads.
TypeOK ==
  /\ at \in [Process -> {"off", "recv", "discover", "leaving", "wait"}]
  /\ life \in [Process -> Nat]
  /\ inbox \in [Process -> Seq(Packet)]
  /\ clock \in [Process -> 0..Interval+1]
  /\ due \subseteq Server
  /\ servers \in [Client -> Seq(Server)]
  /\ printed \in [Client -> Seq(Packet)]

\* What a client prints are the answers to its own queries, each at most once:
\* neither another client's, of which its socket gets a copy as well, nor those
\* to an earlier client of the same address, though the transaction id is not
\* looked at.
OnlyOwnAnswers ==
  \A c \in Client :
    /\ \A n \in DOMAIN printed[c] :
         /\ printed[c][n].dst = c /\ printed[c][n].tid = life[c]
         /\ \E q \in asked[c] :
              q.server = printed[c][n].src /\ q.kind = printed[c][n].kind
    /\ IsInjective(printed[c])

\* A server that runs when a client ends its discovery is in the client's list
\* unless its last HELLO was before the discovery, Interval seconds ago or more,
\* or has come too late to be read.
MissedNarrowly ==
  [][\A c \in Client : at[c] = "discover" /\ at'[c] = "wait" =>
       \A s \in Server : at[s] = "recv" =>
         \/ s \in ToSet(servers[c])
         \/ clock[s] >= Interval
         \/ Contains(inbox[c], Hello(s))]_vars

\* A query to a server that runs is answered and the answer printed, unless the
\* server or the client is stopped.
Answered ==
  \A c \in Client, s \in Server, k \in UNION {ToSet(ks) : ks \in Commands} :
    (at[c] = "wait" /\ [server |-> s, kind |-> k, life |-> life[s]] \in asked[c])
      ~> (\/ at[c] # "wait" \/ at[s] = "off"
          \/ \E n \in DOMAIN printed[c] :
               printed[c][n].src = s /\ printed[c][n].kind = k)
===============================================================================
