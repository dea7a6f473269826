# CN_Assignments: a TLA+ verification project

The repository holds the assignments of a course on computer networks, in C:
a transport protocol over UDP with its daemon (Lab 4), a task queue (Lab 5), a
chat server (Lab_Test_1), a mail server (Lab 6), a discovery protocol (Lab 7)
and a file encryption service (Lab 3). Each is a program of its own; they share
no code. This directory models them, most intricate first. Modules are named
after the part they model, definitions after the functions and fields of the
source. `PROJECT.json` ties every definition to the lines it translates.

## Inventory

### KTP, the transport protocol (`Lab 4 Final/`) - modelled

A daemon (`initksocket.c`) and any number of application processes share a table
of ten sockets in a System V segment (`SharedMemoryEntry` in `ksocket.h`),
guarded by one named semaphore, `sem_SM`. An entry holds two message buffers of
ten slots, a sending and a receiving window indexed by sequence number (1 to
255, then 1 again), send times and flags.

| part | state | operations | talks to |
|---|---|---|---|
| `k_sendto`, `k_recvfrom` (`ksocket.c`) | buffers, windows, `max_seq_number_yet` | queue a message, read one | the entry, under `sem_SM` |
| thread S | `send_time`, `swnd` | first transmissions, retransmission of the whole window after T seconds | the peer, by UDP |
| thread R | `rwnd`, `recv_buffer`, `last_ack_received`, `no_space_flags` | data in and out of order, acknowledgements, window updates, `dropMessage` | the peer, by UDP |
| `k_socket`, `k_bind`, `k_close` | `is_free`, `pid`, addresses | allocate, bind, free an entry | main loop, by `sem2` and `sem1` |
| main loop of the daemon | - | binds the UDP sockets | `k_bind` |
| garbage collector | - | frees the entries of killed processes | `kill(pid, 0)` |

Hard: datagrams lost, dropped, repeated, overtaken; timeouts racing
acknowledgements; both directions of a socket sharing `last_ack_received`; the
wrap of the numbers; the one datagram that reopens a closed window; two
semaphores for all callers of `k_bind`; a test of `is_free` outside the lock;
kills anywhere. Correct means: nothing lost, reordered or made up; buffers and
windows agree; the window advertised is the space there is; an entry has one
owner; no wake-up is lost; what the dead owned is taken back.

### Task queue (`Lab 5/`) - modelled

The server forks a handler for each worker it accepts. Handlers share
`SharedData` (tasks with `state` and `assigned_to_client`, `server_shutdown`)
under a process-shared semaphore, and keep `current_task` for themselves. A
worker asks (`GET_TASK`), computes, answers (`RESULT`), asks again, and leaves
(`exit`) when there is nothing left. Hard: the table and the handlers' own
variables can drift apart; a worker's timeout races its result; workers are
killed with tasks in hand; a connection ends in three ways (exit, end of file,
reset); the shutdown crosses requests. Correct means: table and handlers agree,
results find a task, tasks do not get stuck, everyone is told of the end.

### Chat server (`Lab_Test_1/`) - modelled

One process with `select()`: up to five clients in an array that is compacted
when one leaves, `client_sent` and `client_numbers` beside it, and the round. A
round ends when every client has sent a number; the largest is announced. Hard:
the array is shifted under the loop that walks it; users type at any moment and
leave in the middle of a round; numbers sent in a hurry arrive glued together.
Correct means: everyone connected is asked once per round, nobody is lost or
served with another's data, a round ends exactly when all have sent.

### My_SMTP (`Lab 6/`) - modelled

A server with a thread for each connection. A thread receives, cuts what it got
into lines with `strtok` and handles each as a command or, in data mode, as a line
of a mail; a mail is appended to `mailbox/<recipient>.txt`, which `LIST` and
`GET_MAIL` read back. The client sends a command, or after `DATA` a whole body, and
reads one reply. Hard: `strtok`'s pointer is one for all threads, so lines may go
to the session of another client, and may be rewritten while they are handled; client and server may disagree on whether a body
is being sent; two readers of one file with different rules for where a mail
starts; clients that leave with answers on the way. Correct means: no mail without
sender and recipient whatever lines a session gets, the readers find what was
stored, and nobody alone on the server waits for an answer that is not coming.

### CLDP (`Lab 7/`) - modelled

Servers say HELLO every so often and answer queries; a client listens for HELLOs
for ten seconds, queries the servers it has heard (`servers`, a list) and prints
responses until it is interrupted. All talk over raw sockets of protocol 253 with
addresses of 127.0.0.0/8 (`documentation.txt`), so each socket gets a copy of each
packet, other clients' answers included. Hard: one loop of the server keeps the
time of its HELLOs and answers; HELLOs and discoveries are timed apart; a process
may be restarted at the same address with answers to its predecessor on the way,
and nobody compares transaction ids. Correct means: clients print answers to their
own queries, once each; a query to a server that runs is answered; a server that
runs is found unless its HELLO fell outside the discovery.

### Stop-and-wait KTP (`Lab 4/asg4/`) - modelled

`user1` sends a file in chunks with `k_sendto`, which transmits a frame until it
reads the acknowledgement of its number; `user2` writes what `k_recvfrom` returns;
then EOF, EOF_ACK, FIN and FIN_ACK. Hard: numbers wrap; each side drops what it is
not waiting for, and an old acknowledgement provokes a frame, which provokes an
acknowledgement; `user2` may start late; some closing messages are repeated and
some are not; the bytes of the file are looked at for control messages on both
sides; a chunk is acknowledged before it is written. Correct means: `output.txt` is
the file up to repetitions, a call returns only when its chunk is taken and about to
be written, the file gets across, both programs end; and where chunks look like
control messages, only these suffer.

### Not modelled

| component | why |
|---|---|
| file encryption (`Lab 3/doencfileserver.c`, `retrieveencfileclient.c`) | one client at a time and one file per connection, without shared state: the parts with concurrency came first. Seen by reading: the end mark is looked for in each `recv` alone, so one that is cut in two is missed and both sides wait for ever (`doencfileserver.c:37`); the server closes after one file although the client offers to send another (`:147`); a client that stands still holds up all others |
| first KTP draft (`Lab 4/`) | unfinished forerunner of `Lab 4 Final`, which holds its functions completed |
| samples and scratch programs (`Lab 2/`, `Lab 3/Sample codes/`, `Lab 3/test.c`, `Lab 3/Hello*.c`) | no state worth a model |

## Modules

| module | models | composed with |
|---|---|---|
| `Ktp` | data path of KTP: buffers, windows, threads R and S, the UDP network | - |
| `KtpProofs` | theorems about ranges, space and flags, and about the sending side | extends `Ktp` |
| `KtpStreamProofs` | theorems about a stream in one direction | extends `KtpProofs` |
| `KtpEntries` | abstract: what a table of owned entries promises | - |
| `KtpSockets` | socket table: `k_socket`, `k_bind`, `k_close`, main loop, collector, kills | `INSTANCE KtpEntries WITH owner <- pid` |
| `KtpSocketsProofs` | theorems about `KtpSockets`, the refinement included | extends `KtpSockets` |
| `AtLeastOnce` | abstract: what a stop-and-wait transfer promises | - |
| `StopAndWait` | `k_sendto`, `k_recvfrom`, `user1` and `user2` of `Lab 4/asg4` | `INSTANCE AtLeastOnce WITH raw <- ..., ends <- ..., sent <- chunk - 1, ended <- ...` |
| `StopAndWaitProofs` | theorems about `StopAndWait`, the refinement included | extends `StopAndWait` |
| `TaskQueue`, `TaskQueueProofs` | task queue of Lab 5 and its theorems | - |
| `ChatServer`, `ChatServerProofs` | number game of Lab_Test_1 and its theorems | - |
| `MySmtp`, `MySmtpProofs` | mail server and client of Lab 6 and its theorems | - |
| `Cldp`, `CldpProofs` | discovery and queries of Lab 7 and its theorems | - |
| `MC...` | constants of the instances TLC checks | extend the module |

### Ktp

A variable is a field of `SharedMemoryEntry`, indexed by socket; an action is one
critical section of `sem_SM` for one socket: `k_sendto`, `k_recvfrom`, `S_Send`
and `S_Retransmit` (the two branches of a pass of thread S), `R_Ack`,
`R_DataInOrder`, `R_DataOutOfOrder`, `R_Discard` (the branches of thread R; a
datagram `dropMessage` strikes is discarded) and `R_WindowUpdate`. Slots and
numbers keep the code's arithmetic with `W` for 10 and `MaxSeq` for 255. A send
time is "sent" or not; whether T seconds have passed is left open. What the code
does out of bounds is in the model: index -1 of `send_time` overwrites
`max_seq_number_yet` and `rwnd.start_sequence` (`S_Retransmit`), index -1 of
`send_buffer` is read (`DataFor`), and when it is zeroed the model stops
(`R_AckWild`, `halted`). `Exchange`, `Lose` and `net` are the network (external).

### KtpSockets

One action per critical section or semaphore operation; the main loop's look at
`is_free` without the lock is an action of its own (`MainSkip`, `MainFind`).
`Kill` is external. `dirty` and `udp` record what an entry keeps of its last
owner. The abstract allocator has four steps (take, release, die, reclaim): an
entry is handed out only while nobody owns it and taken away only by its owner or
when that is dead.

### TaskQueue

`main` is the server's loop, `handle_client(c)` a handler, `worker_client(c)` a
worker. A pass of the handler's loop looks at the clock and the flag (`Timeout`,
`Bye`, `Look`) and then reads. The clock is open: since `last_active_time` is
never updated, ten seconds may have passed at any look. Which tasks a worker can
parse is chosen once (`malformed`). A read of the worker takes some or all of what
was sent to it. A connection with something unread when it is closed, or written
to after it is closed, is reset (external).

### ChatServer

A pass of the server is `select`, then `accept` or `NoNewClient`, then one action
per client (`Disconnect`, `Insufficient`, `Duplicate`, `Number`, `NotReady`),
then `EndPass`; users connect, type and leave between any two. Slots past
`numclient` keep their contents, as in the code. A read takes all the digits that
have arrived and `atoi` makes one number of them. The loop over the numbers at the
end of a round (`chatserver.c:183-193`) is a recursive function that keeps the
maximum so far and its place (`Maximum`, `BetterOf`); `ResultIsLargest` says what it
is for.

### MySmtp

`client[s]` says which `recv` or `fgets` the client stands at. A thread is at its
`recv`, inside `strtok(NULL)`, before (`Load`) or after it has read the pointer
`olds` (`NextLine`, `LastLine`), or handling a line. The line lies in the buffer of
the thread that received it, which may be another one and which receives again
without waiting: `line[s]` says whose buffer it is and what may be read there, and
the recv of that thread adds to it whole lines and pieces of lines (`Overwrite`,
`Texts`), as it does to a pointer that another thread has read. Each look at a line
is a step of its own: the verb and the test for an "@" (`validate_email`), then the
copy of the address (`handle_mail_from`, `handle_rcpt_to`, `handle_list`); in data
mode the comparison with "." and the length check (`Measure`), then the `strcat`
(`Content`), which appends what it finds then. So with two clients a `data_buffer`
outgrows its room and an address is torn in the model as in the code: the run
reaches both. Past the end of a `data_buffer` the server may fail (`down`) or run
on. A line is a verb and an argument, a mailbox the sequence of its lines, and the
two readers are folds over it (`Listed`, `handle_get_mail`). `data_buffer` has room
for `DataLines` lines instead of 4096 bytes; of replies the model counts none, one,
or more. `GET_MAIL` changes no state: its answer is checked for every mailbox and
number by `GetFaithful`.

### StopAndWait

`pc[u]` says which `recvfrom` a program stands at. `Transmit`, `Acked`,
`InvalidAck` and `Timeout` are the reliability loop of `k_sendto`; the actions of
`k_recvfrom` take the outcome of `dropMessage` as a parameter and end with what the
program does with the text returned (`AwaitEofAck`, `AwaitFin`, `AwaitFinAck`). In
`user2` the acknowledgement goes out in `Receive`, from `k_recvfrom`, and the chunk
is in `hand` until `Write`, so that `k_sendto` may return in between. A chunk is its
number and what its bytes are taken for (`Text`): a chunk `k_sendto` takes for a
control message or for an acknowledgement frame is sent once (`SendRaw`,
`RawFrames`), one that begins with EOF ends the reception (`BeginsEof`). FIN goes out
with a length that `k_sendto` does not take for a control message, so it is a data
frame. A datagram for a program that has not bound its socket, or for a full
buffer, is gone (`Sent`, external).

The abstract transfer (`AtLeastOnce`) takes a chunk that is being sent or was, writes
each one it has taken before it takes another, and lets the sending call return when
the chunk is taken. It may skip only chunks that are sent once (`raw`) and end
early only at one that begins with EOF (`ends`).

### Cldp

Time is in seconds. `Tick` lets one pass when every process has read what has
arrived and every `recvfrom` that has waited a second has returned (`due`): a
process does not sleep through a second. `Loop` is the top of the server's loop,
which `Answer` and `RecvTimeout` end in. Packets a process reads without any effect
are left out of its inbox (`Concerns`); what one call of `send_query` or `send_hello`
sends is of one type, so a process gets all of it or none (`Delivered`). No command
asks for a kind of metadata twice (`CldpAssumption`, from the commands of `main` in
`cldp_client.c:127-143`). The transaction id stands for the life of
the client that chose it (`life`); `printed` and `asked` are history.

## Runs

All passing runs finish in about two minutes or less with two workers. A run of kind
"violation" is the evidence of a divergence described further down.

| run | bounds | shows |
|---|---|---|
| `MCKtp_stream` | W 3, 8 numbers, 4 messages one way, 3 datagrams queued, 1 loss, reordering | `NoLoss`, `InOrderDelivery`, `AckReleasesQueued`, `TypeOK` |
| `MCKtp_duplex` | W 2, 4 numbers, 4 messages one way and 1 the other | `SpaceAccounting`, `TakenIsBuffered`, `SendBookkeeping` round the wrap and with wild indices |
| `MCKtp_live` | W 3, 4 messages, no loss, fair | `DeliveryLive` |
| `MCKtpSockets_safe` | 2 processes, 2 entries, 1 kill anywhere, stale descriptors | `EntryKept`, `TokenBalance`, `ImplementsEntries` |
| `MCKtpSockets_live` | 2 processes, 2 entries, 1 kill outside the lock, fair | `BindReturns`, `BindServed`, `DeadForgotten`; no deadlock |
| `MCKtpSockets_reclaim` | 2 processes | violation |
| `MCTaskQueue_queue` | 2 workers, 2 tasks, 1 kill, fair | `TableAgrees`, `ResultExpected`, `LeftOnlyByReset`, `CompletedKept`, `Answered`, `ShutdownHeeded` |
| `MCTaskQueue_lost` | same | violation |
| `MCChatServer_rounds` | 4 users, 3 slots, 2 digits on the way, typing in 1 round | `Asked`, `NobodyForgotten`, `PassServesAll`, `StallsOnlyByLeaving`, `FirstNumberStands`, `ResultIsLargest`, `TypeOK` |
| `MCMySmtp_mail` | 2 sessions: one types MAIL FROM, RCPT TO, DATA or some of them, and a body of no line or of two, with room for one; one types MAIL FROM; the first may be killed anywhere | `PartiesKnown`, `ListFaithful`, `GetFaithful`, `Answered`, `TypeOK` |
| `MCStopAndWait_file` | 5 files of 3 chunks, numbers of one bit, 1 loss, room for 4 datagrams, fair | `ImplementsAtLeastOnce`, `Transferred`, `BothClose`, `TypeOK` |
| `MCCldp_lan` | 1 server, 2 clients, 3 seconds for 10, server and one client started twice, fair | `OnlyOwnAnswers`, `MissedNarrowly`, `Answered`, `TypeOK` |

`KtpSockets` and `TaskQueue` have a type invariant too; it is proved, and no run
repeats it.

Why the bounds are enough. The window algorithm compares numbers only with the
window and the expected number: three slots give a hole before, at and after the
place that is filled, and four messages go once round the slots. In the stream
run the numbers do not wrap (8 numbers, 4 messages), because round the wrap order
is known to break; the duplex run wraps (4 numbers). A network queue of three
holds a duplicate, a late and a current datagram. Two processes are enough to
cross wake-ups, two entries to confuse them, one kill because all kills are
symmetric in their effect. Two workers and two tasks make every refusal and
requeue meet; with four users on three slots a slot is reused, one user is turned
away and the table is shifted at each place. Users are interchangeable, so that
run uses symmetry; it checks no liveness. In `MCMySmtp_mail` two threads suffice to
take each other's lines, and a user may leave out commands of the script, so that
`DATA` also comes too early; the thread of the second may come by all the lines of
the first and be in data mode together with it, two mails may be stored, and a
`data_buffer` may overflow (each case was seen in the run). One line more than there is room for splits a body; the line "From: " and
the empty mail are what the readers of a mailbox may trip over. The files of
`MCStopAndWait_file` are a plain one and one each with a chunk that is sent once in
the middle, an acknowledgement at the end, and the two kinds of chunks that begin
with EOF. Three chunks take one bit once round, so that
an acknowledgement could be taken for another chunk's if two were ever on the way
out of turn; the theorem covers every modulus. In `MCCldp_lan` two clients show whose
answers are printed, a second start has answers to the first on the way, and three
seconds order HELLOs and discoveries in every way that ten do.

The bounds that are no part of the program are named in the modules: `Limit`,
`NetCap`, `MaxLosses` (Ktp), `MaxKills` (KtpSockets, TaskQueue), `Workers`,
`Users`, `Digits`, `MaxUnread`, `MaxRound`, `Script`, `Bodies`, `Leavers`, `MaxReplies`,
`MaxLost`, `Files`, `MaxRuns`; `W`, `MaxSeq`, `Modulus`, `Room` and `Interval` stand
for numbers of the code. Deadlock is checked where the system has no reason to stop (`MCKtpSockets_live`). Elsewhere it stops for good reasons:
the messages allowed are sent, an error return keeps the mutex, the queue has
been shut down, everybody has left.

Properties that are conditional say why. `NoLoss` and `SendBookkeeping` speak of
sockets no message of which was misnumbered after a wild `send_time`
(`Resequenced`); `BindServed` of the time before the first kill; `CompletedKept`
excludes workers that were killed, `LeftOnlyByReset` names the two ways in which
a task is left, `StallsOnlyByLeaving` the one way in which a round stands still.
`DeliveryLive` is checked without losses. `ListFaithful`
excludes mails with a line "---" or from a torn address, `GetFaithful` also those with
a line "From: "; `Answered`, and the bound on `data_buffer` in `TypeOK`, speak of a
client nobody else's lines can be mixed with. `Transferred` and `BothClose`
leave out files with a chunk that begins with EOF, and `BothClose` behaviours in which
the network loses a datagram or a buffer fills up, since most closing messages are
sent once. `MissedNarrowly` names the two ways in
which a server that runs is not found.

## Fairness

- Ktp: threads R and S loop for ever and the example programs retry sending and
  reading (weak). S is strong because the bound on the network queue may make it
  wait. Thread R on data that is next in order is strong: `dropMessage(P)` with
  P < 1 does not strike it for ever.
- KtpSockets: the daemon's threads and a process inside a call run on (weak). The
  wait on `sem1` is strong: each program binds once, so it is overtaken finitely
  often. No program is forced to make another call.
- TaskQueue: every process runs on (weak). Nothing forces a timeout, a kill or an
  accepted connection to come first.
- StopAndWait: both programs run and timeouts come (weak). `dropMessage` draws anew
  for each frame, so it does not strike all of them: strong for the two `k_recvfrom`
  that frames keep coming to.
- Cldp: a process that has a packet to read gets to read it (weak). Nothing forces
  time to pass.

## Theorems

Checked by TLAPS, for every value of the constants that meets the named
assumption of the module (`KtpAssumption`, `SocketsAssumption`,
`TaskQueueAssumption`, `StopAndWaitAssumption`, `ChatServerAssumption`,
`MySmtpAssumption`, `CldpAssumption`).

- `KtpProofs`: `TypeCorrect`, `SpaceAccounted`, `TakenBuffered`, then `QueueIsRun`
  and `BookkeepingKept`. The first three together they are
  the inductive invariant `IInv` (`Invariance`): that a range is kept when R takes
  a message needs a free slot whenever `rwnd.size` is positive, which is the space
  accounting; that R's search for the next expected number ends needs a number
  whose flag is up, which follows from "a flag that is down is that of a buffered
  message" because there are more numbers than slots (`MaxSeq > W + 1`). Lemmas on
  the ring of numbers, on the first free and the oldest slot and on counting free
  slots come first; then one lemma per action. Bookkeeping (`SendBookkeeping`)
  alone is not inductive: that `k_sendto` does not give out a number still queued, and that an
  acknowledgement clears a slot and its index together, needs that the numbers
  queued are a run of at most W from `swnd.start_sequence` on and that the next
  number is the one after it (`Run`), unless the counter has been overwritten.
  What is said of a socket that was resequenced is the part of it that stays true
  (`Named`).
- `KtpStreamProofs`: `ReleasesQueued`, `NeverBelow`, `DeliveredInOrder`, `NothingLost`, under the
  assumption `OneWay` on the constants: of each pair one socket sends nothing and the
  other fewer messages than `MaxSeq - 1`, for any buffer size, any number of pairs,
  losses and reorderings. `MCKtp_stream` is such an instance. The assumption is needed:
  `last_ack_received` is shared by the two directions, and after the wrap an old
  acknowledgement or copy passes for a new one. `Stream(i)` relates a sender and its
  peer. `Window`: what has been taken and not released is still queued, an
  acknowledgement on its way is of something taken, a frame on its way is of something
  queued once or carries the bytes before the buffer (number `MaxSeq`, which is never
  next). `Carried`: the payloads, as long as no message was misnumbered; the slots of
  the receive buffer hold what their numbers say and nothing older than the last
  message read, so the oldest of them is that message again or the one after it.
  `NeverBelow` follows from `ReleasesQueued`: `R_AckWild` is never taken, so these
  theorems are not about behaviours that have been cut short.
- `KtpSocketsProofs`: `TypeCorrect`, `EntriesKept`, `WakeupsKept`, `Implementation`.
  `TableInv` adds to `EntryKept` what the main loop may find when it takes the lock
  after looking, and where a process in `k_bind` stands with its entry. The
  balance of the wake-ups is an invariant of its own. Every step is then a step of
  `KtpEntries` or leaves it alone (`StepRefines`).
- `StopAndWaitProofs`: `TypeCorrect`, `AtLeastOnceImplemented`, for every file, those
  with chunks that are taken for control messages included. The invariant says that
  what is on the way, in `hand` and in the output comes in the order of the file, a
  data frame being of the current chunk or of one before: then an acknowledgement
  with the current number is the current chunk's, whatever the modulus, and that
  chunk is in `hand` or the last one written.
- `TaskQueueProofs`: `TypeCorrect`, `TablesAgree`, `LeftByResetOnly`,
  `ResultsExpected`, `CompletedStays`. `Unused` strengthens the first: a handler not forked yet has
  no task and no task has its number. A result finds a task because of what is on
  the connection at each point of worker and handler (`ConnectionsKept`). The last
  is of steps: a timeout requeues a task in hand and an assignment takes one nobody
  has, and a handler that reads the end of file of a worker that is done would have
  read its "exit" first.
- `ChatServerProofs`: `NobodyLost`, `PassComplete`, `EveryoneAsked`, `StallsByLeaving`,
  `FirstStands`, `TypeCorrect`, `LargestAnnounced`. The first needs that the clients in the table are all different and
  not in the backlog, and where the loop's index may stand; the others rest on what
  a shift of the arrays does to each place (`Shifted`). The types need that `atoi`, a
  fold over the digits that were read together, gives a natural number (see below);
  the attempt showed that no bound on the round follows from `MaxRound`, since users
  in the backlog may have typed before the last of these rounds, so `TypeOK` names
  none. `LargestAnnounced` is about the loop: after n turns its maximum is not below the
  first n numbers and is the number at its place (`LoopInvariant`, by induction over
  n; `Findable` shows that the recursive function exists, `LastTurn` takes the last
  turn).
- `MySmtpProofs`: `PartiesAlwaysKnown`, which is inductive once it is said of all
  threads, since a thread handles whatever lines `strtok` gives it; `TypeCorrect`, whose types
  hold whatever a buffer is rewritten with, and whose bound on `data_buffer` is that of
  a client alone: then the line that was measured is the one that is appended
  (`AnswerInv`, `Bounded`); `ListAlwaysFaithful` and
  `GetAlwaysFaithful`. For these, two invariants say of a mailbox and the mails stored
  in it what a pass of `LIST` (`ListsAs`) and of `GET_MAIL` (`ReadsAs`) leaves behind,
  and one mail more keeps them: the pass over the file with the mail appended is the
  pass over the file continued. `AlwaysAnswered` is of a client alone on the server:
  every line under way that may begin a body is followed by a "." (`Settled`), and
  what is still under way depends on where the client stands (`UnderWay`); with
  nobody else's lines in `strtok` only its own thread handles them, and nobody
  rewrites the one in hand (`InHand`).
- `CldpProofs`: `TypeCorrect`, `OwnAnswersOnly`, `MissedOnlyNarrowly`. Nobody compares
  transaction ids, so the invariant says why they need not be: a packet of a client is
  not newer than its life; while it is in its discovery everything of its address on
  the way is of an earlier life, and gone when the first second is over; when it
  waits, everything on the way is its own and asked for (`Fresh`, `Current`). Each is
  printed once, because a query is in its server's buffer once, and not together with
  its response, nor a response with its copy on the screen (`Single`, `Unprinted`);
  that `send_query` sends none twice needs a list without repetitions and the
  assumption on the commands. `Heard`: a running server the list lacks has its HELLO
  in the buffer or sent the last one before the discovery.

A fold is a recursive function chosen by `CHOOSE`, and what it computes is shown by
induction over its length. The library's induction theorems take the claim as an
operator, which cannot be instantiated here; the modules `MySmtpProofs`, `CldpProofs` and
`ChatServerProofs` prove a form of their own from the well-foundedness of `<`, with
the claim as a set of numbers (`Induction`), show that the function chosen exists
(`Iterable`, `ListIterable`, `GetIterable`, `Flattenable`) and then what it gives.

Only model-checked: all liveness, `DeliveryLive`, `BindReturns`, `BindServed`,
`DeadForgotten`, `Answered` (TaskQueue, Cldp), `ShutdownHeeded`, `Transferred` and
`BothClose`, since TLAPS proves none under fairness. Every invariant and action
property of a passing run is stated by a theorem, those of the streams (`NoLoss`,
`InOrderDelivery`, `AckReleasesQueued`) under `OneWay`.

## Divergences met

Shown by a run:

- `MCKtpSockets_reclaim`: the main loop tests `is_free` without the lock; with a
  sweep in between an entry is left allocated to process 0 (`initksocket.c:624`).
- `MCTaskQueue_lost`: a worker killed with a reply unread resets its connection;
  the handler's "recv failed" clears nothing, and one task in hand refuses every
  worker (`task_queue_server.c:302`).

In the models, and seen by reading, without a run:

- `k_recvfrom` orders messages by their numbers with `<`, so after 255 comes 1 first
  (`ksocket.c:165`). The datagram that reopens a closed window is sent once; when it
  is lost the stream stops (`initksocket.c:100`), at which the assignment hints.
- a message expected again is stored again (`initksocket.c:191`); a pass of S sends
  a whole window whatever is in flight (`:411`); retransmission overwrites the
  number counter (`:388`); acknowledgements of one direction are taken for the
  other's (`:152`).
- `k_bind` may return on the wake-up of another process, before its socket is bound
  (`initksocket.c:632`); it looks at `is_free` only, not whose the entry is (`ksocket.c:306`) and
  keeps the mutex on its error return (`:312`); `k_socket` leaves the last owner's
  buffers and numbers (`:243`); a failed `bind()` counts as bound
  (`initksocket.c:620`); the collector closes a descriptor thread R selects on
  (`:32`); a kill under the lock stops everything.
- TaskQueue: clearing a lost worker's tasks also requeues its completed ones
  (`task_queue_server.c:148`); any task in hand refuses every worker (`:108`, where
  the comment speaks of "this client"); `last_active_time` is not updated (`:184`);
  the server may stop with tasks not completed (`:402`).
- ChatServer: a client that gets a slot of one that left inherits its mark of
  having sent (`chatserver.c:95`); when the last client not to have sent leaves,
  the round stands still (`:146`); numbers read together become one (`:128`). A send
  to a client that has left (`:108`, `:161`, `:209`) may raise SIGPIPE, which nobody
  handles, and end the server: this one is not in the model, whose server sends on.

- My_SMTP: a session may act on another client's lines or lose its own
  (`mysmtp_server.c:161`), so a command may stay unanswered; the line may be rewritten
  by the recv of its owner (`:142`) between the length check and the `strcat`
  (`:293-298`), so that `data_buffer` overflows, or between the test for an "@" and
  the copy (`:237`, `:239`), so that anything becomes an address; two sends to a client
  that has gone end the server with all sessions (no `SIGPIPE` handler); after "403"
  or "500" the rest of a body is taken for commands and the client, which reads one
  reply, is behind from then on; a line "---" splits a mail, and `GET_MAIL` counts a
  "From: " in an earlier mail as a mail where `LIST` does not (`:436`, `:371`); a
  client whose input ends in a body waits for an answer to nothing
  (`mysmtp_client.c:86`). Not in the model: `handle_get_mail` collects a mail in
  `response[MAX_EMAIL_SIZE]` without looking at its length (`mysmtp_server.c:428`,
  `:444-460`), and the header lines of a mail near the limit overflow it.
- Stop-and-wait KTP: `user2` looks for EOF in data too, so a chunk that begins with
  it ends the reception (`asg4/user2.c:45`); `k_sendto` looks for control messages in
  it (`asg4/ksocket.c:120-152`), so a chunk that begins with EOF_ACK or FIN_ACK, or a
  last one of seven bytes whose first is 1, is sent once and not again; `k_recvfrom`
  acknowledges a chunk (`:296`) that is written later (`user2.c:56`), so `k_sendto` may
  return before; an EOF sent before `user2` is bound, as
  for an empty file, leaves both waiting, since `k_recvfrom` has no timeout
  (`user1.c:62`); FIN is sent with length 4, which `k_sendto` does not take
  for a control message, so it waits for an acknowledgement (`ksocket.c:122`); a lost EOF_ACK leaves both
  waiting (`user2.c:48`).
- CLDP: a comment says the transaction id must match, and it is not compared
  (`cldp_client.c:338`); the model shows that nothing wrong is printed for it, as a
  restarted client discovers longer than answers are on the way. A HELLO follows the
  last after eleven seconds (`cldp_server.c:96`; the assignment says ten) while a
  discovery lasts ten, so a server that runs may be missed. The usage text lists a
  command "discover" (`cldp_client.c:295`) that `main` refuses (`:153`).

## Left out, and why

Failing system calls at start-up (`shmget`, `sem_open`, `socket`, `fork`): the
programs exit. In KTP, a `k_close` that waits on a `sem_SM` an earlier call of the
process has closed (`ksocket.c:364`): the model's always gets the lock. What a read
of `send_buffer[-1]` finds is always the number `MaxSeq` (`DataFor`); the code reads
the field before the array. In the task queue every reply to a worker that has
closed makes the next `recv` fail; on Linux it may still return 0 when the end of
the stream came first. `swnd.valid_seq_num` and `next_task_index`: written and never read.
Wording of messages, logging, addresses beyond their identity. A worker that
connects after the server has closed its listening socket. Replies a reset
discards before the worker has read them. In My_SMTP a line cut in two by `recv`,
names longer than the buffers, files for recipients that are torn addresses, the two writes of a mail larger than a
block of stdio, and two threads in `strtok` writing the same terminator. Overflow in `atoi` and in the tasks'
arithmetic. Scheduling inside a critical section: `sem_SM` and the mutex make it
one step, and the code touches the shared state outside them only where the models
say so; `TaskQueue` reads `server_shutdown` and the server's `task_count` without
the mutex, each in one step.

## Plan

Done: `Ktp`, `KtpSockets`, `TaskQueue`, `ChatServer`, `MySmtp`, `StopAndWait`, `Cldp`,
their runs, and the theorems above. Next, in this order:

1. an abstract stream that `Ktp` implements as long as numbers do not wrap, on
   `StreamsKept`;
2. `EncFile`: chunks and end marks across reads;
3. liveness of a round in `ChatServer` as long as nobody leaves.
