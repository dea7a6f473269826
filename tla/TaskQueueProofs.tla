--------------------------- MODULE TaskQueueProofs ---------------------------
(* Theorems about TaskQueue, for every number of tasks, workers and kills.   *)
EXTENDS TaskQueue, SequenceTheorems, TLAPS

-----------------------------------------------------------------------------
(* The inductive invariant *)

\* A handler that was not forked yet has no task, nor has any task its number;
\* a task in hand has the number of a handler.
Unused ==
  /\ \A c \in Client : handler[c] = "none" => current_task[c] = -1
  /\ \A c \in Client : c >= client_id => handler[c] = "none"
  /\ \A t \in Task : assigned_to[t] # -1 => handler[assigned_to[t]] # "none"
  /\ \A t \in Task : state[t] = 1 => assigned_to[t] \in Client

IInv == TypeOK /\ Unused /\ TableAgrees

\* The queue starts with no task assigned and no handler.
LEMMA InitInv == Init => IInv
<1> SUFFICES ASSUME Init PROVE IInv
  OBVIOUS
<1>1. <<>> \in Seq(FromWorker) /\ <<>> \in Seq(FromServer)
  OBVIOUS
<1>2. TypeOK
  <2>1. 0 \in 0..Workers /\ 0 \in 0..2
    BY TaskQueueAssumption
  <2>2. /\ state \in [Task -> 0..2] /\ client_id \in 0..Workers
        /\ assigned_to \in [Task -> Client \union {-1}]
        /\ current_task \in [Client -> Task \union {-1}]
    BY <2>1 DEF Init
  <2>3. toServer \in [Client -> Seq(FromWorker)] /\ toWorker \in [Client -> Seq(FromServer)]
    BY <1>1 DEF Init
  <2> QED
    BY <2>2, <2>3 DEF Init, TypeOK
<1>3. Unused
  BY DEF Init, Unused
<1>4. TableAgrees
  BY DEF Init, TableAgrees, Live
<1> QED
  BY <1>2, <1>3, <1>4 DEF IInv

\* A message more, or the first one less, leaves a queue of messages.
LEMMA QueueType ==
  ASSUME NEW M, NEW q \in [Client -> Seq(M)], NEW c \in Client
  PROVE  /\ \A m \in M : [q EXCEPT ![c] = Append(@, m)] \in [Client -> Seq(M)]
         /\ q[c] # <<>> => [q EXCEPT ![c] = Tail(@)] \in [Client -> Seq(M)]
         /\ \A n \in 1..Len(q[c]) :
              [q EXCEPT ![c] = SubSeq(@, n+1, Len(@))] \in [Client -> Seq(M)]
<1>1. q[c] \in Seq(M)
  OBVIOUS
<1>2. ASSUME NEW m \in M PROVE Append(q[c], m) \in Seq(M)
  BY <1>1, AppendProperties
<1>3. q[c] # <<>> => Tail(q[c]) \in Seq(M)
  BY <1>1, HeadTailProperties
<1>4. ASSUME NEW n \in 1..Len(q[c]) PROVE SubSeq(q[c], n+1, Len(q[c])) \in Seq(M)
  BY <1>1, SubSeqProperties, LenProperties
<1> QED
  BY <1>2, <1>3, <1>4

\* What a worker has not read yet is a queue of replies.
LEMMA RepliesType ==
  ASSUME TypeOK, NEW c \in Client, NEW n \in 1..Len(toWorker[c]), ReadReplies(c, n)
  PROVE  toWorker' \in [Client -> Seq(FromServer)]
BY QueueType DEF TypeOK, ReadReplies, Unread

\* What a reply and the receipt of a message do to the connection.
LEMMA ReplyType ==
  ASSUME TypeOK, NEW c \in Client, NEW m \in FromServer, Reply(c, m)
  PROVE  toWorker' \in [Client -> Seq(FromServer)] /\ reset' \in [Client -> BOOLEAN]
BY QueueType DEF Reply, TypeOK, Open
LEMMA ReceiveType ==
  ASSUME TypeOK, NEW c \in Client, NEW m, Receive(c, m)
  PROVE  toServer' \in [Client -> Seq(FromWorker)]
BY QueueType DEF Receive, TypeOK

-----------------------------------------------------------------------------
(* The server, the workers and the connections leave the table alone *)

\* The server only forks handlers that were not used before.
LEMMA ServerInv ==
  ASSUME IInv, main
  PROVE  IInv'
<1> USE DEF IInv
<1>1. CASE accept
  <2>1. client_id \in Client /\ client_id + 1 \in 0..Workers
    BY <1>1, TaskQueueAssumption DEF accept, TypeOK, Client
  <2>2. handler[client_id] = "none" /\ current_task[client_id] = -1
    BY <2>1 DEF Unused, TypeOK, Client
  <2>3. \A t \in Task : assigned_to[t] # client_id
    BY <2>1, <2>2, TaskQueueAssumption DEF Unused, Client
  <2>4. TypeOK'
    BY <1>1, <2>1 DEF accept, TypeOK, shared
  <2>5. Unused'
    BY <1>1, <2>1, <2>2 DEF accept, Unused, TypeOK, shared, Client
  <2>6. TableAgrees'
    BY <1>1, <2>1, <2>2, <2>3 DEF accept, TableAgrees, Unused, TypeOK, shared, Live
  <2> QED
    BY <2>4, <2>5, <2>6
<1>2. CASE SeeAllCompleted \/ SetShutdown \/ Stop
  <2>1. UNCHANGED <<state, assigned_to, malformed, client_id, handler,
                    current_task, worker, toServer, toWorker, reset>>
    BY <1>2 DEF SeeAllCompleted, SetShutdown, Stop, shared
  <2>2. TypeOK'
    BY <1>2, <2>1 DEF SeeAllCompleted, SetShutdown, Stop, TypeOK, shared
  <2>3. Unused'
    BY <2>1 DEF Unused
  <2>4. TableAgrees'
    BY <2>1 DEF TableAgrees, Live
  <2> QED
    BY <2>2, <2>3, <2>4
<1> QED
  BY <1>1, <1>2 DEF main

\* Workers and kills change the connections only.
LEMMA WorkerInv ==
  ASSUME IInv, NEW c \in Client, worker_client(c) \/ KillWorker(c)
  PROVE  IInv'
<1> USE DEF IInv
<1>1. UNCHANGED workerOnly
  BY DEF worker_client, Ask, Answer, Acknowledged, Disconnected, KillWorker
<1>2. Unused' /\ TableAgrees'
  <2>1. Unused'
    BY <1>1 DEF workerOnly, shared, mainVars, Unused
  <2>2. TableAgrees'
    BY <1>1 DEF workerOnly, shared, mainVars, TableAgrees, Live
  <2> QED
    BY <2>1, <2>2
<1>3. ASSUME NEW m \in FromWorker, NEW l \in {"ask", "await", "ack", "done", "dead"},
             Send(c, m, l)
      PROVE  /\ toServer' \in [Client -> Seq(FromWorker)]
             /\ worker' \in [Client -> {"ask", "await", "ack", "done", "dead"}]
  BY <1>3, QueueType DEF Send, TypeOK
<1>4. CASE Ask(c)
  BY <1>1, <1>2, <1>3, <1>4 DEF Ask, TypeOK, workerOnly, shared, mainVars, FromWorker
<1>5. CASE Answer(c)
  <2>1. toWorker' \in [Client -> Seq(FromServer)]
    BY <1>5, RepliesType DEF Answer
  <2>2. \/ Send(c, "RESULT", "ack") /\ UNCHANGED reset
        \/ /\ Send(c, "exit", "done")
           /\ \E b \in BOOLEAN : reset' = [reset EXCEPT ![c] = b]
        \/ worker' = [worker EXCEPT ![c] = "ask"] /\ UNCHANGED <<toServer, reset>>
    BY <1>5 DEF Answer, TypeOK
  <2>3. /\ toServer' \in [Client -> Seq(FromWorker)]
        /\ worker' \in [Client -> {"ask", "await", "ack", "done", "dead"}]
    BY <1>3, <2>2 DEF TypeOK, FromWorker
  <2>4. reset' \in [Client -> BOOLEAN]
    BY <2>2 DEF TypeOK
  <2> QED
    BY <1>1, <1>2, <2>1, <2>3, <2>4 DEF TypeOK, workerOnly, shared, mainVars
<1>6. CASE Acknowledged(c)
  BY <1>1, <1>2, <1>6, RepliesType
     DEF Acknowledged, TypeOK, workerOnly, shared, mainVars
<1>7. CASE Disconnected(c)
  BY <1>1, <1>2, <1>3, <1>7
     DEF Disconnected, TypeOK, workerOnly, shared, mainVars, FromWorker
<1>8. CASE KillWorker(c)
  BY <1>1, <1>2, <1>8 DEF KillWorker, TypeOK, workerOnly, shared, mainVars
<1> QED
  BY <1>2, <1>4, <1>5, <1>6, <1>7, <1>8 DEF worker_client

-----------------------------------------------------------------------------
(* A handler *)

\* Each step of a handler keeps the ranges of the variables.
LEMMA HandlerType ==
  ASSUME IInv, NEW c \in Client, handle_client(c)
  PROVE  TypeOK'
<1> USE DEF IInv
<1>1. CASE Timeout(c)
  BY <1>1 DEF Timeout, Requeue, Gone, Silent, TypeOK, mainVars
<1>2. CASE Bye(c)
  BY <1>2, ReplyType DEF Bye, Gone, TypeOK, mainVars, shared, FromServer
<1>3. CASE Look(c) \/ WouldBlock(c) \/ RecvFailed(c)
  BY <1>3 DEF Look, WouldBlock, RecvFailed, Gone, Silent, TypeOK, mainVars, shared
<1>4. CASE GetTask(c)
  <2>1. /\ toServer' \in [Client -> Seq(FromWorker)]
        /\ toWorker' \in [Client -> Seq(FromServer)]
        /\ reset' \in [Client -> BOOLEAN]
    <3>1. \E m \in FromServer : Reply(c, m)
      BY <1>4 DEF GetTask, FromServer
    <3>2. Receive(c, "GET_TASK")
      BY <1>4 DEF GetTask
    <3> QED
      BY <3>1, <3>2, ReceiveType, ReplyType
  <2>2. /\ state' \in [Task -> 0..2]
        /\ assigned_to' \in [Task -> Client \union {-1}]
        /\ current_task' \in [Client -> Task \union {-1}]
    <3>1. CASE UNCHANGED <<state, assigned_to, current_task>>
      BY <3>1 DEF TypeOK
    <3>2. ASSUME NEW t \in Task, Assign(c, t),
                 current_task' = [current_task EXCEPT ![c] = t]
          PROVE  /\ state' \in [Task -> 0..2]
                 /\ assigned_to' \in [Task -> Client \union {-1}]
                 /\ current_task' \in [Client -> Task \union {-1}]
      BY <3>2 DEF Assign, TypeOK
    <3> QED
      BY <1>4, <3>1, <3>2 DEF GetTask
  <2> QED
    BY <1>4, <2>1, <2>2 DEF GetTask, TypeOK, mainVars
<1>5. CASE Result(c)
  <2>1. /\ toServer' \in [Client -> Seq(FromWorker)]
        /\ toWorker' \in [Client -> Seq(FromServer)]
        /\ reset' \in [Client -> BOOLEAN]
    BY <1>5, ReceiveType, ReplyType DEF Result, FromServer, Silent, TypeOK
  <2>2. CASE current_task[c] >= 0
    <3>1. current_task[c] \in Task
      BY <2>2 DEF TypeOK
    <3>2. state' \in [Task -> 0..2]
      <4>1. state' = [state EXCEPT ![current_task[c]] = 2]
        BY <1>5, <2>2 DEF Result
      <4> QED
        BY <3>1, <4>1 DEF TypeOK
    <3>3. current_task' \in [Client -> Task \union {-1}]
      BY <1>5, <2>2 DEF Result, DropTask, TypeOK
    <3> QED
      <4>1. handler' \in [Client -> {"none", "top", "recv", "gone"}]
        BY <1>5 DEF Result, TypeOK
      <4> QED
        BY <1>5, <2>1, <3>2, <3>3, <4>1 DEF Result, TypeOK, mainVars
  <2>3. CASE ~(current_task[c] >= 0)
    BY <1>5, <2>1, <2>3 DEF Result, TypeOK, mainVars
  <2> QED
    BY <2>2, <2>3
<1>6. CASE Exit(c)
  BY <1>6, ReceiveType DEF Exit, Gone, Silent, TypeOK, mainVars, shared
<1>7. CASE EndOfFile(c)
  BY <1>7 DEF EndOfFile, Gone, Silent, TypeOK, mainVars
<1> QED
  BY <1>1, <1>2, <1>3, <1>4, <1>5, <1>6, <1>7 DEF handle_client

\* Each step of a handler keeps the table and its own task in agreement, and
\* touches no other handler's task.
LEMMA HandlerTable ==
  ASSUME IInv, NEW c \in Client, handle_client(c)
  PROVE  Unused' /\ TableAgrees'
<1> USE DEF IInv
<1>0. -1 \notin Client /\ -1 \notin Task
  BY TaskQueueAssumption DEF Client, Task
<1>1. CASE Timeout(c)
  <2>1. current_task[c] \in Task /\ Live(c) /\ assigned_to[current_task[c]] = c
    BY <1>1 DEF Timeout, TypeOK, TableAgrees, Live
  <2> QED
    BY <1>0, <1>1, <2>1
       DEF Timeout, Requeue, Gone, TypeOK, mainVars, Unused, TableAgrees, Live
<1>2. CASE Bye(c) \/ Look(c) \/ WouldBlock(c) \/ RecvFailed(c) \/ Exit(c)
  BY <1>0, <1>2 DEF Bye, Look, WouldBlock, RecvFailed, Exit, Receive, Gone,
     TypeOK, mainVars, shared, Unused, TableAgrees, Live
<1>3. CASE GetTask(c)
  <2>1. handler[c] = "recv" /\ handler' = [handler EXCEPT ![c] = "top"]
    BY <1>3 DEF GetTask, Receive
  <2>2. CASE UNCHANGED <<state, assigned_to, current_task>>
    BY <1>0, <1>3, <2>1, <2>2
       DEF GetTask, TypeOK, mainVars, Unused, TableAgrees, Live
  <2>3. ASSUME NEW t \in Task, ~TaskInHand(c), Assign(c, t),
               current_task' = [current_task EXCEPT ![c] = t]
        PROVE  Unused' /\ TableAgrees'
    <3>1. \A u \in Task : state[u] # 1
      BY <2>3 DEF TaskInHand
    <3>2. \A d \in Client : Live(d) => current_task[d] = -1
      BY <3>1 DEF TableAgrees, TypeOK
    <3> QED
      BY <1>0, <1>3, <2>1, <2>3, <3>1, <3>2
         DEF GetTask, Assign, TypeOK, mainVars, Unused, TableAgrees, Live
  <2> QED
    BY <1>3, <2>2, <2>3 DEF GetTask
<1>4. CASE Result(c)
  <2>1. handler[c] = "recv" /\ handler' = [handler EXCEPT ![c] = "top"]
    BY <1>4 DEF Result, Receive
  <2>2. CASE current_task[c] >= 0
    <3>1. current_task[c] \in Task /\ assigned_to[current_task[c]] = c
      BY <1>0, <2>1, <2>2 DEF TypeOK, TableAgrees, Live
    <3>2. \A d \in Client : Live(d) /\ d # c => current_task[d] # current_task[c]
      BY <1>0, <3>1 DEF TableAgrees, TypeOK
    <3> QED
      BY <1>0, <1>4, <2>1, <2>2, <3>1, <3>2
         DEF Result, DropTask, TypeOK, mainVars, Unused, TableAgrees, Live
  <2>3. CASE ~(current_task[c] >= 0)
    BY <1>0, <1>4, <2>1, <2>3
       DEF Result, TypeOK, mainVars, Unused, TableAgrees, Live
  <2> QED
    BY <2>2, <2>3
<1>5. CASE EndOfFile(c)
  BY <1>0, <1>5
     DEF EndOfFile, Gone, TypeOK, mainVars, Unused, TableAgrees, Live
<1> QED
  BY <1>1, <1>2, <1>3, <1>4, <1>5 DEF handle_client

-----------------------------------------------------------------------------
(* A connection *)

\* Where the two ends of a connection stand: the worker at w, q on its way to
\* the handler, r on its way back, and the handler with task t or -1.  They
\* take turns: one message at most is on its way, a worker that was given a
\* task has a handler that knows it, and one that leaves has none.
Turn(w, q, r, t) ==
  \/ w = "ask"   /\ q = <<>> /\ r = <<>>
  \/ w = "await" /\ q = <<"GET_TASK">> /\ r = <<>>
  \/ w = "await" /\ q = <<>> /\ r = <<"task">> /\ t # -1
  \/ w = "await" /\ q = <<>> /\ r = <<"none">> /\ t = -1
  \/ w = "await" /\ q = <<>> /\ r \in {<<"malformed">>, <<"error">>}
  \/ w = "ack"   /\ q = <<"RESULT">> /\ r = <<>> /\ t # -1
  \/ w = "ack"   /\ q = <<>> /\ r = <<"ack">>
  \/ w = "done"  /\ q = <<"exit">> /\ t = -1
  \/ w = "dead"  /\ q \in {<<>>, <<"GET_TASK">>}
  \/ w = "dead"  /\ q = <<"RESULT">> /\ t # -1

\* As long as it has a handler, or may yet get one; and only a connection the
\* worker has closed is reset.
TakeTurns(c) ==
  /\ handler[c] # "gone" =>
       Turn(worker[c], toServer[c], toWorker[c], current_task[c])
  /\ handler[c] = "none" => worker[c] = "ask"
  /\ reset[c] => ~Open(c)

Connections == \A c \in Client : TakeTurns(c)

\* A queue with one message.
LEMMA OneMessage ==
  ASSUME NEW m
  PROVE  /\ Append(<<>>, m) = <<m>> /\ <<m>> # <<>> /\ Len(<<m>>) = 1
         /\ Head(<<m>>) = m /\ Tail(<<m>>) = <<>> /\ SubSeq(<<m>>, 2, 1) = <<>>
OBVIOUS

\* The steps at one connection leave the others as they are.
LEMMA OthersTakeTurns ==
  ASSUME Connections, NEW c \in Client, TakeTurns(c)',
         \A d \in Client \ {c} :
           /\ handler'[d] = handler[d] /\ worker'[d] = worker[d]
           /\ toServer'[d] = toServer[d] /\ toWorker'[d] = toWorker[d]
           /\ current_task'[d] = current_task[d] /\ reset'[d] = reset[d]
  PROVE  Connections'
BY DEF Connections, TakeTurns, Open

\* The steps of a handler.
LEMMA HandlerTurns ==
  ASSUME IInv, Connections, NEW c \in Client, handle_client(c)
  PROVE  Connections'
<1> USE DEF IInv
<1>0. /\ TakeTurns(c) /\ worker' = worker
      /\ handler[c] \notin {"none", "gone"} /\ handler'[c] # "none"
  BY DEF Connections, TypeOK, handle_client, Timeout, Bye, Look, WouldBlock,
     GetTask, Result, Exit, EndOfFile, RecvFailed, Receive, Gone
<1>1. \A d \in Client \ {c} :
        /\ handler'[d] = handler[d] /\ worker'[d] = worker[d]
        /\ toServer'[d] = toServer[d] /\ toWorker'[d] = toWorker[d]
        /\ current_task'[d] = current_task[d] /\ reset'[d] = reset[d]
  BY DEF TypeOK, handle_client, Timeout, Bye, Look, WouldBlock, GetTask, Result,
     Exit, EndOfFile, RecvFailed, Receive, Gone, Reply, Silent, DropTask
<1>2. reset'[c] => ~Open(c)'
  BY <1>0 DEF TypeOK, TakeTurns, Open, handle_client, Timeout, Bye, Look,
     WouldBlock, GetTask, Result, Exit, EndOfFile, RecvFailed, Reply, Silent
<1>3. CASE Timeout(c) \/ Bye(c) \/ Exit(c) \/ EndOfFile(c) \/ RecvFailed(c)
  <2>1. handler'[c] = "gone"
    BY <1>3 DEF Timeout, Bye, Exit, EndOfFile, RecvFailed, Gone, TypeOK
  <2> QED
    BY <1>1, <1>2, <2>1, OthersTakeTurns DEF TakeTurns
<1>4. CASE Look(c) \/ WouldBlock(c)
  BY <1>0, <1>1, <1>2, <1>4, OthersTakeTurns
     DEF Look, WouldBlock, Silent, TakeTurns, mainVars
<1>5. ASSUME NEW m, Receive(c, m), m = "GET_TASK" \/ m = "RESULT"
      PROVE  /\ toServer[c] = <<m>> /\ toServer'[c] = <<>>
             /\ worker[c] = "dead" \/ toWorker[c] = <<>>
             /\ m = "GET_TASK" => worker[c] \in {"await", "dead"}
             /\ m = "RESULT" => worker[c] \in {"ack", "dead"} /\ current_task[c] # -1
  <2>1. Turn(worker[c], toServer[c], toWorker[c], current_task[c])
    BY <1>0 DEF TakeTurns
  <2>2. toServer[c] # <<>> /\ Head(toServer[c]) = m
    BY <1>5 DEF Receive
  <2>3. Head(<<"GET_TASK">>) = "GET_TASK" /\ Head(<<"RESULT">>) = "RESULT"
        /\ Head(<<"exit">>) = "exit"
    BY OneMessage
  <2>4. toServer[c] = <<m>>
    BY <1>5, <2>1, <2>2, <2>3 DEF Turn
  <2>5. toServer'[c] = <<>>
    BY <1>5, <2>4, OneMessage DEF Receive, TypeOK
  <2>6. <<"GET_TASK">> # <<"RESULT">> /\ <<"exit">> # <<m>>
    BY <1>5, <2>3, OneMessage
  <2> QED
    BY <1>5, <2>1, <2>2, <2>3, <2>4, <2>5, <2>6 DEF Turn
<1>6. ASSUME NEW m, Reply(c, m), toWorker[c] = <<>>
      PROVE  toWorker'[c] = <<m>>
  BY <1>6, OneMessage DEF Reply, TypeOK
<1>7. CASE GetTask(c)
  <2>1. Receive(c, "GET_TASK")
    BY <1>7 DEF GetTask
  <2>2. Turn(worker[c], <<>>, toWorker'[c], current_task'[c])
    <3>1. CASE worker[c] = "dead"
      BY <3>1 DEF Turn
    <3>2. CASE worker[c] = "await" /\ toWorker[c] = <<>>
      <4>1. CASE Reply(c, "error")
        BY <1>6, <3>2, <4>1 DEF Turn
      <4>2. ASSUME NEW t \in Task, current_task' = [current_task EXCEPT ![c] = t],
                   Reply(c, IF t \in malformed THEN "malformed" ELSE "task")
            PROVE  Turn(worker[c], <<>>, toWorker'[c], current_task'[c])
        <5>1. current_task'[c] = t /\ t # -1
          BY <4>2, TaskQueueAssumption DEF TypeOK, Task
        <5>2. toWorker'[c] \in {<<"malformed">>, <<"task">>}
          BY <1>6, <3>2, <4>2
        <5> QED
          BY <3>2, <5>1, <5>2 DEF Turn
      <4>3. CASE /\ ~TaskInHand(c) /\ Reply(c, "none")
                 /\ UNCHANGED <<state, assigned_to, current_task>>
        <5>1. current_task[c] = -1
          BY <1>0, <4>3 DEF TaskInHand, TableAgrees, Live, TypeOK
        <5> QED
          BY <1>6, <3>2, <4>3, <5>1 DEF Turn
      <4> QED
        BY <1>7, <4>1, <4>2, <4>3 DEF GetTask
    <3> QED
      BY <1>5, <2>1, <3>1, <3>2
  <2>3. toServer'[c] = <<>> /\ handler'[c] # "none"
    BY <1>0, <1>5, <2>1
  <2> QED
    BY <1>0, <1>1, <1>2, <2>2, <2>3, OthersTakeTurns DEF TakeTurns
<1>8. CASE Result(c)
  <2>1. Receive(c, "RESULT")
    BY <1>8 DEF Result
  <2>2. current_task[c] >= 0
    BY <1>5, <2>1, TaskQueueAssumption DEF TypeOK, Task
  <2>3. Reply(c, "ack")
    BY <1>8, <2>2 DEF Result
  <2>4. Turn(worker[c], <<>>, toWorker'[c], current_task'[c])
    <3>1. CASE worker[c] = "dead"
      BY <3>1 DEF Turn
    <3>2. CASE worker[c] = "ack" /\ toWorker[c] = <<>>
      BY <1>6, <2>3, <3>2 DEF Turn
    <3> QED
      BY <1>5, <2>1, <3>1, <3>2
  <2>5. toServer'[c] = <<>> /\ handler'[c] # "none"
    BY <1>0, <1>5, <2>1
  <2> QED
    BY <1>0, <1>1, <1>2, <2>4, <2>5, OthersTakeTurns DEF TakeTurns
<1> QED
  BY <1>3, <1>4, <1>7, <1>8 DEF handle_client

\* The steps of a worker, and its end.
LEMMA WorkerTurns ==
  ASSUME IInv, Connections, NEW c \in Client, worker_client(c) \/ KillWorker(c)
  PROVE  Connections'
<1> USE DEF IInv
<1>0. TakeTurns(c) /\ UNCHANGED workerOnly
  BY DEF Connections, worker_client, Ask, Answer, Acknowledged, Disconnected,
     KillWorker
<1>1. \A d \in Client \ {c} :
        /\ handler'[d] = handler[d] /\ worker'[d] = worker[d]
        /\ toServer'[d] = toServer[d] /\ toWorker'[d] = toWorker[d]
        /\ current_task'[d] = current_task[d] /\ reset'[d] = reset[d]
  BY DEF TypeOK, worker_client, Ask, Answer, Acknowledged, Disconnected,
     KillWorker, workerOnly, Send, ReadReplies
<1>2. CASE Ask(c)
  <2>1. ASSUME handler[c] # "gone"
        PROVE  Turn(worker'[c], toServer'[c], toWorker'[c], current_task'[c])
    <3>1. toServer[c] = <<>> /\ toWorker[c] = <<>>
      BY <1>0, <1>2, <2>1 DEF TakeTurns, Turn, Ask
    <3>2. toServer'[c] = <<"GET_TASK">> /\ worker'[c] = "await" /\ toWorker'[c] = <<>>
      BY <1>2, <3>1, OneMessage DEF Ask, Send, TypeOK
    <3> QED
      BY <3>2 DEF Turn
  <2>2. reset'[c] => ~Open(c)'
    BY <1>0, <1>2 DEF Ask, Send, TakeTurns, Open, TypeOK
  <2> QED
    BY <1>0, <1>1, <1>2, <2>1, <2>2, OthersTakeTurns
       DEF TakeTurns, Ask, workerOnly
<1>3. CASE Answer(c)
  <2>0. worker[c] = "await" /\ handler[c] # "none" /\ ~reset[c]
    BY <1>0, <1>3 DEF Answer, TakeTurns, Open
  <2>1. PICK n \in 1..Len(toWorker[c]) :
          /\ ReadReplies(c, n)
          /\ \/ /\ Head(toWorker[c]) = "task"
                /\ Send(c, "RESULT", "ack")
                /\ UNCHANGED reset
             \/ /\ Head(toWorker[c]) = "none" /\ n = 1
                /\ Send(c, "exit", "done")
                /\ reset' = [reset EXCEPT ![c] = @ \/ Unread(c, n) # <<>>]
             \/ /\ Head(toWorker[c]) # "task" /\ (Head(toWorker[c]) = "none" => n > 1)
                /\ worker' = [worker EXCEPT ![c] = "ask"]
                /\ UNCHANGED <<toServer, reset>>
    BY <1>3 DEF Answer
  <2>2. reset'[c] => ~Open(c)'
    BY <2>0, <2>1 DEF Send, Open, TypeOK
  <2>3. ASSUME handler[c] # "gone"
        PROVE  Turn(worker'[c], toServer'[c], toWorker'[c], current_task'[c])
    <3>1. Turn("await", toServer[c], toWorker[c], current_task[c])
      BY <1>0, <2>0, <2>3 DEF TakeTurns
    <3>2. toWorker[c] # <<>>
      BY <2>1 DEF TypeOK
    <3>3. PICK m : toWorker[c] = <<m>> /\ toServer[c] = <<>>
                   /\ (m = "task" => current_task[c] # -1)
                   /\ (m = "none" => current_task[c] = -1)
      BY <3>1, <3>2, OneMessage DEF Turn
    <3>4. n = 1 /\ Head(toWorker[c]) = m /\ toWorker'[c] = <<>>
      BY <2>1, <3>3, OneMessage DEF ReadReplies, Unread, TypeOK
    <3>5. current_task' = current_task
      BY <1>0 DEF workerOnly
    <3>6. CASE m = "task"
      <4>1. worker'[c] = "ack" /\ toServer'[c] = <<"RESULT">>
        BY <2>1, <3>3, <3>4, <3>6, OneMessage DEF Send, TypeOK
      <4> QED
        BY <3>3, <3>4, <3>5, <3>6, <4>1 DEF Turn
    <3>7. CASE m = "none"
      <4>1. worker'[c] = "done" /\ toServer'[c] = <<"exit">>
        BY <2>1, <3>3, <3>4, <3>7, OneMessage DEF Send, TypeOK
      <4> QED
        BY <3>3, <3>5, <3>7, <4>1 DEF Turn
    <3>8. CASE m \notin {"task", "none"}
      <4>1. worker'[c] = "ask" /\ toServer'[c] = <<>>
        BY <2>1, <3>3, <3>4, <3>8 DEF TypeOK
      <4> QED
        BY <3>4, <4>1 DEF Turn
    <3> QED
      BY <3>6, <3>7, <3>8
  <2> QED
    BY <1>0, <1>1, <2>0, <2>2, <2>3, OthersTakeTurns DEF TakeTurns, workerOnly
<1>4. CASE Acknowledged(c)
  <2>0. worker[c] = "ack" /\ handler[c] # "none" /\ ~reset[c]
    BY <1>0, <1>4 DEF Acknowledged, TakeTurns, Open
  <2>1. PICK n \in 1..Len(toWorker[c]) : ReadReplies(c, n)
    BY <1>4 DEF Acknowledged
  <2>2. ASSUME handler[c] # "gone"
        PROVE  Turn(worker'[c], toServer'[c], toWorker'[c], current_task'[c])
    <3>1. toWorker[c] # <<>>
      BY <2>1 DEF TypeOK
    <3>2. toWorker[c] = <<"ack">> /\ toServer[c] = <<>>
      BY <1>0, <2>0, <2>2, <3>1 DEF TakeTurns, Turn
    <3>3. n = 1 /\ toWorker'[c] = <<>>
      BY <2>1, <3>2, OneMessage DEF ReadReplies, Unread, TypeOK
    <3> QED
      BY <1>4, <3>2, <3>3 DEF Acknowledged, Turn, TypeOK
  <2> QED
    BY <1>0, <1>1, <1>4, <2>0, <2>2, OthersTakeTurns
       DEF TakeTurns, Acknowledged, workerOnly
<1>5. CASE Disconnected(c)
  <2>1. handler'[c] = "gone" /\ reset' = reset /\ worker'[c] = "done"
    BY <1>0, <1>5 DEF Disconnected, Send, workerOnly, TypeOK
  <2> QED
    BY <1>1, <2>1, OthersTakeTurns DEF TakeTurns, Open
<1>6. CASE KillWorker(c)
  <2>1. /\ handler[c] # "none" /\ worker'[c] = "dead" /\ worker[c] \notin {"done", "dead"}
        /\ UNCHANGED <<toServer, toWorker>>
    BY <1>6 DEF KillWorker, Open, TypeOK
  <2>2. ASSUME handler[c] # "gone"
        PROVE  Turn("dead", toServer[c], toWorker[c], current_task[c])
    BY <1>0, <2>1, <2>2 DEF TakeTurns, Turn
  <2> QED
    BY <1>0, <1>1, <2>1, <2>2, OthersTakeTurns DEF TakeTurns, Open, workerOnly
<1> QED
  BY <1>2, <1>3, <1>4, <1>5, <1>6 DEF worker_client

\* What a handler that is gone leaves behind.
LEMMA HandlerLeaves ==
  ASSUME IInv, Connections, LeftOnlyByReset, NEW c \in Client, handle_client(c)
  PROVE  LeftOnlyByReset'
<1> USE DEF IInv
<1>0. -1 \notin Client /\ -1 \notin Task
  BY TaskQueueAssumption DEF Client, Task
<1>1. CASE Timeout(c)
  <2>1. current_task[c] \in Task /\ Live(c)
    BY <1>1 DEF Timeout, TypeOK, Live
  <2> QED
    BY <1>0, <1>1, <2>1 DEF Timeout, Requeue, Gone, Silent, TypeOK,
       TableAgrees, LeftOnlyByReset, Live, Unused
<1>2. CASE Bye(c) \/ RecvFailed(c)
  BY <1>0, <1>2 DEF Bye, RecvFailed, Gone, Reply, Silent, TypeOK, shared,
     LeftOnlyByReset, Unused
<1>3. CASE Look(c) \/ WouldBlock(c)
  BY <1>0, <1>3 DEF Look, WouldBlock, Silent, TypeOK, shared, LeftOnlyByReset,
     Unused
<1>4. CASE Exit(c)
  <2>1. Turn(worker[c], toServer[c], toWorker[c], current_task[c]) /\ Live(c)
    BY <1>4 DEF Exit, Receive, Connections, TakeTurns, Live
  <2>2. toServer[c] # <<>> /\ Head(toServer[c]) = "exit"
    BY <1>4 DEF Exit, Receive
  <2>3. Head(<<"GET_TASK">>) = "GET_TASK" /\ Head(<<"RESULT">>) = "RESULT"
    BY OneMessage
  <2>4. current_task[c] = -1
    BY <2>1, <2>2, <2>3 DEF Turn
  <2>5. \A t \in Task : state[t] = 1 => assigned_to[t] # c
    BY <1>0, <2>1, <2>4 DEF TableAgrees
  <2> QED
    BY <1>0, <1>4, <2>5 DEF Exit, Gone, Silent, TypeOK, shared,
       LeftOnlyByReset, Unused
<1>5. CASE GetTask(c)
  <2>1. /\ handler'[c] = "top" /\ \A d \in Client \ {c} : handler'[d] = handler[d]
        /\ \A d \in Client : reset[d] => reset'[d]
        /\ server_shutdown' = server_shutdown
    BY <1>5 DEF GetTask, Receive, Reply, TypeOK
  <2>2. CASE UNCHANGED <<state, assigned_to>>
    BY <1>0, <2>1, <2>2 DEF LeftOnlyByReset, Unused, TypeOK
  <2>3. ASSUME NEW t \in Task, ~TaskInHand(c), Assign(c, t)
        PROVE  LeftOnlyByReset'
    BY <1>0, <2>1, <2>3 DEF Assign, TaskInHand, LeftOnlyByReset, TypeOK
  <2> QED
    BY <1>5, <2>2, <2>3 DEF GetTask
<1>6. CASE Result(c)
  <2>1. /\ handler'[c] = "top" /\ \A d \in Client \ {c} : handler'[d] = handler[d]
        /\ \A d \in Client : reset[d] => reset'[d]
        /\ server_shutdown' = server_shutdown /\ assigned_to' = assigned_to
    BY <1>6 DEF Result, Receive, Reply, Silent, TypeOK
  <2>2. \A t \in Task : state'[t] = 1 => state[t] = 1
    BY <1>6 DEF Result, TypeOK
  <2> QED
    BY <1>0, <2>1, <2>2 DEF LeftOnlyByReset, Unused, TypeOK
<1>7. CASE EndOfFile(c)
  BY <1>0, <1>7 DEF EndOfFile, Gone, Silent, TypeOK, LeftOnlyByReset, Unused
<1> QED
  BY <1>1, <1>2, <1>3, <1>4, <1>5, <1>6, <1>7 DEF handle_client

-----------------------------------------------------------------------------
(* Theorems *)

\* Every step of the server, a handler or a worker keeps the invariant.
THEOREM Invariance == Spec => []IInv
<1>1. IInv /\ [Next]_vars => IInv'
  <2> SUFFICES ASSUME IInv, [Next]_vars PROVE IInv'
    OBVIOUS
  <2>1. CASE UNCHANGED vars
    BY <2>1 DEF vars, shared, mainVars, IInv, TypeOK, Unused, TableAgrees, Live
  <2>2. CASE main
    BY <2>2, ServerInv
  <2>3. ASSUME NEW c \in Client, handle_client(c) PROVE IInv'
    BY <2>3, HandlerType, HandlerTable DEF IInv
  <2>4. ASSUME NEW c \in Client, worker_client(c) \/ KillWorker(c) PROVE IInv'
    BY <2>4, WorkerInv
  <2> QED
    BY <2>1, <2>2, <2>3, <2>4 DEF Next
<1> QED
  BY InitInv, <1>1, PTL DEF Spec

\* The shared table, the handlers, the workers and their connections keep their
\* ranges.
THEOREM TypeCorrect == Spec => []TypeOK
BY Invariance, PTL DEF IInv

\* The shared table and the handlers' own variables agree on who has which
\* task, whatever is killed, timed out or closed.
THEOREM TablesAgree == Spec => []TableAgrees
BY Invariance, PTL DEF IInv

\* The two ends of every connection take turns, and nothing but a reset or the
\* shutdown leaves a task in the hand of a handler that is gone.
THEOREM ConnectionsKept == Spec => [](Connections /\ LeftOnlyByReset)
<1> DEFINE Kept == Connections /\ LeftOnlyByReset
<1>1. Init => Kept
  BY DEF Init, Connections, TakeTurns, Turn, LeftOnlyByReset
<1>2. IInv /\ Kept /\ [Next]_vars => Kept'
  <2> SUFFICES ASSUME IInv, Kept, [Next]_vars PROVE Kept'
    OBVIOUS
  <2>1. CASE UNCHANGED vars
    BY <2>1 DEF vars, shared, mainVars, Connections, TakeTurns, Open,
       LeftOnlyByReset
  <2>2. CASE accept
    <3>1. handler[client_id] = "none" /\ client_id \in Client
      BY <2>2, TaskQueueAssumption DEF accept, IInv, Unused, TypeOK, Client
    <3> QED
      BY <2>2, <3>1 DEF accept, IInv, TypeOK, shared, Connections, TakeTurns,
         Open, LeftOnlyByReset
  <2>3. CASE SeeAllCompleted \/ SetShutdown \/ Stop
    BY <2>3 DEF SeeAllCompleted, SetShutdown, Stop, shared, Connections,
       TakeTurns, Open, LeftOnlyByReset
  <2>4. ASSUME NEW c \in Client, handle_client(c) PROVE Kept'
    BY <2>4, HandlerTurns, HandlerLeaves
  <2>5. ASSUME NEW c \in Client, worker_client(c) \/ KillWorker(c) PROVE Kept'
    <3>1. \A d \in Client : reset[d] => reset'[d]
      BY <2>5 DEF IInv, TypeOK, Connections, TakeTurns, worker_client, Ask,
         Answer, Acknowledged, Disconnected, KillWorker
    <3>2. UNCHANGED workerOnly
      BY <2>5 DEF worker_client, Ask, Answer, Acknowledged, Disconnected,
         KillWorker
    <3>3. LeftOnlyByReset'
      BY <3>1, <3>2 DEF LeftOnlyByReset, workerOnly, shared, IInv, TypeOK, Unused
    <3> QED
      BY <2>5, <3>3, WorkerTurns
  <2> QED
    BY <2>1, <2>2, <2>3, <2>4, <2>5 DEF Next, main
<1> QED
  BY Invariance, <1>1, <1>2, PTL DEF Spec

\* A task stays in the hand of a handler that is gone only after a reset or in
\* a shutdown.
THEOREM LeftByResetOnly == Spec => []LeftOnlyByReset
BY ConnectionsKept, PTL

\* A result that is on its way to a handler finds it with a task.
THEOREM ResultsExpected == Spec => []ResultExpected
<1>1. IInv /\ Connections => ResultExpected
  <2> SUFFICES ASSUME IInv, Connections, NEW c \in Client, Live(c),
                      NEW n \in DOMAIN toServer[c], toServer[c][n] = "RESULT"
               PROVE  current_task[c] # -1
    BY DEF ResultExpected
  <2>1. Turn(worker[c], toServer[c], toWorker[c], current_task[c])
    BY DEF Connections, TakeTurns, Live
  <2>2. toServer[c] \notin {<<>>, <<"GET_TASK">>, <<"exit">>}
    OBVIOUS
  <2> QED
    BY <2>1, <2>2 DEF Turn
<1> QED
  BY Invariance, ConnectionsKept, <1>1, PTL

\* A task that is completed is taken back only by the end of the connection of
\* the worker that was killed after it had completed it: a timeout requeues a
\* task in hand, and a worker that leaves has said so before it closes.
THEOREM CompletedStays == Spec => CompletedKept
<1> DEFINE Taken(t) == state[t] = 2 /\ state'[t] # 2
<1>1. ASSUME IInv, Connections, [Next]_vars, NEW t \in Task, Taken(t)
      PROVE  worker[assigned_to[t]] = "dead"
  <2> USE <1>1 DEF IInv
  <2>1. ~UNCHANGED state
    OBVIOUS
  <2>2. PICK c \in Client : handle_client(c)
    BY <2>1 DEF Next, main, accept, SeeAllCompleted, SetShutdown, Stop,
       worker_client, Ask, Answer, Acknowledged, Disconnected, KillWorker,
       workerOnly, shared, vars
  <2>3. ~(Bye(c) \/ Look(c) \/ WouldBlock(c) \/ Exit(c) \/ RecvFailed(c))
    BY <2>1 DEF Bye, Look, WouldBlock, Exit, RecvFailed, shared
  <2>4. ~Timeout(c)
    <3> SUFFICES ASSUME Timeout(c) PROVE FALSE
      OBVIOUS
    <3>1. current_task[c] \in Task /\ state[current_task[c]] = 1
      BY DEF Timeout, TypeOK, TableAgrees, Live
    <3> QED
      BY <3>1 DEF Timeout, Requeue, TypeOK
  <2>5. ~GetTask(c)
    <3> SUFFICES ASSUME GetTask(c) PROVE FALSE
      OBVIOUS
    <3>1. PICK u \in Task : state[u] = 0 /\ Assign(c, u)
      BY <2>1 DEF GetTask
    <3> QED
      BY <3>1 DEF Assign, TypeOK
  <2>6. ~Result(c)
    <3> SUFFICES ASSUME Result(c) PROVE FALSE
      OBVIOUS
    <3>1. state' = [state EXCEPT ![current_task[c]] = 2]
      BY <2>1 DEF Result
    <3> QED
      BY <3>1 DEF TypeOK
  <2>7. EndOfFile(c)
    BY <2>2, <2>3, <2>4, <2>5, <2>6 DEF handle_client
  <2>8. assigned_to[t] = c /\ handler[c] = "recv" /\ toServer[c] = <<>> /\ ~Open(c)
    BY <2>7 DEF EndOfFile, TypeOK
  <2>9. Turn(worker[c], toServer[c], toWorker[c], current_task[c])
    BY <2>8 DEF Connections, TakeTurns
  <2>10. worker[c] # "done"
    <3>1. toServer[c] # <<"exit">>
      BY <2>8, OneMessage
    <3> QED
      BY <2>9, <3>1 DEF Turn
  <2> QED
    BY <2>8, <2>10 DEF Open
<1>2. IInv /\ Connections /\ [Next]_vars =>
        [\A t \in Task : state[t] = 2 /\ state'[t] # 2 =>
           worker[assigned_to[t]] = "dead"]_vars
  BY <1>1
<1> QED
  BY Invariance, ConnectionsKept, <1>2, PTL DEF Spec, CompletedKept

=============================================================================
