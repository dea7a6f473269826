------------------------------ MODULE TaskQueue ------------------------------
(***************************************************************************)
(* The task queue of Lab 5.  A server process accepts workers and forks a  *)
(* handler for each; the handlers share the table of tasks (SharedData)    *)
(* under a mutex and talk to one worker each over TCP, which keeps order.  *)
(* Worker and handler number c are those of the c-th connection, its       *)
(* client_id.  A pass of handle_client's loop looks at the clock and at    *)
(* server_shutdown first (Timeout, Bye, Look) and then reads (the other    *)
(* actions of a handler).  The clock is left open: ten seconds since the   *)
(* connection was made may have passed at any look.                        *)
(***************************************************************************)
EXTENDS Integers, Sequences, FiniteSets

CONSTANTS
  TaskCount,   \* lines of the configuration file
  Workers,     \* connections the server may accept (bound)
  MaxKills     \* workers that may be killed (bound)

Task   == 0 .. TaskCount-1
Client == 0 .. Workers-1

ASSUME TaskQueueAssumption ==
  /\ TaskCount \in Nat \ {0} /\ Workers \in Nat \ {0} /\ MaxKills \in Nat

VARIABLES
  state,            \* [t]: 0 not assigned, 1 assigned, 2 completed
  assigned_to,      \* [t]: assigned_to_client, or -1
  server_shutdown,
  malformed,        \* tasks whose description is not an operation; set once
  server,           \* where main is: "accept", "flag", "sleep", "stopped"
  client_id,        \* connections accepted so far
  handler,          \* [c]: "none", "top" or "recv" of its loop, "gone"
  current_task,     \* [c]: the handler's task, or -1
  worker,           \* [c]: "ask", "await", "ack", "done", "dead"
  toServer,         \* [c]: what worker c sent and its handler did not read
  toWorker,         \* [c]: what the handler sent and the worker did not read
  reset             \* [c]: a read at the end of toServer fails, ECONNRESET

shared   == <<state, assigned_to, server_shutdown>>
mainVars == <<server, client_id, malformed>>
vars == <<shared, mainVars, handler, current_task, worker, toServer, toWorker,
          reset>>

Init ==
  /\ state = [t \in Task |-> 0] /\ assigned_to = [t \in Task |-> -1]
  /\ server_shutdown = FALSE
  /\ malformed \in SUBSET Task
  /\ server = "accept" /\ client_id = 0
  /\ handler = [c \in Client |-> "none"]
  /\ current_task = [c \in Client |-> -1]
  /\ worker = [c \in Client |-> "ask"]
  /\ toServer = [c \in Client |-> <<>>] /\ toWorker = [c \in Client |-> <<>>]
  /\ reset = [c \in Client |-> FALSE]

-----------------------------------------------------------------------------
(* The server process *)

all_tasks_completed == \A t \in Task : state[t] = 2

accept ==
  /\ server = "accept" /\ client_id < Workers
  /\ handler' = [handler EXCEPT ![client_id] = "top"]
  /\ client_id' = client_id + 1
  /\ UNCHANGED <<shared, malformed, server, current_task, worker, toServer,
                 toWorker, reset>>

\* The look at the table and the flag are two critical sections.
SeeAllCompleted ==
  /\ server = "accept" /\ all_tasks_completed
  /\ server' = "flag"
  /\ UNCHANGED <<shared, malformed, client_id, handler, current_task, worker,
                 toServer, toWorker, reset>>

SetShutdown ==
  /\ server = "flag"
  /\ server_shutdown' = TRUE
  /\ server' = "sleep"
  /\ UNCHANGED <<state, assigned_to, malformed, client_id, handler, current_task,
                 worker, toServer, toWorker, reset>>

Stop ==
  /\ server = "sleep"
  /\ server' = "stopped"
  /\ UNCHANGED <<shared, malformed, client_id, handler, current_task, worker,
                 toServer, toWorker, reset>>

-----------------------------------------------------------------------------
(* A handler *)

Gone(c) == handler' = [handler EXCEPT ![c] = "gone"]
Open(c) == worker[c] \notin {"done", "dead"}

\* A reply to a worker that has closed the connection resets it.
Reply(c, m) ==
  /\ toWorker' = [toWorker EXCEPT ![c] = Append(@, m)]
  /\ reset' = [reset EXCEPT ![c] = @ \/ ~Open(c)]
Silent == UNCHANGED <<toWorker, reset>>

Requeue(t) ==
  /\ state' = [state EXCEPT ![t] = 0]
  /\ assigned_to' = [assigned_to EXCEPT ![t] = -1]

\* (mutant: the handler goes on after the timeout)
TimeoutGoesOn(c) ==
  /\ handler[c] = "top" /\ current_task[c] # -1
  /\ Requeue(current_task[c])
  /\ current_task' = [current_task EXCEPT ![c] = -1]
  /\ Silent
  /\ UNCHANGED <<server_shutdown, mainVars, handler, worker, toServer>>
\* The worker is taken for inactive: the time is that since it connected.
Timeout(c) ==
  /\ handler[c] = "top" /\ current_task[c] # -1
  /\ Requeue(current_task[c])
  /\ current_task' = [current_task EXCEPT ![c] = -1]
  /\ Gone(c) /\ Silent
  /\ UNCHANGED <<server_shutdown, mainVars, worker, toServer>>

\* (mutant: the handler waits for its worker to leave first)
ByeLast(c) ==
  /\ handler[c] = "top" /\ server_shutdown /\ ~Open(c)
  /\ Gone(c) /\ Silent
  /\ UNCHANGED <<shared, mainVars, current_task, worker, toServer>>
Bye(c) ==
  /\ handler[c] = "top" /\ server_shutdown
  /\ Reply(c, "bye")
  /\ Gone(c)
  /\ UNCHANGED <<shared, mainVars, current_task, worker, toServer>>

Look(c) ==
  /\ handler[c] = "top" /\ ~server_shutdown
  /\ handler' = [handler EXCEPT ![c] = "recv"]
  /\ Silent
  /\ UNCHANGED <<shared, mainVars, current_task, worker, toServer>>

\* Nothing to read yet.
WouldBlock(c) ==
  /\ handler[c] = "recv" /\ toServer[c] = <<>> /\ Open(c)
  /\ handler' = [handler EXCEPT ![c] = "top"]
  /\ Silent
  /\ UNCHANGED <<shared, mainVars, current_task, worker, toServer>>

Receive(c, m) ==
  /\ handler[c] = "recv" /\ toServer[c] # <<>> /\ Head(toServer[c]) = m
  /\ toServer' = [toServer EXCEPT ![c] = Tail(@)]

\* Whoever has it: one task in hand refuses everybody.
TaskInHand(c) == \E t \in Task : state[t] = 1
Assign(c, t) ==
  /\ state' = [state EXCEPT ![t] = 1]
  /\ assigned_to' = [assigned_to EXCEPT ![t] = c]

GetTask(c) ==
  /\ Receive(c, "GET_TASK")
  /\ handler' = [handler EXCEPT ![c] = "top"]
  /\ \/ /\ TaskInHand(c)
        /\ Reply(c, "error")
        /\ UNCHANGED <<state, assigned_to, current_task>>
     \/ /\ ~TaskInHand(c)
        /\ \E t \in Task :
             /\ state[t] = 0 /\ \A u \in Task : state[u] = 0 => t <= u
             /\ Assign(c, t)
             /\ current_task' = [current_task EXCEPT ![c] = t]
             /\ Reply(c, IF t \in malformed THEN "malformed" ELSE "task")
     \/ /\ ~TaskInHand(c) /\ \A t \in Task : state[t] # 0
        /\ Reply(c, "none")
        /\ UNCHANGED <<state, assigned_to, current_task>>
  /\ UNCHANGED <<server_shutdown, mainVars, worker>>

\* (mutant: the handler keeps the number of the task it has completed)
KeepTask(c) == UNCHANGED current_task
DropTask(c) == current_task' = [current_task EXCEPT ![c] = -1]

\* assigned_to_client of a completed task stays what it was.
Result(c) ==
  /\ Receive(c, "RESULT")
  /\ handler' = [handler EXCEPT ![c] = "top"]
  /\ IF current_task[c] >= 0
       THEN /\ state' = [state EXCEPT ![current_task[c]] = 2]
            /\ DropTask(c)
            /\ Reply(c, "ack")
       ELSE UNCHANGED <<state, current_task>> /\ Silent
  /\ UNCHANGED <<assigned_to, server_shutdown, mainVars, worker>>

\* (mutant: a worker that leaves has its tasks cleared, like one that is lost)
ExitClears(c) ==
  /\ Receive(c, "exit")
  /\ state' = [t \in Task |-> IF assigned_to[t] = c THEN 0 ELSE state[t]]
  /\ Gone(c) /\ Silent
  /\ UNCHANGED <<assigned_to, server_shutdown, mainVars, current_task, worker>>
Exit(c) ==
  /\ Receive(c, "exit")
  /\ Gone(c) /\ Silent
  /\ UNCHANGED <<shared, mainVars, current_task, worker>>

\* clear_assigned_tasks looks at whom a task was assigned to, not at its state.
EndOfFile(c) ==
  /\ handler[c] = "recv" /\ toServer[c] = <<>> /\ ~Open(c) /\ ~reset[c]
  /\ state' = [t \in Task |-> IF assigned_to[t] = c THEN 0 ELSE state[t]]
  /\ assigned_to' = [t \in Task |-> IF assigned_to[t] = c THEN -1
                                                         ELSE assigned_to[t]]
  /\ Gone(c) /\ Silent
  /\ UNCHANGED <<server_shutdown, mainVars, current_task, worker, toServer>>

\* (mutant: an end of file passes for an error of recv)
FailOnClose(c) ==
  /\ handler[c] = "recv" /\ toServer[c] = <<>> /\ ~Open(c)
  /\ Gone(c) /\ Silent
  /\ UNCHANGED <<shared, mainVars, current_task, worker, toServer>>
\* "recv failed": nothing is cleared.
RecvFailed(c) ==
  /\ handler[c] = "recv" /\ toServer[c] = <<>> /\ ~Open(c) /\ reset[c]
  /\ Gone(c) /\ Silent
  /\ UNCHANGED <<shared, mainVars, current_task, worker, toServer>>

-----------------------------------------------------------------------------
(* A worker (worker_client.c) *)

workerOnly == <<shared, mainVars, handler, current_task>>

Send(c, m, l) ==
  /\ toServer' = [toServer EXCEPT ![c] = Append(@, m)]
  /\ worker' = [worker EXCEPT ![c] = l]

Ask(c) ==
  /\ handler[c] # "none" /\ worker[c] = "ask"
  /\ Send(c, "GET_TASK", "await")
  /\ UNCHANGED <<workerOnly, toWorker, reset>>

\* One read takes some or all of what was sent.
Unread(c, n) == SubSeq(toWorker[c], n+1, Len(toWorker[c]))
ReadReplies(c, n) == toWorker' = [toWorker EXCEPT ![c] = Unread(c, n)]

\* Any other answer than a task or "No tasks available" alone makes it ask again.
Answer(c) ==
  /\ worker[c] = "await"
  /\ \E n \in 1..Len(toWorker[c]) :
       /\ ReadReplies(c, n)
       /\ \/ /\ Head(toWorker[c]) = "task"
             /\ Send(c, "RESULT", "ack")
             /\ UNCHANGED reset
          \/ /\ Head(toWorker[c]) = "none" /\ n = 1
             /\ Send(c, "exit", "done")
             /\ reset' = [reset EXCEPT ![c] = @ \/ Unread(c, n) # <<>>]
          \/ /\ Head(toWorker[c]) # "task" /\ (Head(toWorker[c]) = "none" => n > 1)
             /\ worker' = [worker EXCEPT ![c] = "ask"]
             /\ UNCHANGED <<toServer, reset>>
  /\ UNCHANGED workerOnly

Acknowledged(c) ==
  /\ worker[c] = "ack"
  /\ \E n \in 1..Len(toWorker[c]) : ReadReplies(c, n)
  /\ worker' = [worker EXCEPT ![c] = "ask"]
  /\ UNCHANGED <<workerOnly, toServer, reset>>

\* The handler closed the connection.
Disconnected(c) ==
  /\ worker[c] \in {"await", "ack"} /\ toWorker[c] = <<>> /\ handler[c] = "gone"
  /\ Send(c, "exit", "done")
  /\ UNCHANGED <<workerOnly, toWorker, reset>>

\* The worker is terminated; its system closes the connection, with a reset
\* when there is something it had not read (external).
KillWorker(c) ==
  /\ handler[c] # "none" /\ Open(c)
  /\ Cardinality({d \in Client : worker[d] = "dead"}) < MaxKills
  /\ worker' = [worker EXCEPT ![c] = "dead"]
  /\ reset' = [reset EXCEPT ![c] = toWorker[c] # <<>>]
  /\ UNCHANGED <<workerOnly, toServer, toWorker>>

-----------------------------------------------------------------------------
main == accept \/ SeeAllCompleted \/ SetShutdown \/ Stop
handle_client(c) ==
  Timeout(c) \/ Bye(c) \/ Look(c) \/ WouldBlock(c) \/ GetTask(c) \/ Result(c)
  \/ Exit(c) \/ EndOfFile(c) \/ RecvFailed(c)
worker_client(c) == Ask(c) \/ Answer(c) \/ Acknowledged(c) \/ Disconnected(c)

Next == main \/ \E c \in Client :
                  handle_client(c) \/ worker_client(c) \/ KillWorker(c)

Spec == Init /\ [][Next]_vars

(* Fairness.  Every process runs on.  The two exits of the server's loop are  *)
(* both taken when they stay possible; a handler gets the mutex when it asks. *)
Fairness ==
  /\ WF_vars(accept) /\ WF_vars(SeeAllCompleted) /\ WF_vars(SetShutdown \/ Stop)
  /\ \A c \in Client : WF_vars(handle_client(c)) /\ WF_vars(worker_client(c))

FairSpec == Spec /\ Fairness

-----------------------------------------------------------------------------
(* Properties *)

FromWorker == {"GET_TASK", "RESULT", "exit"}
FromServer == {"task", "malformed", "none", "error", "ack", "bye"}

\* Every variable keeps its range; each message is one its receiver knows.
TypeOK ==
  /\ state \in [Task -> 0..2]
  /\ assigned_to \in [Task -> Client \union {-1}]
  /\ server_shutdown \in BOOLEAN
  /\ malformed \in SUBSET Task
  /\ server \in {"accept", "flag", "sleep", "stopped"}
  /\ client_id \in 0..Workers
  /\ handler \in [Client -> {"none", "top", "recv", "gone"}]
  /\ current_task \in [Client -> Task \union {-1}]
  /\ worker \in [Client -> {"ask", "await", "ack", "done", "dead"}]
  /\ toServer \in [Client -> Seq(FromWorker)]
  /\ toWorker \in [Client -> Seq(FromServer)]
  /\ reset \in [Client -> BOOLEAN]

Live(c) == handler[c] \in {"top", "recv"}

\* The table, which all handlers change, and each handler's own idea of its
\* task agree: a task in hand is that of one handler, which knows it, unless
\* that handler is gone.
TableAgrees ==
  /\ \A c \in Client : Live(c) /\ current_task[c] # -1 =>
       state[current_task[c]] = 1 /\ assigned_to[current_task[c]] = c
  /\ \A t \in Task : state[t] = 1 /\ Live(assigned_to[t]) =>
       current_task[assigned_to[t]] = t

\* A result comes from a worker whose handler has a task to complete with it,
\* so that it is acknowledged: a timeout ends the handler, never only its task.
ResultExpected ==
  \A c \in Client :
    Live(c) /\ (\E n \in DOMAIN toServer[c] : toServer[c][n] = "RESULT") =>
      current_task[c] # -1

\* A task stays in the hand of a handler that is gone only if the connection
\* was reset or the server is shutting down: an orderly end, a timeout and an
\* exit leave none behind.
LeftOnlyByReset ==
  \A t \in Task : state[t] = 1 /\ handler[assigned_to[t]] = "gone" =>
    reset[assigned_to[t]] \/ server_shutdown

\* What is completed stays so as long as no worker is killed.
CompletedKept ==
  [][\A t \in Task : state[t] = 2 /\ state'[t] # 2 =>
       worker[assigned_to[t]] = "dead"]_vars

\* Every request and every result is answered, or the connection closed.
Answered ==
  \A c \in Client : worker[c] \in {"await", "ack"}
                      ~> worker[c] \notin {"await", "ack"}

\* Told to shut down, every handler ends, whatever its worker does.
ShutdownHeeded ==
  \A c \in Client : (server_shutdown /\ handler[c] # "none") ~> handler[c] = "gone"

-----------------------------------------------------------------------------
\* "A worker client may get terminated without processing a task": its task
\* does not stay in hand for ever.
Recovered == \A t \in Task : state[t] = 1 ~> state[t] # 1
=============================================================================
