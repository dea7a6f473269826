------------------------------ MODULE KtpSockets ------------------------------
(***************************************************************************)
(* The life of a KTP socket ("Lab 4 Final"): processes allocate, bind and  *)
(* close entries of a table in shared memory (k_socket, k_bind, k_close);  *)
(* the main loop of initksocket binds the UDP sockets for them, woken by   *)
(* sem2 and answering by sem1; its garbage collector takes back the        *)
(* entries of killed processes.  What travels through a bound socket is    *)
(* the subject of module Ktp.                                              *)
(*                                                                         *)
(* A section of code between sem_wait(sem_SM) and sem_post(sem_SM) is one  *)
(* action: all accesses of the table are in such sections, except the main *)
(* loop's test for an entry ready to bind, which is an action of its own.  *)
(* The address a process asks to be bound to is its own and is written as  *)
(* the process itself.                                                     *)
(***************************************************************************)
EXTENDS Integers, FiniteSets

CONSTANTS
  Proc,        \* the processes that use KTP
  NoProc,      \* pid 0, and the address ""
  N,           \* entries of the table: MAX_KTP_SOCKETS, 10
  Careless,    \* TRUE: programs may k_bind a descriptor they have closed
  MaxKills,    \* processes that may be killed (bound)
  KillInside   \* TRUE: also while they hold sem_SM

Entry == 0 .. N-1

ASSUME SocketsAssumption ==
  /\ IsFiniteSet(Proc) /\ NoProc \notin Proc
  /\ N \in Nat \ {0}
  /\ MaxKills \in Nat
  /\ Careless \in BOOLEAN /\ KillInside \in BOOLEAN

VARIABLES
  is_free,   \* [i]: 1 free, 0 allocated, 2 ready to bind
  pid,       \* [i]: the process that created the socket
  src,       \* [i]: src_ip and src_port
  udp,       \* [i]: udp_socket: "unbound", "closed", or what it is bound to
  dirty,     \* [i]: the entry's buffers, windows and counters were used
  sem_SM,    \* the mutex
  sem1,      \* main to k_bind: the binding is complete
  sem2,      \* k_bind to main: there is something to bind
  main,      \* where the main loop is
  at,        \* the entry it looks at
  pc,        \* [p]: "ready" between calls, or where in one p is
  fd,        \* [p]: the descriptor p has, or the entry k_socket looks at
  owned,     \* [p]: k_socket returned fd[p] and k_close did not succeed yet
  bound,     \* [p]: k_bind returned 0 for it
  dead       \* the processes that were killed

table == <<is_free, pid, src, udp, dirty>>
loop  == <<main, at>>
procs == <<pc, fd, owned, bound>>
vars  == <<table, sem_SM, sem1, sem2, loop, procs, dead>>

Init ==
  /\ is_free = [i \in Entry |-> 1]
  /\ pid     = [i \in Entry |-> NoProc]
  /\ src     = [i \in Entry |-> NoProc]
  /\ udp     = [i \in Entry |-> "unbound"]
  /\ dirty   = [i \in Entry |-> FALSE]
  /\ sem_SM = 1 /\ sem1 = 0 /\ sem2 = 0
  /\ main = "sleep" /\ at = 0
  /\ pc    = [p \in Proc |-> "ready"]
  /\ fd    = [p \in Proc |-> -1]
  /\ owned = [p \in Proc |-> FALSE]
  /\ bound = [p \in Proc |-> FALSE]
  /\ dead = {}

At(p, l)      == p \notin dead /\ pc[p] = l
Goto(p, l)    == pc' = [pc EXCEPT ![p] = l]

-----------------------------------------------------------------------------
(* k_socket: one critical section for each entry it looks at *)

k_socket(p) ==
  /\ At(p, "ready") /\ ~owned[p]
  /\ Goto(p, "probe")
  /\ fd' = [fd EXCEPT ![p] = 0]
  /\ UNCHANGED <<table, sem_SM, sem1, sem2, loop, owned, bound, dead>>

\* (mutant: an entry ready to bind passes for a free one)
NotAllocated(i) == is_free[i] # 0
Free(i) == is_free[i] = 1

\* The fields set are the owner, the addresses and the sizes of the windows:
\* buffers, sequence numbers and the UDP socket stay as the last owner left
\* them.
TakeEntry(p) ==
  /\ At(p, "probe") /\ sem_SM = 1 /\ Free(fd[p])
  /\ is_free' = [is_free EXCEPT ![fd[p]] = 0]
  /\ pid' = [pid EXCEPT ![fd[p]] = p]
  /\ src' = [src EXCEPT ![fd[p]] = NoProc]
  /\ Goto(p, "ready")
  /\ owned' = [owned EXCEPT ![p] = TRUE]
  /\ UNCHANGED <<udp, dirty, sem_SM, sem1, sem2, loop, fd, bound, dead>>

\* After the last entry k_socket returns -1.
SkipEntry(p) ==
  /\ At(p, "probe") /\ sem_SM = 1 /\ ~Free(fd[p])
  /\ IF fd[p] = N-1
       THEN fd' = [fd EXCEPT ![p] = -1] /\ Goto(p, "ready")
       ELSE fd' = [fd EXCEPT ![p] = @ + 1] /\ UNCHANGED pc
  /\ UNCHANGED <<table, sem_SM, sem1, sem2, loop, owned, bound, dead>>

-----------------------------------------------------------------------------
(* k_bind *)

Binding(p) ==
  /\ At(p, "ready") /\ sem_SM = 1
  /\ IF owned[p] THEN ~bound[p] ELSE Careless /\ fd[p] \in Entry

\* Whose the entry is, is not looked at.
k_bind(p) ==
  /\ Binding(p) /\ is_free[fd[p]] # 1
  /\ src' = [src EXCEPT ![fd[p]] = p]
  /\ is_free' = [is_free EXCEPT ![fd[p]] = 2]
  /\ Goto(p, "post")
  /\ UNCHANGED <<pid, udp, dirty, sem_SM, sem1, sem2, loop, fd, owned, bound,
                 dead>>

\* The early return for a free entry comes without sem_post(sem_SM).
k_bind_Refused(p) ==
  /\ Binding(p) /\ is_free[fd[p]] = 1
  /\ sem_SM' = 0
  /\ UNCHANGED <<table, sem1, sem2, loop, procs, dead>>

\* (mutant: k_bind asks only when no request of another is pending)
PostOnce(p) ==
  /\ At(p, "post")
  /\ sem2' = IF sem2 > 0 THEN sem2 ELSE sem2 + 1
  /\ Goto(p, "wait")
  /\ UNCHANGED <<table, sem_SM, sem1, loop, fd, owned, bound, dead>>
Post(p) ==
  /\ At(p, "post")
  /\ sem2' = sem2 + 1
  /\ Goto(p, "wait")
  /\ UNCHANGED <<table, sem_SM, sem1, loop, fd, owned, bound, dead>>

Wait(p) ==
  /\ At(p, "wait") /\ sem1 > 0
  /\ sem1' = sem1 - 1
  /\ Goto(p, "return")
  /\ UNCHANGED <<table, sem_SM, sem2, loop, fd, owned, bound, dead>>

\* Copies the entry to the process's own table, which nothing reads.
k_bind_Return(p) ==
  /\ At(p, "return") /\ sem_SM = 1
  /\ Goto(p, "ready")
  /\ bound' = [bound EXCEPT ![p] = owned[p]]
  /\ UNCHANGED <<table, sem_SM, sem1, sem2, loop, fd, owned, dead>>

-----------------------------------------------------------------------------
(* k_sendto, of which only the trace it leaves matters here, and k_close,   *)
(* which leaves the UDP socket as it is                                     *)

Mine(p) == fd[p] \in Entry /\ is_free[fd[p]] # 1 /\ pid[fd[p]] = p

k_sendto(p) ==
  /\ At(p, "ready") /\ sem_SM = 1 /\ bound[p] /\ Mine(p)
  /\ dirty' = [dirty EXCEPT ![fd[p]] = TRUE]
  /\ UNCHANGED <<is_free, pid, src, udp, sem_SM, sem1, sem2, loop, procs, dead>>

k_close(p) ==
  /\ At(p, "ready") /\ sem_SM = 1 /\ Mine(p)
  /\ is_free' = [is_free EXCEPT ![fd[p]] = 1]
  /\ pid' = [pid EXCEPT ![fd[p]] = NoProc]
  /\ owned' = [owned EXCEPT ![p] = FALSE]
  /\ bound' = [bound EXCEPT ![p] = FALSE]
  /\ UNCHANGED <<src, udp, dirty, sem_SM, sem1, sem2, loop, pc, fd, dead>>

-----------------------------------------------------------------------------
(* The main loop of initksocket *)

MainWake ==
  /\ main = "sleep" /\ sem2 > 0
  /\ sem2' = sem2 - 1
  /\ main' = "scan" /\ at' = 0
  /\ UNCHANGED <<table, sem_SM, sem1, procs, dead>>

\* is_free is read without sem_SM.
MainSkip ==
  /\ main = "scan" /\ is_free[at] # 2
  /\ IF at = N-1 THEN main' = "post" /\ UNCHANGED at
                 ELSE at' = at + 1 /\ UNCHANGED main
  /\ UNCHANGED <<table, sem_SM, sem1, sem2, procs, dead>>

MainFind ==
  /\ main = "scan" /\ is_free[at] = 2
  /\ main' = "bind"
  /\ UNCHANGED <<table, sem_SM, sem1, sem2, at, procs, dead>>

\* bind() wants an open socket without an address, and an address no other
\* socket has.
Bindable(i) ==
  udp[i] = "unbound" /\ src[i] # NoProc /\ \A j \in Entry : udp[j] # src[i]

\* A failed bind() is only reported.  is_free is not looked at again.
MainBind ==
  /\ main = "bind" /\ sem_SM = 1
  /\ udp' = [udp EXCEPT ![at] = IF Bindable(at) THEN src[at] ELSE @]
  /\ is_free' = [is_free EXCEPT ![at] = 0]
  /\ main' = "post"
  /\ UNCHANGED <<pid, src, dirty, sem_SM, sem1, sem2, at, procs, dead>>

\* (mutant: sem1 is posted only when nobody was told yet)
MainPostOnce ==
  /\ main = "post"
  /\ sem1' = IF sem1 > 0 THEN sem1 ELSE sem1 + 1
  /\ main' = "sleep"
  /\ UNCHANGED <<table, sem_SM, sem2, at, procs, dead>>
\* sem1 is posted whether or not there was something to bind.
MainPost ==
  /\ main = "post"
  /\ sem1' = sem1 + 1
  /\ main' = "sleep"
  /\ UNCHANGED <<table, sem_SM, sem2, at, procs, dead>>

-----------------------------------------------------------------------------
(* The garbage collector.  kill(pid, 0) succeeds for pid 0, which stands    *)
(* for the collector's own process group.                                   *)

\* (mutant: entries ready to bind are passed over)
UnboundSpared(i) == is_free[i] = 0 /\ pid[i] \in dead
Orphan(i) == is_free[i] # 1 /\ pid[i] \in dead

garbage_collector ==
  /\ sem_SM = 1
  /\ is_free' = [i \in Entry |-> IF Orphan(i) THEN 1 ELSE is_free[i]]
  /\ pid' = [i \in Entry |-> IF Orphan(i) THEN NoProc ELSE pid[i]]
  /\ udp' = [i \in Entry |-> IF Orphan(i) THEN "closed" ELSE udp[i]]
  /\ UNCHANGED <<src, dirty, sem_SM, sem1, sem2, loop, procs, dead>>

\* A process is killed (external): between two steps, or right after the
\* sem_wait of a critical section.
Kill(p) ==
  /\ p \notin dead /\ Cardinality(dead) < MaxKills
  /\ dead' = dead \union {p}
  /\ \/ UNCHANGED sem_SM
     \/ /\ KillInside /\ sem_SM = 1 /\ pc[p] \notin {"post", "wait"}
        /\ sem_SM' = 0
  /\ UNCHANGED <<table, sem1, sem2, loop, procs>>

-----------------------------------------------------------------------------
Process(p) ==
  \/ k_socket(p) \/ TakeEntry(p) \/ SkipEntry(p)
  \/ k_bind(p) \/ k_bind_Refused(p) \/ Post(p) \/ Wait(p) \/ k_bind_Return(p)
  \/ k_sendto(p) \/ k_close(p) \/ Kill(p)

Main == MainWake \/ MainSkip \/ MainFind \/ MainBind \/ MainPost

Next == Main \/ garbage_collector \/ \E p \in Proc : Process(p)

Spec == Init /\ [][Next]_vars

(* Fairness.  The daemon's threads keep running and a process inside a call *)
(* keeps executing it.  Whether it makes another call is its own affair.    *)
(* Strong for the wait on sem1, which others may take first: the programs   *)
(* bind once each, so nobody is overtaken for ever.                         *)
Fairness ==
  /\ WF_vars(Main) /\ WF_vars(garbage_collector)
  /\ \A p \in Proc :
       /\ WF_vars(TakeEntry(p) \/ SkipEntry(p) \/ Post(p) \/ k_bind_Return(p))
       /\ SF_vars(Wait(p))

FairSpec == Spec /\ Fairness

-----------------------------------------------------------------------------
(* Properties *)

\* Every variable keeps its range.
TypeOK ==
  /\ is_free \in [Entry -> {0, 1, 2}]
  /\ pid   \in [Entry -> Proc \union {NoProc}]
  /\ src   \in [Entry -> Proc \union {NoProc}]
  /\ udp   \in [Entry -> Proc \union {"unbound", "closed"}]
  /\ dirty \in [Entry -> BOOLEAN]
  /\ sem_SM \in {0, 1} /\ sem1 \in Nat /\ sem2 \in Nat
  /\ main \in {"sleep", "scan", "bind", "post"} /\ at \in Entry
  /\ pc    \in [Proc -> {"ready", "probe", "post", "wait", "return"}]
  /\ fd    \in [Proc -> Entry \union {-1}]
  /\ owned \in [Proc -> BOOLEAN]
  /\ bound \in [Proc -> BOOLEAN]
  /\ dead \subseteq Proc

\* Whatever the main loop writes after looking without the lock, whatever the
\* collector sweeps and others allocate: the entry of a living process stays
\* allocated to it until it closes it, and no other process has the same one.
EntryKept ==
  \A p \in Proc \ dead : owned[p] =>
    /\ fd[p] \in Entry /\ pid[fd[p]] = p /\ is_free[fd[p]] # 1
    /\ \A q \in Proc \ dead : owned[q] /\ fd[q] = fd[p] => q = p

\* The semaphores of k_bind and the main loop never lose a wake-up: for every
\* process that waits on sem1 there is a post of it still to come or pending.
Waiting == {p \in Proc \ dead : pc[p] = "wait"}
TokenBalance ==
  Cardinality(Waiting) <= sem1 + sem2 + (IF main = "sleep" THEN 0 ELSE 1)

\* So no call of k_bind hangs, whoever is killed meanwhile.
BindReturns == \A p \in Proc : pc[p] = "wait" ~> (pc[p] # "wait" \/ p \in dead)

\* As long as nobody is killed, no entry waits for its bind() for ever, though
\* a wake-up may be spent on the entry of another than who gave it.  (A process
\* killed between its request and its post costs another its wake-up.)
BindServed ==
  \A i \in Entry :
    (is_free[i] = 2 /\ dead = {}) ~> (is_free[i] # 2 \/ dead # {})

\* The collector strikes every dead owner's name out of the table.
DeadForgotten ==
  \A i \in Entry, p \in Proc :
    (p \in dead /\ pid[i] = p) ~> (pid[i] # p)

\* The table implements the abstract allocator of module KtpEntries.
Entries == INSTANCE KtpEntries WITH owner <- pid
ImplementsEntries == Entries!Spec

-----------------------------------------------------------------------------
(* What the assignment and the code's comments say and the code does not do *)

\* The collector cleans up the entry of a process that was killed.
Reclaimed ==
  \A i \in Entry :
    (is_free[i] # 1 /\ pid[i] \notin Proc \ dead) ~> (is_free[i] = 1)
===============================================================================
