--------------------------- MODULE KtpSocketsProofs ---------------------------
(* Theorems about KtpSockets, for every number of processes and entries, with *)
(* kills at any point and careless programs.                                  *)
EXTENDS KtpSockets, FiniteSetTheorems, TLAPS

-----------------------------------------------------------------------------
(* The inductive invariant *)

\* A free entry has no owner, a process looking for an entry has none yet, and
\* what a living process owns is allocated to it.
TableInv ==
  /\ \A i \in Entry : is_free[i] = 1 => pid[i] = NoProc
  /\ \A p \in Proc : pc[p] = "probe" => fd[p] \in Entry /\ ~owned[p]
  /\ \A p \in Proc \ dead : owned[p] =>
       fd[p] \in Entry /\ pid[fd[p]] = p /\ is_free[fd[p]] # 1

IInv == TypeOK /\ TableInv

\* The table starts free and its processes ready.
LEMMA InitInv == Init => IInv
BY SocketsAssumption DEF Init, IInv, TypeOK, TableInv, Entry

\* The operations of the processes keep the ranges of the variables.
LEMMA ProcessType ==
  ASSUME TypeOK, TableInv, NEW p \in Proc, Process(p)
  PROVE  TypeOK'
<1>1. CASE k_socket(p)
  BY <1>1, SocketsAssumption DEF k_socket, At, Goto, TypeOK, table, loop, Entry
<1>2. CASE TakeEntry(p)
  <2>1. fd[p] \in Entry
    BY <1>2 DEF TakeEntry, At, TableInv
  <2> QED
    BY <1>2, <2>1 DEF TakeEntry, At, Goto, TypeOK, loop
<1>3. CASE SkipEntry(p)
  <2>1. fd[p] \in Entry
    BY <1>3 DEF SkipEntry, At, TableInv
  <2>2. fd[p] # N-1 => fd[p] + 1 \in Entry
    BY <2>1, SocketsAssumption DEF Entry
  <2> QED
    BY <1>3, <2>2 DEF SkipEntry, At, Goto, TypeOK, table, loop
<1>4. CASE k_bind(p)
  BY <1>4 DEF k_bind, Binding, At, Goto, TypeOK, loop
<1>5. CASE k_bind_Refused(p)
  BY <1>5 DEF k_bind_Refused, TypeOK, table, loop, procs
<1>6. CASE Post(p)
  BY <1>6 DEF Post, Goto, TypeOK, table, loop
<1>7. CASE Wait(p)
  BY <1>7 DEF Wait, Goto, TypeOK, table, loop
<1>8. CASE k_bind_Return(p)
  BY <1>8 DEF k_bind_Return, Goto, TypeOK, table, loop
<1>9. CASE k_sendto(p)
  BY <1>9 DEF k_sendto, TypeOK, loop, procs
<1>10. CASE k_close(p)
  BY <1>10 DEF k_close, TypeOK, loop
<1>11. CASE Kill(p)
  BY <1>11 DEF Kill, TypeOK, table, loop, procs
<1> QED
  BY <1>1, <1>2, <1>3, <1>4, <1>5, <1>6, <1>7, <1>8, <1>9, <1>10, <1>11
     DEF Process

\* So do the main loop and the collector.
LEMMA DaemonType ==
  ASSUME TypeOK, Main \/ garbage_collector
  PROVE  TypeOK'
<1>1. CASE MainWake
  BY <1>1, SocketsAssumption DEF MainWake, TypeOK, table, procs, Entry
<1>2. CASE MainSkip
  <2>1. at # N-1 => at + 1 \in Entry
    BY SocketsAssumption DEF TypeOK, Entry
  <2> QED
    BY <1>2, <2>1 DEF MainSkip, TypeOK, table, procs
<1>3. CASE MainFind
  BY <1>3 DEF MainFind, TypeOK, table, procs
<1>4. CASE MainBind
  <2>1. Bindable(at) => src[at] \in Proc
    BY DEF Bindable, TypeOK
  <2> QED
    BY <1>4, <2>1 DEF MainBind, TypeOK, procs
<1>5. CASE MainPost
  BY <1>5 DEF MainPost, TypeOK, table, procs
<1>6. CASE garbage_collector
  BY <1>6 DEF garbage_collector, TypeOK, loop, procs
<1> QED
  BY <1>1, <1>2, <1>3, <1>4, <1>5, <1>6 DEF Main

\* The operations of the processes keep every living owner's entry.
LEMMA ProcessTable ==
  ASSUME TypeOK, TableInv, NEW p \in Proc, Process(p)
  PROVE  TableInv'
<1>1. CASE k_socket(p)
  <2>1. 0 \in Entry
    BY SocketsAssumption DEF Entry
  <2> QED
    BY <1>1, <2>1 DEF k_socket, At, Goto, TypeOK, TableInv, table
<1>2. CASE TakeEntry(p)
  <2>1. fd[p] \in Entry /\ is_free[fd[p]] = 1 /\ pid[fd[p]] = NoProc
    BY <1>2 DEF TakeEntry, At, Free, TableInv
  <2>2. \A q \in Proc \ dead : owned[q] => fd[q] # fd[p]
    BY <2>1 DEF TableInv
  <2> QED
    BY <1>2, <2>1, <2>2 DEF TakeEntry, At, Goto, TypeOK, TableInv
<1>3. CASE SkipEntry(p)
  <2>1. fd[p] \in Entry /\ ~owned[p]
    BY <1>3 DEF SkipEntry, At, TableInv
  <2>2. fd[p] # N-1 => fd[p] + 1 \in Entry
    BY <2>1, SocketsAssumption DEF Entry
  <2> QED
    BY <1>3, <2>1, <2>2 DEF SkipEntry, At, Goto, TypeOK, TableInv, table
<1>4. CASE k_bind(p)
  BY <1>4 DEF k_bind, Binding, At, Goto, TypeOK, TableInv
<1>5. CASE k_bind_Refused(p)
  BY <1>5 DEF k_bind_Refused, TableInv, table, procs
<1>6. CASE Post(p)
  BY <1>6 DEF Post, Goto, TypeOK, TableInv, table
<1>7. CASE Wait(p)
  BY <1>7 DEF Wait, Goto, TypeOK, TableInv, table
<1>8. CASE k_bind_Return(p)
  BY <1>8 DEF k_bind_Return, Goto, TypeOK, TableInv, table
<1>9. CASE k_sendto(p)
  BY <1>9 DEF k_sendto, TableInv, procs
<1>10. CASE k_close(p)
  <2>1. fd[p] \in Entry /\ pid[fd[p]] = p /\ p \notin dead
    BY <1>10 DEF k_close, Mine, At
  <2>2. \A q \in Proc \ dead : owned[q] /\ q # p => fd[q] # fd[p]
    BY <2>1 DEF TableInv
  <2> QED
    BY <1>10, <2>1, <2>2 DEF k_close, At, TypeOK, TableInv
<1>11. CASE Kill(p)
  BY <1>11 DEF Kill, TableInv, table, procs
<1> QED
  BY <1>1, <1>2, <1>3, <1>4, <1>5, <1>6, <1>7, <1>8, <1>9, <1>10, <1>11
     DEF Process

\* What the main loop writes after its look without the lock makes no entry
\* free, and the collector sweeps the entries of the dead only.
LEMMA DaemonTable ==
  ASSUME TypeOK, TableInv, Main \/ garbage_collector
  PROVE  TableInv'
<1>1. CASE MainWake \/ MainSkip \/ MainFind \/ MainPost
  BY <1>1 DEF MainWake, MainSkip, MainFind, MainPost, TableInv, table, procs
<1>2. CASE MainBind
  BY <1>2 DEF MainBind, TypeOK, TableInv, procs
<1>3. CASE garbage_collector
  <2>1. \A i \in Entry : is_free'[i] = 1 => pid'[i] = NoProc
    BY <1>3 DEF garbage_collector, TableInv
  <2>2. \A q \in Proc \ dead : owned[q] => ~Orphan(fd[q])
    BY DEF Orphan, TableInv
  <2> QED
    BY <1>3, <2>1, <2>2 DEF garbage_collector, TableInv, procs
<1> QED
  BY <1>1, <1>2, <1>3 DEF Main

-----------------------------------------------------------------------------
(* The table *)

\* Every operation, sweep and kill keeps the invariant.
THEOREM Invariance == Spec => []IInv
<1>1. IInv /\ [Next]_vars => IInv'
  <2> SUFFICES ASSUME TypeOK, TableInv, [Next]_vars PROVE TypeOK' /\ TableInv'
    BY DEF IInv
  <2>1. CASE UNCHANGED vars
    BY <2>1 DEF vars, table, loop, procs, TypeOK, TableInv
  <2>2. CASE Main \/ garbage_collector
    BY <2>2, DaemonType, DaemonTable
  <2>3. CASE \E p \in Proc : Process(p)
    BY <2>3, ProcessType, ProcessTable
  <2> QED
    BY <2>1, <2>2, <2>3 DEF Next
<1> QED
  BY InitInv, <1>1, PTL DEF Spec

\* Every field of the table, the semaphores and the states of the processes
\* keep their ranges.
THEOREM TypeCorrect == Spec => []TypeOK
BY Invariance, PTL DEF IInv

\* The entry of a living process stays allocated to it and to it alone, from
\* k_socket to k_close, whatever the daemon's threads do.
THEOREM EntriesKept == Spec => []EntryKept
<1>1. IInv => EntryKept
  BY DEF IInv, TableInv, EntryKept
<1> QED
  BY <1>1, Invariance, PTL

-----------------------------------------------------------------------------
(* The semaphores *)

Inside == IF main = "sleep" THEN 0 ELSE 1

\* A subset of the processes has a cardinality.
LEMMA WaitingFinite ==
  IsFiniteSet(Waiting) /\ Cardinality(Waiting) \in Nat
<1>1. Waiting \in SUBSET Proc
  BY DEF Waiting
<1> QED
  BY <1>1, SocketsAssumption, FS_Subset, FS_CardinalityType

\* A process that starts to wait brings a post of sem2 with it, and one that
\* stops takes a post of sem1; a killed one leaves its post behind.
LEMMA ProcessBalance ==
  ASSUME TypeOK, TokenBalance, NEW p \in Proc, Process(p)
  PROVE  TokenBalance'
<1> USE WaitingFinite
<1>1. sem1 \in Nat /\ sem2 \in Nat /\ Inside \in {0, 1}
  BY DEF TypeOK, Inside
<1>2. Cardinality(Waiting) <= sem1 + sem2 + Inside
  BY DEF TokenBalance, Inside
<1>3. ASSUME Waiting' = Waiting, UNCHANGED <<sem1, sem2, loop>>
      PROVE  TokenBalance'
  BY <1>3 DEF TokenBalance, loop
<1>4. CASE Post(p)
  <2>1. Waiting' = Waiting \union {p} /\ p \notin Waiting
    BY <1>4 DEF Post, At, Goto, TypeOK, Waiting
  <2>2. Cardinality(Waiting') = Cardinality(Waiting) + 1
    BY <2>1, FS_AddElement
  <2>3. sem1' = sem1 /\ sem2' = sem2 + 1 /\ Inside' = Inside
    BY <1>4 DEF Post, loop, Inside
  <2>4. Cardinality(Waiting') <= sem1' + sem2' + Inside'
    BY <1>1, <1>2, <2>2, <2>3
  <2> QED
    BY <2>4 DEF TokenBalance, Inside
<1>5. CASE Wait(p)
  <2>1. Waiting' = Waiting \ {p} /\ p \in Waiting
    BY <1>5 DEF Wait, At, Goto, TypeOK, Waiting
  <2>2. Cardinality(Waiting') = Cardinality(Waiting) - 1
    BY <2>1, FS_RemoveElement
  <2>3. sem1' = sem1 - 1 /\ sem2' = sem2 /\ Inside' = Inside
    BY <1>5 DEF Wait, loop, Inside
  <2>4. Cardinality(Waiting') <= sem1' + sem2' + Inside'
    BY <1>1, <1>2, <2>2, <2>3
  <2> QED
    BY <2>4 DEF TokenBalance, Inside
<1>6. CASE Kill(p)
  <2>1. Waiting' = Waiting \ {p}
    BY <1>6 DEF Kill, Waiting, procs
  <2>2. Cardinality(Waiting') <= Cardinality(Waiting)
    BY <2>1, FS_RemoveElement
  <2>3. Cardinality(Waiting') \in Nat
    BY <2>1, FS_RemoveElement, FS_CardinalityType
  <2>4. sem1' = sem1 /\ sem2' = sem2 /\ Inside' = Inside
    BY <1>6 DEF Kill, loop, Inside
  <2>5. Cardinality(Waiting') <= sem1' + sem2' + Inside'
    BY <1>1, <1>2, <2>2, <2>3, <2>4
  <2> QED
    BY <2>5 DEF TokenBalance, Inside
<1>7. CASE k_socket(p) \/ TakeEntry(p) \/ SkipEntry(p)
  <2>1. Waiting' = Waiting
    BY <1>7 DEF k_socket, TakeEntry, SkipEntry, At, Goto, TypeOK, Waiting
  <2> QED
    BY <1>3, <1>7, <2>1 DEF k_socket, TakeEntry, SkipEntry
<1>8. CASE k_bind(p) \/ k_bind_Refused(p) \/ k_bind_Return(p)
  <2>1. Waiting' = Waiting
    BY <1>8 DEF k_bind, k_bind_Refused, k_bind_Return, Binding, At, Goto,
                TypeOK, Waiting, procs
  <2> QED
    BY <1>3, <1>8, <2>1 DEF k_bind, k_bind_Refused, k_bind_Return
<1>9. CASE k_sendto(p) \/ k_close(p)
  <2>1. Waiting' = Waiting
    BY <1>9 DEF k_sendto, k_close, Waiting, procs
  <2> QED
    BY <1>3, <1>9, <2>1 DEF k_sendto, k_close
<1> QED
  BY <1>4, <1>5, <1>6, <1>7, <1>8, <1>9 DEF Process

\* The main loop turns each post of sem2 into one of sem1.
LEMMA DaemonBalance ==
  ASSUME TypeOK, TokenBalance, Main \/ garbage_collector
  PROVE  TokenBalance'
<1> USE WaitingFinite
<1>1. Waiting' = Waiting
  BY DEF Main, MainWake, MainSkip, MainFind, MainBind, MainPost,
         garbage_collector, Waiting, procs
<1>2. sem1 \in Nat /\ sem2 \in Nat
  BY DEF TypeOK
<1>3. CASE MainWake
  BY <1>1, <1>2, <1>3 DEF MainWake, TokenBalance
<1>4. CASE MainPost
  BY <1>1, <1>2, <1>4 DEF MainPost, TokenBalance
<1>5. CASE MainSkip \/ MainFind \/ MainBind
  BY <1>1, <1>5 DEF MainSkip, MainFind, MainBind, TokenBalance
<1>6. CASE garbage_collector
  BY <1>1, <1>6 DEF garbage_collector, loop, TokenBalance
<1> QED
  BY <1>3, <1>4, <1>5, <1>6 DEF Main

\* No wake-up of k_bind is ever lost: for each living process that waits on
\* sem1 there is a post of sem1 or one on its way through the main loop.
THEOREM WakeupsKept == Spec => []TokenBalance
<1>1. Init => TokenBalance
  <2> SUFFICES ASSUME Init PROVE TokenBalance
    OBVIOUS
  <2>1. Waiting = {}
    BY DEF Init, Waiting
  <2> QED
    BY <2>1, FS_EmptySet DEF Init, TokenBalance
<1>2. IInv /\ TokenBalance /\ [Next]_vars => TokenBalance'
  <2> SUFFICES ASSUME TypeOK, TokenBalance, [Next]_vars PROVE TokenBalance'
    BY DEF IInv
  <2>1. CASE UNCHANGED vars
    BY <2>1 DEF vars, loop, procs, TokenBalance, Waiting
  <2> QED
    BY <2>1, ProcessBalance, DaemonBalance DEF Next
<1> QED
  BY Invariance, <1>1, <1>2, PTL DEF Spec

-----------------------------------------------------------------------------
(* The abstract table *)

\* A step of the implementation is a step of the allocator of KtpEntries, whose
\* owner of an entry is its pid field, or changes neither owners nor the dead.
LEMMA StepRefines ==
  IInv /\ [Next]_vars => [Entries!Next]_<<pid, dead>>
<1> SUFFICES ASSUME IInv, [Next]_vars PROVE [Entries!Next]_<<pid, dead>>
  OBVIOUS
<1> USE DEF IInv
<1>1. CASE UNCHANGED vars
  BY <1>1 DEF vars, table
<1>2. CASE Main
  BY <1>2 DEF Main, MainWake, MainSkip, MainFind, MainBind, MainPost, table
<1>3. CASE garbage_collector
  <2>1. \A i \in Entry : Orphan(i) <=> pid[i] \in dead
    BY SocketsAssumption DEF Orphan, TypeOK, TableInv
  <2>2. Entries!Reclaim
    BY <1>3, <2>1 DEF garbage_collector, Entries!Reclaim
  <2> QED
    BY <2>2 DEF Entries!Next
<1>4. ASSUME NEW p \in Proc, Process(p) PROVE [Entries!Next]_<<pid, dead>>
  <2>1. CASE TakeEntry(p)
    <3>1. fd[p] \in Entry /\ pid[fd[p]] = NoProc
      BY <2>1 DEF TakeEntry, At, Free, TableInv
    <3>2. Entries!Take(p, fd[p])
      BY <2>1, <3>1 DEF TakeEntry, At, Entries!Take
    <3> QED
      BY <3>1, <3>2 DEF Entries!Next
  <2>2. CASE k_close(p)
    <3>1. fd[p] \in Entry /\ Entries!Release(p, fd[p])
      BY <2>2 DEF k_close, At, Mine, Entries!Release
    <3> QED
      BY <3>1 DEF Entries!Next
  <2>3. CASE Kill(p)
    <3>1. Entries!Die(p)
      BY <2>3 DEF Kill, table, Entries!Die
    <3> QED
      BY <3>1 DEF Entries!Next
  <2>4. CASE k_socket(p) \/ SkipEntry(p) \/ k_bind(p) \/ k_bind_Refused(p)
             \/ Post(p) \/ Wait(p) \/ k_bind_Return(p) \/ k_sendto(p)
    BY <2>4 DEF k_socket, SkipEntry, k_bind, k_bind_Refused, Post, Wait,
                k_bind_Return, k_sendto, table
  <2> QED
    BY <1>4, <2>1, <2>2, <2>3, <2>4 DEF Process
<1> QED
  BY <1>1, <1>2, <1>3, <1>4 DEF Next

\* The flags, the mutex and the threads implement the abstract allocator: an
\* entry is handed out only while it has no owner and taken away only by its
\* owner or after the owner's death.
THEOREM Implementation == Spec => ImplementsEntries
<1>1. Init => Entries!Init
  BY DEF Init, Entries!Init
<1> QED
  BY Invariance, StepRefines, <1>1, PTL DEF Spec, ImplementsEntries, Entries!Spec
===============================================================================
