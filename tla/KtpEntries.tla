------------------------------ MODULE KtpEntries ------------------------------
(***************************************************************************)
(* What the shared socket table promises the processes that use it: an     *)
(* entry has one owner at a time, it is handed out only while it has none, *)
(* and it is taken away only by its owner or once its owner is dead.       *)
(* Module KtpSockets implements this with flags, semaphores and threads.   *)
(***************************************************************************)
CONSTANTS Proc, Entry, NoProc

VARIABLES
  owner,   \* [i]: the process entry i belongs to, or NoProc
  dead     \* the processes that were killed

Init == owner = [i \in Entry |-> NoProc] /\ dead = {}

Take(p, i) ==
  /\ p \notin dead /\ owner[i] = NoProc
  /\ owner' = [owner EXCEPT ![i] = p]
  /\ UNCHANGED dead

Release(p, i) ==
  /\ p \notin dead /\ owner[i] = p
  /\ owner' = [owner EXCEPT ![i] = NoProc]
  /\ UNCHANGED dead

Die(p) ==
  /\ p \notin dead
  /\ dead' = dead \union {p}
  /\ UNCHANGED owner

\* Everything the dead still owned is taken back at once.
Reclaim ==
  /\ owner' = [i \in Entry |-> IF owner[i] \in dead THEN NoProc ELSE owner[i]]
  /\ UNCHANGED dead

Next ==
  \/ \E p \in Proc : Die(p) \/ \E i \in Entry : Take(p, i) \/ Release(p, i)
  \/ Reclaim

Spec == Init /\ [][Next]_<<owner, dead>>
===============================================================================
