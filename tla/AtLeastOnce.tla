------------------------------ MODULE AtLeastOnce ------------------------------
(***************************************************************************)
(* What a stop-and-wait transfer of a file in N chunks promises.  The      *)
(* receiver takes the chunks in order, perhaps one several times over, and *)
(* writes each it has taken before it takes another.  The call that sends  *)
(* a chunk returns when the chunk is taken, written or not yet.  Two kinds *)
(* of chunks are less well off: one in raw is sent once, and may be        *)
(* missing from what is written; one in ends is mistaken for the end, it   *)
(* is not written, and nothing is promised after it.  Without these the    *)
(* written file is closed only when every chunk is in it.  Module          *)
(* StopAndWait implements this with datagrams, timeouts and sequence       *)
(* numbers.                                                                *)
(***************************************************************************)
EXTENDS Naturals, Sequences

CONSTANT N

VARIABLES
  raw,     \* the chunks sent once, whether they arrive or not
  ends,    \* the chunks that are mistaken for the end
  sent,    \* the chunks whose sending call has returned
  hand,    \* the chunk taken and not yet written; 0 when there is none
  out,     \* the chunks written, in the order of writing
  ended    \* the written file is closed

Written == IF out = <<>> THEN 0 ELSE out[Len(out)]
Last == IF hand # 0 THEN hand ELSE Written

\* Between chunk k and chunk c only such as are sent once.
OnlyRaw(k, c) == \A j \in 1..N : k < j /\ j < c => j \in raw

Init ==
  /\ raw \subseteq 1..N /\ ends \subseteq 1..N
  /\ sent = 0 /\ hand = 0 /\ out = <<>> /\ ended = FALSE

\* A chunk that is being sent, or was: the last one once more, or the next but
\* for those that are sent once.
Take(k) ==
  /\ ~ended /\ hand = 0
  /\ k <= sent + 1 /\ k \notin ends
  /\ \/ k = Last /\ k \notin raw
     \/ k > Last /\ OnlyRaw(Last, k)
  /\ hand' = k
  /\ UNCHANGED <<raw, ends, sent, out, ended>>

Write ==
  /\ hand # 0
  /\ out' = Append(out, hand)
  /\ hand' = 0
  /\ UNCHANGED <<raw, ends, sent, ended>>

Return ==
  /\ sent < N
  /\ Last > sent \/ sent + 1 \in raw \/ ended
  /\ sent' = sent + 1
  /\ UNCHANGED <<raw, ends, hand, out, ended>>

\* After the last chunk, or at one that is mistaken for the end.
End ==
  /\ ~ended /\ hand = 0
  /\ \/ sent = N /\ OnlyRaw(Last, N + 1)
     \/ \E k \in ends : k <= sent + 1 /\ k > Last /\ OnlyRaw(Last, k)
  /\ ended' = TRUE
  /\ UNCHANGED <<raw, ends, sent, hand, out>>

Next == Write \/ Return \/ End \/ \E k \in 1..N : Take(k)

Spec == Init /\ [][Next]_<<raw, ends, sent, hand, out, ended>>
===============================================================================
