-------------------------- MODULE ChatServerProofs --------------------------
(* Theorems about ChatServer, for any number of users and places.            *)
EXTENDS ChatServer, SequenceTheorems, FiniteSetTheorems, WellFoundedInduction, TLAPS

-----------------------------------------------------------------------------
(* Sequences as tables of users.  The operators take sequences, so that the  *)
(* lemmas can be used of a table before and after a step.                    *)

In(u, s)       == \E j \in 1..Len(s) : s[j] = u
Distinct(s)    == \A j, k \in 1..Len(s) : s[j] = s[k] => j = k
Apart(s, t)    == \A j \in 1..Len(s), k \in 1..Len(t) : s[j] # t[k]

\* In is membership of the set of a table's entries.
LEMMA InToSet ==
  ASSUME NEW S, NEW s \in Seq(S), NEW u
  PROVE  u \in ToSet(s) <=> In(u, s)
  BY LenProperties DEF ToSet, In

\* What an array is after the entry at a place is taken out and the rest is
\* moved down.
LEMMA Removed ==
  ASSUME NEW S, NEW s \in Seq(S), NEW m \in 1..Len(s)
  PROVE  /\ RemoveAt(s, m) \in Seq(S)
         /\ Len(RemoveAt(s, m)) = Len(s) - 1
         /\ \A j \in 1..Len(s)-1 :
              RemoveAt(s, m)[j] = IF j < m THEN s[j] ELSE s[j+1]
<1> DEFINE a == SubSeq(s, 1, m-1)
           b == SubSeq(s, m+1, Len(s))
<1>1. /\ Len(s) \in Nat /\ m \in Int
      /\ \A j \in 1..Len(s) : s[j] \in S
  BY ElementOfSeq, LenProperties
<1>2. /\ a \in Seq(S) /\ Len(a) = m-1
      /\ \A j \in 1..m-1 : a[j] = s[j]
  <2>1. \A j \in 1..m-1 : s[j] \in S
    BY <1>1
  <2>2. /\ a \in Seq(S) /\ Len(a) = (IF 1 <= m-1 THEN m-1-1+1 ELSE 0)
        /\ \A j \in 1..m-1-1+1 : a[j] = s[1+j-1]
    BY ONLY <1>1, <2>1, m-1 \in Int, 1 \in Int, SubSeqProperties
  <2> QED
    BY <1>1, <2>2
<1>3. /\ b \in Seq(S) /\ Len(b) = Len(s)-m
      /\ \A j \in 1..Len(s)-m : b[j] = s[m+j]
  <2>1. \A j \in m+1..Len(s) : s[j] \in S
    BY <1>1
  <2>2. /\ b \in Seq(S) /\ Len(b) = (IF m+1 <= Len(s) THEN Len(s)-(m+1)+1 ELSE 0)
        /\ \A j \in 1..Len(s)-(m+1)+1 : b[j] = s[(m+1)+j-1]
    BY ONLY <1>1, <2>1, m+1 \in Int, Len(s) \in Int, SubSeqProperties
  <2> QED
    BY <1>1, <2>2
<1> HIDE DEF a, b
<1>4. /\ a \o b \in Seq(S) /\ Len(a \o b) = Len(a) + Len(b)
      /\ \A j \in 1..Len(a)+Len(b) :
           (a \o b)[j] = IF j <= Len(a) THEN a[j] ELSE b[j-Len(a)]
  BY <1>2, <1>3, ConcatProperties
<1>5. \A j \in 1..Len(s)-1 : (a \o b)[j] = IF j < m THEN s[j] ELSE s[j+1]
  <2> SUFFICES ASSUME NEW j \in 1..Len(s)-1
               PROVE  (a \o b)[j] = IF j < m THEN s[j] ELSE s[j+1]
    OBVIOUS
  <2>1. Len(a) = m-1 /\ j \in 1..Len(a)+Len(b)
    BY <1>1, <1>2, <1>3
  <2>2. (a \o b)[j] = IF j <= m-1 THEN a[j] ELSE b[j-(m-1)]
    BY <1>4, <2>1
  <2>3. CASE j < m
    <3>1. j \in 1..m-1
      BY <1>1, <2>3
    <3> QED
      BY <1>1, <1>2, <2>2, <2>3, <3>1
  <2>4. CASE j >= m
    <3>1. /\ j-(m-1) \in 1..Len(s)-m /\ m + (j-(m-1)) = j+1
          /\ ~(j <= m-1) /\ ~(j < m)
      BY <1>1, <2>4
    <3> QED
      BY <1>3, <2>2, <3>1
  <2>5. j < m \/ j >= m
    BY <1>1
  <2> QED
    BY <2>3, <2>4, <2>5
<1>6. RemoveAt(s, m) = a \o b
  BY DEF RemoveAt, a, b
<1> QED
  BY <1>1, <1>2, <1>3, <1>4, <1>5, <1>6

\* A table without repetitions stays so when an entry is taken out, and has all
\* the others.
LEMMA RemovedDistinct ==
  ASSUME NEW S, NEW s \in Seq(S), NEW t \in Seq(S), NEW m \in 1..Len(s),
         Distinct(s), Apart(t, s)
  PROVE  /\ Distinct(RemoveAt(s, m)) /\ Apart(t, RemoveAt(s, m))
         /\ \A u : In(u, RemoveAt(s, m)) <=> In(u, s) /\ u # s[m]
<1> DEFINE r == RemoveAt(s, m)
<1>1. /\ r \in Seq(S) /\ Len(s) \in Nat /\ Len(r) = Len(s)-1
      /\ \A j \in 1..Len(s)-1 : r[j] = IF j < m THEN s[j] ELSE s[j+1]
  BY Removed, LenProperties
<1> HIDE DEF r
<1>2. Distinct(r)
  BY <1>1 DEF Distinct
<1>3. Apart(t, r)
  BY <1>1, LenProperties DEF Apart
<1>4. ASSUME NEW u, In(u, r) PROVE In(u, s) /\ u # s[m]
  BY <1>1, <1>4 DEF In, Distinct
<1>5. ASSUME NEW u, In(u, s), u # s[m] PROVE In(u, r)
  <2>1. PICK j \in 1..Len(s) : s[j] = u
    BY <1>5 DEF In
  <2>2. CASE j < m
    BY <1>1, <2>1, <2>2 DEF In
  <2>3. CASE j > m
    <3>1. j-1 \in 1..Len(r) /\ r[j-1] = u
      BY <1>1, <2>1, <2>3
    <3> QED
      BY <3>1 DEF In
  <2> QED
    BY <1>5, <2>1, <2>2, <2>3
<1> QED
  BY <1>2, <1>3, <1>4, <1>5 DEF r

\* The entry at the head of one table may be added to the other, or be dropped.
LEMMA HeadMoved ==
  ASSUME NEW S, NEW s \in Seq(S), NEW t \in Seq(S), s # <<>>,
         Distinct(s), Distinct(t), Apart(s, t)
  PROVE  /\ Head(s) \in S /\ Tail(s) \in Seq(S) /\ Append(t, Head(s)) \in Seq(S)
         /\ Distinct(Tail(s)) /\ Distinct(Append(t, Head(s)))
         /\ Apart(Tail(s), t) /\ Apart(Tail(s), Append(t, Head(s)))
         /\ ~In(Head(s), t) /\ ~In(Head(s), Tail(s))
         /\ \A u : In(u, s) <=> u = Head(s) \/ In(u, Tail(s))
         /\ \A u : In(u, Append(t, Head(s))) <=> u = Head(s) \/ In(u, t)
<1> DEFINE h == Head(s)
           r == Tail(s)
           a == Append(t, Head(s))
<1>1. /\ Len(s) \in Nat \ {0} /\ Len(t) \in Nat
      /\ h \in S /\ h = s[1]
      /\ r \in Seq(S) /\ Len(r) = Len(s)-1 /\ \A j \in 1..Len(r) : r[j] = s[j+1]
  BY HeadTailProperties, LenProperties, EmptySeq
<1>2. /\ a \in Seq(S) /\ Len(a) = Len(t)+1
      /\ \A j \in 1..Len(t) : a[j] = t[j]
      /\ a[Len(t)+1] = h
  BY <1>1, AppendProperties
<1> HIDE DEF h, r, a
<1>3. Distinct(r) /\ Apart(r, t)
  <2>1. \A j \in 1..Len(r) : j+1 \in 1..Len(s) /\ r[j] = s[j+1]
    BY <1>1
  <2>2. \A j, k \in 1..Len(r) : j+1 = k+1 => j = k
    BY <1>1
  <2> QED
    BY <2>1, <2>2 DEF Distinct, Apart
<1>4. ~In(h, t) /\ ~In(h, r)
  BY <1>1 DEF Distinct, Apart, In
<1> DEFINE n == Len(t)+1
<1>9. \A j \in 1..Len(a) : j \in 1..Len(t) \/ j = n
  BY <1>1, <1>2
<1>10. n \in 1..Len(a) /\ \A j \in 1..Len(t) : j \in 1..Len(a)
  BY <1>1, <1>2
<1> HIDE DEF n
<1>11. a[n] = h
  BY <1>2 DEF n
<1>5. Distinct(a)
  BY <1>2, <1>4, <1>9, <1>11 DEF Distinct, In
<1>6. Apart(r, a)
  BY <1>2, <1>3, <1>4, <1>9, <1>11 DEF Apart, In
<1>7. \A u : In(u, s) <=> u = h \/ In(u, r)
  <2>1. ASSUME NEW u, In(u, s) PROVE u = h \/ In(u, r)
    <3>1. PICK j \in 1..Len(s) : s[j] = u
      BY <2>1 DEF In
    <3>2. CASE j > 1
      <4>1. j-1 \in 1..Len(r) /\ r[j-1] = u
        BY <1>1, <3>1, <3>2
      <4> QED
        BY <4>1 DEF In
    <3> QED
      BY <1>1, <3>1, <3>2
  <2>2. ASSUME NEW u, u = h \/ In(u, r) PROVE In(u, s)
    <3>1. CASE u = h
      BY <1>1, <3>1 DEF In
    <3>2. CASE In(u, r)
      BY <1>1, <3>2 DEF In
    <3> QED
      BY <2>2, <3>1, <3>2
  <2> QED
    BY <2>1, <2>2
<1>8. \A u : In(u, a) <=> u = h \/ In(u, t)
  BY <1>2, <1>9, <1>10, <1>11 DEF In
<1> QED
  BY <1>1, <1>2, <1>3, <1>4, <1>5, <1>6, <1>7, <1>8 DEF h, r, a

\* Two tables without repetitions that share nobody have as many entries as
\* there are users in them.
LEMMA Counted ==
  ASSUME NEW S, NEW s \in Seq(S), NEW t \in Seq(S),
         Distinct(s), Distinct(t), Apart(s, t)
  PROVE  /\ Cardinality(ToSet(s \o t)) = Len(s) + Len(t)
         /\ \A u : u \in ToSet(s \o t) <=> In(u, s) \/ In(u, t)
<1> DEFINE r == s \o t
           n == Len(s) + Len(t)
<1>1. /\ r \in Seq(S) /\ Len(r) = n /\ Len(s) \in Nat /\ Len(t) \in Nat
      /\ DOMAIN r = 1..n
      /\ \A j \in 1..n : r[j] = IF j <= Len(s) THEN s[j] ELSE t[j-Len(s)]
  BY ConcatProperties, LenProperties
<1> HIDE DEF r
<1>2. \A j, k \in 1..n : r[j] = r[k] => j = k
  <2> SUFFICES ASSUME NEW j \in 1..n, NEW k \in 1..n, r[j] = r[k], j < k
               PROVE  FALSE
    BY <1>1
  <2>1. CASE k <= Len(s)
    BY <1>1, <2>1 DEF Distinct
  <2>2. CASE j <= Len(s) /\ k > Len(s)
    <3>1. j \in 1..Len(s) /\ k - Len(s) \in 1..Len(t)
      BY <1>1, <2>2
    <3>2. r[j] = s[j] /\ r[k] = t[k - Len(s)]
      BY <1>1, <2>2
    <3> QED
      BY <3>1, <3>2 DEF Apart
  <2>3. CASE j > Len(s)
    <3>1. j - Len(s) \in 1..Len(t) /\ k - Len(s) \in 1..Len(t)
      BY <1>1, <2>3
    <3>2. r[j] = t[j - Len(s)] /\ r[k] = t[k - Len(s)]
      BY <1>1, <2>3
    <3>3. j - Len(s) # k - Len(s)
      BY <1>1
    <3> QED
      BY <3>1, <3>2, <3>3 DEF Distinct
  <2> QED
    BY <1>1, <2>1, <2>2, <2>3
<1>3. r \in [1..n -> ToSet(r)] /\ \A u \in ToSet(r) : \E j \in 1..n : r[j] = u
  <2>1. r \in [1..n -> S]
    BY <1>1
  <2> QED
    BY <1>1, <2>1 DEF ToSet
<1>4. ExistsBijection(1..n, ToSet(r))
  BY <1>2, <1>3 DEF ExistsBijection, Bijection, Injection, Surjection, IsInjective
<1>5. Cardinality(ToSet(r)) = n
  BY <1>1, <1>4, FS_CountingElements
<1>6. ASSUME NEW u PROVE u \in ToSet(r) <=> In(u, s) \/ In(u, t)
  <2>1. u \in ToSet(r) => In(u, s) \/ In(u, t)
    <3> SUFFICES ASSUME u \in ToSet(r) PROVE In(u, s) \/ In(u, t)
      OBVIOUS
    <3>1. PICK j \in 1..n : r[j] = u
      BY <1>3
    <3>2. CASE j <= Len(s)
      BY <1>1, <3>1, <3>2 DEF In
    <3>3. CASE j > Len(s)
      <4>1. j - Len(s) \in 1..Len(t) /\ t[j - Len(s)] = u
        BY <1>1, <3>1, <3>3
      <4> QED
        BY <4>1 DEF In
    <3> QED
      BY <1>1, <3>2, <3>3
  <2>2. In(u, s) => u \in ToSet(r)
    BY <1>1, <1>3 DEF In
  <2>3. In(u, t) => u \in ToSet(r)
    <3> SUFFICES ASSUME NEW k \in 1..Len(t), t[k] = u PROVE u \in ToSet(r)
      BY DEF In
    <3>1. /\ k + Len(s) \in 1..n /\ ~(k + Len(s) <= Len(s))
          /\ (k + Len(s)) - Len(s) = k
      BY <1>1
    <3>2. r[k + Len(s)] = u
      BY <1>1, <3>1
    <3> QED
      BY <1>3, <3>1, <3>2
  <2> QED
    BY <2>1, <2>2, <2>3
<1> QED
  BY <1>5, <1>6 DEF r

-----------------------------------------------------------------------------
(* The inductive invariant *)

\* The kinds of the variables the proofs speak of.
Kinds ==
  /\ clientsockfd \in Seq(Users) /\ backlog \in Seq(Users)
  /\ at \in {"select", "accept", "clients"} /\ i \in Nat \ {0}
  /\ user \in [Users -> {"off", "on", "left", "refused"}]
  /\ unread \in [Users -> Seq(Digits)]

\* Backlog and table repeat nobody and share nobody; who is connected is in one
\* of them and who never was in neither.
Places ==
  /\ Distinct(backlog) /\ Distinct(clientsockfd) /\ Apart(backlog, clientsockfd)
  /\ \A u \in Users : user[u] = "on" => In(u, backlog) \/ In(u, clientsockfd)
  /\ \A u \in Users : user[u] = "off" =>
       ~In(u, backlog) /\ ~In(u, clientsockfd)

\* What select found is still true when the pass comes to it, and it has its
\* place in the table not before the place the pass has come to.
Found ==
  /\ at = "select" => tempfds = {}
  /\ at = "accept" =>
       /\ \A f \in tempfds : f # serverfd => In(f, clientsockfd)
       /\ serverfd \in tempfds => backlog # <<>>
  /\ at = "clients" =>
       \A f \in tempfds : \E j \in 1..numclient : j >= i /\ clientsockfd[j] = f
  /\ \A u \in Users : u \in tempfds => unread[u] # <<>> \/ user[u] = "left"

IInv == Kinds /\ Places /\ Found

\* Nobody is there at first.
LEMMA InitInv == Init => IInv
<1> SUFFICES ASSUME Init PROVE IInv
  OBVIOUS
<1>1. <<>> \in Seq(Users) /\ <<>> \in Seq(Digits) /\ Len(<<>>) = 0
  OBVIOUS
<1>2. Kinds
  BY <1>1 DEF Init, Kinds
<1>3. Places
  BY <1>1 DEF Init, Places, Distinct, Apart, In
<1>4. Found
  BY DEF Init, Found
<1> QED
  BY <1>2, <1>3, <1>4 DEF IInv

\* What users do outside the pass disturbs nothing that select has found.
LEMMA FoundKept ==
  ASSUME Found, UNCHANGED <<clientsockfd, tempfds, at, i>>,
         backlog # <<>> => backlog' # <<>>,
         \A v \in Users : /\ unread[v] # <<>> => unread'[v] # <<>>
                          /\ user[v] = "left" => user'[v] = "left"
  PROVE  Found'
<1>1. (at = "select" => tempfds = {})'
  BY DEF Found
<1>2. (at = "accept" =>
         /\ \A f \in tempfds : f # serverfd => In(f, clientsockfd)
         /\ serverfd \in tempfds => backlog # <<>>)'
  BY DEF Found, In
<1>3. (at = "clients" =>
         \A f \in tempfds : \E j \in 1..numclient : j >= i /\ clientsockfd[j] = f)'
  BY DEF Found, numclient
<1>4. (\A u \in Users : u \in tempfds => unread[u] # <<>> \/ user[u] = "left")'
  <2> SUFFICES ASSUME NEW u \in Users, u \in tempfds'
               PROVE  unread'[u] # <<>> \/ user'[u] = "left"
    OBVIOUS
  <2>1. unread[u] # <<>> \/ user[u] = "left"
    BY DEF Found
  <2> QED
    BY <2>1
<1> QED
  BY <1>1, <1>2, <1>3, <1>4 DEF Found

\* Places are kept when nobody moves and nobody's connection is made.
LEMMA PlacesKept ==
  ASSUME Places, UNCHANGED <<clientsockfd, backlog>>,
         \A v \in Users : /\ user'[v] = "on" => user[v] = "on"
                          /\ user'[v] = "off" => user[v] = "off"
  PROVE  Places'
<1>1. /\ Distinct(backlog') /\ Distinct(clientsockfd')
      /\ Apart(backlog', clientsockfd')
  BY DEF Places
<1>2. ASSUME NEW v \in Users
      PROVE  /\ user'[v] = "on" => In(v, backlog') \/ In(v, clientsockfd')
             /\ user'[v] = "off" => ~In(v, backlog') /\ ~In(v, clientsockfd')
  BY DEF Places
<1> QED
  BY <1>1, <1>2 DEF Places

\* A user who connects goes to the end of the backlog, and was nowhere before.
LEMMA ConnectInv ==
  ASSUME IInv, NEW u \in Users, Connect(u)
  PROVE  IInv'
<1>1. /\ backlog \in Seq(Users) /\ Len(backlog) \in Nat
      /\ backlog' = Append(backlog, u)
      /\ user[u] = "off" /\ user' = [user EXCEPT ![u] = "on"]
      /\ UNCHANGED <<clientsockfd, tempfds, at, i, unread>>
      /\ ~In(u, backlog) /\ ~In(u, clientsockfd)
  BY LenProperties DEF Connect, IInv, Kinds, Places
<1>2. /\ backlog' \in Seq(Users) /\ backlog' # <<>>
      /\ \A j \in 1..Len(backlog') : j \in 1..Len(backlog) \/ j = Len(backlog)+1
      /\ \A j \in 1..Len(backlog) : j \in 1..Len(backlog') /\ backlog'[j] = backlog[j]
      /\ Len(backlog)+1 \in 1..Len(backlog') /\ backlog'[Len(backlog)+1] = u
  <2>1. /\ backlog' \in Seq(Users) /\ backlog' # <<>>
        /\ Len(backlog') = Len(backlog)+1
        /\ \A j \in 1..Len(backlog) : backlog'[j] = backlog[j]
        /\ backlog'[Len(backlog)+1] = u
    BY <1>1, AppendProperties
  <2> QED
    BY <1>1, <2>1
<1>3. Kinds'
  BY <1>1, <1>2 DEF IInv, Kinds
<1>4. Places'
  <2>1. Distinct(backlog)' /\ Distinct(clientsockfd)'
        /\ Apart(backlog, clientsockfd)'
    BY <1>1, <1>2 DEF IInv, Places, Distinct, Apart, In
  <2>2. /\ In(u, backlog')
        /\ \A v : v # u => (In(v, backlog') <=> In(v, backlog))
    BY <1>2 DEF In
  <2>3. \A v \in Users : user'[v] = IF v = u THEN "on" ELSE user[v]
    BY <1>1 DEF IInv, Kinds
  <2> QED
    BY <1>1, <2>1, <2>2, <2>3 DEF IInv, Places
<1>5. Found'
  <2>1. \A v \in Users : user[v] = "left" => user'[v] = "left"
    BY <1>1 DEF IInv, Kinds
  <2> QED
    BY <1>1, <1>2, <2>1, FoundKept DEF IInv
<1> QED
  BY <1>3, <1>4, <1>5 DEF IInv

\* Typing adds to what is unread; leaving keeps the place.
LEMMA UserInv ==
  ASSUME IInv, NEW u \in Users, Leave(u) \/ \E d \in Digits : Type(u, d)
  PROVE  IInv'
<1>1. CASE Leave(u)
  <2>1. /\ user' \in [Users -> {"off", "on", "left", "refused"}]
        /\ \A v \in Users : /\ user'[v] = "on" => user[v] = "on"
                            /\ user'[v] = "off" => user[v] = "off"
                            /\ user[v] = "left" => user'[v] = "left"
    BY <1>1 DEF Leave, IInv, Kinds
  <2>2. UNCHANGED <<clientsockfd, tempfds, at, i, backlog, unread>>
    BY <1>1 DEF Leave
  <2>3. Kinds'
    BY <2>1, <2>2 DEF IInv, Kinds
  <2> QED
    BY <2>1, <2>2, <2>3, PlacesKept, FoundKept DEF IInv
<1>2. ASSUME NEW d \in Digits, Type(u, d) PROVE IInv'
  <2>1. /\ unread[u] \in Seq(Digits)
        /\ unread' = [unread EXCEPT ![u] = Append(@, d)]
        /\ UNCHANGED <<clientsockfd, tempfds, at, i, user, backlog>>
    BY <1>2 DEF Type, IInv, Kinds
  <2>2. Append(unread[u], d) \in Seq(Digits) /\ Append(unread[u], d) # <<>>
    BY <2>1, AppendProperties
  <2>3. /\ unread' \in [Users -> Seq(Digits)]
        /\ \A v \in Users : unread'[v] = <<>> => unread[v] = <<>>
    BY <2>1, <2>2 DEF IInv, Kinds
  <2> QED
    BY <2>1, <2>3, PlacesKept, FoundKept DEF IInv, Kinds
<1> QED
  BY <1>1, <1>2

\* select reports clients in the table who have sent or left, and connections.
LEMMA SelectInv ==
  ASSUME IInv, select
  PROVE  IInv'
<1>1. /\ at' = "accept" /\ tempfds' = Readable
      /\ UNCHANGED <<clientsockfd, i, user, backlog, unread>>
  BY DEF select
<1>2. ASSUME NEW f, f \in Readable
      PROVE  \/ In(f, clientsockfd) /\ (unread[f] # <<>> \/ user[f] = "left")
             \/ f = serverfd /\ backlog # <<>>
  BY <1>2, InToSet DEF Readable, Clients, IInv, Kinds
<1>3. Found'
  <2>1. serverfd \notin Users /\ \A f : In(f, clientsockfd) => f \in Users
    BY ChatServerAssumption, ElementOfSeq DEF IInv, Kinds, In
  <2> QED
    BY <1>1, <1>2, <2>1 DEF Found
<1> QED
  BY <1>1, <1>3 DEF IInv, Kinds, Places

\* With no connection to accept the pass goes to the first client.
LEMMA NoNewClientInv ==
  ASSUME IInv, NoNewClient
  PROVE  IInv'
<1>1. /\ at = "accept" /\ serverfd \notin tempfds /\ at' = "clients" /\ i' = 1
      /\ UNCHANGED <<clientsockfd, tempfds, user, backlog, unread>>
  BY DEF NoNewClient
<1>2. Found'
  BY <1>1 DEF IInv, Found, In, numclient
<1> QED
  BY <1>1, <1>2 DEF IInv, Kinds, Places

\* The first of the backlog gets the next place, or is refused, and in both
\* cases is out of the backlog.
LEMMA AcceptInv ==
  ASSUME IInv, accept
  PROVE  IInv'
<1> DEFINE u == Head(backlog)
<1>1. /\ at = "accept" /\ serverfd \in tempfds /\ at' = "clients" /\ i' = 1
      /\ backlog' = Tail(backlog) /\ tempfds' = tempfds \ {serverfd}
      /\ backlog # <<>> /\ backlog \in Seq(Users) /\ clientsockfd \in Seq(Users)
  BY DEF accept, IInv, Kinds, Found
<1>2. /\ u \in Users /\ backlog' \in Seq(Users)
      /\ Append(clientsockfd, u) \in Seq(Users)
      /\ Distinct(backlog') /\ Distinct(Append(clientsockfd, u))
      /\ Apart(backlog', clientsockfd) /\ Apart(backlog', Append(clientsockfd, u))
      /\ ~In(u, clientsockfd) /\ ~In(u, backlog')
      /\ \A v : In(v, backlog) <=> v = u \/ In(v, backlog')
      /\ \A v : In(v, Append(clientsockfd, u)) <=> v = u \/ In(v, clientsockfd)
  BY <1>1, HeadMoved DEF IInv, Places
<1> HIDE DEF u
<1>3. ASSUME \A f : In(f, clientsockfd) => In(f, clientsockfd'),
             \A v \in Users : In(v, clientsockfd) =>
               user'[v] = user[v] /\ unread'[v] = unread[v]
      PROVE  Found'
  <2>1. \A f \in tempfds' : In(f, clientsockfd)
    BY <1>1 DEF IInv, Found
  <2>2. \A f \in tempfds' : In(f, clientsockfd')
    BY <1>3, <2>1
  <2>3. (\A f \in tempfds : \E j \in 1..numclient : j >= i /\ clientsockfd[j] = f)'
    BY <1>1, <2>2 DEF In, numclient
  <2>4. \A v \in Users : v \in tempfds' => unread'[v] # <<>> \/ user'[v] = "left"
    BY <1>1, <1>3, <2>1 DEF IInv, Found
  <2> QED
    BY <1>1, <2>3, <2>4 DEF Found
<1>4. CASE Room
  <2>1. /\ clientsockfd' = Append(clientsockfd, u)
        /\ UNCHANGED <<user, unread>>
    BY <1>4 DEF accept, u
  <2>2. Places'
    BY <1>2, <2>1 DEF IInv, Places
  <2>3. Found'
    BY <1>2, <1>3, <2>1
  <2> QED
    BY <1>1, <1>2, <2>1, <2>2, <2>3 DEF IInv, Kinds
<1>5. CASE ~Room
  <2>1. /\ user' = [user EXCEPT ![u] = IF @ = "on" THEN "refused" ELSE @]
        /\ unread' = [unread EXCEPT ![u] = <<>>]
        /\ UNCHANGED clientsockfd
    BY <1>5 DEF accept, u
  <2>2. Kinds'
    BY <1>1, <1>2, <2>1 DEF IInv, Kinds
  <2>3. Places'
    <3>1. \A v \in Users :
            /\ user'[v] = "on" => user[v] = "on" /\ v # u
            /\ user'[v] = "off" => user[v] = "off"
      BY <1>2, <2>1 DEF IInv, Kinds
    <3> QED
      BY <1>2, <2>1, <3>1 DEF IInv, Places
  <2>4. Found'
    BY <1>2, <1>3, <2>1 DEF IInv, Kinds
  <2> QED
    BY <2>2, <2>3, <2>4 DEF IInv
<1> QED
  BY <1>4, <1>5

\* A client that has nothing to read is passed over, and kept: what select found
\* of the others lies behind it.
LEMMA NotReadyInv ==
  ASSUME IInv, NotReady
  PROVE  IInv'
<1>1. /\ at = "clients" /\ i \in 1..numclient /\ clientsockfd[i] \notin tempfds
      /\ i' = i+1
      /\ UNCHANGED <<clientsockfd, tempfds, at, user, backlog, unread>>
  BY LenProperties DEF NotReady, At, c, IInv, Kinds, numclient
<1>2. Found'
  <2>1. (\A f \in tempfds : \E j \in 1..numclient : j >= i /\ clientsockfd[j] = f)'
    <3> SUFFICES ASSUME NEW f \in tempfds
                 PROVE  \E j \in 1..Len(clientsockfd) : j >= i+1 /\ clientsockfd[j] = f
      BY <1>1 DEF numclient
    <3>1. PICK j \in 1..Len(clientsockfd) : j >= i /\ clientsockfd[j] = f
      BY <1>1 DEF IInv, Found, numclient
    <3>2. j # i
      BY <1>1, <3>1
    <3> QED
      BY <1>1, <3>1, <3>2
  <2>2. \A v \in Users : v \in tempfds' => unread'[v] # <<>> \/ user'[v] = "left"
    BY <1>1 DEF IInv, Found
  <2> QED
    BY <1>1, <2>1, <2>2 DEF Found
<1>3. Kinds'
  BY <1>1 DEF IInv, Kinds
<1> QED
  BY <1>1, <1>2, <1>3, PlacesKept DEF IInv

\* At the end of a pass nothing of what select found is left.
LEMMA AllServed ==
  ASSUME IInv, EndPass
  PROVE  tempfds = {}
<1>1. at = "clients" /\ i > Len(clientsockfd) /\ i \in Nat /\ Len(clientsockfd) \in Nat
  BY LenProperties DEF EndPass, IInv, Kinds, numclient
<1>2. \A f \in tempfds : \E j \in 1..Len(clientsockfd) : j >= i /\ clientsockfd[j] = f
  BY <1>1 DEF IInv, Found, numclient
<1> QED
  BY <1>1, <1>2

LEMMA EndPassInv ==
  ASSUME IInv, EndPass
  PROVE  IInv'
<1>1. /\ at' = "select" /\ i' = 1 /\ tempfds' = {}
      /\ UNCHANGED <<clientsockfd, user, backlog, unread>>
  BY DEF EndPass
<1>2. Kinds' /\ Found'
  BY <1>1 DEF IInv, Kinds, Found
<1> QED
  BY <1>1, <1>2, PlacesKept DEF IInv

\* A client that has left is taken out; the one that moves into its place is
\* the next the pass comes to.
LEMMA DisconnectInv ==
  ASSUME IInv, Disconnect
  PROVE  IInv'
<1> DEFINE s == clientsockfd
           u == clientsockfd[i]
<1>1. /\ at = "clients" /\ at' = "clients"
      /\ s \in Seq(Users) /\ Len(s) \in Nat /\ i \in 1..Len(s) /\ i' = i
      /\ u \in Users /\ u \in tempfds /\ unread[u] = <<>> /\ tempfds' = tempfds \ {u}
      /\ clientsockfd' = RemoveAt(s, i)
      /\ UNCHANGED <<user, backlog, unread>>
  BY LenProperties, ElementOfSeq
     DEF Disconnect, At, c, Close, StepBack, IInv, Kinds, numclient
<1>2. user[u] = "left"
  BY <1>1 DEF IInv, Found
<1>3. /\ clientsockfd' \in Seq(Users) /\ Len(clientsockfd') = Len(s)-1
      /\ \A j \in 1..Len(s)-1 : clientsockfd'[j] = IF j < i THEN s[j] ELSE s[j+1]
  BY <1>1, Removed
<1>4. /\ Distinct(clientsockfd') /\ Apart(backlog', clientsockfd')
      /\ \A v : In(v, clientsockfd') <=> In(v, s) /\ v # u
  BY <1>1, RemovedDistinct DEF IInv, Kinds, Places
<1>5. Kinds'
  BY <1>1, <1>3 DEF IInv, Kinds
<1>6. Places'
  BY <1>1, <1>2, <1>4 DEF IInv, Places
<1>7. Found'
  <2>1. ASSUME NEW f \in tempfds'
        PROVE  \E j \in 1..Len(clientsockfd') : j >= i /\ clientsockfd'[j] = f
    <3>1. f \in tempfds /\ f # u
      BY <1>1
    <3>2. PICK j \in 1..Len(s) : j >= i /\ s[j] = f
      BY <1>1, <3>1 DEF IInv, Found, numclient
    <3>3. j # i
      BY <3>1, <3>2
    <3>4. j-1 \in 1..Len(s)-1 /\ j-1 >= i /\ ~(j-1 < i) /\ (j-1)+1 = j
      BY <1>1, <3>2, <3>3
    <3>5. clientsockfd'[j-1] = f
      BY <1>3, <3>2, <3>4
    <3> QED
      BY <1>3, <3>4, <3>5
  <2>2. \A v \in Users : v \in tempfds' => unread'[v] # <<>> \/ user'[v] = "left"
    BY <1>1 DEF IInv, Found
  <2> QED
    BY <1>1, <2>1, <2>2 DEF Found, numclient
<1> QED
  BY <1>5, <1>6, <1>7 DEF IInv

\* A client is read once in a pass, whatever its number is taken for.
LEMMA ReadInv ==
  ASSUME IInv, Read
  PROVE  IInv'
<1> DEFINE u == clientsockfd[i]
<1>1. /\ at = "clients" /\ clientsockfd \in Seq(Users) /\ Len(clientsockfd) \in Nat
      /\ i \in 1..Len(clientsockfd) /\ i' = i+1
      /\ u \in Users /\ tempfds' = tempfds \ {u}
      /\ unread' = [unread EXCEPT ![u] = <<>>]
      /\ UNCHANGED <<clientsockfd, at, user, backlog>>
  BY LenProperties, ElementOfSeq DEF Read, At, c, IInv, Kinds, numclient
<1>2. Kinds'
  <2>1. <<>> \in Seq(Digits)
    OBVIOUS
  <2> QED
    BY <1>1, <2>1 DEF IInv, Kinds
<1>3. Found'
  <2>1. ASSUME NEW f \in tempfds'
        PROVE  \E j \in 1..Len(clientsockfd) : j >= i+1 /\ clientsockfd[j] = f
    <3>1. f \in tempfds /\ f # u
      BY <1>1
    <3>2. PICK j \in 1..Len(clientsockfd) : j >= i /\ clientsockfd[j] = f
      BY <1>1, <3>1 DEF IInv, Found, numclient
    <3>3. j # i
      BY <3>1, <3>2
    <3> QED
      BY <1>1, <3>2, <3>3
  <2>2. \A v \in Users : v \in tempfds' => unread'[v] # <<>> \/ user'[v] = "left"
    BY <1>1 DEF IInv, Kinds, Found
  <2> QED
    BY <1>1, <2>1, <2>2 DEF Found, numclient
<1> QED
  BY <1>1, <1>2, <1>3, PlacesKept DEF IInv

\* The invariant is kept by every step.
LEMMA StepInv == IInv /\ [Next]_vars => IInv'
<1> SUFFICES ASSUME IInv, [Next]_vars PROVE IInv'
  OBVIOUS
<1>1. CASE UNCHANGED vars
  <2>1. UNCHANGED <<clientsockfd, tempfds, at, i, user, backlog, unread>>
    BY <1>1 DEF vars
  <2> QED
    BY <2>1, PlacesKept, FoundKept DEF IInv, Kinds
<1>2. CASE main
  BY <1>2, SelectInv, NoNewClientInv, AcceptInv, NotReadyInv, EndPassInv,
     DisconnectInv, ReadInv DEF main, Insufficient, Duplicate, Number
<1>3. ASSUME NEW u \in Users,
             Connect(u) \/ Leave(u) \/ \E d \in Digits : Type(u, d)
      PROVE  IInv'
  BY <1>3, ConnectInv, UserInv
<1> QED
  BY <1>1, <1>2, <1>3 DEF Next

-----------------------------------------------------------------------------
(* The theorems *)

\* Whoever is connected has exactly one place, in the backlog or in the table,
\* whoever is refused and however the table is moved down under the loop (the
\* inner loops after a recv that returns 0).
THEOREM NobodyLost == Spec => []NobodyForgotten
<1>1. IInv => NobodyForgotten
  <2> SUFFICES ASSUME IInv PROVE NobodyForgotten
    OBVIOUS
  <2>1. /\ Cardinality(ToSet(backlog \o clientsockfd)) = Len(backlog) + Len(clientsockfd)
        /\ \A u : u \in ToSet(backlog \o clientsockfd) <=>
                    In(u, backlog) \/ In(u, clientsockfd)
    BY Counted DEF IInv, Kinds, Places
  <2> QED
    BY <2>1 DEF IInv, Places, NobodyForgotten, numclient
<1> QED
  BY InitInv, StepInv, <1>1, PTL DEF Spec

\* No client that select reported is stepped over in a pass, however many leave
\* during it.
THEOREM PassComplete == Spec => PassServesAll
<1>1. IInv => [EndPass => tempfds = {}]_vars
  BY AllServed
<1> QED
  BY InitInv, StepInv, <1>1, PTL DEF Spec, PassServesAll

-----------------------------------------------------------------------------
(* Who has been asked *)

\* Asking some clients for the number of a round leaves the others as they were.
LEMMA AskSets ==
  ASSUME NEW s, NEW r, Ask(s, r), NEW u \in Users
  PROVE  asked'[u] = IF u \in s THEN r ELSE asked[u]
  BY DEF Ask

\* The second client is asked together with the first, later ones alone.
LEMMA AcceptAsks ==
  ASSUME IInv, Asked, accept
  PROVE  Asked'
<1> DEFINE s == clientsockfd
           u == Head(backlog)
<1>1. s \in Seq(Users) /\ Len(s) \in Nat /\ UNCHANGED round
  BY LenProperties DEF accept, game, IInv, Kinds
<1>4. \A w : w \in Clients <=> In(w, s)
  BY <1>1, InToSet DEF Clients
<1>2. CASE Room
  <2>1. /\ clientsockfd' = Append(s, u) /\ Ask(AskedWith(u), round) /\ u \in Users
        /\ clientsockfd' \in Seq(Users)
        /\ \A v : In(v, clientsockfd') <=> v = u \/ In(v, s)
    <3>1. clientsockfd' = Append(s, u) /\ Ask(AskedWith(u), round)
      BY <1>2 DEF accept
    <3>2. /\ backlog # <<>> /\ backlog \in Seq(Users)
          /\ Distinct(backlog) /\ Distinct(s) /\ Apart(backlog, s)
      BY DEF accept, IInv, Kinds, Places, Found
    <3> QED
      BY <1>1, <3>1, <3>2, HeadMoved
  <2>2. Len(clientsockfd') = Len(s) + 1
    BY <1>1, <2>1, AppendProperties
  <2>6. Len(s) >= 1 => Len(s) = 1 \/ (Len(s) > 1 /\ Len(s) # 1)
    BY <1>1
  <2> SUFFICES ASSUME Len(s) >= 1, NEW v \in Users, v = u \/ In(v, s)
               PROVE  asked'[v] = round
    <3>1. \A v : v \in ToSet(clientsockfd') => In(v, clientsockfd')
      BY <2>1, InToSet
    <3>2. \A v : In(v, clientsockfd') => v \in Users
      BY <2>1, ElementOfSeq DEF In
    <3> QED
      BY <1>1, <2>1, <2>2, <3>1, <3>2 DEF Asked, numclient, Clients
  <2>3. asked'[v] = IF v \in AskedWith(u) THEN round ELSE asked[v]
    BY <2>1, AskSets
  <2>4. CASE Len(s) = 1
    <3>1. AskedWith(u) = {s[1], u}
      BY <2>4 DEF AskedWith, numclient
    <3>2. v = u \/ v = s[1]
      BY <2>4 DEF In
    <3> QED
      BY <2>3, <3>1, <3>2
  <2>5. CASE Len(s) > 1 /\ Len(s) # 1
    <3>1. numclient # 1 /\ numclient > 1
      BY <2>5 DEF numclient
    <3>2. AskedWith(u) = {u}
      BY <3>1 DEF AskedWith
    <3>3. In(v, s) => asked[v] = round
      BY <1>1, <1>4, <2>5 DEF Asked, numclient
    <3> QED
      BY <2>3, <3>2, <3>3
  <2> QED
    BY <2>4, <2>5, <2>6
<1>3. CASE ~Room
  BY <1>1, <1>3 DEF accept, Asked, numclient, Clients
<1> QED
  BY <1>2, <1>3

\* Nobody becomes a client of the round unasked when another leaves.
LEMMA DisconnectAsks ==
  ASSUME IInv, Asked, Disconnect
  PROVE  Asked'
<1>1. /\ clientsockfd \in Seq(Users) /\ Len(clientsockfd) \in Nat
      /\ i \in 1..Len(clientsockfd)
      /\ clientsockfd' = RemoveAt(clientsockfd, i) /\ UNCHANGED <<asked, round>>
  BY LenProperties DEF Disconnect, At, Close, IInv, Kinds, numclient
<1>2. /\ clientsockfd' \in Seq(Users) /\ Len(clientsockfd') = Len(clientsockfd)-1
      /\ \A v : In(v, clientsockfd') => In(v, clientsockfd)
  BY <1>1, Removed, RemovedDistinct DEF IInv, Kinds, Places
<1>3. \A v : v \in ToSet(clientsockfd') => v \in ToSet(clientsockfd)
  BY <1>1, <1>2, InToSet
<1> QED
  BY <1>1, <1>2, <1>3 DEF Asked, numclient, Clients

\* The number that ends a round is answered by asking everybody.
LEMMA NumberAsks ==
  ASSUME IInv, Asked, Number
  PROVE  Asked'
<1>1. UNCHANGED clientsockfd /\ clientsockfd \in Seq(Users)
  BY DEF Number, Read, IInv, Kinds
<1>2. \/ UNCHANGED <<round, asked>>
      \/ round' = round + 1 /\ Ask(Clients, round + 1)
  BY DEF Number
<1>3. \A v \in Clients : v \in Users
  BY <1>1, InToSet, ElementOfSeq DEF Clients, In
<1> QED
  BY <1>1, <1>2, <1>3, AskSets DEF Asked, numclient, Clients

\* As long as there are two clients, everyone of them has been asked for the
\* number of the round that is on: nobody holds it up without knowing.
THEOREM EveryoneAsked == Spec => []Asked
<1>1. Init => Asked
  BY DEF Init, Asked, numclient
<1>2. IInv /\ Asked /\ [Next]_vars => Asked'
  <2> SUFFICES ASSUME IInv, Asked, [Next]_vars PROVE Asked'
    OBVIOUS
  <2>1. ASSUME UNCHANGED <<clientsockfd, round, asked>> PROVE Asked'
    BY <2>1 DEF Asked, numclient, Clients
  <2>2. CASE UNCHANGED vars
    BY <2>1, <2>2 DEF vars, game
  <2>3. CASE \E u \in Users : Connect(u) \/ Leave(u) \/ \E d \in Digits : Type(u, d)
    BY <2>1, <2>3 DEF Connect, Leave, Type, game
  <2>4. CASE select \/ NoNewClient \/ NotReady \/ EndPass
    BY <2>1, <2>4 DEF select, NoNewClient, NotReady, EndPass, game
  <2>5. CASE Insufficient \/ Duplicate
    BY <2>1, <2>5 DEF Insufficient, Duplicate, Read, game
  <2> QED
    BY <2>2, <2>3, <2>4, <2>5, AcceptAsks, DisconnectAsks, NumberAsks
       DEF Next, main
<1> QED
  BY InitInv, StepInv, <1>1, <1>2, PTL DEF Spec

-----------------------------------------------------------------------------
(* Who has sent *)

\* The arrays beside the table have a place for every client.
Arrays ==
  /\ client_sent \in [Slot -> BOOLEAN] /\ DOMAIN client_numbers = Slot
  /\ round \in Nat /\ numclient <= MAX_CLIENTS

LEMMA ArraysInv ==
  ASSUME IInv, Arrays, [Next]_vars
  PROVE  Arrays'
<1>1. clientsockfd \in Seq(Users) /\ Len(clientsockfd) \in Nat /\ MAX_CLIENTS \in Nat
  BY LenProperties, ChatServerAssumption DEF IInv, Kinds
<1>2. ASSUME UNCHANGED <<clientsockfd, game>> PROVE Arrays'
  BY <1>2 DEF Arrays, game, numclient
<1>3. CASE UNCHANGED vars
  BY <1>2, <1>3 DEF vars
<1>4. CASE \E u \in Users : Connect(u) \/ Leave(u) \/ \E d \in Digits : Type(u, d)
  BY <1>2, <1>4 DEF Connect, Leave, Type
<1>5. CASE select \/ NoNewClient \/ NotReady \/ EndPass \/ Insufficient \/ Duplicate
  BY <1>2, <1>5 DEF select, NoNewClient, NotReady, EndPass, Insufficient, Duplicate, Read
<1>6. CASE accept
  <2>1. UNCHANGED game
    BY <1>6 DEF accept
  <2>2. CASE Room
    <3>1. clientsockfd' = Append(clientsockfd, Head(backlog)) /\ Head(backlog) \in Users
      BY <1>6, <2>2, HeadTailProperties DEF accept, IInv, Kinds, Found
    <3>2. Len(clientsockfd') = Len(clientsockfd) + 1
      BY <1>1, <3>1, AppendProperties
    <3>3. Len(clientsockfd') <= MAX_CLIENTS
      BY <1>1, <2>2, <3>2 DEF Room, numclient
    <3> QED
      BY <2>1, <3>3 DEF Arrays, game, numclient
  <2>3. CASE ~Room
    BY <1>2, <1>6, <2>1, <2>3 DEF accept
  <2> QED
    BY <2>2, <2>3
<1>7. CASE Disconnect
  <2>1. /\ i \in 1..Len(clientsockfd) /\ clientsockfd' = RemoveAt(clientsockfd, i)
        /\ client_sent' = Shifted(client_sent) /\ client_numbers' = Shifted(client_numbers)
        /\ UNCHANGED round
    BY <1>1, <1>7 DEF Disconnect, At, Close, IInv, Kinds, numclient
  <2>2. Len(clientsockfd') = Len(clientsockfd) - 1
    BY <1>1, <2>1, Removed
  <2>3. client_sent' \in [Slot -> BOOLEAN]
    <3> SUFFICES ASSUME NEW j \in Slot, i <= j, j < numclient
                 PROVE  client_sent[j+1] \in BOOLEAN
      BY <2>1 DEF Shifted, Arrays
    <3>1. j+1 \in Slot
      BY <1>1 DEF Slot, Arrays, numclient
    <3> QED
      BY <3>1 DEF Arrays
  <2>4. DOMAIN client_numbers' = Slot
    BY <2>1 DEF Shifted
  <2> QED
    BY <1>1, <2>1, <2>2, <2>3, <2>4 DEF Arrays, numclient
<1>8. CASE Number
  <2>1. /\ DOMAIN client_numbers' = Slot /\ UNCHANGED clientsockfd
        /\ round' = round \/ round' = round + 1
    BY <1>8 DEF Number, Read, Arrays
  <2>2. client_sent' \in [Slot -> BOOLEAN]
    BY <1>8 DEF Number, Arrays
  <2> QED
    BY <2>1, <2>2 DEF Arrays, numclient
<1> QED
  BY <1>3, <1>4, <1>5, <1>6, <1>7, <1>8 DEF Next, main

\* As long as nobody has left, the places past the last client are clear, so
\* that a new client has not sent; and somebody is still to send.
Unsent ==
  (\A u \in Users : user[u] # "left") =>
    /\ \A j \in Slot : j > numclient => ~client_sent[j]
    /\ numclient >= 2 => \E j \in 1..numclient : ~client_sent[j]

\* Who has left stays so.
LEMMA LeftStays ==
  ASSUME IInv, [Next]_vars, NEW u \in Users, user[u] = "left"
  PROVE  user'[u] = "left"
<1>1. CASE UNCHANGED user
  BY <1>1
<1>2. ASSUME NEW v \in Users, Connect(v) \/ Leave(v) PROVE user'[u] = "left"
  BY <1>2 DEF Connect, Leave, IInv, Kinds
<1>3. CASE accept
  <2>1. \/ UNCHANGED user
        \/ user' = [user EXCEPT ![Head(backlog)] = IF @ = "on" THEN "refused" ELSE @]
    BY <1>3 DEF accept
  <2> QED
    BY <2>1 DEF IInv, Kinds
<1>4. ASSUME NEW v \in Users, NEW d \in Digits, Type(v, d) PROVE user'[u] = "left"
  BY <1>1, <1>4 DEF Type
<1>5. CASE UNCHANGED vars
  BY <1>1, <1>5 DEF vars
<1>6. CASE select \/ NoNewClient \/ NotReady \/ EndPass \/ Disconnect
           \/ Insufficient \/ Duplicate \/ Number
  BY <1>1, <1>6 DEF select, NoNewClient, NotReady, EndPass, Disconnect,
     Insufficient, Duplicate, Number, Read
<1> QED
  BY <1>2, <1>3, <1>4, <1>5, <1>6 DEF Next, main

LEMMA UnsentInv ==
  ASSUME IInv, Arrays, Unsent, [Next]_vars
  PROVE  Unsent'
<1> SUFFICES ASSUME \A u \in Users : user'[u] # "left"
             PROVE  /\ \A j \in Slot : j > numclient' => ~client_sent'[j]
                    /\ numclient' >= 2 => \E j \in 1..numclient' : ~client_sent'[j]
  BY DEF Unsent
<1>1. /\ \A u \in Users : user[u] # "left"
      /\ \A j \in Slot : j > numclient => ~client_sent[j]
      /\ numclient >= 2 => \E j \in 1..numclient : ~client_sent[j]
  BY LeftStays DEF Unsent
<1>2. /\ clientsockfd \in Seq(Users) /\ Len(clientsockfd) \in Nat /\ MAX_CLIENTS \in Nat
      /\ Len(clientsockfd) <= MAX_CLIENTS
  BY LenProperties, ChatServerAssumption DEF IInv, Kinds, Arrays, numclient
<1>3. CASE UNCHANGED <<clientsockfd, game>>
  BY <1>1, <1>3 DEF game, numclient
<1>4. CASE accept
  <2>1. UNCHANGED client_sent
    BY <1>4 DEF accept, game
  <2>2. CASE Room
    <3>1. clientsockfd' = Append(clientsockfd, Head(backlog)) /\ Head(backlog) \in Users
      BY <1>4, <2>2, HeadTailProperties DEF accept, IInv, Kinds, Found
    <3>2. numclient' = numclient + 1
      BY <1>2, <3>1, AppendProperties DEF numclient
    <3>3. numclient + 1 \in Slot /\ ~client_sent[numclient + 1]
      BY <1>1, <1>2, <2>2 DEF Room, Slot, numclient
    <3>4. numclient + 1 \in 1..numclient' /\ ~client_sent'[numclient + 1]
      BY <1>2, <2>1, <3>2, <3>3 DEF numclient
    <3>5. \A j \in Slot : j > numclient' => j > numclient
      BY <1>2, <3>2 DEF Slot, numclient
    <3> QED
      BY <1>1, <2>1, <3>4, <3>5
  <2>3. CASE ~Room
    BY <1>3, <1>4, <2>3 DEF accept
  <2> QED
    BY <2>2, <2>3
<1>5. ASSUME Disconnect PROVE FALSE
  <2>1. /\ i \in 1..Len(clientsockfd) /\ clientsockfd[i] \in tempfds
        /\ unread[clientsockfd[i]] = <<>> /\ clientsockfd[i] \in Users
    BY <1>2, <1>5, ElementOfSeq DEF Disconnect, At, c, IInv, Kinds, numclient
  <2> QED
    BY <1>1, <2>1 DEF IInv, Found
<1>6. CASE Number
  <2> DEFINE sent == [client_sent EXCEPT ![i] = TRUE]
  <2>1. UNCHANGED clientsockfd /\ i \in 1..Len(clientsockfd)
    BY <1>2, <1>6 DEF Number, Read, At, IInv, Kinds, numclient
  <2>2. \A j \in Slot : j > numclient => ~sent[j]
    BY <1>1, <1>2, <2>1 DEF Arrays, numclient
  <2>3. \A j \in 1..numclient : j \in Slot
    BY <1>2 DEF Slot, numclient
  <2>4. CASE AllSent(sent)
    <3>1. client_sent' = [j \in Slot |-> j > numclient /\ sent[j]]
      BY <1>6, <2>4 DEF Number
    <3>2. \A j \in Slot : ~client_sent'[j]
      BY <2>2, <3>1
    <3> QED
      BY <1>2, <2>1, <2>3, <3>2 DEF numclient
  <2>5. CASE ~AllSent(sent)
    <3>1. client_sent' = sent
      BY <1>6, <2>5 DEF Number
    <3> QED
      BY <2>1, <2>2, <2>5, <3>1 DEF AllSent, numclient
  <2> QED
    BY <2>4, <2>5
<1>7. CASE select \/ NoNewClient \/ NotReady \/ EndPass \/ Insufficient \/ Duplicate
  BY <1>3, <1>7 DEF select, NoNewClient, NotReady, EndPass, Insufficient, Duplicate, Read
<1>8. CASE \E u \in Users : Connect(u) \/ Leave(u) \/ \E d \in Digits : Type(u, d)
  BY <1>3, <1>8 DEF Connect, Leave, Type
<1>9. CASE UNCHANGED vars
  BY <1>3, <1>9 DEF vars
<1> QED
  BY <1>4, <1>5, <1>6, <1>7, <1>8, <1>9 DEF Next, main

\* A round in which all have sent and no result follows is possible only after
\* somebody has left: a new client in a place never used before has not sent.
THEOREM StallsByLeaving == Spec => []StallsOnlyByLeaving
<1>1. Init => Arrays /\ Unsent
  BY ChatServerAssumption DEF Init, Arrays, Unsent, numclient
<1>2. Unsent => StallsOnlyByLeaving
  BY DEF Unsent, StallsOnlyByLeaving
<1> QED
  BY InitInv, StepInv, ArraysInv, UnsentInv, <1>1, <1>2, PTL DEF Spec

-----------------------------------------------------------------------------
(* What is recorded for a client *)

\* Where a user is in a table without repetitions.
Place(u, s) == CHOOSE j \in 1..Len(s) : s[j] = u

LEMMA PlaceOf ==
  ASSUME NEW s, Distinct(s), NEW m \in 1..Len(s)
  PROVE  Place(s[m], s) = m
  BY DEF Place, Distinct

\* The record of a client is in its place.
Recorded(u, s, sent, numbers, s1, sent1, numbers1) ==
  sent[Place(u, s)] =>
    /\ sent1[Place(u, s1)]
    /\ numbers1[Place(u, s1)] = numbers[Place(u, s)]
Kept ==
  \A u \in Clients : round' = round /\ u \in Clients' =>
    Recorded(u, clientsockfd, client_sent, client_numbers,
             clientsockfd', client_sent', client_numbers')

\* A new client takes the place after the last one.
LEMMA AcceptKeeps ==
  ASSUME IInv, accept
  PROVE  Kept
<1>1. clientsockfd \in Seq(Users) /\ Len(clientsockfd) \in Nat /\ UNCHANGED game
  BY LenProperties DEF accept, IInv, Kinds
<1>2. CASE Room
  <2>1. /\ clientsockfd' = Append(clientsockfd, Head(backlog)) /\ Head(backlog) \in Users
        /\ Distinct(clientsockfd) /\ Distinct(clientsockfd')
    <3>1. /\ backlog # <<>> /\ backlog \in Seq(Users)
          /\ Distinct(backlog) /\ Distinct(clientsockfd) /\ Apart(backlog, clientsockfd)
      BY DEF accept, IInv, Kinds, Places, Found
    <3>2. clientsockfd' = Append(clientsockfd, Head(backlog))
      BY <1>2 DEF accept
    <3> QED
      BY <1>1, <3>1, <3>2, HeadMoved
  <2>2. /\ Len(clientsockfd') = Len(clientsockfd) + 1
        /\ \A j \in 1..Len(clientsockfd) : clientsockfd'[j] = clientsockfd[j]
    BY <1>1, <2>1, AppendProperties
  <2> SUFFICES ASSUME NEW u, In(u, clientsockfd)
               PROVE  Place(u, clientsockfd') = Place(u, clientsockfd)
    BY <1>1, InToSet DEF Kept, Recorded, Clients, game
  <2>3. PICK j \in 1..Len(clientsockfd) : clientsockfd[j] = u
    BY DEF In
  <2>4. j \in 1..Len(clientsockfd') /\ clientsockfd'[j] = u
    BY <1>1, <2>2, <2>3
  <2>5. Place(u, clientsockfd) = j
    BY <2>1, <2>3, PlaceOf
  <2>6. Place(u, clientsockfd') = j
    BY <2>1, <2>4, PlaceOf
  <2> QED
    BY <2>5, <2>6
<1>3. CASE ~Room
  BY <1>1, <1>3 DEF accept, Kept, Recorded, game
<1> QED
  BY <1>2, <1>3

\* The arrays are moved down with the table.
LEMMA DisconnectKeeps ==
  ASSUME IInv, Arrays, Disconnect
  PROVE  Kept
<1> DEFINE s == clientsockfd
<1>1. /\ s \in Seq(Users) /\ Len(s) \in Nat /\ Len(s) <= MAX_CLIENTS
      /\ MAX_CLIENTS \in Nat /\ i \in 1..Len(s)
      /\ clientsockfd' = RemoveAt(s, i)
      /\ client_sent' = Shifted(client_sent) /\ client_numbers' = Shifted(client_numbers)
  BY LenProperties, ChatServerAssumption
     DEF Disconnect, At, Close, IInv, Kinds, Arrays, numclient
<1>2. /\ clientsockfd' \in Seq(Users) /\ Len(clientsockfd') = Len(s)-1
      /\ \A j \in 1..Len(s)-1 : clientsockfd'[j] = IF j < i THEN s[j] ELSE s[j+1]
  BY <1>1, Removed
<1>3. Distinct(s) /\ Distinct(clientsockfd')
  BY <1>1, RemovedDistinct DEF IInv, Kinds, Places
<1> SUFFICES ASSUME NEW u, In(u, clientsockfd')
             PROVE  Recorded(u, s, client_sent, client_numbers,
                             clientsockfd', client_sent', client_numbers')
  BY <1>2, InToSet DEF Kept, Clients
<1>4. PICK j \in 1..Len(s)-1 : clientsockfd'[j] = u
  BY <1>2 DEF In
<1>5. Place(u, clientsockfd') = j
  BY <1>2, <1>3, <1>4, PlaceOf
<1>6. ASSUME NEW m \in 1..Len(s), s[m] = u, j \in Slot,
             client_sent'[j] = client_sent[m], client_numbers'[j] = client_numbers[m]
      PROVE  Recorded(u, s, client_sent, client_numbers,
                      clientsockfd', client_sent', client_numbers')
  <2>1. Place(u, s) = m
    BY <1>3, <1>6, PlaceOf
  <2> QED
    BY <1>5, <1>6, <2>1 DEF Recorded
<1>7. j \in Slot /\ (j < i \/ j >= i) /\ j < numclient
  BY <1>1 DEF Slot, numclient
<1>8. CASE j < i
  <2>1. j \in 1..Len(s) /\ s[j] = u /\ ~(i <= j)
    BY <1>1, <1>2, <1>4, <1>8
  <2>2. client_sent'[j] = client_sent[j] /\ client_numbers'[j] = client_numbers[j]
    BY <1>1, <1>7, <2>1 DEF Shifted
  <2> QED
    BY <1>6, <1>7, <2>1, <2>2
<1>9. CASE j >= i
  <2>1. j+1 \in 1..Len(s) /\ s[j+1] = u /\ i <= j
    BY <1>1, <1>2, <1>4, <1>9
  <2>2. client_sent'[j] = client_sent[j+1] /\ client_numbers'[j] = client_numbers[j+1]
    BY <1>1, <1>7, <2>1 DEF Shifted
  <2> QED
    BY <1>6, <1>7, <2>1, <2>2
<1> QED
  BY <1>7, <1>8, <1>9

\* A number is recorded only for a client that has not sent.
LEMMA NumberKeeps ==
  ASSUME IInv, Arrays, Number
  PROVE  Kept
<1> SUFFICES ASSUME NEW u \in Clients, round' = round, client_sent[Place(u, clientsockfd)]
             PROVE  /\ client_sent'[Place(u, clientsockfd)]
                    /\ client_numbers'[Place(u, clientsockfd)]
                         = client_numbers[Place(u, clientsockfd)]
  BY DEF Kept, Recorded, Number, Read
<1>1. /\ clientsockfd \in Seq(Users) /\ ~client_sent[i]
      /\ client_numbers' = [client_numbers EXCEPT ![i] = atoi(unread[c])]
  BY DEF Number, Expected, IInv, Kinds
<1>2. client_sent' = [client_sent EXCEPT ![i] = TRUE]
  <2>1. round + 1 # round
    BY DEF Arrays
  <2> QED
    BY <2>1 DEF Number
<1>3. Place(u, clientsockfd) # i /\ Place(u, clientsockfd) \in Slot
  <2>1. PICK j \in 1..Len(clientsockfd) : clientsockfd[j] = u
    BY <1>1, InToSet DEF Clients, In
  <2>2. Place(u, clientsockfd) = j
    BY <2>1, PlaceOf DEF IInv, Places
  <2>3. j \in Slot
    BY <1>1, LenProperties, ChatServerAssumption DEF Arrays, Slot, numclient
  <2> QED
    BY <1>1, <2>2, <2>3
<1> QED
  BY <1>1, <1>2, <1>3 DEF Arrays

\* A client's first number in a round stands until the round ends or the client
\* is gone: it is found in the client's place wherever the shifts have taken it.
THEOREM FirstStands == Spec => FirstNumberStands
<1>1. ASSUME IInv, Arrays, [Next]_vars PROVE Kept
  <2>1. ASSUME UNCHANGED <<clientsockfd, game>> PROVE Kept
    BY <2>1 DEF Kept, Recorded, game
  <2>2. CASE UNCHANGED vars
    BY <2>1, <2>2 DEF vars
  <2>3. CASE \E u \in Users : Connect(u) \/ Leave(u) \/ \E d \in Digits : Type(u, d)
    BY <2>1, <2>3 DEF Connect, Leave, Type
  <2>4. CASE select \/ NoNewClient \/ NotReady \/ EndPass \/ Insufficient \/ Duplicate
    BY <2>1, <2>4
       DEF select, NoNewClient, NotReady, EndPass, Insufficient, Duplicate, Read
  <2> QED
    BY <1>1, <2>2, <2>3, <2>4, AcceptKeeps, DisconnectKeeps, NumberKeeps DEF Next, main
<1>2. Kept => [\A u \in Clients :
                 round' = round /\ client_sent[SlotOf(u)] /\ u \in Clients' =>
                   /\ client_sent'[SlotOf(u)']
                   /\ client_numbers'[SlotOf(u)'] = client_numbers[SlotOf(u)]]_vars
  BY DEF Kept, Recorded, Place, SlotOf, numclient
<1>3. Init => Arrays
  BY ChatServerAssumption DEF Init, Arrays, numclient
<1> QED
  BY InitInv, StepInv, ArraysInv, <1>1, <1>2, <1>3, PTL DEF Spec, FirstNumberStands

-----------------------------------------------------------------------------
(* Numbers: what atoi makes of digits, and the largest of some numbers       *)

\* A non-empty set of naturals has a least element.
LEMMA LeastNatural ==
  ASSUME NEW T, T \subseteq Nat, T # {}
  PROVE  \E x \in T : \A y \in T : x <= y
<1>1. PICK x \in T : \A y \in T : <<y, x>> \notin OpToRel(<, Nat)
  BY WFMin, NatLessThanWellFounded
<1>2. ASSUME NEW y \in T PROVE x <= y
  <2>1. x \in Nat /\ y \in Nat
    OBVIOUS
  <2>2. ~(y < x)
    BY <1>1, <2>1 DEF OpToRel
  <2> QED
    BY <2>1, <2>2
<1> QED
  BY <1>2

\* Induction over the naturals, for a set of them.
LEMMA Induction ==
  ASSUME NEW G, 0 \in G, \A n \in Nat : n \in G => n + 1 \in G
  PROVE  Nat \subseteq G
<1> SUFFICES ASSUME Nat \ G # {} PROVE FALSE
  OBVIOUS
<1>1. PICK x \in Nat \ G : \A y \in Nat \ G : x <= y
  BY LeastNatural
<1>2. x - 1 \in Nat /\ x - 1 \notin Nat \ G /\ (x - 1) + 1 = x
  BY <1>1
<1> QED
  BY <1>2

\* The largest element of a set of places.
LEMMA MaxPlace ==
  ASSUME NEW n \in Nat, NEW s \in SUBSET (1..n), s # {}
  PROVE  Max(s) \in s /\ \A y \in s : y <= Max(s)
<1> DEFINE T == {n - y : y \in s}
<1>1. T \subseteq Nat /\ T # {}
  <2>1. \A y \in s : y \in 1..n /\ n - y \in Nat
    OBVIOUS
  <2> QED
    BY <2>1
<1>2. PICK x \in T : \A y \in T : x <= y
  BY <1>1, LeastNatural
<1>3. PICK m \in s : x = n - m
  BY <1>2
<1>4. \A y \in s : m >= y
  <2> SUFFICES ASSUME NEW y \in s PROVE m >= y
    OBVIOUS
  <2>1. n - y \in T /\ m \in Int /\ y \in Int
    OBVIOUS
  <2>2. n - m <= n - y
    BY <1>2, <1>3, <2>1
  <2> QED
    BY <2>1, <2>2
<1>5. Max(s) \in s /\ \A y \in s : Max(s) >= y
  BY <1>3, <1>4, Zenon DEF Max
<1>6. \A y \in s : y \in Int
  OBVIOUS
<1> HIDE DEF T
<1>7. \A y \in s : y <= Max(s)
  <2> DEFINE z == Max(s)
  <2>1. z \in Int /\ \A y \in s : z >= y /\ y \in Int
    BY <1>5, <1>6
  <2> HIDE DEF z
  <2>2. \A y \in s : y <= z
    BY <2>1
  <2> QED
    BY <2>2 DEF z
<1> QED
  BY <1>5, <1>7

\* The last place of 1..n+1 and the places before it.
LEMMA LastPlace ==
  ASSUME NEW n \in Nat
  PROVE  /\ Max(1..n+1) = n + 1 /\ (1..n+1) \ {n + 1} = 1..n
         /\ \A s \in SUBSET (1..n+1) : n + 1 \in s =>
              Max(s) = n + 1 /\ s \ {n + 1} \in SUBSET (1..n)
<1>1. ASSUME NEW s \in SUBSET (1..n+1), n + 1 \in s
      PROVE  Max(s) = n + 1 /\ s \ {n + 1} \in SUBSET (1..n)
  <2> DEFINE x == Max(s)
  <2>1. n + 1 \in Nat /\ s # {}
    BY <1>1
  <2>2. x \in s /\ \A y \in s : y <= x
    BY <2>1, MaxPlace
  <2> HIDE DEF x
  <2>3. x = n + 1
    BY <1>1, <2>2
  <2> QED
    BY <2>3 DEF x
<1>2. n + 1 \in 1..n+1 /\ (1..n+1) \ {n + 1} = 1..n
  OBVIOUS
<1> QED
  BY <1>1, <1>2

\* What atoi does with one digit more.
Digit(n, d) == 10 * n + d

\* The function by which FoldLeft is defined, on the first n digits.
Iterates(it, n, digits) ==
  it = [s \in SUBSET (1..n) |->
          IF s = {} THEN 0
          ELSE Digit(it[s \ {Max(s)}], digits[Max(s)])]

\* There is such a function.
LEMMA Iterable ==
  ASSUME NEW digits, NEW m \in Nat
  PROVE  \E it : Iterates(it, m, digits)
<1> DEFINE G == {n \in Nat : \E it : Iterates(it, n, digits)}
<1>1. 0 \in G
  <2>1. SUBSET (1..0) = {{}}
    OBVIOUS
  <2>2. Iterates([s \in SUBSET (1..0) |-> 0], 0, digits)
    BY <2>1 DEF Iterates
  <2> QED
    BY <2>2
<1>2. ASSUME NEW n \in Nat, n \in G PROVE n + 1 \in G
  <2>1. PICK it : Iterates(it, n, digits)
    BY <1>2
  <2> DEFINE h == [s \in SUBSET (1..n+1) |->
                     IF n + 1 \in s
                     THEN Digit(it[s \ {n + 1}], digits[n + 1]) ELSE it[s]]
  <2>2. ASSUME NEW s \in SUBSET (1..n+1)
        PROVE  h[s] = IF s = {} THEN 0
                      ELSE Digit(h[s \ {Max(s)}], digits[Max(s)])
    <3>1. CASE s = {}
      <4>1. s \in SUBSET (1..n) /\ n + 1 \notin s
        BY <3>1
      <4>2. it[s] = 0
        BY <2>1, <3>1, <4>1 DEF Iterates
      <4> QED
        BY <3>1, <4>1, <4>2
    <3>2. CASE n + 1 \in s
      <4>1. Max(s) = n + 1 /\ s \ {n + 1} \in SUBSET (1..n)
        BY <3>2, LastPlace
      <4>2. s \ {n + 1} \in SUBSET (1..n+1) /\ n + 1 \notin s \ {n + 1}
        BY <4>1
      <4>3. h[s \ {Max(s)}] = it[s \ {n + 1}]
        BY <4>1, <4>2
      <4> QED
        BY <3>2, <4>1, <4>3
    <3>3. CASE s # {} /\ n + 1 \notin s
      <4>1. s \in SUBSET (1..n)
        BY <3>3
      <4>2. s \ {Max(s)} \in SUBSET (1..n) /\ n + 1 \notin s \ {Max(s)}
        BY <3>3, <4>1, Zenon
      <4>3. it[s] = Digit(it[s \ {Max(s)}], digits[Max(s)])
        BY <2>1, <3>3, <4>1 DEF Iterates
      <4>4. h[s \ {Max(s)}] = it[s \ {Max(s)}] /\ h[s] = it[s]
        BY <3>3, <4>2
      <4> QED
        BY <3>3, <4>3, <4>4
    <3> QED
      BY <3>1, <3>2, <3>3
  <2>3. Iterates(h, n + 1, digits)
    <3>1. h = [s \in SUBSET (1..n+1) |-> h[s]]
      OBVIOUS
    <3> HIDE DEF h
    <3> QED
      BY <2>2, <3>1, Zenon DEF Iterates
  <2> QED
    BY <2>3
<1>3. Nat \subseteq G
  BY <1>1, <1>2, Induction
<1> QED
  BY <1>3

\* A number is one of these functions of all its digits.
LEMMA Chosen ==
  ASSUME NEW digits, NEW m \in Nat, DOMAIN digits = 1..m
  PROVE  \E it : Iterates(it, m, digits) /\ atoi(digits) = it[1..m]
<1> DEFINE it == CHOOSE jt : Iterates(jt, m, digits)
<1>1. Iterates(it, m, digits)
  BY Iterable
<1>2. atoi(digits) = it[1..m]
  BY Zenon DEF atoi, Digit, Iterates, FoldLeft, MapThenFoldSet
<1> QED
  BY <1>1, <1>2

\* Digits make a natural number.
LEMMA AtoiTyped ==
  ASSUME NEW digits \in Seq(Digits)
  PROVE  atoi(digits) \in Nat
<1> DEFINE m == Len(digits)
<1>1. m \in Nat /\ DOMAIN digits = 1..m /\ \A n \in 1..m : digits[n] \in Nat
  <2>1. m \in Nat /\ DOMAIN digits = 1..m /\ \A n \in 1..m : digits[n] \in Digits
    BY LenProperties, ElementOfSeq
  <2>2. Digits \subseteq Nat
    BY ChatServerAssumption
  <2> QED
    BY <2>1, <2>2
<1> HIDE DEF m
<1>2. PICK it : Iterates(it, m, digits) /\ atoi(digits) = it[1..m]
  BY <1>1, Chosen
<1> DEFINE G == {n \in Nat : n <= m => \A s \in SUBSET (1..n) : it[s] \in Nat}
<1>3. ASSUME NEW s \in SUBSET (1..m), s = {} PROVE it[s] \in Nat
  BY <1>2, <1>3 DEF Iterates
<1>4. 0 \in G
  <2> SUFFICES ASSUME NEW s \in SUBSET (1..0) PROVE it[s] \in Nat
    OBVIOUS
  <2>1. s = {} /\ s \in SUBSET (1..m)
    OBVIOUS
  <2> QED
    BY <1>3, <2>1
<1>5. ASSUME NEW n \in Nat, n \in G PROVE n + 1 \in G
  <2> SUFFICES ASSUME n + 1 <= m, NEW s \in SUBSET (1..n+1) PROVE it[s] \in Nat
    OBVIOUS
  <2>1. n <= m /\ \A x \in SUBSET (1..n) : it[x] \in Nat
    BY <1>1, <1>5
  <2>2. CASE n + 1 \notin s
    <3>1. s \in SUBSET (1..n)
      BY <2>2
    <3> QED
      BY <2>1, <3>1
  <2>3. CASE n + 1 \in s
    <3>1. Max(s) = n + 1 /\ s \ {n + 1} \in SUBSET (1..n)
      BY <2>3, LastPlace
    <3>2. s \in SUBSET (1..m) /\ s # {} /\ n + 1 \in 1..m
      BY <1>1, <2>3
    <3>3. it[s] = Digit(it[s \ {Max(s)}], digits[Max(s)])
      BY <1>2, <3>2, Zenon DEF Iterates
    <3>4. it[s \ {n + 1}] \in Nat /\ digits[n + 1] \in Nat
      BY <1>1, <2>1, <3>1, <3>2
    <3>5. it[s] = Digit(it[s \ {n + 1}], digits[n + 1])
      BY <3>1, <3>3
    <3>6. ASSUME NEW x \in Nat, NEW y \in Nat PROVE Digit(x, y) \in Nat
      BY DEF Digit
    <3> QED
      BY <3>4, <3>5, <3>6
  <2> QED
    BY <2>2, <2>3
<1>6. m \in G
  BY <1>1, <1>4, <1>5, Induction
<1>7. \A s \in SUBSET (1..m) : it[s] \in Nat
  BY <1>1, <1>6
<1> QED
  BY <1>2, <1>7

\* Finds(found, n, f): found holds what the loop of Maximum has found of the
\* numbers f after 0, 1, ... n of them.
Finds(found, n, f) ==
  found = [j \in 0..n |->
             IF j = 0 THEN [max_num |-> INT_MIN, max_index |-> 1]
             ELSE BetterOf(found[j-1], f, j)]

\* The loop's results exist for every number of turns.
LEMMA Findable ==
  ASSUME NEW f, NEW m \in Nat
  PROVE  \E found : Finds(found, m, f)
<1> DEFINE None == [max_num |-> INT_MIN, max_index |-> 1]
           Turn(best, j) == BetterOf(best, f, j)
           Done(g, n) == g = [j \in 0..n |-> IF j = 0 THEN None ELSE Turn(g[j-1], j)]
           G == {n \in Nat : \E g : Done(g, n)}
<1> HIDE DEF None, Turn
<1>1. 0 \in G
  <2> DEFINE g == [j \in 0..0 |-> None]
  <2>1. Done(g, 0)
    OBVIOUS
  <2> QED
    BY <2>1
<1>2. ASSUME NEW n \in Nat, n \in G PROVE n + 1 \in G
  <2>1. PICK g : Done(g, n)
    BY <1>2
  <2> DEFINE h == [j \in 0..n+1 |-> IF j = n + 1 THEN Turn(g[n], n + 1) ELSE g[j]]
  <2>2. ASSUME NEW j \in 0..n+1
        PROVE  h[j] = IF j = 0 THEN None ELSE Turn(h[j-1], j)
    <3>1. CASE j = n + 1
      <4>1. n \in 0..n+1 /\ n # n + 1 /\ j - 1 = n /\ j # 0
        BY <3>1
      <4>2. h[n] = g[n]
        BY <4>1
      <4> QED
        BY <3>1, <4>1, <4>2
    <3>2. CASE j = 0
      BY <2>1, <3>2
    <3>3. CASE j # n + 1 /\ j # 0
      <4>1. j \in 0..n /\ j-1 \in 0..n+1 /\ j-1 # n + 1
        BY <3>3
      <4>2. h[j] = g[j] /\ h[j-1] = g[j-1]
        BY <3>3, <4>1
      <4>3. g[j] = Turn(g[j-1], j)
        BY <2>1, <3>3, <4>1
      <4> QED
        BY <3>3, <4>2, <4>3
    <3> QED
      BY <3>1, <3>2, <3>3
  <2>3. Done(h, n + 1)
    BY <2>2
  <2> HIDE DEF h
  <2>4. \E k : Done(k, n + 1)
    BY <2>3
  <2> HIDE DEF Done
  <2> QED
    BY <2>4
<1>3. \E g : Done(g, m)
  BY <1>1, <1>2, Induction
<1> QED
  BY <1>3 DEF Finds, None, Turn

\* Invariant of the loop: of the numbers looked at none exceeds the maximum, and
\* the maximum is the number at the index kept with it.
LEMMA LoopInvariant ==
  ASSUME NEW m \in Nat, m >= 1, NEW f, \A j \in 1..m : f[j] \in Nat,
         NEW found, Finds(found, m, f)
  PROVE  /\ found[m].max_index \in 1..m
         /\ found[m].max_num = f[found[m].max_index]
         /\ \A k \in 1..m : f[k] <= found[m].max_num
<1> DEFINE Best(n) == /\ found[n].max_index \in 1..n
                      /\ found[n].max_num = f[found[n].max_index]
                      /\ \A k \in 1..n : f[k] <= found[n].max_num
           G == {n \in Nat : n + 1 <= m => Best(n + 1)}
<1>1. found[0].max_num = INT_MIN
  <2>1. 0 \in 0..m
    OBVIOUS
  <2>2. found[0] = [max_num |-> INT_MIN, max_index |-> 1]
    BY <2>1, Zenon DEF Finds
  <2> QED
    BY <2>2
<1>2. ASSUME NEW n \in 1..m
      PROVE  found[n] = IF f[n] > found[n-1].max_num
                        THEN [max_num |-> f[n], max_index |-> n] ELSE found[n-1]
  <2>1. n \in 0..m /\ n # 0
    OBVIOUS
  <2>2. found[n] = BetterOf(found[n-1], f, n)
    BY <2>1, Zenon DEF Finds
  <2> QED
    BY <2>2 DEF BetterOf, Candidate
<1>3. 0 \in G
  <2>1. found[1] = [max_num |-> f[1], max_index |-> 1]
    BY <1>1, <1>2, f[1] \in Nat DEF INT_MIN
  <2> QED
    BY <2>1
<1>4. ASSUME NEW n \in Nat, n \in G PROVE n + 1 \in G
  <2> SUFFICES ASSUME n + 2 <= m PROVE Best(n + 2)
    OBVIOUS
  <2>1. /\ Best(n + 1) /\ n + 2 \in 1..m /\ (n + 2) - 1 = n + 1
        /\ 1..n+1 \subseteq 1..m /\ f[n + 2] \in Nat
    BY <1>4
  <2>2. found[n + 1].max_num \in Nat
    BY <2>1
  <2>3. CASE f[n + 2] > found[n + 1].max_num
    <3>1. found[n + 2] = [max_num |-> f[n + 2], max_index |-> n + 2]
      BY <1>2, <2>1, <2>3
    <3>2. \A k \in 1..n+1 : f[k] \in Nat /\ f[k] <= f[n + 2]
      BY <2>1, <2>2, <2>3
    <3> QED
      BY <2>1, <3>1, <3>2
  <2>4. CASE ~(f[n + 2] > found[n + 1].max_num)
    <3>1. found[n + 2] = found[n + 1]
      BY <1>2, <2>1, <2>4
    <3>2. f[n + 2] <= found[n + 1].max_num
      BY <2>1, <2>2, <2>4
    <3> QED
      BY <2>1, <3>1, <3>2
  <2> QED
    BY <2>3, <2>4
<1>5. m - 1 \in G /\ (m - 1) + 1 = m
  <2>1. Nat \subseteq G
    BY <1>3, <1>4, Induction
  <2>2. m - 1 \in Nat
    OBVIOUS
  <2> QED
    BY <2>1, <2>2
<1> QED
  BY <1>5

\* The result of the loop is that of its last turn.
LEMMA LastTurn ==
  ASSUME NEW f, numclient \in Nat
  PROVE  \E found : Finds(found, numclient, f) /\ Maximum(f) = found[numclient]
<1> DEFINE found == CHOOSE g : Finds(g, numclient, f)
<1>1. Finds(found, numclient, f)
  BY Findable
<1>2. Maximum(f) = found[numclient]
  BY Zenon DEF Maximum, Finds
<1> QED
  BY <1>1, <1>2

-----------------------------------------------------------------------------
(* The ranges of the variables *)

Ranges ==
  /\ client_numbers \in [Slot -> Nat] /\ round \in Nat \ {0}
  /\ tempfds \subseteq Users \union {serverfd} /\ i <= MAX_CLIENTS+1
  /\ asked \in [Users -> Nat]
  /\ announced \in {<<>>} \union (Nat \X Users)

\* The clients are users, and as many as there are places at most.
LEMMA ClientsType ==
  ASSUME IInv, Arrays
  PROVE  /\ numclient \in Nat /\ MAX_CLIENTS \in Nat /\ numclient <= MAX_CLIENTS
         /\ Clients \subseteq Users /\ 1..numclient \subseteq Slot
         /\ \A j \in 1..numclient : clientsockfd[j] \in Users
<1>1. clientsockfd \in Seq(Users) /\ Len(clientsockfd) \in Nat
  BY LenProperties DEF IInv, Kinds
<1>2. \A j \in 1..Len(clientsockfd) : clientsockfd[j] \in Users
  BY <1>1, ElementOfSeq
<1>3. Clients \subseteq Users
  BY <1>1, <1>2, LenProperties DEF Clients, ToSet
<1> QED
  BY <1>1, <1>2, <1>3, ChatServerAssumption DEF Arrays, Slot, numclient

\* What a number that ends a round announces: the number recorded for a client
\* that none recorded exceeds.
LEMMA WinnerIsLargest ==
  ASSUME IInv, Arrays, Ranges, Number
  PROVE  /\ client_numbers' \in [Slot -> Nat]
         /\ LET w == Maximum(client_numbers')
            IN  /\ w.max_index \in 1..numclient
                /\ w.max_num = client_numbers'[w.max_index]
                /\ \A j \in 1..numclient : client_numbers'[j] <= w.max_num
<1>1. /\ i \in 1..numclient /\ clientsockfd[i] \in Users /\ numclient \in Nat
      /\ numclient >= 1 /\ 1..numclient \subseteq Slot
  BY ClientsType DEF Number, Read, At, IInv, Kinds
<1>2. atoi(unread[c]) \in Nat
  BY <1>1, AtoiTyped DEF c, IInv, Kinds
<1>3. client_numbers' = [client_numbers EXCEPT ![i] = atoi(unread[c])]
  BY DEF Number
<1>4. client_numbers' \in [Slot -> Nat]
  BY <1>2, <1>3 DEF Ranges
<1> DEFINE f == client_numbers'
<1>5. \A j \in 1..numclient : f[j] \in Nat
  BY <1>1, <1>4
<1> HIDE DEF f
<1>6. PICK found : Finds(found, numclient, f) /\ Maximum(f) = found[numclient]
  BY <1>1, LastTurn
<1>7. /\ found[numclient].max_index \in 1..numclient
      /\ found[numclient].max_num = f[found[numclient].max_index]
      /\ \A k \in 1..numclient : f[k] <= found[numclient].max_num
  BY <1>1, <1>5, <1>6, LoopInvariant
<1> QED
  BY <1>4, <1>6, <1>7 DEF f

\* Every step keeps the ranges.
LEMMA RangesInv ==
  ASSUME IInv, Arrays, Ranges, [Next]_vars
  PROVE  Ranges'
<1>0. /\ numclient \in Nat /\ MAX_CLIENTS \in Nat /\ numclient <= MAX_CLIENTS
      /\ Clients \subseteq Users /\ i \in Nat \ {0}
  BY ClientsType DEF IInv, Kinds
<1>1. ASSUME UNCHANGED <<client_numbers, round, tempfds, i, asked, announced>>
      PROVE  Ranges'
  BY <1>1 DEF Ranges
<1>2. ASSUME NEW s, NEW r \in Nat, Ask(s, r) PROVE asked' \in [Users -> Nat]
  BY <1>2 DEF Ask, Ranges
<1>3. CASE UNCHANGED vars
  BY <1>1, <1>3 DEF vars, game
<1>4. CASE \E u \in Users : Connect(u) \/ Leave(u) \/ \E d \in Digits : Type(u, d)
  BY <1>1, <1>4 DEF Connect, Leave, Type, game
<1>5. CASE select
  <2>1. Readable \subseteq Users \union {serverfd}
    BY <1>0 DEF Readable
  <2> QED
    BY <1>5, <2>1 DEF select, Ranges, game
<1>6. CASE NoNewClient \/ EndPass
  BY <1>0, <1>6 DEF NoNewClient, EndPass, Ranges, game
<1>7. CASE accept
  <2>1. asked' \in [Users -> Nat]
    BY <1>2, <1>7 DEF accept, Ranges
  <2> QED
    BY <1>0, <1>7, <2>1 DEF accept, Ranges, game
<1>8. CASE NotReady
  BY <1>0, <1>8 DEF NotReady, At, Ranges, game
<1>9. CASE Disconnect
  <2>1. client_numbers' = Shifted(client_numbers)
    BY <1>9 DEF Disconnect
  <2>2. client_numbers' \in [Slot -> Nat]
    <3> SUFFICES ASSUME NEW j \in Slot, i <= j, j < numclient
                 PROVE  client_numbers[j+1] \in Nat
      BY <2>1 DEF Shifted, Ranges
    <3>1. j+1 \in Slot
      BY <1>0 DEF Slot
    <3> QED
      BY <3>1 DEF Ranges
  <2> QED
    BY <1>9, <2>2 DEF Disconnect, StepBack, Ranges
<1>10. CASE Insufficient \/ Duplicate
  BY <1>0, <1>10 DEF Insufficient, Duplicate, Read, At, Ranges, game
<1>11. CASE Number
  <2> DEFINE w == Maximum(client_numbers')
  <2>1. /\ client_numbers' \in [Slot -> Nat] /\ w.max_index \in 1..numclient
        /\ w.max_num \in Nat /\ clientsockfd[w.max_index] \in Users
    BY <1>11, WinnerIsLargest, ClientsType
  <2>2. /\ announced' = <<w.max_num, clientsockfd[w.max_index]>>
           \/ announced' = announced
        /\ round' = round + 1 \/ round' = round
        /\ Ask(Clients, round + 1) \/ asked' = asked
    BY <1>11 DEF Number
  <2> HIDE DEF w
  <2>3. announced' \in {<<>>} \union (Nat \X Users)
    BY <2>1, <2>2 DEF Ranges
  <2>4. round' \in Nat \ {0} /\ asked' \in [Users -> Nat]
    BY <1>2, <2>2 DEF Ranges
  <2>5. tempfds' \subseteq tempfds /\ i <= numclient /\ i' = i + 1
    BY <1>11 DEF Number, Read, At
  <2>6. i' <= MAX_CLIENTS+1
    BY <1>0, <2>5
  <2> QED
    BY <2>1, <2>3, <2>4, <2>5, <2>6 DEF Ranges
<1> QED
  BY <1>3, <1>4, <1>5, <1>6, <1>7, <1>8, <1>9, <1>10, <1>11 DEF Next, main

\* All three invariants hold together.
LEMMA RangesKept == Spec => [](IInv /\ Arrays /\ Ranges)
<1>1. Init => Arrays /\ Ranges
  BY ChatServerAssumption DEF Init, Arrays, Ranges, numclient
<1> QED
  BY InitInv, StepInv, ArraysInv, RangesInv, <1>1, PTL DEF Spec

\* The server's arrays and what users and server know of each other keep their
\* ranges, for any number of users and places.
THEOREM TypeCorrect == Spec => []TypeOK
<1>1. IInv /\ Arrays /\ Ranges => TypeOK
  <2> SUFFICES ASSUME IInv, Arrays, Ranges PROVE TypeOK
    OBVIOUS
  <2>1. i \in 1 .. MAX_CLIENTS+1
    BY ChatServerAssumption DEF IInv, Kinds, Ranges
  <2> QED
    BY <2>1 DEF TypeOK, IInv, Kinds, Arrays, Ranges
<1> QED
  BY RangesKept, <1>1, PTL

\* A round ends with the announcement of a number that none of those recorded
\* exceeds, and of the client for which it is recorded.
THEOREM LargestAnnounced == Spec => ResultIsLargest
<1>1. ASSUME IInv, Arrays, Ranges, [Next]_vars, round' # round
      PROVE  /\ \A j \in 1..numclient : client_numbers'[j] <= announced'[1]
             /\ client_numbers'[SlotOf(announced'[2])] = announced'[1]
  <2> DEFINE w == Maximum(client_numbers')
  <2>1. Number
    BY <1>1 DEF Next, main, select, NoNewClient, accept, NotReady, EndPass,
       Disconnect, Insufficient, Duplicate, Read, Connect, Leave, Type, vars, game
  <2>2. announced' = <<w.max_num, clientsockfd[w.max_index]>>
    BY <1>1, <2>1 DEF Number
  <2>3. /\ w.max_index \in 1..numclient
        /\ w.max_num = client_numbers'[w.max_index]
        /\ \A j \in 1..numclient : client_numbers'[j] <= w.max_num
    BY <1>1, <2>1, WinnerIsLargest
  <2> HIDE DEF w
  <2>4. SlotOf(clientsockfd[w.max_index]) = w.max_index
    BY <1>1, <2>3, PlaceOf DEF SlotOf, Place, IInv, Places, numclient
  <2> QED
    BY <2>2, <2>3, <2>4
<1>2. IInv /\ Arrays /\ Ranges /\ [Next]_vars =>
        [round' # round =>
           /\ \A j \in 1..numclient : client_numbers'[j] <= announced'[1]
           /\ client_numbers'[SlotOf(announced'[2])] = announced'[1]]_vars
  BY <1>1
<1> QED
  BY RangesKept, <1>2, PTL DEF Spec, ResultIsLargest
=============================================================================
