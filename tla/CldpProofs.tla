-------------------------------- MODULE CldpProofs --------------------------------
(* Theorems about Cldp, for any number of servers, clients and restarts, any  *)
(* commands and any interval.                                                  *)
EXTENDS Cldp, SequenceTheorems, WellFoundedInduction, TLAPS

-----------------------------------------------------------------------------
(* Naturals *)

\* A non-empty set of naturals has a least element.
LEMMA LeastNatural ==
  ASSUME NEW T, T \subseteq Nat, T # {}
  PROVE  \E x \in T : \A y \in T : x <= y
<1>1. PICK x \in T : \A y \in T : <<y, x>> \notin OpToRel(<, Nat)
  BY WFMin, NatLessThanWellFounded
<1>2. ASSUME NEW y \in T PROVE x <= y
  <2>1. x \in Nat /\ y \in Nat
    OBVIOUS
  <2>2. ~(y < x)
    BY <1>1, <2>1 DEF OpToRel
  <2> QED
    BY <2>1, <2>2
<1> QED
  BY <1>2

\* Induction over the naturals, for a set of them.
LEMMA Induction ==
  ASSUME NEW G, 0 \in G, \A n \in Nat : n \in G => n + 1 \in G
  PROVE  Nat \subseteq G
<1> SUFFICES ASSUME Nat \ G # {} PROVE FALSE
  OBVIOUS
<1>1. PICK x \in Nat \ G : \A y \in Nat \ G : x <= y
  BY LeastNatural
<1>2. x - 1 \in Nat /\ x - 1 \notin Nat \ G /\ (x - 1) + 1 = x
  BY <1>1
<1> QED
  BY <1>2

-----------------------------------------------------------------------------
(* Buffers: what is in them, and that it is there once only *)

Once(s, m) == \A j, k \in 1..Len(s) : s[j] = m /\ s[k] = m => j = k

\* Two buffers, one after the other.
LEMMA ConcatParts ==
  ASSUME NEW S, NEW s \in Seq(S), NEW t \in Seq(S)
  PROVE  /\ s \o t \in Seq(S)
         /\ \A m : Contains(s \o t, m) <=> Contains(s, m) \/ Contains(t, m)
         /\ \A m : Once(s, m) /\ Once(t, m) /\ ~(Contains(s, m) /\ Contains(t, m))
                     => Once(s \o t, m)
<1> DEFINE r == s \o t
           a == Len(s)
           b == Len(t)
<1>1. /\ r \in Seq(S) /\ a \in Nat /\ b \in Nat /\ Len(r) = a + b
      /\ \A j \in 1..a+b : r[j] = IF j <= a THEN s[j] ELSE t[j - a]
  BY ConcatProperties, LenProperties
<1> HIDE DEF r, a, b
<1>2. ASSUME NEW j \in 1..a+b
      PROVE  \/ j \in 1..a /\ r[j] = s[j]
             \/ j - a \in 1..b /\ r[j] = t[j - a]
  BY <1>1
<1>3. /\ \A j \in 1..a : j \in 1..a+b /\ r[j] = s[j]
      /\ \A j \in 1..b : j + a \in 1..a+b /\ r[j + a] = t[j]
  <2>1. ASSUME NEW j \in 1..b PROVE j + a \in 1..a+b /\ r[j + a] = t[j]
    <3>1. j + a \in 1..a+b /\ ~(j + a <= a) /\ (j + a) - a = j
      BY <1>1
    <3> QED
      BY <1>1, <3>1
  <2> QED
    BY <1>1, <2>1
<1>4. ASSUME NEW m PROVE Contains(r, m) <=> Contains(s, m) \/ Contains(t, m)
  <2>1. Contains(r, m) => Contains(s, m) \/ Contains(t, m)
    BY <1>1, <1>2 DEF Contains, a, b
  <2>2. Contains(s, m) => Contains(r, m)
    BY <1>1, <1>3 DEF Contains, a
  <2>3. Contains(t, m) => Contains(r, m)
    BY <1>1, <1>3 DEF Contains, b
  <2> QED
    BY <2>1, <2>2, <2>3
<1>5. ASSUME NEW m, Once(s, m), Once(t, m), ~(Contains(s, m) /\ Contains(t, m))
      PROVE  Once(r, m)
  <2> SUFFICES ASSUME NEW j \in 1..a+b, NEW k \in 1..a+b, r[j] = m, r[k] = m
               PROVE  j = k
    BY <1>1 DEF Once
  <2>1. \A p, q \in 1..a : s[p] = m /\ s[q] = m => p = q
    BY <1>5 DEF Once, a
  <2>2. \A p, q \in 1..b : t[p] = m /\ t[q] = m => p = q
    BY <1>5 DEF Once, b
  <2>3. (\A p \in 1..a : s[p] # m) \/ (\A p \in 1..b : t[p] # m)
    BY <1>5 DEF Contains, a, b
  <2>4. \/ j \in 1..a /\ s[j] = m
        \/ j - a \in 1..b /\ t[j - a] = m
    BY <1>2
  <2>5. \/ k \in 1..a /\ s[k] = m
        \/ k - a \in 1..b /\ t[k - a] = m
    BY <1>2
  <2>6. j - a = k - a => j = k
    BY <1>1
  <2> QED
    BY <2>1, <2>2, <2>3, <2>4, <2>5, <2>6
<1> QED
  BY <1>1, <1>4, <1>5 DEF r

\* No packet, and one packet.
LEMMA FewParts ==
  /\ \A m : ~Contains(<<>>, m) /\ Once(<<>>, m)
  /\ \A x, m : (Contains(<<x>>, m) <=> m = x) /\ Once(<<x>>, m)
<1>1. \A m : ~Contains(<<>>, m) /\ Once(<<>>, m)
  BY DEF Contains, Once
<1>2. ASSUME NEW x, NEW m PROVE (Contains(<<x>>, m) <=> m = x) /\ Once(<<x>>, m)
  <2>1. Len(<<x>>) = 1 /\ 1..1 = {1} /\ <<x>>[1] = x
    OBVIOUS
  <2> QED
    BY <2>1 DEF Contains, Once
<1> QED
  BY <1>1, <1>2

\* A packet is added to a buffer.
LEMMA AppendParts ==
  ASSUME NEW S, NEW s \in Seq(S), NEW x \in S
  PROVE  /\ Append(s, x) \in Seq(S)
         /\ \A m : Contains(Append(s, x), m) <=> Contains(s, m) \/ m = x
         /\ \A m : Once(s, m) /\ ~(Contains(s, m) /\ m = x) => Once(Append(s, x), m)
<1> DEFINE t == <<x>>
<1>1. Append(s, x) = s \o t /\ t \in Seq(S)
  OBVIOUS
<1>2. \A m : (Contains(t, m) <=> m = x) /\ Once(t, m)
  BY FewParts
<1> HIDE DEF t
<1>3. /\ s \o t \in Seq(S)
      /\ \A m : Contains(s \o t, m) <=> Contains(s, m) \/ Contains(t, m)
      /\ \A m : Once(s, m) /\ Once(t, m) /\ ~(Contains(s, m) /\ Contains(t, m))
                  => Once(s \o t, m)
  BY <1>1, ConcatParts
<1> QED
  BY <1>1, <1>2, <1>3, Zenon

\* A packet is taken from the head of a buffer.
LEMMA TailParts ==
  ASSUME NEW S, NEW s \in Seq(S), s # <<>>
  PROVE  /\ Head(s) \in S /\ Tail(s) \in Seq(S) /\ Contains(s, Head(s))
         /\ \A m : Contains(Tail(s), m) => Contains(s, m)
         /\ \A m : Contains(s, m) => m = Head(s) \/ Contains(Tail(s), m)
         /\ \A m : Once(s, m) => Once(Tail(s), m)
         /\ Once(s, Head(s)) => ~Contains(Tail(s), Head(s))
<1> DEFINE a == Len(s)
           r == Tail(s)
<1>1. /\ Head(s) \in S /\ Head(s) = s[1] /\ r \in Seq(S) /\ a \in Nat /\ a >= 1
      /\ Len(r) = a - 1 /\ \A j \in 1..a-1 : r[j] = s[j + 1]
  <2>1. /\ Head(s) \in S /\ Head(s) = s[1] /\ Tail(s) \in Seq(S)
        /\ Len(Tail(s)) = Len(s) - 1 /\ \A j \in 1..Len(s)-1 : Tail(s)[j] = s[j + 1]
    BY HeadTailProperties
  <2>2. Len(s) \in Nat /\ Len(s) # 0
    BY LenProperties, EmptySeq
  <2>3. Len(s) >= 1
    BY <2>2
  <2> QED
    BY <2>1, <2>2, <2>3
<1> HIDE DEF a, r
<1>2. \A j \in 1..a-1 : j + 1 \in 1..a /\ 1 \in 1..a /\ j + 1 # 1
  BY <1>1
<1>3. \A j \in 1..a : j = 1 \/ (j - 1 \in 1..a-1 /\ (j - 1) + 1 = j)
  BY <1>1
<1>4. Contains(s, s[1])
  BY <1>1 DEF Contains, a
<1>5. ASSUME NEW m, Contains(r, m) PROVE Contains(s, m)
  BY <1>1, <1>2, <1>5 DEF Contains, a
<1>6. ASSUME NEW m, Contains(s, m) PROVE m = s[1] \/ Contains(r, m)
  <2>1. PICK j \in 1..a : s[j] = m
    BY <1>6 DEF Contains, a
  <2>2. CASE j - 1 \in 1..a-1 /\ (j - 1) + 1 = j
    BY <1>1, <2>1, <2>2 DEF Contains
  <2> QED
    BY <1>3, <2>1, <2>2
<1>7. ASSUME NEW m, Once(s, m) PROVE Once(r, m)
  <2> SUFFICES ASSUME NEW j \in 1..a-1, NEW k \in 1..a-1, r[j] = m, r[k] = m
               PROVE  j = k
    BY <1>1 DEF Once
  <2>1. j + 1 = k + 1
    BY <1>1, <1>2, <1>7 DEF Once, a
  <2> QED
    BY <1>1, <2>1
<1>8. ASSUME Once(s, s[1]) PROVE ~Contains(r, s[1])
  BY <1>1, <1>2, <1>8 DEF Contains, Once, a
<1> QED
  BY <1>1, <1>4, <1>5, <1>6, <1>7, <1>8 DEF r

\* Contains is membership of the set of a buffer's packets, and a buffer is
\* injective when everything is in it once.
LEMMA SetParts ==
  ASSUME NEW S, NEW s \in Seq(S)
  PROVE  /\ \A m : m \in ToSet(s) <=> Contains(s, m)
         /\ \A m : Contains(s, m) => m \in S
         /\ IsInjective(s) <=> \A m \in S : Once(s, m)
<1>1. DOMAIN s = 1..Len(s) /\ \A j \in 1..Len(s) : s[j] \in S
  BY LenProperties, ElementOfSeq
<1>2. /\ \A m : m \in ToSet(s) <=> Contains(s, m)
      /\ \A m : Contains(s, m) => m \in S
  BY <1>1 DEF ToSet, Contains
<1>3. IsInjective(s) => \A m \in S : Once(s, m)
  BY <1>1 DEF IsInjective, Once
<1>4. (\A m \in S : Once(s, m)) => IsInjective(s)
  BY <1>1 DEF IsInjective, Once
<1> QED
  BY <1>2, <1>3, <1>4

-----------------------------------------------------------------------------
(* One buffer after another: FlattenSeq *)

\* The function by which FlattenSeq is defined, on the first n of the buffers.
Flattens(f, n, seqs) ==
  f = [j \in 1..n |-> IF j = 1 THEN seqs[j] ELSE f[j-1] \o seqs[j]]

\* There is such a function.
LEMMA Flattenable ==
  ASSUME NEW seqs, NEW m \in Nat
  PROVE  \E f : Flattens(f, m, seqs)
<1> DEFINE G == {n \in Nat : \E f : Flattens(f, n, seqs)}
<1>1. 0 \in G
  <2>1. Flattens([j \in 1..0 |-> 0], 0, seqs)
    BY DEF Flattens
  <2> QED
    BY <2>1
<1>2. ASSUME NEW n \in Nat, n \in G PROVE n + 1 \in G
  <2>1. PICK f : Flattens(f, n, seqs)
    BY <1>2
  <2> DEFINE h == [j \in 1..n+1 |->
                     IF j \in 1..n THEN f[j]
                     ELSE IF j = 1 THEN seqs[j] ELSE f[j-1] \o seqs[j]]
  <2>2. ASSUME NEW j \in 1..n+1
        PROVE  h[j] = IF j = 1 THEN seqs[j] ELSE h[j-1] \o seqs[j]
    <3>1. j # 1 => j-1 \in 1..n /\ j-1 \in 1..n+1
      OBVIOUS
    <3>2. j # 1 => h[j-1] = f[j-1]
      BY <3>1
    <3>3. j \in 1..n => f[j] = IF j = 1 THEN seqs[j] ELSE f[j-1] \o seqs[j]
      BY <2>1, Zenon DEF Flattens
    <3>4. h[j] = IF j \in 1..n THEN f[j]
                 ELSE IF j = 1 THEN seqs[j] ELSE f[j-1] \o seqs[j]
      OBVIOUS
    <3> HIDE DEF h
    <3> QED
      BY <3>2, <3>3, <3>4
  <2>3. Flattens(h, n + 1, seqs)
    <3>1. h = [j \in 1..n+1 |-> h[j]]
      OBVIOUS
    <3> HIDE DEF h
    <3> QED
      BY <2>2, <3>1, Zenon DEF Flattens
  <2> QED
    BY <2>3
<1>3. m \in G
  BY <1>1, <1>2, Induction
<1> QED
  BY <1>3

\* FlattenSeq is one of these functions, of the last buffer.
LEMMA FlattenChosen ==
  ASSUME NEW seqs, NEW m \in Nat \ {0}, Len(seqs) = m
  PROVE  \E f : Flattens(f, m, seqs) /\ FlattenSeq(seqs) = f[m]
<1> DEFINE f == CHOOSE g : Flattens(g, m, seqs)
<1>1. Flattens(f, m, seqs)
  BY Flattenable
<1>2. Len(seqs) # 0
  OBVIOUS
<1>3. FlattenSeq(seqs) = f[m]
  BY <1>2, Zenon DEF FlattenSeq, Flattens
<1> QED
  BY <1>1, <1>3

-----------------------------------------------------------------------------
(* Packets *)

Kinds     == UNION {ToSet(ks) : ks \in Commands}
Hellos    == [type : {"HELLO"}, src : Server]
Queried   == [type : {"QUERY"}, src : Client, dst : Server, kind : Kinds, tid : Nat]
Responses == [type : {"RESPONSE"}, src : Server, dst : Client, kind : Kinds, tid : Nat]

\* A packet is what its type says.
LEMMA PacketParts ==
  /\ Packet = Hellos \union Queried \union Responses
  /\ \A m \in Hellos : m.type = "HELLO" /\ m.src \in Server /\ m = Hello(m.src)
  /\ \A m \in Queried : /\ m.type = "QUERY" /\ m.src \in Client /\ m.dst \in Server
                        /\ m.kind \in Kinds /\ m.tid \in Nat
  /\ \A m \in Responses : /\ m.type = "RESPONSE" /\ m.src \in Server /\ m.dst \in Client
                          /\ m.kind \in Kinds /\ m.tid \in Nat
<1>1. Packet = Hellos \union Queried \union Responses
  BY DEF Packet, Hellos, Queried, Responses, Kinds
<1>2. \A m \in Hellos : m.type = "HELLO" /\ m.src \in Server /\ m = Hello(m.src)
  BY DEF Hellos, Hello
<1>3. \A m \in Queried : /\ m.type = "QUERY" /\ m.src \in Client /\ m.dst \in Server
                         /\ m.kind \in Kinds /\ m.tid \in Nat
  BY DEF Queried
<1>4. \A m \in Responses : /\ m.type = "RESPONSE" /\ m.src \in Server /\ m.dst \in Client
                           /\ m.kind \in Kinds /\ m.tid \in Nat
  BY DEF Responses
<1> QED
  BY <1>1, <1>2, <1>3, <1>4

\* A packet is of one type.
LEMMA TypeTells ==
  ASSUME NEW m \in Packet
  PROVE  /\ m.type = "HELLO" <=> m \in Hellos
         /\ m.type = "QUERY" <=> m \in Queried
         /\ m.type = "RESPONSE" <=> m \in Responses
  BY PacketParts

\* The packets that servers and clients make.
LEMMA HelloMade ==
  ASSUME NEW s \in Server
  PROVE  Hello(s) \in Hellos /\ Hello(s).type = "HELLO" /\ Hello(s).src = s
  BY DEF Hello, Hellos
LEMMA QueryMade ==
  ASSUME NEW c \in Client, NEW s \in Server, NEW k \in Kinds, life[c] \in Nat
  PROVE  /\ Query(c, s, k) \in Queried
         /\ Query(c, s, k).src = c /\ Query(c, s, k).dst = s
         /\ Query(c, s, k).kind = k /\ Query(c, s, k).tid = life[c]
  BY DEF Query, Queried
LEMMA ResponseMade ==
  ASSUME NEW m \in Queried
  PROVE  /\ Response(m) \in Responses
         /\ Response(m).src = m.dst /\ Response(m).dst = m.src
         /\ Response(m).kind = m.kind /\ Response(m).tid = m.tid
  BY DEF Response, Queried, Responses

\* A response tells the query.
LEMMA ResponseOf ==
  ASSUME NEW m \in Queried, NEW n \in Queried, Response(m) = Response(n)
  PROVE  m = n
<1>1. m.src = n.src /\ m.dst = n.dst /\ m.kind = n.kind /\ m.tid = n.tid /\ m.type = n.type
  BY ResponseMade, PacketParts
<1> QED
  BY <1>1 DEF Queried

-----------------------------------------------------------------------------
(* The queries of a client *)

\* Every query goes to a server of the list and asks for one of the kinds, and
\* none is sent twice.
LEMMA QueriesParts ==
  ASSUME NEW c \in Client, life[c] \in Nat, servers[c] \in Seq(Server),
         IsInjective(servers[c]), NEW ks \in Commands
  PROVE  /\ Queries(c, ks) \in Seq(Queried)
         /\ \A m : Contains(Queries(c, ks), m) =>
              \E s \in ToSet(servers[c]), k \in ToSet(ks) : m = Query(c, s, k)
         /\ \A m : Once(Queries(c, ks), m)
<1> DEFINE sv == servers[c]
           b(n) == [j \in DOMAIN sv |-> Query(c, sv[j], ks[n])]
           seqs == [n \in DOMAIN ks |-> b(n)]
           m == Len(ks)
<1>1. /\ m \in Nat /\ DOMAIN ks = 1..m /\ \A n \in 1..m : ks[n] \in ToSet(ks)
      /\ \A n, l \in 1..m : ks[n] = ks[l] => n = l
  <2>1. ks \in Seq(ToSet(ks)) /\ IsInjective(ks)
    BY CldpAssumption
  <2> QED
    BY <2>1, LenProperties, ElementOfSeq DEF IsInjective
<1>2. /\ Len(sv) \in Nat /\ DOMAIN sv = 1..Len(sv) /\ \A j \in 1..Len(sv) : sv[j] \in Server
      /\ \A j \in 1..Len(sv) : sv[j] \in ToSet(sv)
      /\ \A j, l \in 1..Len(sv) : sv[j] = sv[l] => j = l
  <2>1. Len(sv) \in Nat /\ DOMAIN sv = 1..Len(sv) /\ \A j \in 1..Len(sv) : sv[j] \in Server
    BY LenProperties, ElementOfSeq
  <2> QED
    BY <2>1 DEF IsInjective, ToSet
<1>3. ToSet(ks) \subseteq Kinds
  BY DEF Kinds
<1> HIDE DEF sv, m
<1>4. ASSUME NEW n \in 1..m
      PROVE  /\ b(n) \in Seq(Queried)
             /\ \A x : Contains(b(n), x) => \E s \in ToSet(sv) : x = Query(c, s, ks[n])
             /\ \A x : Once(b(n), x)
  <2>1. ks[n] \in Kinds
    BY <1>1, <1>3
  <2>2. \A j \in 1..Len(sv) : b(n)[j] = Query(c, sv[j], ks[n])
                              /\ b(n)[j] \in Queried /\ b(n)[j].dst = sv[j]
    BY <1>2, <2>1, QueryMade
  <2>3. b(n) \in Seq(Queried) /\ Len(b(n)) = Len(sv)
    <3>1. b(n) \in [1..Len(sv) -> Queried]
      BY <1>2, <2>2
    <3> QED
      BY <1>2, <3>1, IsASeq, LenProperties
  <2> HIDE DEF b
  <2>4. ASSUME NEW x, Contains(b(n), x) PROVE \E s \in ToSet(sv) : x = Query(c, s, ks[n])
    BY <1>2, <2>2, <2>3, <2>4 DEF Contains
  <2>5. ASSUME NEW x PROVE Once(b(n), x)
    BY <1>2, <2>2, <2>3 DEF Once
  <2> QED
    BY <2>3, <2>4, <2>5
<1>5. Queries(c, ks) = FlattenSeq(seqs) /\ Len(seqs) = m /\ \A n \in 1..m : seqs[n] = b(n)
  <2>1. Len(seqs) = m
    BY <1>1
  <2> QED
    BY <1>1, <2>1 DEF Queries, sv
<1> HIDE DEF b, seqs
<1>6. CASE m = 0
  <2>1. Queries(c, ks) = <<>>
    <3>1. Queries(c, ks) = seqs
      BY <1>5, <1>6, Zenon DEF FlattenSeq
    <3>2. seqs = <<>>
      BY <1>1, <1>6 DEF seqs
    <3> QED
      BY <3>1, <3>2
  <2> QED
    BY <2>1, FewParts
<1>7. CASE m # 0
  <2>0. m \in Nat \ {0}
    BY <1>1, <1>7
  <2>1. PICK f : Flattens(f, m, seqs) /\ Queries(c, ks) = f[m]
    BY <1>5, <2>0, FlattenChosen
  <2> DEFINE Of1(n, x) == \E j \in 1..n : \E s \in ToSet(sv) : x = Query(c, s, ks[j])
             P(n) == /\ f[n] \in Seq(Queried)
                     /\ \A x : Contains(f[n], x) => Of1(n, x)
                     /\ \A x : Once(f[n], x)
             G == {n \in Nat : n + 1 <= m => P(n + 1)}
  <2>2. 0 \in G
    <3>1. f[1] = seqs[1] /\ 1 \in 1..m
      <4>1. 1 \in 1..m
        BY <2>0
      <4>2. f[1] = IF 1 = 1 THEN seqs[1] ELSE f[1-1] \o seqs[1]
        BY <2>1, <4>1, Zenon DEF Flattens
      <4> QED
        BY <4>1, <4>2
    <3>2. f[1] = b(1)
      BY <1>5, <3>1
    <3>3. P(1)
      <4>1. \A x : Contains(f[1], x) => Of1(1, x)
        BY <1>4, <3>1, <3>2
      <4> QED
        BY <1>4, <3>1, <3>2, <4>1
    <3> QED
      BY <3>3
  <2>3. ASSUME NEW n \in Nat, n \in G PROVE n + 1 \in G
    <3> SUFFICES ASSUME n + 2 <= m PROVE P(n + 2)
      BY <1>1
    <3>1. P(n + 1) /\ n + 1 \in 1..m /\ n + 2 \in 1..m /\ n + 2 # 1 /\ (n + 2) - 1 = n + 1
      BY <1>1, <2>3
    <3>2. f[n + 2] = f[n + 1] \o seqs[n + 2]
      <4>1. f[n + 2] = IF n + 2 = 1 THEN seqs[n + 2] ELSE f[(n + 2) - 1] \o seqs[n + 2]
        BY <2>1, <3>1, Zenon DEF Flattens
      <4> QED
        BY <3>1, <4>1
    <3>3. f[n + 2] = f[n + 1] \o b(n + 2)
      BY <1>5, <3>1, <3>2
    <3> DEFINE u == f[n + 1]
               v == b(n + 2)
    <3>4. /\ u \in Seq(Queried) /\ v \in Seq(Queried)
          /\ \A x : Contains(u, x) => Of1(n + 1, x)
          /\ \A x : Contains(v, x) => \E s \in ToSet(sv) : x = Query(c, s, ks[n + 2])
          /\ \A x : Once(u, x) /\ Once(v, x)
      BY <1>4, <3>1
    <3>5. f[n + 2] = u \o v
      BY <3>3
    <3> HIDE DEF u, v
    <3>6. /\ u \o v \in Seq(Queried)
          /\ \A x : Contains(u \o v, x) <=> Contains(u, x) \/ Contains(v, x)
          /\ \A x : Once(u, x) /\ Once(v, x) /\ ~(Contains(u, x) /\ Contains(v, x))
                      => Once(u \o v, x)
      BY <3>4, ConcatParts
    <3>7. ASSUME NEW x, Contains(u, x), Contains(v, x) PROVE FALSE
      <4>1. PICK j \in 1..n+1 : \E s \in ToSet(sv) : x = Query(c, s, ks[j])
        BY <3>4, <3>7
      <4>2. PICK s \in ToSet(sv) : x = Query(c, s, ks[j])
        BY <4>1
      <4>3. PICK t \in ToSet(sv) : x = Query(c, t, ks[n + 2])
        BY <3>4, <3>7
      <4>4. j \in 1..m /\ j # n + 2
        BY <1>1, <3>1
      <4>5. ks[j] \in Kinds /\ ks[n + 2] \in Kinds /\ s \in Server /\ t \in Server
        <5>1. ToSet(sv) \subseteq Server
          BY <1>2 DEF ToSet
        <5> QED
          BY <1>1, <1>3, <3>1, <4>4, <5>1
      <4>6. ks[j] = ks[n + 2]
        <5>1. Query(c, s, ks[j]).kind = ks[j]
          BY <4>5, QueryMade
        <5>2. Query(c, t, ks[n + 2]).kind = ks[n + 2]
          BY <4>5, QueryMade
        <5> QED
          BY <4>2, <4>3, <5>1, <5>2
      <4> QED
        BY <1>1, <3>1, <4>4, <4>6
    <3>8. ASSUME NEW x, Contains(u \o v, x) PROVE Of1(n + 2, x)
      <4>1. \A j \in 1..n+1 : j \in 1..n+2
        OBVIOUS
      <4>2. n + 2 \in 1..n+2
        OBVIOUS
      <4> QED
        BY <3>4, <3>6, <3>8, <4>1, <4>2
    <3>9. \A x : Once(u \o v, x)
      BY <3>4, <3>6, <3>7
    <3> QED
      BY <3>5, <3>6, <3>8, <3>9
  <2>4. m - 1 \in G /\ (m - 1) + 1 = m
    <3>1. Nat \subseteq G
      BY <2>2, <2>3, Induction
    <3>2. m - 1 \in Nat /\ (m - 1) + 1 = m
      BY <2>0
    <3> QED
      BY <3>1, <3>2
  <2>5. P(m)
    BY <2>0, <2>4
  <2>6. ASSUME NEW x, Contains(Queries(c, ks), x)
        PROVE  \E s \in ToSet(servers[c]), k \in ToSet(ks) : x = Query(c, s, k)
    <3>1. Of1(m, x)
      BY <2>1, <2>5, <2>6
    <3> QED
      BY <1>1, <3>1 DEF sv
  <2> QED
    BY <2>1, <2>5, <2>6
<1> QED
  BY <1>6, <1>7

-----------------------------------------------------------------------------
(* The invariants *)

\* Servers and clients stand where they may, a server whose recvfrom() has not
\* waited has just seen to its HELLO, and a client's list names nobody twice.
Roles ==
  /\ \A s \in Server : at[s] \in {"off", "recv"}
  /\ \A c \in Client : at[c] # "recv"
  /\ \A s \in Server : s \notin due => clock[s] <= Interval
  /\ \A c \in Client : IsInjective(servers[c])
  /\ DOMAIN asked = Client

\* Packets that are of client c: its queries and the responses to it.
Of(m, c) ==
  \/ m \in Queried /\ m.src = c
  \/ m \in Responses /\ m.dst = c

\* The client has asked for it.
Wanted(m, c) ==
  \E q \in asked[c] : /\ q.kind = m.kind
                      /\ m \in Queried => q.server = m.dst
                      /\ m \in Responses => q.server = m.src

\* How old a packet of c may be: a client in its discovery has sent nothing yet,
\* and what an earlier one of its address has left is read before the second is
\* over; a client that waits is the one whose packets these are.
Current(m, c) ==
  /\ m.tid <= life[c]
  /\ Discovering(c) => m.tid < life[c] /\ clock[c] = 0
  /\ at[c] = "wait" => m.tid = life[c] /\ Wanted(m, c)

\* The conditions on what is in the buffers speak of the buffers ib, so that they
\* can be used between the parts of a step.
Boxes(ib) ==
  /\ ib \in [Process -> Seq(Packet)]
  /\ \A s \in Server : \A m : Contains(ib[s], m) => m \in Queried
  /\ \A p \in Process : ~On(p) => ib[p] = <<>>
Fresh(ib) ==
  \A p \in Process, c \in Client, m \in Packet :
    Contains(ib[p], m) /\ Of(m, c) => Current(m, c)
\* A query is in a server's buffer once, and its answer in the client's buffer
\* once, when the query is gone.
Single(ib) ==
  /\ \A s \in Server, m \in Packet : Once(ib[s], m)
  /\ \A c \in Client, m \in Responses : m.dst = c => Once(ib[c], m)
  /\ \A s \in Server, m \in Queried :
       Contains(ib[s], m) /\ m.dst = s => ~Contains(ib[m.src], Response(m))
\* Nothing that is still to come has been printed.
Unprinted(ib) ==
  /\ \A s \in Server, m \in Queried :
       Contains(ib[s], m) /\ m.dst = s => ~Contains(printed[m.src], Response(m))
  /\ \A c \in Client, m \in Responses :
       Contains(ib[c], m) /\ m.dst = c => ~Contains(printed[c], m)
Good(ib) == Boxes(ib) /\ Fresh(ib) /\ Single(ib) /\ Unprinted(ib)

\* What a client has printed are answers to what it has asked, each once.
Answers ==
  \A c \in Client :
    /\ Discovering(c) => printed[c] = <<>>
    /\ \A m : Contains(printed[c], m) =>
         m \in Responses /\ m.dst = c /\ m.tid = life[c] /\ Wanted(m, c)
    /\ \A m : Once(printed[c], m)

\* A running server that is not in the list of a client in its discovery has its
\* HELLO in the client's buffer, or sent its last one before the discovery began.
Heard(ib) ==
  \A c \in Client, s \in Server :
    Discovering(c) /\ at[s] = "recv" =>
      \/ s \in ToSet(servers[c])
      \/ Contains(ib[c], Hello(s))
      \/ clock[s] >= clock[c]

IInv == TypeOK /\ Roles /\ Good(inbox) /\ Answers /\ Heard(inbox)

-----------------------------------------------------------------------------
(* Buffers when packets are sent and read *)

\* A process gets all packets of a call or none.
LEMMA DeliveredParts ==
  ASSUME NEW ib \in [Process -> Seq(Packet)], NEW ms \in Seq(Packet)
  PROVE  /\ Delivered(ib, ms) \in [Process -> Seq(Packet)]
         /\ \A p \in Process :
              LET d == Delivered(ib, ms)[p] IN
              /\ ~On(p) => d = ib[p]
              /\ \A m : Contains(ib[p], m) => Contains(d, m)
              /\ \A m : Contains(d, m) =>
                   \/ Contains(ib[p], m)
                   \/ Contains(ms, m) /\ On(p) /\ Concerns(p, m)
              /\ On(p) /\ (\A m : Contains(ms, m) => Concerns(p, m)) =>
                   \A m : Contains(ms, m) => Contains(d, m)
              /\ \A m : Once(ib[p], m) /\ Once(ms, m)
                          /\ ~(Contains(ib[p], m) /\ Contains(ms, m)) => Once(d, m)
<1> DEFINE d(p) == Delivered(ib, ms)[p]
           All(p) == \A n \in DOMAIN ms : Concerns(p, ms[n])
<1>1. \A p : All(p) <=> \A m : Contains(ms, m) => Concerns(p, m)
  BY LenProperties DEF Contains
<1>2. \A p \in Process : d(p) = IF On(p) /\ All(p) THEN ib[p] \o ms ELSE ib[p]
  BY DEF Delivered
<1>3. Delivered(ib, ms) = [p \in Process |-> d(p)]
  BY DEF Delivered
<1> HIDE DEF d, All
<1>4. ASSUME NEW p \in Process
      PROVE  /\ d(p) \in Seq(Packet)
             /\ ~On(p) => d(p) = ib[p]
             /\ \A m : Contains(ib[p], m) => Contains(d(p), m)
             /\ \A m : Contains(d(p), m) =>
                  \/ Contains(ib[p], m)
                  \/ Contains(ms, m) /\ On(p) /\ Concerns(p, m)
             /\ On(p) /\ (\A m : Contains(ms, m) => Concerns(p, m)) =>
                  \A m : Contains(ms, m) => Contains(d(p), m)
             /\ \A m : Once(ib[p], m) /\ Once(ms, m)
                         /\ ~(Contains(ib[p], m) /\ Contains(ms, m)) => Once(d(p), m)
  <2> DEFINE b == ib[p]
             e == d(p)
  <2>1. b \in Seq(Packet)
    OBVIOUS
  <2>2. e = IF On(p) /\ All(p) THEN b \o ms ELSE b
    BY <1>2
  <2> HIDE DEF b, e
  <2>3. /\ b \o ms \in Seq(Packet)
        /\ \A m : Contains(b \o ms, m) <=> Contains(b, m) \/ Contains(ms, m)
        /\ \A m : Once(b, m) /\ Once(ms, m) /\ ~(Contains(b, m) /\ Contains(ms, m))
                    => Once(b \o ms, m)
    BY <2>1, ConcatParts
  <2>4. /\ e \in Seq(Packet)
        /\ ~On(p) => e = b
        /\ \A m : Contains(b, m) => Contains(e, m)
        /\ \A m : Contains(e, m) =>
             Contains(b, m) \/ (Contains(ms, m) /\ On(p) /\ All(p))
        /\ On(p) /\ All(p) => \A m : Contains(ms, m) => Contains(e, m)
        /\ \A m : Once(b, m) /\ Once(ms, m) /\ ~(Contains(b, m) /\ Contains(ms, m))
                    => Once(e, m)
    BY <2>1, <2>2, <2>3
  <2>5. All(p) <=> \A m : Contains(ms, m) => Concerns(p, m)
    BY <1>1
  <2> QED
    BY <2>4, <2>5 DEF b, e
<1>5. Delivered(ib, ms) \in [Process -> Seq(Packet)]
  BY <1>3, <1>4
<1> QED
  BY <1>4, <1>5 DEF d

\* Fewer packets: some are read, or a buffer goes with its process.
LEMMA GoodFewer ==
  ASSUME NEW ib, Good(ib), NEW jb,
         jb = [p \in Process |-> jb[p]],
         \A p \in Process : \/ jb[p] = ib[p] \/ jb[p] = <<>>
                            \/ ib[p] # <<>> /\ jb[p] = Tail(ib[p])
  PROVE  Good(jb)
<1>1. ASSUME NEW p \in Process
      PROVE  /\ jb[p] \in Seq(Packet) /\ (ib[p] = <<>> => jb[p] = <<>>)
             /\ \A m : Contains(jb[p], m) => Contains(ib[p], m)
             /\ \A m : Once(ib[p], m) => Once(jb[p], m)
  <2>1. ib[p] \in Seq(Packet) /\ <<>> \in Seq(Packet)
    BY DEF Good, Boxes
  <2>2. CASE jb[p] = ib[p]
    BY <2>1, <2>2
  <2>3. CASE jb[p] = <<>>
    BY <2>1, <2>3, FewParts
  <2>4. CASE ib[p] # <<>> /\ jb[p] = Tail(ib[p])
    <3> DEFINE b == ib[p]
    <3>1. b \in Seq(Packet) /\ b # <<>> /\ jb[p] = Tail(b)
      BY <2>1, <2>4
    <3> HIDE DEF b
    <3>2. /\ Tail(b) \in Seq(Packet)
          /\ \A m : Contains(Tail(b), m) => Contains(b, m)
          /\ \A m : Once(b, m) => Once(Tail(b), m)
      BY <3>1, TailParts
    <3>3. /\ jb[p] \in Seq(Packet) /\ b # <<>>
          /\ \A m : Contains(jb[p], m) => Contains(b, m)
          /\ \A m : Once(b, m) => Once(jb[p], m)
      BY <3>1, <3>2
    <3> QED
      BY <3>3 DEF b
  <2> QED
    BY <2>2, <2>3, <2>4
<1>2. Server \subseteq Process /\ Client \subseteq Process
      /\ \A m \in Queried : m.src \in Process /\ m \in Packet
  BY PacketParts DEF Process
<1>3. Boxes(jb)
  BY <1>1, <1>2 DEF Good, Boxes
<1>4. Fresh(jb)
  BY <1>1, <1>2 DEF Good, Fresh
<1>5. Single(jb)
  BY <1>1, <1>2 DEF Good, Single
<1>6. Unprinted(jb)
  BY <1>1, <1>2 DEF Good, Unprinted
<1> QED
  BY <1>3, <1>4, <1>5, <1>6 DEF Good

\* A HELLO more.
LEMMA GoodHello ==
  ASSUME Roles, NEW ib, Good(ib), NEW s \in Server
  PROVE  /\ Good(Delivered(ib, <<Hello(s)>>))
         /\ \A c \in Client : \A m :
              Contains(ib[c], m) => Contains(Delivered(ib, <<Hello(s)>>)[c], m)
         /\ \A c \in Client :
              Discovering(c) => Contains(Delivered(ib, <<Hello(s)>>)[c], Hello(s))
<1> DEFINE h == Hello(s)
           ms == <<h>>
           d == Delivered(ib, ms)
<1>1. /\ ib \in [Process -> Seq(Packet)] /\ h \in Packet /\ h \notin Queried
      /\ h \notin Responses /\ h.type = "HELLO"
  BY HelloMade, PacketParts DEF Good, Boxes
<1>2. /\ Server \subseteq Process /\ Client \subseteq Process
      /\ Queried \subseteq Packet /\ Responses \subseteq Packet
      /\ \A m \in Queried : m.src \in Process
  BY PacketParts DEF Process
<1>3. /\ ms \in Seq(Packet) /\ \A m : (Contains(ms, m) <=> m = h) /\ Once(ms, m)
  BY <1>1, FewParts
<1>4. \A p \in Process : Concerns(p, h) <=> at[p] \in {"discover", "leaving"}
  BY <1>1 DEF Concerns
<1> HIDE DEF h, ms
<1>5. /\ d \in [Process -> Seq(Packet)]
      /\ \A p \in Process :
           /\ ~On(p) => d[p] = ib[p]
           /\ \A m : Contains(ib[p], m) => Contains(d[p], m)
           /\ \A m : Contains(d[p], m) =>
                \/ Contains(ib[p], m)
                \/ Contains(ms, m) /\ On(p) /\ Concerns(p, m)
           /\ On(p) /\ (\A m : Contains(ms, m) => Concerns(p, m)) =>
                \A m : Contains(ms, m) => Contains(d[p], m)
           /\ \A m : Once(ib[p], m) /\ Once(ms, m)
                       /\ ~(Contains(ib[p], m) /\ Contains(ms, m)) => Once(d[p], m)
  BY <1>1, <1>3, DeliveredParts
<1> HIDE DEF d
<1>6. \A p \in Process : \A m :
        /\ Contains(d[p], m) => Contains(ib[p], m) \/ (m = h /\ Discovering(p))
        /\ Once(ib[p], m) /\ m # h => Once(d[p], m)
  BY <1>3, <1>4, <1>5 DEF Discovering
<1>7. \A p \in Server : ~Discovering(p)
  BY DEF Roles, Discovering
<1>8. Boxes(d)
  BY <1>2, <1>5, <1>6, <1>7 DEF Good, Boxes
<1>9. Fresh(d)
  BY <1>1, <1>6 DEF Good, Fresh, Of
<1>10. Single(d)
  <2>1. ASSUME NEW t \in Server, NEW m \in Packet PROVE Once(d[t], m)
    <3>1. CASE m = h
      <4>1. ~Contains(d[t], m)
        BY <1>1, <1>8, <3>1 DEF Boxes
      <4> QED
        BY <4>1 DEF Once, Contains
    <3>2. CASE m # h
      BY <1>2, <1>6, <3>2 DEF Good, Single
    <3> QED
      BY <3>1, <3>2
  <2>2. ASSUME NEW c \in Client, NEW m \in Responses, m.dst = c PROVE Once(d[c], m)
    BY <1>1, <1>2, <1>6, <2>2 DEF Good, Single
  <2>3. ASSUME NEW t \in Server, NEW m \in Queried, Contains(d[t], m), m.dst = t
        PROVE  ~Contains(d[m.src], Response(m))
    <3>1. Contains(ib[t], m) /\ Response(m) # h
      BY <1>1, <1>2, <1>6, <2>3, ResponseMade
    <3> QED
      BY <1>2, <1>6, <2>3, <3>1 DEF Good, Single
  <2> QED
    BY <2>1, <2>2, <2>3 DEF Single
<1>11. Unprinted(d)
  BY <1>1, <1>2, <1>6 DEF Good, Unprinted
<1>12. \A c \in Client : \A m : Contains(ib[c], m) => Contains(d[c], m)
  BY <1>2, <1>5
<1>13. \A c \in Client : Discovering(c) => Contains(d[c], h)
  BY <1>2, <1>3, <1>4, <1>5 DEF Discovering, On
<1> QED
  BY <1>8, <1>9, <1>10, <1>11, <1>12, <1>13 DEF Good, d, ms, h

\* A response for the query that is read.
LEMMA GoodResponse ==
  ASSUME Roles, Good(inbox), NEW s \in Server, inbox[s] # <<>>
  PROVE  LET m  == Head(inbox[s])
             ib == Delivered(Taken(s), IF m.dst = s THEN <<Response(m)>> ELSE <<>>)
         IN  /\ Good(ib)
             /\ \A c \in Client : \A x : Contains(inbox[c], x) => Contains(ib[c], x)
<1> DEFINE b == inbox[s]
           m == Head(b)
           jb == Taken(s)
           r == Response(m)
           ms == IF m.dst = s THEN <<r>> ELSE <<>>
           d == Delivered(jb, ms)
<1>1. /\ Server \subseteq Process /\ Client \subseteq Process
      /\ Queried \subseteq Packet /\ Responses \subseteq Packet
      /\ \A x \in Queried : x.src \in Process /\ x.src \in Client
  BY PacketParts DEF Process
<1>2. inbox \in [Process -> Seq(Packet)] /\ b \in Seq(Packet) /\ b # <<>>
  BY <1>1 DEF Good, Boxes
<1>3. /\ jb = [p \in Process |-> IF p = s THEN Tail(b) ELSE inbox[p]]
      /\ \A p \in Process : jb[p] = IF p = s THEN Tail(b) ELSE inbox[p]
  BY <1>2 DEF Taken
<1> HIDE DEF b, jb, m, ms, d, r
<1>4. Good(jb)
  <2>1. jb = [p \in Process |-> jb[p]]
    BY <1>3
  <2>2. \A p \in Process : jb[p] = inbox[p] \/ jb[p] = <<>>
                           \/ (inbox[p] # <<>> /\ jb[p] = Tail(inbox[p]))
    BY <1>3 DEF b
  <2> QED
    BY <2>1, <2>2, GoodFewer
<1>5. /\ Contains(b, m) /\ m \in Queried
      /\ ~Contains(jb[s], m)
      /\ \A p \in Process : \A x : Contains(jb[p], x) => Contains(inbox[p], x)
  <2>1. /\ Contains(b, m) /\ (Once(b, m) => ~Contains(Tail(b), m))
        /\ \A x : Contains(Tail(b), x) => Contains(b, x)
    BY <1>2, TailParts DEF m
  <2>2. m \in Queried /\ Once(b, m)
    <3>1. m \in Queried
      BY <2>1 DEF Good, Boxes, b
    <3> QED
      BY <1>1, <3>1 DEF Good, Single, b
  <2>3. \A p \in Process : \A x : Contains(jb[p], x) => Contains(inbox[p], x)
    BY <1>3, <2>1 DEF b
  <2> QED
    BY <1>1, <1>3, <2>1, <2>2, <2>3
<1>6. /\ r \in Responses /\ r.src = m.dst /\ r.dst = m.src /\ r.kind = m.kind
      /\ r.tid = m.tid /\ r.type = "RESPONSE" /\ r \in Packet
  BY <1>1, <1>5, ResponseMade, PacketParts DEF r
<1>7. /\ ms \in Seq(Packet)
      /\ \A x : (Contains(ms, x) => x = r /\ m.dst = s) /\ Once(ms, x)
  BY <1>6, FewParts DEF ms
<1>8. /\ d \in [Process -> Seq(Packet)]
      /\ \A p \in Process :
           /\ ~On(p) => d[p] = jb[p]
           /\ \A x : Contains(jb[p], x) => Contains(d[p], x)
           /\ \A x : Contains(d[p], x) =>
                \/ Contains(jb[p], x)
                \/ Contains(ms, x) /\ On(p) /\ Concerns(p, x)
           /\ \A x : Once(jb[p], x) /\ Once(ms, x)
                       /\ ~(Contains(jb[p], x) /\ Contains(ms, x)) => Once(d[p], x)
  <2>1. jb \in [Process -> Seq(Packet)]
    BY <1>4 DEF Good, Boxes
  <2> QED
    BY <1>7, <2>1, DeliveredParts DEF d
<1>9. \A p \in Process : Concerns(p, r) => p \in Client
  BY <1>6 DEF Concerns, Roles
<1>10. \A p \in Server : p \notin Client
  BY CldpAssumption
<1>11. \A p \in Process : \A x :
         /\ Contains(d[p], x) =>
              Contains(jb[p], x) \/ (x = r /\ m.dst = s /\ p \in Client)
         /\ Once(jb[p], x) /\ (x # r \/ ~Contains(jb[p], x) \/ m.dst # s) => Once(d[p], x)
  BY <1>7, <1>8, <1>9
<1>12. Boxes(d)
  BY <1>1, <1>4, <1>8, <1>10, <1>11 DEF Good, Boxes
<1>13. Fresh(d)
  <2> SUFFICES ASSUME NEW p \in Process, NEW c \in Client, NEW x \in Packet,
                      Contains(d[p], x), Of(x, c)
               PROVE  Current(x, c)
    BY DEF Fresh
  <2>1. CASE Contains(jb[p], x)
    BY <1>4, <2>1 DEF Good, Fresh
  <2>2. CASE x = r /\ m.dst = s
    <3>1. c = m.src /\ r \notin Queried /\ m \notin Responses
      BY <1>5, <1>6, <2>2, PacketParts DEF Of
    <3>2. Current(m, c)
      BY <1>1, <1>5, <3>1 DEF Good, Fresh, Of, b
    <3> QED
      BY <1>5, <1>6, <2>2, <3>1, <3>2 DEF Current, Wanted
  <2> QED
    BY <1>11, <2>1, <2>2
<1>14. m.dst = s => /\ ~Contains(inbox[m.src], r)
                    /\ ~Contains(printed[m.src], r)
  BY <1>5 DEF Good, Single, Unprinted, b, r
<1>15. Single(d)
  <2>1. ASSUME NEW t \in Server, NEW x \in Packet PROVE Once(d[t], x)
    <3>1. Once(jb[t], x)
      BY <1>4 DEF Good, Single
    <3>2. CASE x # r
      BY <1>1, <1>11, <3>1, <3>2
    <3>3. CASE x = r
      <4>1. ~Contains(d[t], x)
        BY <1>6, <1>12, <3>3, PacketParts DEF Boxes
      <4> QED
        BY <4>1 DEF Once, Contains
    <3> QED
      BY <3>2, <3>3
  <2>2. ASSUME NEW c \in Client, NEW x \in Responses, x.dst = c PROVE Once(d[c], x)
    <3>1. Once(jb[c], x)
      BY <1>4, <2>2 DEF Good, Single
    <3>2. x = r /\ m.dst = s => ~Contains(jb[c], x)
      BY <1>1, <1>5, <1>6, <1>14, <2>2
    <3> QED
      BY <1>1, <1>11, <3>1, <3>2
  <2>3. ASSUME NEW t \in Server, NEW x \in Queried, Contains(d[t], x), x.dst = t
        PROVE  ~Contains(d[x.src], Response(x))
    <3>1. Contains(jb[t], x)
      BY <1>1, <1>10, <1>11, <2>3
    <3>2. ~Contains(jb[x.src], Response(x))
      BY <1>4, <2>3, <3>1 DEF Good, Single
    <3>3. ASSUME Response(x) = r, m.dst = s PROVE FALSE
      <4>1. x = m
        BY <1>5, <3>3, ResponseOf DEF r
      <4> QED
        BY <1>5, <2>3, <3>1, <3>3, <4>1
    <3> QED
      BY <1>1, <1>11, <3>2, <3>3
  <2> QED
    BY <2>1, <2>2, <2>3 DEF Single
<1>16. Unprinted(d)
  <2>1. ASSUME NEW t \in Server, NEW x \in Queried, Contains(d[t], x), x.dst = t
        PROVE  ~Contains(printed[x.src], Response(x))
    <3>1. Contains(jb[t], x)
      BY <1>1, <1>10, <1>11, <2>1
    <3> QED
      BY <1>4, <2>1, <3>1 DEF Good, Unprinted
  <2>2. ASSUME NEW c \in Client, NEW x \in Responses, Contains(d[c], x), x.dst = c
        PROVE  ~Contains(printed[c], x)
    <3>1. Contains(jb[c], x) \/ (x = r /\ m.dst = s)
      BY <1>1, <1>11, <2>2
    <3> QED
      BY <1>4, <1>6, <1>14, <2>2, <3>1 DEF Good, Unprinted
  <2> QED
    BY <2>1, <2>2 DEF Unprinted
<1>17. \A c \in Client : \A x : Contains(inbox[c], x) => Contains(d[c], x)
  BY <1>1, <1>3, <1>8, <1>10
<1>18. Good(d)
  BY <1>12, <1>13, <1>15, <1>16 DEF Good
<1> QED
  BY <1>17, <1>18 DEF d, ms, jb, r, m, b

-----------------------------------------------------------------------------
(* Every step keeps the invariant *)

\* Nothing in the buffers or in the clients is newer or older than it was.
LEMMA GoodFrame ==
  ASSUME NEW ib, Good(ib), inbox' = ib,
         \A c \in Client :
           /\ at'[c] = "wait" => at[c] = "wait"
           /\ Discovering(c)' => Discovering(c)
           /\ life'[c] = life[c] /\ clock'[c] = clock[c]
           /\ asked'[c] = asked[c] /\ printed'[c] = printed[c],
         \A p \in Process : at'[p] = "off" => ib[p] = <<>>
  PROVE  Good(inbox)'
<1>1. Boxes(inbox)'
  BY DEF Good, Boxes, On
<1>2. Fresh(inbox)'
  <2> SUFFICES ASSUME NEW p \in Process, NEW c \in Client, NEW m \in Packet,
                      Contains(ib[p], m), Of(m, c)
               PROVE  Current(m, c)'
    BY DEF Fresh, Of
  <2>1. Current(m, c)
    BY DEF Good, Fresh
  <2>2. Wanted(m, c) => Wanted(m, c)'
    BY DEF Wanted
  <2> QED
    BY <2>1, <2>2 DEF Current
<1>3. Single(inbox)'
  BY DEF Good, Single, Response
<1>4. Unprinted(inbox)'
  <2>1. \A m \in Queried : m.src \in Client
    BY PacketParts
  <2> QED
    BY <2>1 DEF Good, Unprinted, Response
<1> QED
  BY <1>1, <1>2, <1>3, <1>4 DEF Good

\* The same of what the clients have printed.
LEMMA AnswersFrame ==
  ASSUME Answers,
         \A c \in Client :
           /\ Discovering(c)' => Discovering(c)
           /\ life'[c] = life[c] /\ asked'[c] = asked[c] /\ printed'[c] = printed[c]
  PROVE  Answers'
<1> SUFFICES ASSUME NEW c \in Client
             PROVE  /\ Discovering(c)' => printed'[c] = <<>>
                    /\ \A m : Contains(printed'[c], m) =>
                         m \in Responses /\ m.dst = c /\ m.tid = life'[c] /\ Wanted(m, c)'
                    /\ \A m : Once(printed'[c], m)
  BY DEF Answers
<1>1. \A m : Wanted(m, c) => Wanted(m, c)'
  BY DEF Wanted
<1> QED
  BY <1>1 DEF Answers

\* Servers and clients are different processes.
LEMMA Different ==
  /\ Server \subseteq Process /\ Client \subseteq Process
  /\ \A s \in Server : s \notin Client
  /\ \A p \in Process : p \in Server \/ p \in Client
  /\ Interval \in Nat /\ Interval >= 1
  BY CldpAssumption DEF Process

\* A server is started.
LEMMA StartServerInv ==
  ASSUME IInv, NEW s \in Server, StartServer(s)
  PROVE  IInv'
<1> USE DEF IInv
<1> DEFINE d == Delivered(inbox, <<Hello(s)>>)
<1>1. Good(d) /\ (\A c \in Client : \A m : Contains(inbox[c], m) => Contains(d[c], m))
      /\ \A c \in Client : Discovering(c) => Contains(d[c], Hello(s))
  BY GoodHello
<1>2. inbox' = d
  BY DEF StartServer
<1> HIDE DEF d
<1>3. \A c \in Client : /\ at'[c] = at[c] /\ life'[c] = life[c] /\ clock'[c] = clock[c]
                        /\ asked'[c] = asked[c] /\ printed'[c] = printed[c]
                        /\ servers'[c] = servers[c] /\ (Discovering(c)' <=> Discovering(c))
  BY Different DEF StartServer, Goto, TypeOK, Discovering
<1>4. Good(inbox)'
  <2>1. \A p \in Process : at'[p] = "off" => d[p] = <<>>
    BY <1>1 DEF StartServer, Goto, TypeOK, Good, Boxes, On
  <2> QED
    BY <1>1, <1>2, <1>3, <2>1, GoodFrame
<1>5. Answers'
  BY <1>3, AnswersFrame
<1>6. Roles'
  BY <1>3, Different DEF StartServer, Goto, TypeOK, Roles
<1>7. TypeOK'
  <2>1. /\ at' \in [Process -> {"off", "recv", "discover", "leaving", "wait"}]
        /\ life' \in [Process -> Nat]
    <3>1. at' = [at EXCEPT ![s] = "recv"] /\ life' = [life EXCEPT ![s] = @ + 1]
      BY DEF StartServer, Goto
    <3>2. s \in Process /\ life[s] \in Nat /\ life \in [Process -> Nat]
          /\ at \in [Process -> {"off", "recv", "discover", "leaving", "wait"}]
      BY Different DEF TypeOK
    <3> QED
      BY ONLY <3>1, <3>2
  <2>2. clock' \in [Process -> 0..Interval+1]
    <3>1. 0 \in 0..Interval+1
      BY Different
    <3> QED
      BY <3>1 DEF StartServer, TypeOK
  <2>3. UNCHANGED <<due, servers, printed>>
    BY DEF StartServer
  <2> QED
    BY <1>4, <2>1, <2>2, <2>3 DEF TypeOK, Good, Boxes
<1>8. Heard(inbox)'
  <2> SUFFICES ASSUME NEW c \in Client, NEW t \in Server, Discovering(c), at'[t] = "recv"
               PROVE  \/ t \in ToSet(servers[c])
                      \/ Contains(d[c], Hello(t))
                      \/ clock'[t] >= clock'[c]
    BY <1>2, <1>3 DEF Heard, Hello
  <2>1. CASE t = s
    BY <1>1, <2>1
  <2>2. CASE t # s
    <3>1. at[t] = "recv" /\ clock'[t] = clock[t]
      BY <2>2, Different DEF StartServer, Goto, TypeOK
    <3> QED
      BY <1>1, <1>3, <3>1 DEF Heard
  <2> QED
    BY <2>1, <2>2
<1> QED
  BY <1>4, <1>5, <1>6, <1>7, <1>8

\* The top of a server's loop.
LEMMA LoopInv ==
  ASSUME TypeOK, Roles, Answers, NEW ib, Good(ib), Heard(ib),
         NEW s \in Server, at[s] = "recv", Loop(s, ib),
         UNCHANGED <<at, life, servers, asked, printed>>
  PROVE  IInv'
<1> DEFINE d == Delivered(ib, <<Hello(s)>>)
<1>1. Good(d) /\ (\A c \in Client : \A m : Contains(ib[c], m) => Contains(d[c], m))
      /\ \A c \in Client : Discovering(c) => Contains(d[c], Hello(s))
  BY GoodHello
<1> HIDE DEF d
<1>2. \/ /\ clock[s] > Interval /\ inbox' = d
         /\ clock' = [clock EXCEPT ![s] = 0]
      \/ /\ ~(clock[s] > Interval) /\ inbox' = ib /\ clock' = clock
  BY DEF Loop, d
<1>3. due' = due \ {s}
  BY DEF Loop
<1>4. \A c \in Client : clock'[c] = clock[c] /\ (Discovering(c)' <=> Discovering(c))
  BY <1>2, Different DEF TypeOK, Discovering
<1>5. Good(inbox)'
  <2>1. Good(inbox') /\ inbox' = inbox'
    BY <1>1, <1>2
  <2>2. \A p \in Process : at'[p] = "off" => inbox'[p] = <<>>
    BY <2>1 DEF Good, Boxes, On
  <2> QED
    BY <1>4, <2>1, <2>2, GoodFrame
<1>6. Answers'
  BY <1>4, AnswersFrame
<1>7. clock' \in [Process -> 0..Interval+1] /\ clock'[s] <= Interval
      /\ \A t \in Server \ {s} : clock'[t] = clock[t]
  <2>1. clock \in [Process -> 0..Interval+1] /\ clock[s] \in 0..Interval+1
        /\ Interval \in Nat /\ s \in Process
    BY Different DEF TypeOK
  <2>2. CASE clock' = clock /\ ~(clock[s] > Interval)
    BY <2>1, <2>2
  <2>3. CASE clock' = [clock EXCEPT ![s] = 0]
    <3>1. 0 \in 0..Interval+1 /\ 0 <= Interval
      BY <2>1
    <3>2. clock' \in [Process -> 0..Interval+1]
      BY <2>1, <2>3, <3>1
    <3>3. clock'[s] = 0 /\ \A t \in Server \ {s} : clock'[t] = clock[t]
      BY <2>1, <2>3, Different
    <3> QED
      BY <3>1, <3>2, <3>3
  <2> QED
    BY <1>2, <2>2, <2>3
<1>8. Roles'
  BY <1>3, <1>7 DEF Roles
<1>9. TypeOK'
  BY <1>3, <1>5, <1>7 DEF TypeOK, Good, Boxes
<1>10. Heard(inbox)'
  <2> SUFFICES ASSUME NEW c \in Client, NEW t \in Server, Discovering(c), at[t] = "recv"
               PROVE  \/ t \in ToSet(servers[c])
                      \/ Contains(inbox'[c], Hello(t))
                      \/ clock'[t] >= clock'[c]
    BY <1>4 DEF Heard, Hello
  <2>1. \/ t \in ToSet(servers[c])
        \/ Contains(ib[c], Hello(t))
        \/ clock[t] >= clock[c]
    BY DEF Heard
  <2>2. CASE inbox' = d /\ t = s
    BY <1>1, <2>2
  <2>3. CASE inbox' = d /\ t # s
    BY <1>1, <1>4, <1>7, <2>1, <2>3
  <2>4. CASE inbox' = ib /\ clock' = clock
    BY <2>1, <2>4
  <2> QED
    BY <1>2, <2>2, <2>3, <2>4
<1> QED
  BY <1>5, <1>6, <1>8, <1>9, <1>10 DEF IInv

\* A server answers, waits in vain or is stopped.
LEMMA ServerInv ==
  ASSUME IInv, NEW s \in Server, ServerNext(s)
  PROVE  IInv'
<1> USE DEF IInv
<1>1. CASE StartServer(s)
  BY <1>1, StartServerInv
<1>2. CASE Answer(s)
  <2> DEFINE m  == Head(inbox[s])
             ib == Delivered(Taken(s), IF m.dst = s THEN <<Response(m)>> ELSE <<>>)
  <2>1. /\ at[s] = "recv" /\ inbox[s] # <<>> /\ Loop(s, ib)
        /\ UNCHANGED <<at, life, servers, asked, printed>>
    BY <1>2 DEF Answer
  <2>2. Good(ib) /\ \A c \in Client : \A x : Contains(inbox[c], x) => Contains(ib[c], x)
    BY <2>1, GoodResponse
  <2> HIDE DEF ib
  <2>3. Heard(ib)
    BY <2>2 DEF Heard
  <2> QED
    BY <2>1, <2>2, <2>3, LoopInv
<1>3. CASE RecvTimeout(s)
  <2>1. /\ at[s] = "recv" /\ Loop(s, inbox)
        /\ UNCHANGED <<at, life, servers, asked, printed>>
    BY <1>3 DEF RecvTimeout
  <2> QED
    BY <2>1, LoopInv
<1>4. CASE StopServer(s)
  <2>1. \A c \in Client : /\ at'[c] = at[c] /\ clock'[c] = clock[c]
                          /\ (Discovering(c)' <=> Discovering(c))
                          /\ inbox'[c] = inbox[c]
    BY <1>4, Different DEF StopServer, Goto, Emptied, TypeOK, Discovering
  <2>2. UNCHANGED <<life, servers, asked, printed>>
    BY <1>4 DEF StopServer
  <2>3. Good(Emptied(s))
    <3>1. \A p \in Process : Emptied(s)[p] = inbox[p] \/ Emptied(s)[p] = <<>>
      BY DEF Emptied, TypeOK
    <3>2. Emptied(s) = [p \in Process |-> Emptied(s)[p]]
      BY DEF Emptied, TypeOK
    <3> QED
      BY <3>1, <3>2, GoodFewer
  <2>4. Good(inbox)'
    <3>1. \A p \in Process : at'[p] = "off" => Emptied(s)[p] = <<>>
      BY <1>4 DEF StopServer, Goto, Emptied, TypeOK, Good, Boxes, On
    <3>2. inbox' = Emptied(s)
      BY <1>4 DEF StopServer
    <3> QED
      BY <2>1, <2>2, <2>3, <3>1, <3>2, GoodFrame
  <2>5. Answers'
    BY <2>1, <2>2, AnswersFrame
  <2>6. Roles'
    BY <1>4, <2>1, <2>2, Different DEF StopServer, Goto, TypeOK, Roles
  <2>7. TypeOK'
    <3>1. at' \in [Process -> {"off", "recv", "discover", "leaving", "wait"}]
      BY <1>4 DEF StopServer, Goto, TypeOK
    <3>2. clock' \in [Process -> 0..Interval+1]
      <4>1. 0 \in 0..Interval+1
        BY Different
      <4> QED
        BY <1>4, <4>1 DEF StopServer, TypeOK
    <3>3. due' \subseteq Server
      BY <1>4 DEF StopServer, TypeOK
    <3> QED
      BY <2>2, <2>4, <3>1, <3>2, <3>3 DEF TypeOK, Good, Boxes
  <2>8. Heard(inbox)'
    <3> SUFFICES ASSUME NEW c \in Client, NEW t \in Server, Discovering(c), at'[t] = "recv"
                 PROVE  \/ t \in ToSet(servers[c])
                        \/ Contains(inbox[c], Hello(t))
                        \/ clock'[t] >= clock[c]
      BY <2>1, <2>2 DEF Heard, Hello
    <3>1. at[t] = "recv" /\ clock'[t] = clock[t]
      BY <1>4, Different DEF StopServer, Goto, TypeOK
    <3> QED
      BY <3>1 DEF Heard
  <2> QED
    BY <2>4, <2>5, <2>6, <2>7, <2>8
<1> QED
  BY <1>1, <1>2, <1>3, <1>4 DEF ServerNext

\* A second passes: there is nothing in any buffer.
LEMMA TickInv ==
  ASSUME IInv, Tick
  PROVE  IInv'
<1> USE DEF IInv
<1>1. \A p \in Process : inbox[p] = <<>> /\ inbox'[p] = <<>>
  BY DEF Tick, Good, Boxes
<1>2. UNCHANGED <<at, life, inbox, servers, asked, printed>>
  BY DEF Tick
<1>3. \A p \in Process : \A m : ~Contains(inbox'[p], m) /\ Once(inbox'[p], m)
  BY <1>1, FewParts
<1>4. Good(inbox)'
  <2>1. Boxes(inbox)'
    BY <1>2 DEF Good, Boxes, On
  <2>2. Fresh(inbox)' /\ Single(inbox)' /\ Unprinted(inbox)'
    BY <1>3, Different DEF Fresh, Single, Unprinted
  <2> QED
    BY <2>1, <2>2 DEF Good
<1>5. Answers'
  BY <1>2, AnswersFrame DEF Discovering
<1>6. \A p \in Process :
        clock'[p] = IF at[p] = "recv" \/ (p \in Client /\ Discovering(p))
                    THEN clock[p] + 1 ELSE clock[p]
  BY DEF Tick
<1>7. clock' \in [Process -> 0..Interval+1]
  <2> SUFFICES ASSUME NEW p \in Process, at[p] = "recv" \/ (p \in Client /\ Discovering(p))
               PROVE  clock[p] + 1 \in 0..Interval+1
    <3>1. DOMAIN clock' = Process /\ clock' = [p \in Process |-> clock'[p]]
      BY DEF Tick
    <3>2. \A p \in Process : clock[p] \in 0..Interval+1
      BY DEF TypeOK
    <3> QED
      BY <1>6, <3>1, <3>2
  <2>1. clock[p] <= Interval
    BY Different DEF Tick, Roles
  <2> QED
    BY <2>1, Different DEF TypeOK
<1>8. due' = {s \in Server : On(s)}
  BY DEF Tick
<1>9. Roles'
  <2>1. ASSUME NEW s \in Server, s \notin due' PROVE clock'[s] <= Interval
    <3>1. at[s] = "off" /\ s \notin due
      BY <1>8, <2>1 DEF On, Tick
    <3>2. clock'[s] = clock[s]
      BY <1>6, <3>1, Different
    <3> QED
      BY <3>1, <3>2 DEF Roles
  <2> QED
    BY <1>2, <2>1 DEF Roles
<1>10. TypeOK'
  BY <1>2, <1>7, <1>8 DEF TypeOK
<1>11. Heard(inbox)'
  <2> SUFFICES ASSUME NEW c \in Client, NEW t \in Server, Discovering(c), at[t] = "recv"
               PROVE  t \in ToSet(servers[c]) \/ clock'[t] >= clock'[c]
    BY <1>2 DEF Heard, Discovering
  <2>1. clock'[c] = clock[c] + 1 /\ clock'[t] = clock[t] + 1
    BY <1>6, Different
  <2>2. t \in ToSet(servers[c]) \/ clock[t] >= clock[c]
    BY <1>1, <1>3, <1>2, Different DEF Heard
  <2>3. clock[t] \in Nat /\ clock[c] \in Nat
    BY Different DEF TypeOK
  <2> QED
    BY <2>1, <2>2, <2>3
<1> QED
  BY <1>4, <1>5, <1>9, <1>10, <1>11

\* A client is started.
LEMMA StartClientInv ==
  ASSUME IInv, NEW c \in Client, StartClient(c)
  PROVE  IInv'
<1> USE DEF IInv
<1>1. /\ at[c] = "off" /\ at' = [at EXCEPT ![c] = "discover"]
      /\ life' = [life EXCEPT ![c] = @ + 1]
      /\ clock' = [clock EXCEPT ![c] = 0] /\ servers' = [servers EXCEPT ![c] = <<>>]
      /\ asked' = [asked EXCEPT ![c] = {}] /\ printed' = [printed EXCEPT ![c] = <<>>]
      /\ UNCHANGED <<inbox, due>>
  BY DEF StartClient, Goto
<1>2. /\ at \in [Process -> {"off", "recv", "discover", "leaving", "wait"}]
      /\ life \in [Process -> Nat] /\ clock \in [Process -> 0..Interval+1]
      /\ servers \in [Client -> Seq(Server)] /\ printed \in [Client -> Seq(Packet)]
      /\ c \in Process
  BY Different DEF TypeOK
<1>3. /\ at'[c] = "discover" /\ life'[c] = life[c] + 1 /\ clock'[c] = 0
      /\ servers'[c] = <<>> /\ printed'[c] = <<>>
      /\ life[c] \in Nat
  BY <1>1, <1>2
<1>4. \A p \in Process \ {c} : at'[p] = at[p] /\ life'[p] = life[p] /\ clock'[p] = clock[p]
  BY <1>1, <1>2
<1>5. \A d \in Client \ {c} :
        /\ servers'[d] = servers[d] /\ printed'[d] = printed[d]
        /\ \A m : Wanted(m, d)' <=> Wanted(m, d)
        /\ Discovering(d)' <=> Discovering(d)
  BY <1>1, <1>2, <1>4, Different DEF Wanted, Discovering
<1>6. TypeOK'
  <2>1. at' \in [Process -> {"off", "recv", "discover", "leaving", "wait"}]
        /\ servers' \in [Client -> Seq(Server)] /\ printed' \in [Client -> Seq(Packet)]
    BY <1>1, <1>2
  <2>2. life' \in [Process -> Nat]
    BY <1>1, <1>2
  <2>3. clock' \in [Process -> 0..Interval+1]
    <3>1. 0 \in 0..Interval+1
      BY Different
    <3> QED
      BY <1>1, <1>2, <3>1
  <2>4. inbox' \in [Process -> Seq(Packet)] /\ due' \subseteq Server
    BY <1>1 DEF TypeOK
  <2> QED
    BY <2>1, <2>2, <2>3, <2>4 DEF TypeOK
<1>7. Roles'
  <2>1. \A s \in Server : at'[s] = at[s] /\ clock'[s] = clock[s]
    BY <1>4, Different
  <2>2. \A d \in Client : at'[d] # "recv"
    BY <1>3, <1>4, Different DEF Roles
  <2>3. IsInjective(<<>>)
    BY DEF IsInjective
  <2>4. \A d \in Client : IsInjective(servers'[d])
    BY <1>3, <1>5, <2>3 DEF Roles
  <2> QED
    BY <1>1, <2>1, <2>2, <2>4 DEF Roles
<1>8. Good(inbox)'
  <2>1. Boxes(inbox)'
    BY <1>1, <1>3, <1>4 DEF Good, Boxes, On
  <2>2. Fresh(inbox)'
    <3> SUFFICES ASSUME NEW p \in Process, NEW d \in Client, NEW m \in Packet,
                        Contains(inbox[p], m), Of(m, d)
                 PROVE  Current(m, d)'
      BY <1>1 DEF Fresh, Of
    <3>1. Current(m, d) /\ m.tid \in Nat
      BY PacketParts DEF Good, Fresh, Of
    <3>2. CASE d = c
      <4>1. m.tid <= life'[c] /\ m.tid < life'[c] /\ clock'[c] = 0 /\ at'[c] # "wait"
        BY <1>3, <3>1, <3>2 DEF Current
      <4> QED
        BY <3>2, <4>1 DEF Current
    <3>3. CASE d # c
      BY <1>4, <1>5, <3>1, <3>3, Different DEF Current
    <3> QED
      BY <3>2, <3>3
  <2>3. Single(inbox)'
    BY <1>1 DEF Good, Single, Response
  <2>4. Unprinted(inbox)'
    <3>1. \A d \in Client : \A m : Contains(printed'[d], m) => Contains(printed[d], m)
      BY <1>3, <1>5, FewParts
    <3>2. \A m \in Queried : m.src \in Client
      BY PacketParts
    <3> QED
      BY <1>1, <3>1, <3>2 DEF Good, Unprinted, Response
  <2> QED
    BY <2>1, <2>2, <2>3, <2>4 DEF Good
<1>9. Answers'
  <2> SUFFICES ASSUME NEW d \in Client
               PROVE  /\ Discovering(d)' => printed'[d] = <<>>
                      /\ \A m : Contains(printed'[d], m) =>
                           m \in Responses /\ m.dst = d /\ m.tid = life'[d] /\ Wanted(m, d)'
                      /\ \A m : Once(printed'[d], m)
    BY DEF Answers
  <2>1. CASE d = c
    BY <1>3, <2>1, FewParts
  <2>2. CASE d # c
    BY <1>4, <1>5, <2>2, Different DEF Answers
  <2> QED
    BY <2>1, <2>2
<1>10. Heard(inbox)'
  <2> SUFFICES ASSUME NEW d \in Client, NEW s \in Server, Discovering(d)', at'[s] = "recv"
               PROVE  \/ s \in ToSet(servers'[d])
                      \/ Contains(inbox[d], Hello(s))
                      \/ clock'[s] >= clock'[d]
    BY <1>1 DEF Heard, Hello
  <2>1. at[s] = "recv" /\ clock'[s] = clock[s] /\ clock[s] \in Nat
    BY <1>2, <1>4, Different
  <2>2. CASE d = c
    BY <1>3, <2>1, <2>2
  <2>3. CASE d # c
    BY <1>4, <1>5, <2>1, <2>3, Different DEF Heard
  <2> QED
    BY <2>2, <2>3
<1> QED
  BY <1>6, <1>7, <1>8, <1>9, <1>10

\* A client in its discovery reads a packet.
LEMMA DiscoverInv ==
  ASSUME IInv, NEW c \in Client, Discover(c)
  PROVE  IInv'
<1> USE DEF IInv
<1> DEFINE b == inbox[c]
           sv == servers[c]
           m == Head(b)
<1>1. /\ b # <<>> /\ b \in Seq(Packet) /\ sv \in Seq(Server) /\ IsInjective(sv)
      /\ servers' = [servers EXCEPT ![c] = Registered(c, m)] /\ inbox' = Taken(c)
      /\ UNCHANGED <<at, life, clock, due, asked, printed>>
  BY Different DEF Discover, TypeOK, Roles
<1>2. /\ servers'[c] = Registered(c, m) /\ inbox'[c] = Tail(b)
      /\ \A d \in Client \ {c} : servers'[d] = servers[d] /\ inbox'[d] = inbox[d]
  BY <1>1, Different DEF TypeOK, Taken
<1>3. Registered(c, m) = IF m.type # "HELLO" \/ m.src \in ToSet(sv) THEN sv
                                                                   ELSE <<m.src>> \o sv
  BY DEF Registered
<1> HIDE DEF b, sv, m
<1>4. /\ m \in Packet /\ \A x : Contains(b, x) => x = m \/ Contains(Tail(b), x)
  BY <1>1, TailParts DEF m
<1>5. /\ servers'[c] \in Seq(Server) /\ IsInjective(servers'[c])
      /\ \A s \in ToSet(sv) : s \in ToSet(servers'[c])
      /\ \A s \in Server : m = Hello(s) => s \in ToSet(servers'[c])
  <2>1. CASE m.type # "HELLO" \/ m.src \in ToSet(sv)
    <3>1. servers'[c] = sv
      BY <1>2, <1>3, <2>1
    <3> QED
      BY <1>1, <2>1, <3>1, HelloMade
  <2>2. CASE ~(m.type # "HELLO" \/ m.src \in ToSet(sv))
    <3> DEFINE h == m.src
               r == <<h>> \o sv
    <3>1. h \in Server /\ h \notin ToSet(sv) /\ servers'[c] = r
      BY <1>2, <1>3, <1>4, <2>2, TypeTells, PacketParts
    <3>2. \A s \in Server : m = Hello(s) => s = h
      BY HelloMade
    <3> HIDE DEF h
    <3>3. <<h>> \in Seq(Server) /\ \A x : (Contains(<<h>>, x) <=> x = h) /\ Once(<<h>>, x)
      BY <3>1, FewParts
    <3>4. /\ r \in Seq(Server)
          /\ \A x : Contains(r, x) <=> Contains(<<h>>, x) \/ Contains(sv, x)
          /\ \A x : Once(<<h>>, x) /\ Once(sv, x) /\ ~(Contains(<<h>>, x) /\ Contains(sv, x))
                      => Once(r, x)
      BY <1>1, <3>3, ConcatParts
    <3>5. /\ \A x : x \in ToSet(sv) <=> Contains(sv, x)
          /\ \A x \in Server : Once(sv, x)
      BY <1>1, SetParts
    <3> HIDE DEF r
    <3>6. /\ \A x : x \in ToSet(r) <=> Contains(r, x)
          /\ IsInjective(r) <=> \A x \in Server : Once(r, x)
      BY <3>4, SetParts
    <3>7. IsInjective(r)
      BY <3>1, <3>3, <3>4, <3>5, <3>6
    <3>8. \A s \in ToSet(sv) : s \in ToSet(r)
      BY <3>4, <3>5, <3>6
    <3>9. h \in ToSet(r)
      BY <3>3, <3>4, <3>6
    <3> QED
      BY <3>1, <3>2, <3>4, <3>7, <3>8, <3>9
  <2> QED
    BY <2>1, <2>2
<1>6. Good(inbox)'
  <2>1. Good(Taken(c))
    <3>1. /\ \A p \in Process : \/ Taken(c)[p] = inbox[p]
                                \/ inbox[p] # <<>> /\ Taken(c)[p] = Tail(inbox[p])
          /\ Taken(c) = [p \in Process |-> Taken(c)[p]]
      BY <1>1 DEF Taken, TypeOK, b
    <3> QED
      BY <3>1, GoodFewer
  <2>2. \A p \in Process : at'[p] = "off" => Taken(c)[p] = <<>>
    BY <1>1, <2>1 DEF Good, Boxes, On
  <2>3. \A d \in Client : Discovering(d)' => Discovering(d)
    BY <1>1 DEF Discovering
  <2> QED
    BY <1>1, <2>1, <2>2, <2>3, GoodFrame
<1>7. Answers'
  BY <1>1, AnswersFrame DEF Discovering
<1>8. Roles'
  BY <1>1, <1>2, <1>5 DEF Roles
<1>9. TypeOK'
  <2>1. servers' \in [Client -> Seq(Server)]
    BY <1>1, <1>2, <1>5 DEF TypeOK
  <2> QED
    BY <1>1, <1>6, <2>1 DEF TypeOK, Good, Boxes
<1>10. Heard(inbox)'
  <2> SUFFICES ASSUME NEW d \in Client, NEW s \in Server, Discovering(d), at[s] = "recv"
               PROVE  \/ s \in ToSet(servers'[d])
                      \/ Contains(inbox'[d], Hello(s))
                      \/ clock[s] >= clock[d]
    BY <1>1 DEF Heard, Hello, Discovering
  <2>1. \/ s \in ToSet(servers[d])
        \/ Contains(inbox[d], Hello(s))
        \/ clock[s] >= clock[d]
    BY DEF Heard
  <2>2. CASE d = c
    BY <1>2, <1>4, <1>5, <2>1, <2>2 DEF b, sv
  <2>3. CASE d # c
    BY <1>2, <2>1, <2>3
  <2> QED
    BY <2>2, <2>3
<1> QED
  BY <1>6, <1>7, <1>8, <1>9, <1>10

\* The discovery is over.
LEMMA EndDiscoveryInv ==
  ASSUME IInv, NEW c \in Client, NEW ks \in Commands, EndDiscovery(c, ks)
  PROVE  IInv'
<1> USE DEF IInv
<1> DEFINE qs == Queries(c, ks)
           d == Delivered(inbox, qs)
<1>1. /\ Discovering(c) /\ (clock[c] >= Interval \/ at[c] = "leaving")
      /\ asked' = [asked EXCEPT ![c] =
           {[server |-> s, kind |-> k, life |-> life[s]] :
              s \in ToSet(servers[c]), k \in ToSet(ks)}]
      /\ \/ at' = [at EXCEPT ![c] = "off"] /\ inbox' = [d EXCEPT ![c] = <<>>]
         \/ at[c] # "leaving" /\ at' = [at EXCEPT ![c] = "wait"] /\ inbox' = d
      /\ clock' = [clock EXCEPT ![c] = 0]
      /\ UNCHANGED <<life, due, servers, printed>>
  BY DEF EndDiscovery, WindowOver, Goto
<1>2. /\ at \in [Process -> {"off", "recv", "discover", "leaving", "wait"}]
      /\ life \in [Process -> Nat] /\ clock \in [Process -> 0..Interval+1]
      /\ servers[c] \in Seq(Server) /\ IsInjective(servers[c])
      /\ c \in Process /\ inbox \in [Process -> Seq(Packet)]
  BY Different DEF TypeOK, Roles
<1>3. /\ Queried \subseteq Packet /\ Responses \subseteq Packet
      /\ \A m \in Queried : /\ m.src \in Client /\ m.type = "QUERY" /\ m \notin Responses
                            /\ m.tid \in Nat
  BY PacketParts
<1>4. /\ qs \in Seq(Packet) /\ \A m : Once(qs, m)
      /\ \A m : Contains(qs, m) =>
           /\ m \in Queried /\ m.src = c /\ m.tid = life[c]
           /\ \E s \in ToSet(servers[c]), k \in ToSet(ks) : m.dst = s /\ m.kind = k
  <2>1. life[c] \in Nat
    BY <1>2
  <2>2. /\ qs \in Seq(Queried)
        /\ \A m : Contains(qs, m) =>
             \E s \in ToSet(servers[c]), k \in ToSet(ks) : m = Query(c, s, k)
        /\ \A m : Once(qs, m)
    BY <1>2, <2>1, QueriesParts
  <2>3. /\ \A s \in ToSet(servers[c]) : s \in Server
        /\ \A k \in ToSet(ks) : k \in Kinds
    BY <1>2, SetParts DEF Kinds
  <2> HIDE DEF qs
  <2>4. ASSUME NEW m, Contains(qs, m)
        PROVE  /\ m \in Queried /\ m.src = c /\ m.tid = life[c]
               /\ \E s \in ToSet(servers[c]), k \in ToSet(ks) : m.dst = s /\ m.kind = k
    <3>1. PICK s \in ToSet(servers[c]), k \in ToSet(ks) : m = Query(c, s, k)
      BY <2>2, <2>4
    <3>2. /\ m \in Queried /\ m.src = c /\ m.dst = s /\ m.kind = k /\ m.tid = life[c]
      BY <2>1, <2>3, <3>1, QueryMade
    <3> QED
      BY <3>2
  <2>5. qs \in Seq(Packet)
    BY <1>3, <2>2
  <2> QED
    BY <2>2, <2>4, <2>5
<1> HIDE DEF qs
<1>5. /\ d \in [Process -> Seq(Packet)]
      /\ \A p \in Process :
           /\ ~On(p) => d[p] = inbox[p]
           /\ \A m : Contains(inbox[p], m) => Contains(d[p], m)
           /\ \A m : Contains(d[p], m) =>
                \/ Contains(inbox[p], m)
                \/ Contains(qs, m) /\ p \in Server
           /\ \A m : Once(inbox[p], m) /\ Once(qs, m)
                       /\ ~(Contains(inbox[p], m) /\ Contains(qs, m)) => Once(d[p], m)
  <2>1. /\ d \in [Process -> Seq(Packet)]
        /\ \A p \in Process :
             /\ ~On(p) => d[p] = inbox[p]
             /\ \A m : Contains(inbox[p], m) => Contains(d[p], m)
             /\ \A m : Contains(d[p], m) =>
                  \/ Contains(inbox[p], m)
                  \/ Contains(qs, m) /\ On(p) /\ Concerns(p, m)
             /\ \A m : Once(inbox[p], m) /\ Once(qs, m)
                         /\ ~(Contains(inbox[p], m) /\ Contains(qs, m)) => Once(d[p], m)
    BY <1>2, <1>4, DeliveredParts
  <2>2. \A p, m : Contains(qs, m) /\ Concerns(p, m) => p \in Server
    BY <1>3, <1>4 DEF Concerns
  <2> HIDE DEF d
  <2> QED
    BY <2>1, <2>2
<1> HIDE DEF d
<1>6. /\ inbox' \in [Process -> Seq(Packet)]
      /\ \A p \in Process \ {c} : inbox'[p] = d[p] /\ at'[p] = at[p]
                                  /\ clock'[p] = clock[p]
      /\ \/ at'[c] = "off" /\ inbox'[c] = <<>>
         \/ at'[c] = "wait" /\ at[c] # "leaving" /\ inbox'[c] = d[c]
  <2>1. d \in [Process -> Seq(Packet)] /\ <<>> \in Seq(Packet)
    BY <1>5
  <2>2. \A p \in Process \ {c} : clock'[p] = clock[p]
    BY <1>1, <1>2
  <2>3. CASE at' = [at EXCEPT ![c] = "off"] /\ inbox' = [d EXCEPT ![c] = <<>>]
    BY <1>2, <2>1, <2>2, <2>3
  <2>4. CASE at[c] # "leaving" /\ at' = [at EXCEPT ![c] = "wait"] /\ inbox' = d
    BY <1>2, <2>1, <2>2, <2>4
  <2> QED
    BY <1>1, <2>3, <2>4
<1>7. \A p \in Process : \A m : Contains(inbox'[p], m) =>
        Contains(inbox[p], m) \/ (Contains(qs, m) /\ p \in Server)
  <2>1. \A p \in Process : \A m : Contains(inbox'[p], m) => Contains(d[p], m)
    BY <1>6, FewParts
  <2> QED
    BY <1>5, <2>1
\* There is nothing of this client yet.
<1>8. \A p \in Process, m \in Packet :
        Contains(inbox[p], m) /\ Of(m, c) =>
          m.tid < life[c] /\ clock[c] = 0
  BY <1>1 DEF Good, Fresh, Current
<1>9. \A d1 \in Client \ {c} :
        /\ Discovering(d1)' <=> Discovering(d1)
        /\ \A m : Wanted(m, d1)' <=> Wanted(m, d1)
  BY <1>1, <1>6, Different DEF Discovering, Wanted, TypeOK
<1>10. ~Discovering(c)'
  BY <1>6 DEF Discovering
<1>11. \A m : Contains(qs, m) => Of(m, c) /\ m \in Packet /\ ~(m.tid < life[c])
  BY <1>3, <1>4 DEF Of
<1>12. \A p \in Process : \A m : ~(Contains(inbox[p], m) /\ Contains(qs, m))
  BY <1>8, <1>11
<1>13. Boxes(inbox)'
  <2>1. \A s \in Server : \A m : Contains(inbox'[s], m) => m \in Queried
    BY <1>4, <1>7, Different DEF Good, Boxes
  <2>2. \A p \in Process : at'[p] = "off" => inbox'[p] = <<>>
    BY <1>5, <1>6 DEF Good, Boxes, On
  <2> QED
    BY <1>6, <2>1, <2>2 DEF Boxes, On
<1>14. Fresh(inbox)'
  <2> SUFFICES ASSUME NEW p \in Process, NEW e \in Client, NEW m \in Packet,
                      Contains(inbox'[p], m), Of(m, e)
               PROVE  Current(m, e)'
    BY DEF Fresh, Of
  <2>1. CASE Contains(inbox[p], m) /\ e # c
    <3>1. Current(m, e)
      BY <2>1 DEF Good, Fresh
    <3> QED
      BY <1>1, <1>6, <1>9, <2>1, <3>1, Different DEF Current
  <2>2. CASE Contains(inbox[p], m) /\ e = c
    <3>1. m.tid < life[c] /\ clock[c] = 0 /\ m.tid <= life[c]
      <4>1. m.tid <= life[c]
        BY <2>2 DEF Good, Fresh, Current
      <4> QED
        BY <1>8, <2>2, <4>1
    <3>2. at'[c] # "wait"
      BY <1>1, <1>6, <3>1, Different
    <3> QED
      BY <1>1, <1>10, <2>2, <3>1, <3>2 DEF Current
  <2>3. CASE Contains(qs, m)
    <3>1. e = c /\ m \in Queried /\ m \notin Responses /\ m.tid = life[c] /\ m.tid \in Nat
      BY <1>3, <1>4, <2>3 DEF Of
    <3>2. Wanted(m, c)'
      <4>1. PICK s \in ToSet(servers[c]), k \in ToSet(ks) : m.dst = s /\ m.kind = k
        BY <1>4, <2>3
      <4> DEFINE q == [server |-> s, kind |-> k, life |-> life[s]]
      <4>2. q.server = m.dst /\ q.kind = m.kind
        BY <4>1
      <4>3. q \in asked'[c]
        <5>1. asked'[c] = {[server |-> s1, kind |-> k1, life |-> life[s1]] :
                             s1 \in ToSet(servers[c]), k1 \in ToSet(ks)}
          BY <1>1 DEF Roles
        <5> QED
          BY <5>1
      <4> HIDE DEF q
      <4> QED
        BY <3>1, <4>2, <4>3 DEF Wanted
    <3> QED
      BY <1>1, <1>10, <3>1, <3>2 DEF Current
  <2> QED
    BY <1>7, <2>1, <2>2, <2>3
<1>15. Single(inbox)'
  <2>1. ASSUME NEW s \in Server, NEW m \in Packet PROVE Once(inbox'[s], m)
    <3>1. Once(inbox[s], m) /\ s \in Process \ {c}
      BY Different DEF Good, Single
    <3> QED
      BY <1>4, <1>5, <1>6, <1>12, <3>1
  <2>2. ASSUME NEW e \in Client, NEW m \in Responses, m.dst = e PROVE Once(inbox'[e], m)
    <3>1. Once(inbox[e], m) /\ e \in Process
      BY <2>2, Different DEF Good, Single
    <3>2. Once(d[e], m)
      BY <1>4, <1>5, <1>12, <3>1
    <3> QED
      BY <1>6, <3>1, <3>2, FewParts
  <2>3. ASSUME NEW s \in Server, NEW m \in Queried, Contains(inbox'[s], m), m.dst = s
        PROVE  ~Contains(inbox'[m.src], Response(m))
    <3>1. m.src \in Client /\ m.src \in Process /\ m.src \notin Server
          /\ Response(m) \in Responses /\ Response(m).dst = m.src
          /\ Response(m).tid = m.tid /\ Response(m) \in Packet
      BY <1>3, Different, ResponseMade
    <3>2. ~Contains(inbox[m.src], Response(m))
      <4>1. CASE Contains(inbox[s], m)
        BY <2>3, <4>1 DEF Good, Single
      <4>2. CASE Contains(qs, m)
        <5>1. m.src = c /\ m.tid = life[c] /\ Of(Response(m), c)
          BY <1>4, <3>1, <4>2 DEF Of
        <5>2. ~(life[c] < life[c])
          BY <1>2
        <5> QED
          BY <1>8, <3>1, <5>1, <5>2
      <4> QED
        BY <1>7, <2>3, <4>1, <4>2, Different
    <3> QED
      BY <1>7, <3>1, <3>2
  <2> QED
    BY <2>1, <2>2, <2>3 DEF Single, Response
<1>16. Unprinted(inbox)'
  <2>1. ASSUME NEW s \in Server, NEW m \in Queried, Contains(inbox'[s], m), m.dst = s
        PROVE  ~Contains(printed[m.src], Response(m))
    <3>1. CASE Contains(inbox[s], m)
      BY <2>1, <3>1 DEF Good, Unprinted
    <3>2. CASE Contains(qs, m)
      <4>1. m.src = c /\ printed[c] = <<>>
        BY <1>1, <1>4, <3>2 DEF Answers
      <4> QED
        BY <4>1, FewParts
    <3> QED
      BY <1>7, <2>1, <3>1, <3>2, Different
  <2>2. ASSUME NEW e \in Client, NEW m \in Responses, Contains(inbox'[e], m), m.dst = e
        PROVE  ~Contains(printed[e], m)
    <3>1. Contains(inbox[e], m)
      BY <1>7, <2>2, Different
    <3> QED
      BY <2>2, <3>1 DEF Good, Unprinted
  <2> QED
    BY <1>1, <2>1, <2>2 DEF Unprinted, Response
<1>17. Answers'
  <2> SUFFICES ASSUME NEW e \in Client
               PROVE  /\ Discovering(e)' => printed'[e] = <<>>
                      /\ \A m : Contains(printed'[e], m) =>
                           m \in Responses /\ m.dst = e /\ m.tid = life'[e] /\ Wanted(m, e)'
                      /\ \A m : Once(printed'[e], m)
    BY DEF Answers
  <2>1. CASE e = c
    <3>1. printed'[e] = <<>>
      BY <1>1, <2>1 DEF Answers
    <3> QED
      BY <3>1, FewParts
  <2>2. CASE e # c
    BY <1>1, <1>9, <2>2 DEF Answers
  <2> QED
    BY <2>1, <2>2
<1>18. Roles'
  <2>1. \A s \in Server : at'[s] = at[s] /\ clock'[s] = clock[s]
    BY <1>6, Different
  <2>2. \A e \in Client : at'[e] # "recv"
    BY <1>6, Different DEF Roles
  <2> QED
    BY <1>1, <2>1, <2>2 DEF Roles
<1>19. TypeOK'
  <2>1. at' \in [Process -> {"off", "recv", "discover", "leaving", "wait"}]
    BY <1>1, <1>2
  <2>2. clock' \in [Process -> 0..Interval+1]
    <3>1. 0 \in 0..Interval+1
      BY Different
    <3> QED
      BY <1>1, <1>2, <3>1
  <2> QED
    BY <1>1, <1>6, <2>1, <2>2 DEF TypeOK
<1>20. Heard(inbox)'
  <2> SUFFICES ASSUME NEW e \in Client \ {c}, NEW s \in Server,
                      Discovering(e), at[s] = "recv"
               PROVE  \/ s \in ToSet(servers[e])
                      \/ Contains(inbox'[e], Hello(s))
                      \/ clock[s] >= clock[e]
    BY <1>1, <1>6, <1>9, <1>10, Different DEF Heard, Hello
  <2>1. inbox'[e] = d[e] /\ \A m : Contains(inbox[e], m) => Contains(d[e], m)
    BY <1>5, <1>6, Different
  <2> QED
    BY <2>1 DEF Heard
<1> QED
  BY <1>13, <1>14, <1>15, <1>16, <1>17, <1>18, <1>19, <1>20 DEF Good


\* A client is interrupted in its discovery.
LEMMA InterruptInv ==
  ASSUME IInv, NEW c \in Client, Interrupt(c)
  PROVE  IInv'
<1> USE DEF IInv
<1>1. /\ at[c] = "discover" /\ at' = [at EXCEPT ![c] = "leaving"]
      /\ UNCHANGED <<life, inbox, clock, due, servers, asked, printed>>
  BY DEF Interrupt, Goto
<1>2. /\ at' \in [Process -> {"off", "recv", "discover", "leaving", "wait"}]
      /\ at'[c] = "leaving" /\ \A p \in Process \ {c} : at'[p] = at[p]
  BY <1>1, Different DEF TypeOK
<1>3. \A d \in Client : /\ Discovering(d)' <=> Discovering(d)
                        /\ at'[d] = "wait" => at[d] = "wait"
  BY <1>1, <1>2, Different DEF Discovering
<1>4. Good(inbox)'
  <2>1. \A p \in Process : at'[p] = "off" => inbox[p] = <<>>
    BY <1>2 DEF Good, Boxes, On
  <2> QED
    BY <1>1, <1>3, <2>1, GoodFrame
<1>5. Answers'
  BY <1>1, <1>3, AnswersFrame
<1>6. Roles'
  BY <1>1, <1>2, Different DEF Roles
<1>7. TypeOK'
  BY <1>1, <1>2 DEF TypeOK
<1>8. Heard(inbox)'
  <2>1. \A s \in Server : at'[s] = at[s]
    BY <1>2, Different
  <2> QED
    BY <1>1, <1>3, <2>1 DEF Heard, Hello
<1> QED
  BY <1>4, <1>5, <1>6, <1>7, <1>8

\* A client that waits is stopped.
LEMMA StopClientInv ==
  ASSUME IInv, NEW c \in Client, StopClient(c)
  PROVE  IInv'
<1> USE DEF IInv
<1> DEFINE e == Emptied(c)
<1>1. /\ at[c] = "wait" /\ at' = [at EXCEPT ![c] = "off"] /\ inbox' = e
      /\ UNCHANGED <<life, clock, due, servers, asked, printed>>
  BY DEF StopClient, Goto
<1>2. /\ at' \in [Process -> {"off", "recv", "discover", "leaving", "wait"}]
      /\ at'[c] = "off" /\ \A p \in Process \ {c} : at'[p] = at[p]
  BY <1>1, Different DEF TypeOK
<1>3. /\ e = [p \in Process |-> e[p]] /\ e[c] = <<>>
      /\ \A p \in Process \ {c} : e[p] = inbox[p]
  BY Different DEF TypeOK, Emptied
<1> HIDE DEF e
<1>4. \A d \in Client : /\ Discovering(d)' <=> Discovering(d)
                        /\ at'[d] = "wait" => at[d] = "wait"
  BY <1>1, <1>2, Different DEF Discovering
<1>5. Good(inbox)'
  <2>1. Good(e)
    BY <1>3, GoodFewer
  <2>2. \A p \in Process : at'[p] = "off" => e[p] = <<>>
    BY <1>2, <1>3 DEF Good, Boxes, On
  <2> QED
    BY <1>1, <1>4, <2>1, <2>2, GoodFrame
<1>6. Answers'
  BY <1>1, <1>4, AnswersFrame
<1>7. Roles'
  BY <1>1, <1>2, Different DEF Roles
<1>8. TypeOK'
  BY <1>1, <1>2, <1>5 DEF TypeOK, Good, Boxes
<1>9. Heard(inbox)'
  <2> SUFFICES ASSUME NEW d \in Client, NEW s \in Server, Discovering(d), at[s] = "recv"
               PROVE  \/ s \in ToSet(servers[d])
                      \/ Contains(e[d], Hello(s))
                      \/ clock[s] >= clock[d]
    <3>1. \A s \in Server : at'[s] = at[s]
      BY <1>2, Different
    <3> QED
      BY <1>1, <1>4, <3>1 DEF Heard, Hello
  <2>1. e[d] = inbox[d]
    BY <1>1, <1>3, Different DEF Discovering
  <2> QED
    BY <2>1 DEF Heard
<1> QED
  BY <1>5, <1>6, <1>7, <1>8, <1>9

\* A client that waits reads a packet, and prints it or not.
LEMMA ReadInv ==
  ASSUME IInv, NEW c \in Client, Read(c)
  PROVE  IInv'
<1> USE DEF IInv
<1> DEFINE b == inbox[c]
           m == Head(b)
           pr == printed[c]
           jb == Taken(c)
<1>1. /\ at[c] = "wait" /\ b # <<>> /\ b \in Seq(Packet) /\ pr \in Seq(Packet)
      /\ printed' = IF Accepts(c, m) THEN [printed EXCEPT ![c] = Append(pr, m)]
                                     ELSE printed
      /\ inbox' = jb /\ UNCHANGED <<at, life, clock, due, servers, asked>>
      /\ printed \in [Client -> Seq(Packet)]
  BY Different DEF Read, TypeOK
<1>2. /\ jb = [p \in Process |-> jb[p]] /\ jb[c] = Tail(b)
      /\ \A p \in Process \ {c} : jb[p] = inbox[p]
  BY Different DEF TypeOK, Taken
<1>3. Accepts(c, m) => m.type = "RESPONSE" /\ m.dst = c
  BY DEF Accepts
<1> HIDE DEF b, m, pr, jb
<1>4. /\ m \in Packet /\ Contains(b, m)
      /\ \A x : Contains(Tail(b), x) => Contains(b, x)
      /\ Once(b, m) => ~Contains(Tail(b), m)
  BY <1>1, TailParts DEF m
<1>5. Good(jb)
  <2>1. \A p \in Process : \/ jb[p] = inbox[p]
                           \/ inbox[p] # <<>> /\ jb[p] = Tail(inbox[p])
    BY <1>1, <1>2 DEF b
  <2> QED
    BY <1>2, <2>1, GoodFewer
<1>6. /\ \A x : Contains(jb[c], x) => Contains(b, x)
      /\ \A p \in Process : \A x : Contains(jb[p], x) => Contains(inbox[p], x)
  <2>1. \A x : Contains(jb[c], x) => Contains(inbox[c], x)
    BY <1>2, <1>4 DEF b
  <2> QED
    BY <1>2, <2>1 DEF b
\* What is printed is an answer to one of the client's queries, and is new.
<1>7. Accepts(c, m) => /\ m \in Responses /\ m.dst = c /\ m.tid = life[c] /\ Wanted(m, c)
                       /\ ~Contains(pr, m) /\ ~Contains(jb[c], m)
                       /\ \A s \in Server, x \in Queried :
                            Contains(inbox[s], x) /\ x.dst = s => Response(x) # m
  <2> SUFFICES ASSUME Accepts(c, m)
               PROVE  /\ m \in Responses /\ m.dst = c /\ m.tid = life[c] /\ Wanted(m, c)
                      /\ ~Contains(pr, m) /\ ~Contains(jb[c], m)
                      /\ \A s \in Server, x \in Queried :
                            Contains(inbox[s], x) /\ x.dst = s => Response(x) # m
    OBVIOUS
  <2>1. m \in Responses /\ m.dst = c
    BY <1>3, <1>4, TypeTells
  <2>2. Contains(inbox[c], m) /\ c \in Process
    BY <1>4, Different DEF b
  <2>3. m.tid = life[c] /\ Wanted(m, c)
    <3>1. Current(m, c)
      BY <1>4, <2>1, <2>2 DEF Good, Fresh, Of
    <3> QED
      BY <1>1, <3>1 DEF Current
  <2>4. ~Contains(pr, m)
    BY <2>1, <2>2 DEF Good, Unprinted, pr
  <2>5. ~Contains(jb[c], m)
    <3>1. Once(b, m)
      BY <2>1 DEF Good, Single, b
    <3> QED
      BY <1>2, <1>4, <3>1
  <2>6. ASSUME NEW s \in Server, NEW x \in Queried, Contains(inbox[s], x), x.dst = s
        PROVE  Response(x) # m
    <3>1. ~Contains(inbox[x.src], Response(x))
      BY <2>6 DEF Good, Single
    <3>2. Response(x) = m => x.src = c
      BY <2>1, ResponseMade
    <3> QED
      BY <2>2, <3>1, <3>2
  <2> QED
    BY <2>1, <2>3, <2>4, <2>5, <2>6
<1>8. /\ printed' \in [Client -> Seq(Packet)]
      /\ \A d \in Client \ {c} : printed'[d] = printed[d]
      /\ \A x : Contains(printed'[c], x) => Contains(pr, x) \/ (x = m /\ Accepts(c, m))
      /\ \A x : Once(printed'[c], x)
  <2>1. \A x : Once(pr, x)
    BY DEF Answers, pr
  <2>2. CASE ~Accepts(c, m)
    BY <1>1, <2>1, <2>2 DEF pr
  <2>3. CASE Accepts(c, m)
    <3> DEFINE a == Append(pr, m)
    <3>1. /\ a \in Seq(Packet)
          /\ \A x : Contains(a, x) <=> Contains(pr, x) \/ x = m
          /\ \A x : Once(pr, x) /\ ~(Contains(pr, x) /\ x = m) => Once(a, x)
      BY <1>1, <1>4, AppendParts
    <3>2. printed' = [printed EXCEPT ![c] = a]
      BY <1>1, <2>3
    <3> HIDE DEF a
    <3>3. /\ printed' \in [Client -> Seq(Packet)] /\ printed'[c] = a
          /\ \A d \in Client \ {c} : printed'[d] = printed[d]
      BY <1>1, <3>1, <3>2
    <3> QED
      BY <1>7, <2>1, <2>3, <3>1, <3>3
  <2> QED
    BY <2>2, <2>3
<1>9. Good(inbox)'
  <2>1. Boxes(inbox)'
    BY <1>1, <1>5 DEF Good, Boxes, On
  <2>2. Fresh(inbox)'
    <3>1. \A x, d : Current(x, d)' <=> Current(x, d)
      BY <1>1 DEF Current, Wanted, Discovering
    <3> QED
      BY <1>1, <1>5, <3>1 DEF Good, Fresh, Of
  <2>3. Single(inbox)'
    BY <1>1, <1>5 DEF Good, Single, Response
  <2>4. ASSUME NEW s \in Server, NEW x \in Queried, Contains(jb[s], x), x.dst = s
        PROVE  ~Contains(printed'[x.src], Response(x))
    <3>1. ~Contains(printed[x.src], Response(x)) /\ x.src \in Client
      BY <1>5, <2>4, PacketParts DEF Good, Unprinted
    <3>2. Contains(inbox[s], x)
      BY <1>6, <2>4, Different
    <3> QED
      BY <1>7, <1>8, <2>4, <3>1, <3>2 DEF pr
  <2>5. ASSUME NEW d \in Client, NEW x \in Responses, Contains(jb[d], x), x.dst = d
        PROVE  ~Contains(printed'[d], x)
    <3>1. ~Contains(printed[d], x)
      BY <1>5, <2>5 DEF Good, Unprinted
    <3> QED
      BY <1>7, <1>8, <2>5, <3>1 DEF pr
  <2>6. Unprinted(inbox)'
    BY <1>1, <2>4, <2>5 DEF Unprinted, Response
  <2> QED
    BY <2>1, <2>2, <2>3, <2>6 DEF Good
<1>10. Answers'
  <2> SUFFICES ASSUME NEW d \in Client
               PROVE  /\ Discovering(d)' => printed'[d] = <<>>
                      /\ \A x : Contains(printed'[d], x) =>
                           x \in Responses /\ x.dst = d /\ x.tid = life'[d] /\ Wanted(x, d)'
                      /\ \A x : Once(printed'[d], x)
    BY DEF Answers
  <2>1. \A x : Wanted(x, d)' <=> Wanted(x, d)
    BY <1>1 DEF Wanted
  <2>2. CASE d = c
    <3>1. ~Discovering(c)'
      BY <1>1 DEF Discovering
    <3>2. \A x : Contains(pr, x) =>
            x \in Responses /\ x.dst = c /\ x.tid = life[c] /\ Wanted(x, c)
      BY DEF Answers, pr
    <3> QED
      BY <1>1, <1>7, <1>8, <2>1, <2>2, <3>1, <3>2
  <2>3. CASE d # c
    BY <1>1, <1>8, <2>1, <2>3 DEF Answers, Discovering
  <2> QED
    BY <2>2, <2>3
<1>11. Roles'
  BY <1>1 DEF Roles
<1>12. TypeOK'
  BY <1>1, <1>8, <1>9 DEF TypeOK, Good, Boxes
<1>13. Heard(inbox)'
  <2> SUFFICES ASSUME NEW d \in Client, NEW s \in Server, Discovering(d), at[s] = "recv"
               PROVE  \/ s \in ToSet(servers[d])
                      \/ Contains(jb[d], Hello(s))
                      \/ clock[s] >= clock[d]
    BY <1>1 DEF Heard, Hello, Discovering
  <2>1. jb[d] = inbox[d]
    BY <1>1, <1>2, Different DEF Discovering
  <2> QED
    BY <2>1 DEF Heard
<1> QED
  BY <1>9, <1>10, <1>11, <1>12, <1>13

\* Every step keeps the invariant.
LEMMA StepInv ==
  ASSUME IInv, [Next]_vars
  PROVE  IInv'
<1>1. CASE \E s \in Server : ServerNext(s)
  BY <1>1, ServerInv
<1>2. ASSUME NEW c \in Client, ClientNext(c)
      PROVE  IInv'
  <2>1. CASE StartClient(c)
    BY <2>1, StartClientInv
  <2>2. CASE Discover(c)
    BY <2>2, DiscoverInv
  <2>3. CASE Interrupt(c)
    BY <2>3, InterruptInv
  <2>4. CASE Read(c)
    BY <2>4, ReadInv
  <2>5. CASE StopClient(c)
    BY <2>5, StopClientInv
  <2>6. CASE \E ks \in Commands : EndDiscovery(c, ks)
    BY <2>6, EndDiscoveryInv
  <2> QED
    BY <1>2, <2>1, <2>2, <2>3, <2>4, <2>5, <2>6 DEF ClientNext
<1>3. CASE Tick
  BY <1>3, TickInv
<1>4. CASE UNCHANGED vars
  <2>1. UNCHANGED <<at, life, inbox, clock, due, servers, asked, printed>>
    BY <1>4 DEF vars
  <2>2. Good(inbox)'
    <3>1. \A x, d : Current(x, d)' <=> Current(x, d)
      BY <2>1 DEF Current, Wanted, Discovering
    <3> QED
      BY <2>1, <3>1
        DEF IInv, Good, Boxes, On, Fresh, Of, Single, Unprinted, Response
  <2>3. Answers'
    BY <2>1, AnswersFrame DEF IInv, Discovering
  <2>4. Heard(inbox)'
    BY <2>1 DEF IInv, Heard, Hello, Discovering
  <2> QED
    BY <2>1, <2>2, <2>3, <2>4 DEF IInv, TypeOK, Roles
<1> QED
  BY <1>1, <1>2, <1>3, <1>4 DEF Next

\* It holds before anything is started.
LEMMA InitInv ==
  ASSUME Init
  PROVE  IInv
<1>1. /\ \A p \in Process : at[p] = "off" /\ life[p] = 0 /\ inbox[p] = <<>> /\ clock[p] = 0
      /\ \A c \in Client : servers[c] = <<>> /\ printed[c] = <<>>
  BY DEF Init
<1>2. TypeOK
  BY Different DEF Init, TypeOK
<1>3. Roles
  BY <1>1, Different DEF Init, Roles, IsInjective
<1>4. Good(inbox)
  <2>1. \A p \in Process : \A m : ~Contains(inbox[p], m) /\ Once(inbox[p], m)
    BY <1>1, FewParts
  <2> QED
    BY <1>1, <1>2, <2>1, Different DEF Good, Boxes, Fresh, Single, Unprinted, TypeOK
<1>5. Answers
  BY <1>1, FewParts DEF Answers
<1>6. Heard(inbox)
  BY <1>1, Different DEF Heard, Discovering
<1> QED
  BY <1>2, <1>3, <1>4, <1>5, <1>6 DEF IInv

-----------------------------------------------------------------------------
(* The theorems *)

\* The invariant holds for ever.
LEMMA Always == Spec => []IInv
<1>1. Init => IInv
  BY InitInv
<1>2. IInv /\ [Next]_vars => IInv'
  BY StepInv
<1> QED
  BY <1>1, <1>2, PTL DEF Spec

\* Every variable keeps its range; no server is silent for longer than
\* Interval + 1 seconds (clock), whatever it reads (main of cldp_server.c).
THEOREM TypeCorrect == Spec => []TypeOK
<1>1. IInv => TypeOK
  BY DEF IInv
<1> QED
  BY <1>1, Always, PTL

\* What a client prints are the answers to its own queries, each at most once
\* (process_response of cldp_client.c, which looks at no transaction id).
THEOREM OwnAnswersOnly == Spec => []OnlyOwnAnswers
<1>1. ASSUME IInv PROVE OnlyOwnAnswers
  <2> SUFFICES ASSUME NEW c \in Client
               PROVE  /\ \A n \in DOMAIN printed[c] :
                           /\ printed[c][n].dst = c /\ printed[c][n].tid = life[c]
                           /\ \E q \in asked[c] :
                                q.server = printed[c][n].src /\ q.kind = printed[c][n].kind
                      /\ IsInjective(printed[c])
    BY DEF OnlyOwnAnswers
  <2> DEFINE pr == printed[c]
  <2>1. pr \in Seq(Packet)
    BY <1>1 DEF IInv, TypeOK
  <2>2. /\ \A m : Contains(pr, m) =>
             m \in Responses /\ m.dst = c /\ m.tid = life[c] /\ Wanted(m, c)
        /\ \A m : Once(pr, m)
    BY <1>1 DEF IInv, Answers
  <2> HIDE DEF pr
  <2>3. ASSUME NEW n \in DOMAIN pr
        PROVE  /\ pr[n].dst = c /\ pr[n].tid = life[c]
               /\ \E q \in asked[c] : q.server = pr[n].src /\ q.kind = pr[n].kind
    <3>1. Contains(pr, pr[n])
      BY <2>1, LenProperties DEF Contains
    <3>2. pr[n] \in Responses /\ pr[n].dst = c /\ pr[n].tid = life[c] /\ Wanted(pr[n], c)
      BY <2>2, <3>1
    <3> QED
      BY <3>2 DEF Wanted
  <2>4. IsInjective(pr)
    BY <2>1, <2>2, SetParts
  <2> QED
    BY <2>3, <2>4 DEF pr
<1> QED
  BY <1>1, Always, PTL

\* A server that runs when a discovery ends is in the client's list, unless its
\* last HELLO was before the discovery or has come too late (discover_servers of
\* cldp_client.c, and the interval of main of cldp_server.c).
THEOREM MissedOnlyNarrowly == Spec => MissedNarrowly
<1> DEFINE Missed(c, s) ==
      \/ s \in ToSet(servers[c])
      \/ clock[s] >= Interval
      \/ Contains(inbox[c], Hello(s))
<1>1. ASSUME IInv, [Next]_vars
      PROVE  \A c \in Client : at[c] = "discover" /\ at'[c] = "wait" =>
               \A s \in Server : at[s] = "recv" => Missed(c, s)
  <2> SUFFICES ASSUME NEW c \in Client, at[c] = "discover", at'[c] = "wait",
                      NEW s \in Server, at[s] = "recv"
               PROVE  Missed(c, s)
    BY DEF Missed
  <2>1. TypeOK /\ Heard(inbox) /\ Roles
    BY <1>1 DEF IInv
  <2>2. PICK ks \in Commands : EndDiscovery(c, ks)
    <3>1. at'[c] # at[c]
      OBVIOUS
    <3>2. c \in Process /\ at \in [Process -> {"off", "recv", "discover", "leaving", "wait"}]
      BY <2>1, Different DEF TypeOK
    <3>3. ASSUME NEW t \in Server, ServerNext(t) PROVE FALSE
      BY <3>1, <3>2, <3>3, Different
        DEF ServerNext, StartServer, Answer, RecvTimeout, StopServer, Goto
    <3>4. ASSUME NEW d \in Client, ClientNext(d) PROVE \E ks \in Commands : EndDiscovery(c, ks)
      <4>1. CASE \E ks \in Commands : EndDiscovery(d, ks)
        <5>1. d = c
          BY <3>1, <3>2, <4>1, Different DEF EndDiscovery, Goto
        <5> QED
          BY <4>1, <5>1
      <4>2. CASE StartClient(d) \/ Discover(d) \/ Interrupt(d) \/ Read(d) \/ StopClient(d)
        BY <3>1, <3>2, <4>2, Different
          DEF StartClient, Discover, Interrupt, Read, StopClient, Goto
      <4> QED
        BY <3>4, <4>1, <4>2 DEF ClientNext
    <3>5. ~Tick /\ ~UNCHANGED vars
      BY <3>1 DEF Tick, vars
    <3> QED
      BY <1>1, <3>3, <3>4, <3>5 DEF Next
  <2>3. clock[c] >= Interval
    BY <2>2 DEF EndDiscovery, WindowOver
  <2>4. \/ s \in ToSet(servers[c])
        \/ Contains(inbox[c], Hello(s))
        \/ clock[s] >= clock[c]
    BY <2>1 DEF Heard, Discovering
  <2>5. clock[s] \in Nat /\ clock[c] \in Nat /\ Interval \in Nat
    BY <2>1, Different DEF TypeOK
  <2> QED
    BY <2>3, <2>4, <2>5
<1>2. IInv /\ [Next]_vars =>
        [\A c \in Client : at[c] = "discover" /\ at'[c] = "wait" =>
           \A s \in Server : at[s] = "recv" => Missed(c, s)]_vars
  BY <1>1
<1> QED
  BY <1>2, Always, PTL DEF MissedNarrowly, Spec

=============================================================================
