---------------------------- MODULE MySmtpProofs ----------------------------
(* Theorems about MySmtp, for any number of sessions, whatever their users    *)
(* type and however their threads take each other's lines: the types, the     *)
(* parties of a session in data mode, the two readers of a mailbox, and that  *)
(* a client alone on the server and its thread never wait for each other.     *)
EXTENDS MySmtp, SequenceTheorems, WellFoundedInduction, TLAPS

-----------------------------------------------------------------------------
(* Folds: what a pass over a file computes, from what it computes for one    *)
(* line less                                                                 *)

\* A non-empty set of naturals has a least element.
LEMMA LeastNatural ==
  ASSUME NEW T, T \subseteq Nat, T # {}
  PROVE  \E x \in T : \A y \in T : x <= y
<1>1. PICK x \in T : \A y \in T : <<y, x>> \notin OpToRel(<, Nat)
  BY WFMin, NatLessThanWellFounded
<1>2. ASSUME NEW y \in T PROVE x <= y
  <2>1. x \in Nat /\ y \in Nat
    OBVIOUS
  <2>2. ~(y < x)
    BY <1>1, <2>1 DEF OpToRel
  <2> QED
    BY <2>1, <2>2
<1> QED
  BY <1>2

\* Induction over the naturals, for a set of them.
LEMMA Induction ==
  ASSUME NEW G, 0 \in G, \A n \in Nat : n \in G => n + 1 \in G
  PROVE  Nat \subseteq G
<1> SUFFICES ASSUME Nat \ G # {} PROVE FALSE
  OBVIOUS
<1>1. PICK x \in Nat \ G : \A y \in Nat \ G : x <= y
  BY LeastNatural
<1>2. x - 1 \in Nat /\ x - 1 \notin Nat \ G /\ (x - 1) + 1 = x
  BY <1>1
<1> QED
  BY <1>2

\* The largest element of a set of places.
LEMMA MaxPlace ==
  ASSUME NEW n \in Nat, NEW s \in SUBSET (1..n), s # {}
  PROVE  Max(s) \in s /\ \A y \in s : y <= Max(s)
<1> DEFINE T == {n - y : y \in s}
<1>1. T \subseteq Nat /\ T # {}
  <2>1. \A y \in s : y \in 1..n /\ n - y \in Nat
    OBVIOUS
  <2> QED
    BY <2>1
<1>2. PICK x \in T : \A y \in T : x <= y
  BY <1>1, LeastNatural
<1>3. PICK m \in s : x = n - m
  BY <1>2
<1>4. \A y \in s : m >= y
  <2> SUFFICES ASSUME NEW y \in s PROVE m >= y
    OBVIOUS
  <2>1. n - y \in T /\ m \in Int /\ y \in Int
    OBVIOUS
  <2>2. n - m <= n - y
    BY <1>2, <1>3, <2>1
  <2> QED
    BY <2>1, <2>2
<1>5. Max(s) \in s /\ \A y \in s : Max(s) >= y
  BY <1>3, <1>4, Zenon DEF Max
<1>6. \A y \in s : y \in Int
  OBVIOUS
<1> HIDE DEF T
<1>7. \A y \in s : y <= Max(s)
  <2> DEFINE z == Max(s)
  <2>1. z \in Int /\ \A y \in s : z >= y /\ y \in Int
    BY <1>5, <1>6
  <2> HIDE DEF z
  <2>2. \A y \in s : y <= z
    BY <2>1
  <2> QED
    BY <2>2 DEF z
<1> QED
  BY <1>5, <1>7

\* The last place of 1..n+1 and the places before it.
LEMMA LastPlace ==
  ASSUME NEW n \in Nat
  PROVE  /\ Max(1..n+1) = n + 1 /\ (1..n+1) \ {n + 1} = 1..n
         /\ \A s \in SUBSET (1..n+1) : n + 1 \in s =>
              Max(s) = n + 1 /\ s \ {n + 1} \in SUBSET (1..n)
<1>1. ASSUME NEW s \in SUBSET (1..n+1), n + 1 \in s
      PROVE  Max(s) = n + 1 /\ s \ {n + 1} \in SUBSET (1..n)
  <2> DEFINE x == Max(s)
  <2>1. n + 1 \in Nat /\ s # {}
    BY <1>1
  <2>2. x \in s /\ \A y \in s : y <= x
    BY <2>1, MaxPlace
  <2> HIDE DEF x
  <2>3. x = n + 1
    BY <1>1, <2>2
  <2> QED
    BY <2>3 DEF x
<1>2. n + 1 \in 1..n+1 /\ (1..n+1) \ {n + 1} = 1..n
  OBVIOUS
<1> QED
  BY <1>1, <1>2

\* A file with one line more, place by place.
LEMMA LastOfAppend ==
  ASSUME NEW S, NEW s \in Seq(S), NEW x \in S
  PROVE  /\ DOMAIN s = 1..Len(s) /\ Len(s) \in Nat
         /\ Append(s, x) \in Seq(S) /\ DOMAIN Append(s, x) = 1 .. Len(s)+1
         /\ Append(s, x)[Len(s) + 1] = x
         /\ \A n \in 1..Len(s) : Append(s, x)[n] = s[n]
  BY AppendProperties, LenProperties

-----------------------------------------------------------------------------
(* The pass of LIST over a file *)

ListStart == [senders |-> <<>>, header |-> FALSE]
ListFold(file) ==
  FoldLeft(LAMBDA r, l : ListLine(r, l),
           [senders |-> <<>>, header |-> FALSE], file)

\* The function by which FoldLeft is defined, on the first n lines.
ListIterates(it, n, file) ==
  it = [s \in SUBSET (1..n) |->
          IF s = {} THEN ListStart
          ELSE ListLine(it[s \ {Max(s)}], file[Max(s)])]

\* There is such a function.
LEMMA ListIterable ==
  ASSUME NEW file, NEW m \in Nat
  PROVE  \E it : ListIterates(it, m, file)
<1> DEFINE G == {n \in Nat : \E it : ListIterates(it, n, file)}
<1>1. 0 \in G
  <2>1. SUBSET (1..0) = {{}}
    OBVIOUS
  <2>2. ListIterates([s \in SUBSET (1..0) |-> ListStart], 0, file)
    BY <2>1 DEF ListIterates
  <2> QED
    BY <2>2
<1>2. ASSUME NEW n \in Nat, n \in G PROVE n + 1 \in G
  <2>1. PICK it : ListIterates(it, n, file)
    BY <1>2
  <2> DEFINE h == [s \in SUBSET (1..n+1) |->
                     IF n + 1 \in s
                     THEN ListLine(it[s \ {n + 1}], file[n + 1]) ELSE it[s]]
  <2>2. ASSUME NEW s \in SUBSET (1..n+1)
        PROVE  h[s] = IF s = {} THEN ListStart
                      ELSE ListLine(h[s \ {Max(s)}], file[Max(s)])
    <3>1. CASE s = {}
      <4>1. s \in SUBSET (1..n) /\ n + 1 \notin s
        BY <3>1
      <4>2. it[s] = ListStart
        BY <2>1, <3>1, <4>1 DEF ListIterates
      <4> QED
        BY <3>1, <4>1, <4>2
    <3>2. CASE n + 1 \in s
      <4>1. Max(s) = n + 1 /\ s \ {n + 1} \in SUBSET (1..n)
        BY <3>2, LastPlace
      <4>2. s \ {n + 1} \in SUBSET (1..n+1) /\ n + 1 \notin s \ {n + 1}
        BY <4>1
      <4>3. h[s \ {Max(s)}] = it[s \ {n + 1}]
        BY <4>1, <4>2
      <4> QED
        BY <3>2, <4>1, <4>3
    <3>3. CASE s # {} /\ n + 1 \notin s
      <4>1. s \in SUBSET (1..n)
        BY <3>3
      <4>2. s \ {Max(s)} \in SUBSET (1..n) /\ n + 1 \notin s \ {Max(s)}
        BY <3>3, <4>1, Zenon
      <4>3. it[s] = ListLine(it[s \ {Max(s)}], file[Max(s)])
        BY <2>1, <3>3, <4>1 DEF ListIterates
      <4>4. h[s \ {Max(s)}] = it[s \ {Max(s)}] /\ h[s] = it[s]
        BY <3>3, <4>2
      <4> QED
        BY <3>3, <4>3, <4>4
    <3> QED
      BY <3>1, <3>2, <3>3
  <2>3. ListIterates(h, n + 1, file)
    <3>1. h = [s \in SUBSET (1..n+1) |-> h[s]]
      OBVIOUS
    <3> HIDE DEF h
    <3> QED
      BY <2>2, <3>1, Zenon DEF ListIterates
  <2> QED
    BY <2>3
<1>3. Nat \subseteq G
  BY <1>1, <1>2, Induction
<1> QED
  BY <1>3

\* It takes its last line with ListLine.
LEMMA ListUnfold ==
  ASSUME NEW file, NEW m \in Nat, NEW it, ListIterates(it, m, file),
         NEW s \in SUBSET (1..m), s # {}
  PROVE  it[s] = ListLine(it[s \ {Max(s)}], file[Max(s)])
BY Zenon DEF ListIterates

\* Two such functions agree where their files do.
LEMMA ListAgree ==
  ASSUME NEW f, NEW g, NEW m \in Nat, NEW l \in Nat, m <= l,
         NEW it, ListIterates(it, m, f), NEW jt, ListIterates(jt, l, g),
         \A n \in 1..m : f[n] = g[n]
  PROVE  it[1..m] = jt[1..m]
<1> DEFINE G == {n \in Nat : n <= m => it[1..n] = jt[1..n]}
<1>1. 0 \in G
  <2>1. 1..0 = {} /\ 1..0 \in SUBSET (1..m) /\ 1..0 \in SUBSET (1..l)
    OBVIOUS
  <2>2. it[1..0] = ListStart /\ jt[1..0] = ListStart
    BY <2>1 DEF ListIterates
  <2> QED
    BY <2>2
<1>2. ASSUME NEW n \in Nat, n \in G PROVE n + 1 \in G
  <2> SUFFICES ASSUME n + 1 <= m PROVE it[1..n+1] = jt[1..n+1]
    OBVIOUS
  <2>1. /\ 1..n+1 \in SUBSET (1..m) /\ 1..n+1 \in SUBSET (1..l) /\ 1..n+1 # {}
        /\ it[1..n] = jt[1..n] /\ n + 1 \in 1..m
    BY <1>2
  <2>2. Max(1..n+1) = n + 1 /\ (1..n+1) \ {n + 1} = 1..n
    BY LastPlace
  <2>3. it[1..n+1] = ListLine(it[1..n], f[n + 1])
    <3>1. LET s == 1..n+1 IN it[s] = ListLine(it[s \ {Max(s)}], f[Max(s)])
      <4> DEFINE s == 1..n+1
      <4>1. s \in SUBSET (1..m) /\ s # {}
        BY <2>1
      <4> HIDE DEF s
      <4>2. it[s] = ListLine(it[s \ {Max(s)}], f[Max(s)])
        BY <4>1, ListUnfold
      <4> QED
        BY <4>2 DEF s
    <3> QED
      BY <2>2, <3>1
  <2>4. jt[1..n+1] = ListLine(jt[1..n], g[n + 1])
    <3>1. LET s == 1..n+1 IN jt[s] = ListLine(jt[s \ {Max(s)}], g[Max(s)])
      <4> DEFINE s == 1..n+1
      <4>1. s \in SUBSET (1..l) /\ s # {}
        BY <2>1
      <4> HIDE DEF s
      <4>2. jt[s] = ListLine(jt[s \ {Max(s)}], g[Max(s)])
        BY <4>1, ListUnfold
      <4> QED
        BY <4>2 DEF s
    <3> QED
      BY <2>2, <3>1
  <2> QED
    BY <2>1, <2>3, <2>4
<1>3. m \in G
  BY <1>1, <1>2, Induction
<1> QED
  BY <1>3

\* The pass is one of these functions, on all of the file.
LEMMA ListChosen ==
  ASSUME NEW file, NEW m \in Nat, DOMAIN file = 1..m
  PROVE  \E it : ListIterates(it, m, file) /\ ListFold(file) = it[1..m]
<1> DEFINE it == CHOOSE jt : ListIterates(jt, m, file)
<1>1. ListIterates(it, m, file)
  BY ListIterable
<1>2. ListFold(file) = it[1..m]
  BY Zenon DEF ListFold, ListStart, ListIterates, FoldLeft, MapThenFoldSet
<1> QED
  BY <1>1, <1>2

\* It leaves an empty file as it starts.
LEMMA ListFoldEmpty == ListFold(<<>>) = ListStart
<1>1. DOMAIN <<>> = 1..0 /\ 1..0 = {} /\ 1..0 \in SUBSET (1..0)
  OBVIOUS
<1>2. PICK it : ListIterates(it, 0, <<>>) /\ ListFold(<<>>) = it[1..0]
  BY <1>1, ListChosen
<1> QED
  BY <1>1, <1>2 DEF ListIterates

\* A line more is one ListLine more.
LEMMA ListFoldAppend ==
  ASSUME NEW S, NEW file \in Seq(S), NEW x \in S
  PROVE  ListFold(Append(file, x)) = ListLine(ListFold(file), x)
<1> DEFINE m == Len(file)
           more == Append(file, x)
<1>1. /\ DOMAIN file = 1..m /\ m \in Nat /\ DOMAIN more = 1..m+1
      /\ more[m + 1] = x /\ \A n \in 1..m : file[n] = more[n]
  BY LastOfAppend
<1> HIDE DEF m, more
<1>2. PICK it : ListIterates(it, m, file) /\ ListFold(file) = it[1..m]
  BY <1>1, ListChosen
<1>3. PICK jt : ListIterates(jt, m + 1, more) /\ ListFold(more) = jt[1..m+1]
  BY <1>1, ListChosen
<1>4. it[1..m] = jt[1..m]
  <2>1. m + 1 \in Nat /\ m <= m + 1
    BY <1>1
  <2> QED
    BY <1>1, <1>2, <1>3, <2>1, ListAgree
<1>5. Max(1..m+1) = m + 1 /\ (1..m+1) \ {m + 1} = 1..m
  BY <1>1, LastPlace
<1>6. m + 1 \in Nat /\ 1..m+1 # {} /\ 1..m+1 \in SUBSET (1..m+1)
  <2>1. m \in Nat /\ m + 1 \in Nat
    BY <1>1
  <2>2. 1 \in 1..m+1
    BY <2>1
  <2> QED
    BY <2>1, <2>2
<1>7. jt[1..m+1] = ListLine(jt[1..m], more[m + 1])
  <2>1. LET s == 1..m+1 IN jt[s] = ListLine(jt[s \ {Max(s)}], more[Max(s)])
    BY <1>3, <1>6, ListUnfold
  <2> QED
    BY <1>5, <2>1
<1> QED
  BY <1>1, <1>2, <1>3, <1>4, <1>7 DEF more

-----------------------------------------------------------------------------
(* The pass of GET_MAIL over a file *)

GetStart == [n |-> 0, reading |-> FALSE, done |-> FALSE, text |-> <<>>]
GetFold(file, id) ==
  FoldLeft(LAMBDA r, l : GetLine(r, l, id),
           [n |-> 0, reading |-> FALSE, done |-> FALSE, text |-> <<>>], file)

\* The function by which FoldLeft is defined, on the first n lines.
GetIterates(it, n, file, id) ==
  it = [s \in SUBSET (1..n) |->
          IF s = {} THEN GetStart
          ELSE GetLine(it[s \ {Max(s)}], file[Max(s)], id)]

\* There is such a function.
LEMMA GetIterable ==
  ASSUME NEW id, NEW file, NEW m \in Nat
  PROVE  \E it : GetIterates(it, m, file, id)
<1> DEFINE G == {n \in Nat : \E it : GetIterates(it, n, file, id)}
<1>1. 0 \in G
  <2>1. SUBSET (1..0) = {{}}
    OBVIOUS
  <2>2. GetIterates([s \in SUBSET (1..0) |-> GetStart], 0, file, id)
    BY <2>1 DEF GetIterates
  <2> QED
    BY <2>2
<1>2. ASSUME NEW n \in Nat, n \in G PROVE n + 1 \in G
  <2>1. PICK it : GetIterates(it, n, file, id)
    BY <1>2
  <2> DEFINE h == [s \in SUBSET (1..n+1) |->
                     IF n + 1 \in s
                     THEN GetLine(it[s \ {n + 1}], file[n + 1], id) ELSE it[s]]
  <2>2. ASSUME NEW s \in SUBSET (1..n+1)
        PROVE  h[s] = IF s = {} THEN GetStart
                      ELSE GetLine(h[s \ {Max(s)}], file[Max(s)], id)
    <3>1. CASE s = {}
      <4>1. s \in SUBSET (1..n) /\ n + 1 \notin s
        BY <3>1
      <4>2. it[s] = GetStart
        BY <2>1, <3>1, <4>1 DEF GetIterates
      <4> QED
        BY <3>1, <4>1, <4>2
    <3>2. CASE n + 1 \in s
      <4>1. Max(s) = n + 1 /\ s \ {n + 1} \in SUBSET (1..n)
        BY <3>2, LastPlace
      <4>2. s \ {n + 1} \in SUBSET (1..n+1) /\ n + 1 \notin s \ {n + 1}
        BY <4>1
      <4>3. h[s \ {Max(s)}] = it[s \ {n + 1}]
        BY <4>1, <4>2
      <4> QED
        BY <3>2, <4>1, <4>3
    <3>3. CASE s # {} /\ n + 1 \notin s
      <4>1. s \in SUBSET (1..n)
        BY <3>3
      <4>2. s \ {Max(s)} \in SUBSET (1..n) /\ n + 1 \notin s \ {Max(s)}
        BY <3>3, <4>1, Zenon
      <4>3. it[s] = GetLine(it[s \ {Max(s)}], file[Max(s)], id)
        BY <2>1, <3>3, <4>1 DEF GetIterates
      <4>4. h[s \ {Max(s)}] = it[s \ {Max(s)}] /\ h[s] = it[s]
        BY <3>3, <4>2
      <4> QED
        BY <3>3, <4>3, <4>4
    <3> QED
      BY <3>1, <3>2, <3>3
  <2>3. GetIterates(h, n + 1, file, id)
    <3>1. h = [s \in SUBSET (1..n+1) |-> h[s]]
      OBVIOUS
    <3> HIDE DEF h
    <3> QED
      BY <2>2, <3>1, Zenon DEF GetIterates
  <2> QED
    BY <2>3
<1>3. Nat \subseteq G
  BY <1>1, <1>2, Induction
<1> QED
  BY <1>3

\* It takes its last line with GetLine.
LEMMA GetUnfold ==
  ASSUME NEW id, NEW file, NEW m \in Nat, NEW it, GetIterates(it, m, file, id),
         NEW s \in SUBSET (1..m), s # {}
  PROVE  it[s] = GetLine(it[s \ {Max(s)}], file[Max(s)], id)
BY Zenon DEF GetIterates

\* Two such functions agree where their files do.
LEMMA GetAgree ==
  ASSUME NEW id, NEW f, NEW g, NEW m \in Nat, NEW l \in Nat, m <= l,
         NEW it, GetIterates(it, m, f, id), NEW jt, GetIterates(jt, l, g, id),
         \A n \in 1..m : f[n] = g[n]
  PROVE  it[1..m] = jt[1..m]
<1> DEFINE G == {n \in Nat : n <= m => it[1..n] = jt[1..n]}
<1>1. 0 \in G
  <2>1. 1..0 = {} /\ 1..0 \in SUBSET (1..m) /\ 1..0 \in SUBSET (1..l)
    OBVIOUS
  <2>2. it[1..0] = GetStart /\ jt[1..0] = GetStart
    BY <2>1 DEF GetIterates
  <2> QED
    BY <2>2
<1>2. ASSUME NEW n \in Nat, n \in G PROVE n + 1 \in G
  <2> SUFFICES ASSUME n + 1 <= m PROVE it[1..n+1] = jt[1..n+1]
    OBVIOUS
  <2>1. /\ 1..n+1 \in SUBSET (1..m) /\ 1..n+1 \in SUBSET (1..l) /\ 1..n+1 # {}
        /\ it[1..n] = jt[1..n] /\ n + 1 \in 1..m
    BY <1>2
  <2>2. Max(1..n+1) = n + 1 /\ (1..n+1) \ {n + 1} = 1..n
    BY LastPlace
  <2>3. it[1..n+1] = GetLine(it[1..n], f[n + 1], id)
    <3>1. LET s == 1..n+1 IN it[s] = GetLine(it[s \ {Max(s)}], f[Max(s)], id)
      <4> DEFINE s == 1..n+1
      <4>1. s \in SUBSET (1..m) /\ s # {}
        BY <2>1
      <4> HIDE DEF s
      <4>2. it[s] = GetLine(it[s \ {Max(s)}], f[Max(s)], id)
        BY <4>1, GetUnfold
      <4> QED
        BY <4>2 DEF s
    <3> QED
      BY <2>2, <3>1
  <2>4. jt[1..n+1] = GetLine(jt[1..n], g[n + 1], id)
    <3>1. LET s == 1..n+1 IN jt[s] = GetLine(jt[s \ {Max(s)}], g[Max(s)], id)
      <4> DEFINE s == 1..n+1
      <4>1. s \in SUBSET (1..l) /\ s # {}
        BY <2>1
      <4> HIDE DEF s
      <4>2. jt[s] = GetLine(jt[s \ {Max(s)}], g[Max(s)], id)
        BY <4>1, GetUnfold
      <4> QED
        BY <4>2 DEF s
    <3> QED
      BY <2>2, <3>1
  <2> QED
    BY <2>1, <2>3, <2>4
<1>3. m \in G
  BY <1>1, <1>2, Induction
<1> QED
  BY <1>3

\* The pass is one of these functions, on all of the file.
LEMMA GetChosen ==
  ASSUME NEW id, NEW file, NEW m \in Nat, DOMAIN file = 1..m
  PROVE  \E it : GetIterates(it, m, file, id) /\ GetFold(file, id) = it[1..m]
<1> DEFINE it == CHOOSE jt : GetIterates(jt, m, file, id)
<1>1. GetIterates(it, m, file, id)
  BY GetIterable
<1>2. GetFold(file, id) = it[1..m]
  BY Zenon DEF GetFold, GetStart, GetIterates, FoldLeft, MapThenFoldSet
<1> QED
  BY <1>1, <1>2

\* It leaves an empty file as it starts.
LEMMA GetFoldEmpty == ASSUME NEW id PROVE  GetFold(<<>>, id) = GetStart
<1>1. DOMAIN <<>> = 1..0 /\ 1..0 = {} /\ 1..0 \in SUBSET (1..0)
  OBVIOUS
<1>2. PICK it : GetIterates(it, 0, <<>>, id) /\ GetFold(<<>>, id) = it[1..0]
  BY <1>1, GetChosen
<1> QED
  BY <1>1, <1>2 DEF GetIterates

\* A line more is one GetLine more.
LEMMA GetFoldAppend ==
  ASSUME NEW id, NEW S, NEW file \in Seq(S), NEW x \in S
  PROVE  GetFold(Append(file, x), id) = GetLine(GetFold(file, id), x, id)
<1> DEFINE m == Len(file)
           more == Append(file, x)
<1>1. /\ DOMAIN file = 1..m /\ m \in Nat /\ DOMAIN more = 1..m+1
      /\ more[m + 1] = x /\ \A n \in 1..m : file[n] = more[n]
  BY LastOfAppend
<1> HIDE DEF m, more
<1>2. PICK it : GetIterates(it, m, file, id) /\ GetFold(file, id) = it[1..m]
  BY <1>1, GetChosen
<1>3. PICK jt : GetIterates(jt, m + 1, more, id) /\ GetFold(more, id) = jt[1..m+1]
  BY <1>1, GetChosen
<1>4. it[1..m] = jt[1..m]
  <2>1. m + 1 \in Nat /\ m <= m + 1
    BY <1>1
  <2> QED
    BY <1>1, <1>2, <1>3, <2>1, GetAgree
<1>5. Max(1..m+1) = m + 1 /\ (1..m+1) \ {m + 1} = 1..m
  BY <1>1, LastPlace
<1>6. m + 1 \in Nat /\ 1..m+1 # {} /\ 1..m+1 \in SUBSET (1..m+1)
  <2>1. m \in Nat /\ m + 1 \in Nat
    BY <1>1
  <2>2. 1 \in 1..m+1
    BY <2>1
  <2> QED
    BY <2>1, <2>2
<1>7. jt[1..m+1] = GetLine(jt[1..m], more[m + 1], id)
  <2>1. LET s == 1..m+1 IN jt[s] = GetLine(jt[s \ {Max(s)}], more[Max(s)], id)
    BY <1>3, <1>6, GetUnfold
  <2> QED
    BY <1>5, <2>1
<1> QED
  BY <1>1, <1>2, <1>3, <1>4, <1>7 DEF more

-----------------------------------------------------------------------------
(* Sequences that grow by an element at a time *)

\* An element put after two sequences.
LEMMA ConcatAppend ==
  ASSUME NEW S, NEW f \in Seq(S), NEW g \in Seq(S), NEW x \in S
  PROVE  f \o Append(g, x) = Append(f \o g, x)
<1>1. <<x>> \in Seq(S) /\ f \o g \in Seq(S)
  BY ConcatProperties
<1>2. Append(g, x) = g \o <<x>>
  BY AppendIsConcat
<1>3. Append(f \o g, x) = (f \o g) \o <<x>>
  BY <1>1, AppendIsConcat
<1> QED
  BY <1>1, <1>2, <1>3, ConcatAssociative

\* A sequence of two.
LEMMA TwoLines ==
  ASSUME NEW S, NEW x \in S, NEW y \in S
  PROVE  Append(<<x>>, y) = <<x, y>>
<1>1. <<x>> = Append(<<>>, x)
  OBVIOUS
<1>2. <<x, y>> = Append(Append(<<>>, x), y)
  OBVIOUS
<1> QED
  BY <1>1, <1>2

\* The prefixes of a sequence, from the empty one to all of it.
LEMMA GrowingPrefix ==
  ASSUME NEW S, NEW g \in Seq(S)
  PROVE  /\ SubSeq(g, 1, 0) = <<>> /\ SubSeq(g, 1, Len(g)) = g
         /\ \A k \in 0..Len(g) : SubSeq(g, 1, k) \in Seq(S)
         /\ \A k \in 0 .. Len(g)-1 :
              /\ g[k+1] \in S
              /\ SubSeq(g, 1, k+1) = Append(SubSeq(g, 1, k), g[k+1])
<1>1. Len(g) \in Nat
  BY LenProperties
<1>2. SubSeq(g, 1, 0) = <<>> /\ SubSeq(g, 1, Len(g)) = g
  BY SubSeqEmpty, SubSeqFull
<1>3. ASSUME NEW k \in 0..Len(g) PROVE SubSeq(g, 1, k) \in Seq(S)
  <2>1. \A i \in 1..k : g[i] \in S
    BY <1>1, ElementOfSeq
  <2> QED
    BY <1>1, <2>1, SubSeqProperties
<1>4. ASSUME NEW k \in 0 .. Len(g)-1
      PROVE  /\ g[k+1] \in S
             /\ SubSeq(g, 1, k+1) = Append(SubSeq(g, 1, k), g[k+1])
  <2>1. k + 1 \in 1..Len(g) /\ 1 \in 1..Len(g) /\ k + 1 \in 1..Len(g)
        /\ k \in 0..Len(g) /\ (k + 1) - 1 = k
    BY <1>1
  <2>2. g[k+1] \in S
    BY <2>1, ElementOfSeq
  <2>3. SubSeq(g, 1, k+1) = SubSeq(g, 1, k) \o <<g[k+1]>>
    BY <2>1, SubSeqRecursiveSecond
  <2>4. SubSeq(g, 1, k) \in Seq(S)
    BY <1>3, <2>1
  <2> QED
    BY <2>2, <2>3, <2>4, AppendIsConcat
<1> QED
  BY <1>2, <1>3, <1>4

\* All but the last element.
LEMMA FrontOfAppend ==
  ASSUME NEW S, NEW g \in Seq(S), NEW x \in S
  PROVE  Front(Append(g, x)) = g
<1>1. Append(g, x) \in Seq(S) /\ Len(g) \in Nat
  BY AppendProperties, LenProperties
<1>2. Len(Append(g, x)) = Len(g) + 1 /\ Len(g) \in 0 .. Len(Append(g, x))-1
  BY <1>1, AppendProperties
<1>3. Front(Append(g, x)) = SubSeq(Append(g, x), 1, Len(g))
  BY <1>1, <1>2 DEF Front
<1> DEFINE h == SubSeq(Append(g, x), 1, Len(g))
<1>4. h \in Seq(S) /\ Append(g, x) = Append(h, Append(g, x)[Len(g) + 1])
  <2> DEFINE a == Append(g, x)
  <2>1. a \in Seq(S) /\ Len(a) = Len(g) + 1
    BY <1>1, <1>2
  <2> HIDE DEF a
  <2>2. /\ Len(g) \in 0..Len(a) /\ Len(g) \in 0 .. Len(a)-1
    BY <1>1, <2>1
  <2>3. SubSeq(a, 1, Len(a)) = a /\ SubSeq(a, 1, Len(g)) \in Seq(S)
        /\ SubSeq(a, 1, Len(g) + 1) = Append(SubSeq(a, 1, Len(g)), a[Len(g) + 1])
    BY <2>1, <2>2, GrowingPrefix
  <2> QED
    BY <2>1, <2>3 DEF a
<1>5. Append(g, x)[Len(g) + 1] = x
  BY AppendProperties
<1> HIDE DEF h
<1>6. h = g
  BY <1>4, <1>5, AppendInjective
<1> QED
  BY <1>3, <1>6 DEF h

-----------------------------------------------------------------------------
(* One mail more in a file *)

From(a)   == Line("From: ", a)
Date      == Plain("Date: ")
\* A file, a mail's two headers, and the first k lines of its body.
Begun(file, a, body, k) ==
  Append(Append(file, From(a)), Date) \o SubSeq(body, 1, k)

\* The lines that save_email writes around a body, and the line that ends it.
LEMMA LinesKnown ==
  /\ \A a \in Args : From(a) \in Lines
  /\ Date \in Lines /\ Separator \in Lines /\ Dot \in Lines
  /\ Date # Separator
<1>1. \A v \in Verbs, a \in Args : Line(v, a) \in Lines
  BY DEF Lines
<1>2. "From: " \in Verbs /\ "Date: " \in Verbs /\ "---" \in Verbs /\ "." \in Verbs
  BY DEF Verbs
<1>3. Date # Separator
  BY DEF Date, Separator, Plain, Line
<1>4. NoAddress \in Args
  BY DEF Args
<1> QED
  BY <1>1, <1>2, <1>3, <1>4, Zenon DEF From, Date, Separator, Dot, Plain

\* A mail is written line by line.
LEMMA Grows ==
  ASSUME NEW file \in Seq(Lines), NEW a \in Args, NEW body \in Seq(Lines)
  PROVE  /\ Append(file, From(a)) \in Seq(Lines)
         /\ Append(Append(file, From(a)), Date) \in Seq(Lines)
         /\ Begun(file, a, body, 0) = Append(Append(file, From(a)), Date)
         /\ \A k \in 0..Len(body) : Begun(file, a, body, k) \in Seq(Lines)
         /\ \A k \in 0 .. Len(body)-1 :
              /\ body[k+1] \in Lines
              /\ Begun(file, a, body, k+1) = Append(Begun(file, a, body, k), body[k+1])
         /\ Begun(file, a, body, Len(body)) \in Seq(Lines)
         /\ file \o Mail(a, body)
              = Append(Begun(file, a, body, Len(body)), Separator)
         /\ Mail(a, body) \in Seq(Lines)
         /\ Front(Mail(a, body)) = <<From(a), Date>> \o body
<1> DEFINE d == From(a)
           e == Date
           z == Separator
           f == Append(Append(file, d), e)
           h == <<d, e>>
<1>1. d \in Lines /\ e \in Lines /\ z \in Lines
  BY LinesKnown
<1>2. Mail(a, body) = (h \o body) \o <<z>>
  BY DEF Mail, From, Date
<1>3. \A k : Begun(file, a, body, k) = f \o SubSeq(body, 1, k)
  BY DEF Begun
<1> HIDE DEF d, e, z
<1>4. Append(file, d) \in Seq(Lines) /\ f \in Seq(Lines) /\ h \in Seq(Lines)
  BY <1>1, AppendProperties
<1>5. h = Append(Append(<<>>, d), e)
  OBVIOUS
<1>6. f = file \o h
  <2>1. <<>> \in Seq(Lines) /\ Append(<<>>, d) \in Seq(Lines)
    BY <1>1
  <2>2. file \o Append(<<>>, d) = Append(file \o <<>>, d) /\ file \o <<>> = file
    BY <1>1, <2>1, ConcatAppend, ConcatEmptySeq
  <2>3. file \o Append(Append(<<>>, d), e) = Append(file \o Append(<<>>, d), e)
    BY <1>1, <2>1, ConcatAppend
  <2> QED
    BY <1>5, <2>2, <2>3
<1> HIDE DEF f, h
<1>7. f \o <<>> = f
  BY <1>4, ConcatEmptySeq
<1>8. ASSUME NEW k \in 0..Len(body) PROVE Begun(file, a, body, k) \in Seq(Lines)
  <2>1. SubSeq(body, 1, k) \in Seq(Lines)
    BY GrowingPrefix
  <2>2. f \o SubSeq(body, 1, k) \in Seq(Lines)
    BY <1>4, <2>1, ConcatProperties
  <2> QED
    BY <1>3, <2>2
<1>9. ASSUME NEW k \in 0 .. Len(body)-1
      PROVE  /\ body[k+1] \in Lines
             /\ Begun(file, a, body, k+1) = Append(Begun(file, a, body, k), body[k+1])
  <2>1. k \in 0..Len(body)
    BY LenProperties
  <2>2. /\ body[k+1] \in Lines /\ SubSeq(body, 1, k) \in Seq(Lines)
        /\ SubSeq(body, 1, k+1) = Append(SubSeq(body, 1, k), body[k+1])
    BY <2>1, GrowingPrefix
  <2>3. f \o Append(SubSeq(body, 1, k), body[k+1])
          = Append(f \o SubSeq(body, 1, k), body[k+1])
    BY <1>4, <2>2, ConcatAppend
  <2> QED
    BY <1>3, <2>2, <2>3
<1>10. h \o body \in Seq(Lines) /\ Mail(a, body) = Append(h \o body, z)
  <2>1. h \o body \in Seq(Lines)
    BY <1>4, ConcatProperties
  <2> QED
    BY <1>1, <1>2, <2>1, AppendIsConcat
<1>11. Front(Mail(a, body)) = h \o body /\ Mail(a, body) \in Seq(Lines)
  <2>1. Front(Append(h \o body, z)) = h \o body
    BY <1>1, <1>10, FrontOfAppend
  <2>2. Append(h \o body, z) \in Seq(Lines)
    BY <1>1, <1>10, AppendProperties
  <2> QED
    BY <1>10, <2>1, <2>2
<1>12. Begun(file, a, body, Len(body)) = f \o body
  BY <1>3, GrowingPrefix
<1>13. file \o Mail(a, body) = Append(f \o body, z)
  <2>1. file \o Append(h \o body, z) = Append(file \o (h \o body), z)
    BY <1>1, <1>10, ConcatAppend
  <2>2. (file \o h) \o body = file \o (h \o body)
    BY <1>4, ConcatAssociative
  <2> QED
    BY <1>6, <1>10, <2>1, <2>2
<1>14. f \o body \in Seq(Lines)
  BY <1>4, ConcatProperties
<1>15. Begun(file, a, body, 0) = f
  BY <1>3, <1>7, GrowingPrefix
<1> QED
  BY <1>4, <1>8, <1>9, <1>11, <1>12, <1>13, <1>14, <1>15 DEF f, h, d, e, z

\* LIST takes a mail without a line "---" for one, whatever its lines say.
LEMMA ListMail ==
  ASSUME NEW file \in Seq(Lines), NEW a \in Args, NEW body \in Seq(Lines),
         ~Contains(body, Separator), NEW ss,
         ListFold(file) = [senders |-> ss, header |-> FALSE]
  PROVE  ListFold(file \o Mail(a, body)) = [senders |-> Append(ss, a), header |-> FALSE]
<1> DEFINE r == [senders |-> Append(ss, a), header |-> TRUE]
           b(k) == Begun(file, a, body, k)
           G == {k \in Nat : k <= Len(body) => ListFold(b(k)) = r}
<1>1. From(a) \in Lines /\ Date \in Lines /\ Separator \in Lines
  BY LinesKnown
<1>2. Len(body) \in Nat
  BY LenProperties
<1>3. /\ b(Len(body)) \in Seq(Lines) /\ Append(file, From(a)) \in Seq(Lines)
      /\ b(0) = Append(Append(file, From(a)), Date)
      /\ file \o Mail(a, body) = Append(b(Len(body)), Separator)
      /\ \A k \in 0..Len(body) : b(k) \in Seq(Lines)
      /\ \A k \in 0 .. Len(body)-1 :
           body[k+1] \in Lines /\ b(k + 1) = Append(b(k), body[k+1])
  BY Grows
<1> HIDE DEF b
<1>4. 0 \in G
  <2>1. ListFold(Append(file, From(a))) = ListLine(ListFold(file), From(a))
    BY <1>1, ListFoldAppend
  <2>2. ListLine([senders |-> ss, header |-> FALSE], From(a)) = r
    BY DEF ListLine, IsFrom, From, Line
  <2>3. ListFold(b(0)) = ListLine(ListFold(Append(file, From(a))), Date)
    BY <1>1, <1>3, ListFoldAppend
  <2>4. ListLine(r, Date) = r
    BY LinesKnown DEF ListLine, IsFrom, Date, Plain, Line
  <2> QED
    BY <2>1, <2>2, <2>3, <2>4
<1>5. ASSUME NEW k \in Nat, k \in G PROVE k + 1 \in G
  <2> SUFFICES ASSUME k + 1 <= Len(body) PROVE ListFold(b(k + 1)) = r
    OBVIOUS
  <2>1. k \in 0 .. Len(body)-1 /\ k \in 0..Len(body) /\ k + 1 \in 1..Len(body)
    BY <1>2
  <2>2. ListFold(b(k)) = r
    BY <1>2, <1>5
  <2>3. body[k+1] # Separator
    BY <2>1 DEF Contains
  <2>4. ListLine(r, body[k+1]) = r
    BY <2>3 DEF ListLine
  <2>5. b(k) \in Seq(Lines) /\ body[k+1] \in Lines /\ b(k + 1) = Append(b(k), body[k+1])
    BY <1>3, <2>1
  <2> HIDE DEF r
  <2> QED
    BY <2>2, <2>4, <2>5, ListFoldAppend
<1>6. Len(body) \in G
  BY <1>2, <1>4, <1>5, Induction
<1>7. ListFold(b(Len(body))) = r
  BY <1>2, <1>6
<1>8. ListFold(file \o Mail(a, body)) = ListLine(r, Separator)
  BY <1>1, <1>3, <1>7, ListFoldAppend
<1>9. ListLine(r, Separator) = [senders |-> Append(ss, a), header |-> FALSE]
  BY DEF ListLine, IsFrom, Separator, Plain, Line
<1> QED
  BY <1>8, <1>9

\* GET_MAIL reads no further than the mail it was asked for.
LEMMA GetDone ==
  ASSUME NEW id, NEW file \in Seq(Lines), NEW more \in Seq(Lines),
         GetFold(file, id).done
  PROVE  GetFold(file \o more, id) = GetFold(file, id)
<1> DEFINE f(k) == file \o SubSeq(more, 1, k)
           G == {k \in Nat : k <= Len(more) => GetFold(f(k), id) = GetFold(file, id)}
<1>1. Len(more) \in Nat
  BY LenProperties
<1>2. f(0) = file /\ f(Len(more)) = file \o more
  BY GrowingPrefix, ConcatEmptySeq
<1>3. ASSUME NEW k \in 0 .. Len(more)-1
      PROVE  more[k+1] \in Lines /\ f(k) \in Seq(Lines) /\ f(k + 1) = Append(f(k), more[k+1])
  <2>1. k \in 0..Len(more)
    BY <1>1
  <2>2. /\ more[k+1] \in Lines /\ SubSeq(more, 1, k) \in Seq(Lines)
        /\ SubSeq(more, 1, k+1) = Append(SubSeq(more, 1, k), more[k+1])
    BY <2>1, GrowingPrefix
  <2> QED
    BY <2>2, ConcatAppend, ConcatProperties
<1> HIDE DEF f
<1>4. 0 \in G
  BY <1>2
<1>5. ASSUME NEW k \in Nat, k \in G PROVE k + 1 \in G
  <2> SUFFICES ASSUME k + 1 <= Len(more)
               PROVE  GetFold(f(k + 1), id) = GetFold(file, id)
    OBVIOUS
  <2>1. k \in 0 .. Len(more)-1 /\ k <= Len(more)
    BY <1>1
  <2>2. GetFold(f(k), id) = GetFold(file, id)
    BY <1>5, <2>1
  <2>3. GetFold(f(k + 1), id) = GetLine(GetFold(file, id), more[k+1], id)
    BY <1>3, <2>1, <2>2, GetFoldAppend
  <2> QED
    BY <2>3 DEF GetLine
<1>6. Len(more) \in G
  BY <1>1, <1>4, <1>5, Induction
<1>7. Len(more) <= Len(more)
  BY <1>1
<1>8. GetFold(f(Len(more)), id) = GetFold(file, id)
  BY <1>6, <1>7
<1> QED
  BY <1>2, <1>8

\* What GET_MAIL has after n mails, before the one it was asked for.
Passed(n) == [n |-> n, reading |-> FALSE, done |-> FALSE, text |-> <<>>]

\* A mail before the one asked for is passed over, if no line of it looks like
\* the start of another.
LEMMA GetPassed ==
  ASSUME NEW id, NEW file \in Seq(Lines), NEW a \in Args, NEW body \in Seq(Lines),
         \A l \in ToSet(body) : ~IsFrom(l),
         NEW n \in Nat, n + 1 # id, GetFold(file, id) = Passed(n)
  PROVE  GetFold(file \o Mail(a, body), id) = Passed(n + 1)
<1> DEFINE r == Passed(n + 1)
           b(k) == Begun(file, a, body, k)
           G == {k \in Nat : k <= Len(body) => GetFold(b(k), id) = r}
<1>1. From(a) \in Lines /\ Date \in Lines /\ Separator \in Lines
  BY LinesKnown
<1>2. Len(body) \in Nat /\ DOMAIN body = 1..Len(body)
  BY LenProperties
<1>3. /\ b(Len(body)) \in Seq(Lines) /\ Append(file, From(a)) \in Seq(Lines)
      /\ b(0) = Append(Append(file, From(a)), Date)
      /\ file \o Mail(a, body) = Append(b(Len(body)), Separator)
      /\ \A k \in 0..Len(body) : b(k) \in Seq(Lines)
      /\ \A k \in 0 .. Len(body)-1 :
           body[k+1] \in Lines /\ b(k + 1) = Append(b(k), body[k+1])
  BY Grows
<1> HIDE DEF b
<1>4. \A l : ~IsFrom(l) => GetLine(r, l, id) = r
  BY DEF GetLine, Passed
<1>5. ~IsFrom(Date) /\ ~IsFrom(Separator)
  BY DEF IsFrom, Date, Separator, Plain, Line
<1>6. 0 \in G
  <2>1. GetFold(Append(file, From(a)), id) = GetLine(Passed(n), From(a), id)
    BY <1>1, GetFoldAppend
  <2>2. GetLine(Passed(n), From(a), id) = r
    BY DEF GetLine, IsFrom, From, Line, Passed
  <2>3. GetFold(b(0), id) = GetLine(GetFold(Append(file, From(a)), id), Date, id)
    BY <1>1, <1>3, GetFoldAppend
  <2> QED
    BY <1>4, <1>5, <2>1, <2>2, <2>3
<1> HIDE DEF r
<1>7. ASSUME NEW k \in Nat, k \in G PROVE k + 1 \in G
  <2> SUFFICES ASSUME k + 1 <= Len(body) PROVE GetFold(b(k + 1), id) = r
    OBVIOUS
  <2>1. k \in 0 .. Len(body)-1 /\ k \in 0..Len(body) /\ k + 1 \in 1..Len(body)
    BY <1>2
  <2>2. GetFold(b(k), id) = r
    BY <1>2, <1>7
  <2>3. ~IsFrom(body[k+1])
    BY <1>2, <2>1 DEF ToSet
  <2>4. b(k) \in Seq(Lines) /\ body[k+1] \in Lines /\ b(k + 1) = Append(b(k), body[k+1])
    BY <1>3, <2>1
  <2> QED
    BY <1>4, <2>2, <2>3, <2>4, GetFoldAppend
<1>8. Len(body) \in G
  BY <1>2, <1>6, <1>7, Induction
<1>9. GetFold(b(Len(body)), id) = r
  BY <1>2, <1>8
<1>10. GetFold(file \o Mail(a, body), id) = GetLine(r, Separator, id)
  BY <1>1, <1>3, <1>9, GetFoldAppend
<1> QED
  BY <1>4, <1>5, <1>10 DEF r

\* The mail asked for is read whole, if no line of it looks like its end.
LEMMA GetMail ==
  ASSUME NEW file \in Seq(Lines), NEW a \in Args, NEW body \in Seq(Lines),
         ~Contains(body, Separator),
         NEW n \in Nat, GetFold(file, n + 1) = Passed(n)
  PROVE  /\ GetFold(file \o Mail(a, body), n + 1).done
         /\ GetFold(file \o Mail(a, body), n + 1).text = Front(Mail(a, body))
<1> DEFINE id == n + 1
           r(t) == [n |-> id, reading |-> TRUE, done |-> FALSE, text |-> t]
           h == <<From(a), Date>>
           b(k) == Begun(file, a, body, k)
           t(k) == h \o SubSeq(body, 1, k)
           G == {k \in Nat : k <= Len(body) => GetFold(b(k), id) = r(t(k))}
<1>1. From(a) \in Lines /\ Date \in Lines /\ Separator \in Lines /\ Date # Separator
  BY LinesKnown
<1>2. Len(body) \in Nat /\ h \in Seq(Lines)
  BY <1>1, LenProperties
<1>3. /\ b(Len(body)) \in Seq(Lines) /\ Append(file, From(a)) \in Seq(Lines)
      /\ b(0) = Append(Append(file, From(a)), Date)
      /\ file \o Mail(a, body) = Append(b(Len(body)), Separator)
      /\ \A k \in 0..Len(body) : b(k) \in Seq(Lines)
      /\ \A k \in 0 .. Len(body)-1 :
           body[k+1] \in Lines /\ b(k + 1) = Append(b(k), body[k+1])
      /\ Front(Mail(a, body)) = h \o body
  BY Grows
<1>4. \A u, l : l # Separator => GetLine(r(u), l, id) = r(Append(u, l))
  BY DEF GetLine
<1>5. GetLine(Passed(n), From(a), id) = r(<<From(a)>>)
  BY DEF GetLine, IsFrom, From, Line, Passed
<1>6. \A u : GetLine(r(u), Separator, id).done /\ GetLine(r(u), Separator, id).text = u
  BY DEF GetLine
<1>7. Append(<<From(a)>>, Date) = h
  BY <1>1, TwoLines
<1>8. GetFold(file, id) = Passed(n)
  OBVIOUS
<1> HIDE DEF r, h, id, b
<1>9. t(0) = h /\ t(Len(body)) = h \o body
  BY <1>2, GrowingPrefix, ConcatEmptySeq
<1>10. ASSUME NEW k \in 0 .. Len(body)-1 PROVE t(k + 1) = Append(t(k), body[k+1])
  <2>1. k \in 0..Len(body)
    BY <1>2
  <2>2. /\ body[k+1] \in Lines /\ SubSeq(body, 1, k) \in Seq(Lines)
        /\ SubSeq(body, 1, k+1) = Append(SubSeq(body, 1, k), body[k+1])
    BY <2>1, GrowingPrefix
  <2>3. h \o Append(SubSeq(body, 1, k), body[k+1])
          = Append(h \o SubSeq(body, 1, k), body[k+1])
    BY <1>2, <2>2, ConcatAppend
  <2> QED
    BY <2>2, <2>3
<1> HIDE DEF t
<1>11. 0 \in G
  <2>1. GetFold(Append(file, From(a)), id) = r(<<From(a)>>)
    BY <1>1, <1>5, <1>8, GetFoldAppend
  <2>2. GetFold(b(0), id) = GetLine(GetFold(Append(file, From(a)), id), Date, id)
    BY <1>1, <1>3, GetFoldAppend
  <2> QED
    BY <1>1, <1>4, <1>7, <1>9, <2>1, <2>2
<1>12. ASSUME NEW k \in Nat, k \in G PROVE k + 1 \in G
  <2> SUFFICES ASSUME k + 1 <= Len(body)
               PROVE  GetFold(b(k + 1), id) = r(t(k + 1))
    OBVIOUS
  <2>1. k \in 0 .. Len(body)-1 /\ k \in 0..Len(body) /\ k + 1 \in 1..Len(body)
    BY <1>2
  <2>2. GetFold(b(k), id) = r(t(k))
    BY <1>2, <1>12
  <2>3. body[k+1] # Separator
    BY <2>1 DEF Contains
  <2>4. b(k) \in Seq(Lines) /\ body[k+1] \in Lines /\ b(k + 1) = Append(b(k), body[k+1])
    BY <1>3, <2>1
  <2>5. GetFold(b(k + 1), id) = GetLine(r(t(k)), body[k+1], id)
    BY <2>2, <2>4, GetFoldAppend
  <2> QED
    BY <1>4, <1>10, <2>1, <2>3, <2>5
<1>13. Len(body) \in G
  BY <1>2, <1>11, <1>12, Induction
<1>14. GetFold(b(Len(body)), id) = r(h \o body)
  <2>1. Len(body) <= Len(body)
    BY <1>2
  <2>2. GetFold(b(Len(body)), id) = r(t(Len(body)))
    BY <1>13, <2>1
  <2> QED
    BY <1>9, <2>2
<1>15. GetFold(file \o Mail(a, body), id) = GetLine(r(h \o body), Separator, id)
  BY <1>1, <1>3, <1>14, GetFoldAppend
<1> QED
  BY <1>3, <1>6, <1>15 DEF id

-----------------------------------------------------------------------------
(* One mail more, stored and in the file *)

Mails == [from : Args, body : Seq(Lines)]
NoSeparatorIn(st) == \A n \in DOMAIN st : ~Contains(st[n].body, Separator)
NoHeaderIn(st) ==
  \A n \in DOMAIN st : \A l \in ToSet(st[n].body) : ~IsFrom(l)

\* A file is listed as the mails stored in it.
ListsAs(file, st) ==
  NoSeparatorIn(st) =>
    ListFold(file) = [senders |-> [n \in DOMAIN st |-> st[n].from], header |-> FALSE]

\* Each mail stored is read from the file, and every other number reads all of
\* the file in vain.
ReadsAs(file, st) ==
  NoSeparatorIn(st) /\ NoHeaderIn(st) =>
    \A id \in Nat \ {0} :
      IF id > Len(st) THEN GetFold(file, id) = Passed(Len(st))
      ELSE /\ GetFold(file, id).done
           /\ GetFold(file, id).text = Front(Mail(st[id].from, st[id].body))

\* What is said of the mails of a mailbox, said of one mail less.
LEMMA OneMore ==
  ASSUME NEW st \in Seq(Mails), NEW m \in Mails
  PROVE  /\ Append(st, m) \in Seq(Mails) /\ Len(st) \in Nat
         /\ Len(Append(st, m)) = Len(st) + 1 /\ DOMAIN st = 1..Len(st)
         /\ \A n \in DOMAIN st : Append(st, m)[n] = st[n]
         /\ Append(st, m)[Len(st) + 1] = m
         /\ NoSeparatorIn(Append(st, m)) =>
              NoSeparatorIn(st) /\ ~Contains(m.body, Separator)
         /\ NoHeaderIn(Append(st, m)) =>
              NoHeaderIn(st) /\ \A l \in ToSet(m.body) : ~IsFrom(l)
<1> DEFINE more == Append(st, m)
<1>1. /\ DOMAIN st = 1..Len(st) /\ Len(st) \in Nat
      /\ more \in Seq(Mails) /\ DOMAIN more = 1 .. Len(st)+1
      /\ more[Len(st) + 1] = m /\ \A n \in 1..Len(st) : more[n] = st[n]
  BY LastOfAppend
<1>2. Len(more) = Len(st) + 1
  BY AppendProperties
<1> HIDE DEF more
<1>3. /\ Len(st) + 1 \in DOMAIN more
      /\ \A n \in DOMAIN st : n \in DOMAIN more /\ more[n] = st[n]
  BY <1>1
<1>4. NoSeparatorIn(more) => NoSeparatorIn(st) /\ ~Contains(m.body, Separator)
  BY <1>1, <1>3, Zenon DEF NoSeparatorIn
<1>5. NoHeaderIn(more) => NoHeaderIn(st) /\ \A l \in ToSet(m.body) : ~IsFrom(l)
  BY <1>1, <1>3, Zenon DEF NoHeaderIn
<1> QED
  BY <1>1, <1>2, <1>4, <1>5 DEF more

\* LIST lists one mail more.
LEMMA ListsOneMore ==
  ASSUME NEW file \in Seq(Lines), NEW st \in Seq(Mails), NEW m \in Mails,
         ListsAs(file, st)
  PROVE  ListsAs(file \o Mail(m.from, m.body), Append(st, m))
<1> DEFINE more == Append(st, m)
           ss == [n \in DOMAIN st |-> st[n].from]
           tt == [n \in DOMAIN more |-> more[n].from]
<1> SUFFICES ASSUME NoSeparatorIn(more)
             PROVE  ListFold(file \o Mail(m.from, m.body))
                      = [senders |-> tt, header |-> FALSE]
  BY DEF ListsAs
<1>1. m.from \in Args /\ m.body \in Seq(Lines)
  BY DEF Mails
<1>2. NoSeparatorIn(st) /\ ~Contains(m.body, Separator)
  BY OneMore
<1>3. ListFold(file) = [senders |-> ss, header |-> FALSE]
  BY <1>2 DEF ListsAs
<1>4. ListFold(file \o Mail(m.from, m.body))
        = [senders |-> Append(ss, m.from), header |-> FALSE]
  <2> HIDE DEF ss
  <2> QED
    BY <1>1, <1>2, <1>3, ListMail
<1>5. tt = Append(ss, m.from)
  <2>1. /\ more \in Seq(Mails) /\ Len(st) \in Nat /\ Len(more) = Len(st) + 1
        /\ DOMAIN st = 1..Len(st) /\ \A n \in 1..Len(st) : more[n] = st[n]
        /\ more[Len(st) + 1] = m
    BY OneMore
  <2>2. DOMAIN more = 1 .. Len(st)+1
    BY <2>1, LenProperties
  <2>3. /\ \A n \in 1..Len(st) : st[n].from \in Args
        /\ \A n \in 1 .. Len(st)+1 : more[n].from \in Args
    <3>1. \A n \in 1..Len(st) : st[n] \in Mails
      BY ElementOfSeq
    <3>2. \A n \in 1 .. Len(st)+1 : more[n] \in Mails
      BY <2>1, <3>1
    <3> QED
      BY <3>1, <3>2 DEF Mails
  <2>4. ss \in Seq(Args) /\ Len(ss) = Len(st)
    <3>1. ss = [n \in 1..Len(st) |-> st[n].from]
      BY <2>1
    <3>2. ss \in [1..Len(st) -> Args]
      BY <2>3, <3>1
    <3> QED
      BY <2>1, <3>2, LenProperties, SeqDef
  <2>5. tt \in Seq(Args) /\ Len(tt) = Len(st) + 1
    <3>1. tt = [n \in 1 .. Len(st)+1 |-> more[n].from]
      BY <2>2
    <3>2. tt \in [1 .. Len(st)+1 -> Args]
      BY <2>3, <3>1
    <3> QED
      BY <2>1, <3>2, LenProperties, SeqDef
  <2>6. /\ Append(ss, m.from) \in Seq(Args) /\ Len(Append(ss, m.from)) = Len(st) + 1
        /\ Append(ss, m.from)[Len(st) + 1] = m.from
        /\ \A n \in 1..Len(st) : Append(ss, m.from)[n] = ss[n]
    BY <1>1, <2>4, AppendProperties
  <2>7. ASSUME NEW n \in 1 .. Len(st)+1 PROVE tt[n] = Append(ss, m.from)[n]
    <3>1. n = Len(st) + 1 \/ n \in 1..Len(st)
      BY <2>1
    <3>2. tt[n] = more[n].from
      BY <2>2
    <3>3. n \in 1..Len(st) => ss[n] = st[n].from
      BY <2>1
    <3> QED
      BY <2>1, <2>6, <3>1, <3>2, <3>3
  <2> QED
    BY <2>5, <2>6, <2>7, SeqEqual
<1> QED
  BY <1>4, <1>5

\* GET_MAIL finds it, and the others as before.
LEMMA ReadsOneMore ==
  ASSUME NEW file \in Seq(Lines), NEW st \in Seq(Mails), NEW m \in Mails,
         ReadsAs(file, st)
  PROVE  ReadsAs(file \o Mail(m.from, m.body), Append(st, m))
<1> DEFINE more == Append(st, m)
           longer == file \o Mail(m.from, m.body)
<1> SUFFICES ASSUME NoSeparatorIn(more), NoHeaderIn(more), NEW id \in Nat \ {0}
             PROVE  IF id > Len(more) THEN GetFold(longer, id) = Passed(Len(more))
                    ELSE /\ GetFold(longer, id).done
                         /\ GetFold(longer, id).text
                              = Front(Mail(more[id].from, more[id].body))
  BY DEF ReadsAs
<1>1. m.from \in Args /\ m.body \in Seq(Lines)
  BY DEF Mails
<1>2. /\ Len(st) \in Nat /\ Len(more) = Len(st) + 1 /\ DOMAIN st = 1..Len(st)
      /\ \A n \in DOMAIN st : more[n] = st[n]
      /\ more[Len(st) + 1] = m
      /\ NoSeparatorIn(st) /\ ~Contains(m.body, Separator)
      /\ NoHeaderIn(st) /\ \A l \in ToSet(m.body) : ~IsFrom(l)
  BY OneMore
<1>3. IF id > Len(st) THEN GetFold(file, id) = Passed(Len(st))
      ELSE /\ GetFold(file, id).done
           /\ GetFold(file, id).text = Front(Mail(st[id].from, st[id].body))
  BY <1>2 DEF ReadsAs
<1> HIDE DEF more
<1>4. CASE id > Len(st) + 1
  <2>1. id > Len(st) /\ Len(st) + 1 # id
    BY <1>2, <1>4
  <2>2. GetFold(longer, id) = Passed(Len(st) + 1)
    BY <1>1, <1>2, <1>3, <2>1, GetPassed
  <2> QED
    BY <1>2, <1>4, <2>2
<1>5. CASE id = Len(st) + 1
  <2>1. id > Len(st) /\ ~(id > Len(st) + 1)
    BY <1>2, <1>5
  <2>2. GetFold(file, Len(st) + 1) = Passed(Len(st))
    BY <1>3, <1>5, <2>1
  <2>3. /\ GetFold(longer, Len(st) + 1).done
        /\ GetFold(longer, Len(st) + 1).text = Front(Mail(m.from, m.body))
    BY <1>1, <1>2, <2>2, GetMail
  <2> QED
    BY <1>2, <1>5, <2>1, <2>3
<1>6. CASE id <= Len(st)
  <2>1. ~(id > Len(st)) /\ ~(id > Len(st) + 1) /\ id \in DOMAIN st
    BY <1>2, <1>6
  <2>2. Mail(m.from, m.body) \in Seq(Lines)
    BY <1>1, Grows
  <2>3. GetFold(longer, id) = GetFold(file, id)
    BY <1>3, <2>1, <2>2, GetDone
  <2> QED
    BY <1>2, <1>3, <2>1, <2>3
<1> QED
  BY <1>2, <1>4, <1>5, <1>6

\* An empty file holds no mail.
LEMMA EmptyFile == ListsAs(<<>>, <<>>) /\ ReadsAs(<<>>, <<>>)
<1>1. DOMAIN <<>> = {} /\ Len(<<>>) = 0
  OBVIOUS
<1>2. [n \in {} |-> <<>>[n].from] = <<>>
  OBVIOUS
<1>3. ListsAs(<<>>, <<>>)
  BY <1>1, <1>2, ListFoldEmpty DEF ListsAs, ListStart
<1>4. \A id \in Nat \ {0} : id > 0 /\ GetFold(<<>>, id) = Passed(0)
  BY GetFoldEmpty DEF GetStart, Passed
<1> QED
  BY <1>1, <1>3, <1>4 DEF ReadsAs

-----------------------------------------------------------------------------
(* The type invariant, in parts *)

Busy == {"handle", "append"} \union WithAddress
ClientTypes ==
  /\ client \in [Session -> {"out", "prompt", "reply", "quit", "data",
                          "body", "sent", "eof", "gone"}]
  /\ replies \in [Session -> 0..2] /\ reset \in [Session -> BOOLEAN]
  /\ down \in BOOLEAN
ThreadTypes ==
  /\ toServer \in [Session -> Seq(Lines)]
  /\ thread \in [Session -> {"none", "recv", "handle", "append", "load", "store",
                          "gone"} \union WithAddress]
  /\ olds \in Pointer /\ loaded \in [Session -> Pointer]
  /\ line \in [Session -> Texted]
FieldTypes ==
  /\ is_data_mode \in [Session -> BOOLEAN]
  /\ sender \in [Session -> Args] /\ recipient \in [Session -> Args]
  /\ data_buffer \in [Session -> Seq(Lines)]
FileTypes ==
  mailbox \in [Address -> Seq(Lines)] /\ stored \in [Address -> Seq(Mails)]
Typed == ClientTypes /\ ThreadTypes /\ FieldTypes /\ FileTypes
Bounded == \A s \in Session : Alone(s) => Len(data_buffer[s]) <= DataLines

\* TypeOK is the types and the bound on data_buffer.
LEMMA TypeParts == TypeOK <=> Typed /\ Bounded
  BY DEF TypeOK, Typed, Bounded, ClientTypes, ThreadTypes, FieldTypes, FileTypes, Mails

\* What is not one address more is an argument too, and a verb needs none.
LEMMA ArgsKnown ==
  /\ NoAddress \in Args /\ Garbled \in Args /\ Address \subseteq Args
  /\ \A l \in Lines : l.arg \in Args /\ l.verb \in Verbs
  /\ \A v \in Verbs : Plain(v) \in Lines /\ \A a \in Args : Line(v, a) \in Lines
<1>1. NoAddress \in Args /\ Garbled \in Args /\ Address \subseteq Args
  BY DEF Args
<1>2. \A l \in Lines : l.arg \in Args /\ l.verb \in Verbs
  BY DEF Lines, Line
<1>3. \A v \in Verbs, a \in Args : Line(v, a) \in Lines
  BY DEF Lines
<1> QED
  BY <1>1, <1>2, <1>3 DEF Plain

\* A pointer to nothing, and no line.
LEMMA NothingTyped == NULL \in Pointer /\ NoLine \in Texted
<1>1. NULL \in Pointer
  BY DEF NULL, Pointer
<1>2. NoLine \in Texted
  BY DEF NoLine, Texted
<1> QED
  BY <1>1, <1>2

\* The initial values have their types.
LEMMA InitTypes == Init => Typed
<1> SUFFICES ASSUME Init PROVE Typed
  OBVIOUS
<1>1. ClientTypes
  <2>1. 0 \in 0..2
    OBVIOUS
  <2> QED
    BY <2>1, Zenon DEF Init, ClientTypes
<1>2. ThreadTypes
  BY NothingTyped DEF Init, ThreadTypes
<1>3. FieldTypes
  BY ArgsKnown DEF Init, FieldTypes
<1>4. FileTypes
  BY DEF Init, FileTypes
<1> QED
  BY <1>1, <1>2, <1>3, <1>4 DEF Typed

-----------------------------------------------------------------------------
(* strtok *)

\* Part of a sequence.
LEMMA SubSeqTyped ==
  ASSUME NEW S, NEW s \in Seq(S), NEW m \in Nat \ {0}, NEW n \in 0..Len(s)
  PROVE  SubSeq(s, m, n) \in Seq(S)
<1>1. Len(s) \in Nat
  BY LenProperties
<1>2. \A i \in m..n : s[i] \in S
  BY <1>1, ElementOfSeq
<1> QED
  BY <1>1, <1>2, SubSeqProperties

\* What may be read in a buffer is lines.
LEMMA TextsTyped ==
  ASSUME NEW ls \in Seq(Lines)
  PROVE  Rests(ls) \subseteq Seq(Lines) /\ Texts(ls) \subseteq Seq(Lines) \ {<<>>}
<1>1. Len(ls) \in Nat
  BY LenProperties
<1>2. Middle \in Seq(Lines)
  <2>1. "text" \in Verbs
    BY DEF Verbs
  <2>2. Line("text", Garbled) \in Lines
    BY <2>1, ArgsKnown
  <2> QED
    BY <2>2 DEF Middle
<1>3. ASSUME NEW ps \in SUBSET Seq(Lines) PROVE Starting(ps) \subseteq Seq(Lines)
  <2>1. ASSUME NEW p \in ps PROVE Middle \o p \in Seq(Lines)
    BY <1>2, ConcatProperties
  <2> QED
    BY <2>1 DEF Starting
<1>4. Parts(ls) \in SUBSET Seq(Lines)
  <2>1. ASSUME NEW m \in 1 .. Len(ls)+1, NEW n \in 0..Len(ls)
        PROVE  SubSeq(ls, m, n) \in Seq(Lines)
    <3>1. m \in Nat \ {0}
      BY <1>1
    <3> QED
      BY <3>1, SubSeqTyped
  <2>2. {SubSeq(ls, m, n) : m \in 1 .. Len(ls)+1, n \in 0..Len(ls)} \subseteq Seq(Lines)
    <3> SUFFICES ASSUME NEW x \in {SubSeq(ls, m, n) : m \in 1 .. Len(ls)+1,
                                                     n \in 0..Len(ls)}
                 PROVE  x \in Seq(Lines)
      OBVIOUS
    <3>1. \E m \in 1 .. Len(ls)+1, n \in 0..Len(ls) : x = SubSeq(ls, m, n)
      OBVIOUS
    <3> QED
      BY <2>1, <3>1
  <2> QED
    BY <2>2 DEF Parts
<1> DEFINE R == {SubSeq(ls, m, Len(ls)) : m \in 1 .. Len(ls)+1}
<1>5. R \in SUBSET Seq(Lines)
  <2>1. ASSUME NEW m \in 1 .. Len(ls)+1 PROVE SubSeq(ls, m, Len(ls)) \in Seq(Lines)
    <3>1. m \in Nat \ {0} /\ Len(ls) \in 0..Len(ls)
      BY <1>1
    <3> QED
      BY <3>1, SubSeqTyped
  <2> QED
    BY <2>1
<1>6. Texts(ls) = Starting(Parts(ls)) \ {<<>>} /\ Rests(ls) = Starting(R)
  BY DEF Texts, Rests
<1> HIDE DEF R
<1> QED
  BY <1>3, <1>4, <1>5, <1>6

\* A buffer overwritten: pointers point at lines, and lines are read.
LEMMA OverwriteTyped ==
  ASSUME NEW s \in Session, ThreadTypes, NEW ls \in Seq(Lines), ls # <<>>,
         Overwrite(s, ls)
  PROVE  /\ loaded' \in [Session -> Pointer] /\ line' \in [Session -> Texted]
         /\ line'[s] = [of |-> {s}, texts |-> {<<ls[1]>>}]
<1> DEFINE holders == {r \in Session : loaded[r].of = {s}}
<1>1. PICK left \in [holders -> Rests(ls)] :
        \E beyond \in SUBSET holders :
          loaded' = [r \in Session |->
            IF r \in holders \ beyond THEN [loaded[r] EXCEPT !.left = left[r]]
                                      ELSE loaded[r]]
  BY Zenon DEF Overwrite
<1>2. PICK beyond \in SUBSET holders :
        loaded' = [r \in Session |->
          IF r \in holders \ beyond THEN [loaded[r] EXCEPT !.left = left[r]]
                                    ELSE loaded[r]]
  BY <1>1
<1>3. line' = [r \in Session |->
        IF r = s THEN [of |-> {s}, texts |-> {SubSeq(ls, 1, 1)}]
        ELSE IF line[r].of = {s} THEN [line[r] EXCEPT !.texts = @ \union Texts(ls)]
        ELSE line[r]]
  BY Zenon DEF Overwrite
<1>4. Rests(ls) \subseteq Seq(Lines) /\ Texts(ls) \subseteq Seq(Lines) \ {<<>>}
  BY TextsTyped
<1>5. ASSUME NEW r \in Session PROVE loaded'[r] \in Pointer
  <2>1. loaded[r] \in Pointer
    BY DEF ThreadTypes
  <2>2. CASE r \in holders \ beyond
    <3>1. left[r] \in Seq(Lines)
      BY <1>4, <2>2
    <3>2. loaded'[r] = [loaded[r] EXCEPT !.left = left[r]]
      BY <1>2, <2>2
    <3> QED
      BY <2>1, <3>1, <3>2 DEF Pointer
  <2>3. CASE r \notin holders \ beyond
    BY <1>2, <2>1, <2>3
  <2> QED
    BY <2>2, <2>3
<1>6. SubSeq(ls, 1, 1) = <<ls[1]>> /\ <<ls[1]>> \in Seq(Lines) \ {<<>>}
  <2>1. Len(ls) \in Nat \ {0}
    BY EmptySeq, LenProperties
  <2>2. 1 \in 1..Len(ls) /\ ls[1] \in Lines
    BY <2>1, ElementOfSeq
  <2>3. SubSeq(ls, 1, 1) = <<ls[1]>>
    <3>1. 1 \in 1..Len(ls) /\ 1 \in 1..1 /\ SubSeq(ls, 1+1, 1) = <<>>
      BY <2>2, SubSeqEmpty
    <3>2. SubSeq(ls, 1, 1) = <<ls[1]>> \o SubSeq(ls, 1+1, 1)
      BY <3>1, SubSeqRecursiveFirst
    <3>3. <<ls[1]>> \in Seq(Lines)
      BY <2>2
    <3> QED
      BY <3>1, <3>2, <3>3, ConcatEmptySeq
  <2>4. <<ls[1]>> \in Seq(Lines) /\ <<ls[1]>> # <<>>
    BY <2>2
  <2> QED
    BY <2>3, <2>4
<1>7. line'[s] = [of |-> {s}, texts |-> {<<ls[1]>>}]
  BY <1>3, <1>6
<1>8. ASSUME NEW r \in Session PROVE line'[r] \in Texted
  <2>1. line[r] \in Texted
    BY DEF ThreadTypes
  <2>2. CASE r = s
    <3> DEFINE T == {<<ls[1]>>}
    <3>1. {s} \in SUBSET Session /\ T \in SUBSET (Seq(Lines) \ {<<>>})
      BY <1>6
    <3>2. line'[r] = [of |-> {s}, texts |-> T]
      BY <1>7, <2>2
    <3> HIDE DEF T
    <3> QED
      BY <3>1, <3>2 DEF Texted
  <2>3. CASE r # s /\ line[r].of = {s}
    <3>1. line'[r] = [line[r] EXCEPT !.texts = @ \union Texts(ls)]
      BY <1>3, <2>3
    <3>2. line[r].texts \union Texts(ls) \in SUBSET (Seq(Lines) \ {<<>>})
      BY <1>4, <2>1 DEF Texted
    <3>3. line'[r] = [of |-> line[r].of, texts |-> line[r].texts \union Texts(ls)]
      BY <2>1, <3>1 DEF Texted
    <3>4. line[r].of \in SUBSET Session
      BY <2>1 DEF Texted
    <3> QED
      BY <3>2, <3>3, <3>4 DEF Texted
  <2>4. CASE r # s /\ line[r].of # {s}
    <3>1. line'[r] = line[r]
      BY <1>3, <2>4
    <3> QED
      BY <2>1, <3>1
  <2> QED
    BY <2>2, <2>3, <2>4
<1>9. loaded' = [r \in Session |-> loaded'[r]] /\ line' = [r \in Session |-> line'[r]]
  BY <1>2, <1>3
<1>10. loaded' \in [Session -> Pointer]
  BY <1>5, <1>9
<1>11. line' \in [Session -> Texted]
  BY <1>8, <1>9
<1> QED
  BY <1>7, <1>10, <1>11

\* A line that is taken is the first of those to come, and is looked at alone.
LEMMA TakenTypes ==
  ASSUME NEW s \in Session, ThreadTypes, FirstLine(s) \/ NextLine(s)
  PROVE  /\ ThreadTypes' /\ UNCHANGED idle
         /\ thread[s] \in {"recv", "store"} /\ thread' = [thread EXCEPT ![s] = "handle"]
         /\ LET f == IF thread[s] = "recv" THEN toServer[s] ELSE loaded[s].left
            IN  f \in Seq(Lines) /\ f # <<>> /\ line'[s].texts = {<<Head(f)>>}
<1>1. CASE FirstLine(s)
  <2>1. /\ thread[s] = "recv" /\ thread' = [thread EXCEPT ![s] = "handle"]
        /\ UNCHANGED idle
    BY <1>1 DEF FirstLine, Thread
  <2>2. PICK n \in 1..Len(toServer[s]) :
          /\ olds' = [of |-> {s}, left |-> SubSeq(toServer[s], 2, n)]
          /\ toServer' = [toServer EXCEPT ![s] = SubSeq(@, n+1, Len(@))]
          /\ Overwrite(s, SubSeq(toServer[s], 1, n))
    BY <1>1 DEF FirstLine
  <2> DEFINE ts == toServer[s]
             ls == SubSeq(ts, 1, n)
  <2>3. ts \in Seq(Lines) /\ Len(ts) \in Nat /\ ts # <<>> /\ n \in 0..Len(ts)
    <3>1. ts \in Seq(Lines)
      BY DEF ThreadTypes
    <3> QED
      BY <2>2, <3>1, LenProperties, EmptySeq
  <2>4. olds' = [of |-> {s}, left |-> SubSeq(ts, 2, n)] /\ Overwrite(s, ls)
        /\ toServer' = [toServer EXCEPT ![s] = SubSeq(ts, n+1, Len(ts))]
    BY <2>2
  <2>5. toServer \in [Session -> Seq(Lines)]
    BY DEF ThreadTypes
  <2> HIDE DEF ts
  <2>6. /\ SubSeq(ts, 2, n) \in Seq(Lines) /\ SubSeq(ts, n+1, Len(ts)) \in Seq(Lines)
        /\ ls \in Seq(Lines)
    BY <2>2, <2>3, SubSeqTyped
  <2>7. ls # <<>> /\ ls[1] = Head(ts)
    <3>1. \A i \in 1..n : ts[i] \in Lines
      BY <2>3, ElementOfSeq
    <3>2. Len(ls) = n /\ ls[1] = ts[1]
      <4>1. 1 \in 1 .. n-1+1 /\ 1 <= n
        BY <2>2
      <4>2. /\ Len(ls) = IF 1 <= n THEN n - 1 + 1 ELSE 0
            /\ \A i \in 1 .. n-1+1 : ls[i] = ts[1 + i - 1]
        BY <2>2, <3>1, SubSeqProperties
      <4> QED
        BY <4>1, <4>2
    <3>3. ts[1] = Head(ts)
      BY <2>3, HeadTailProperties
    <3>4. Len(<<>>) = 0 /\ n # 0
      BY <2>2
    <3> QED
      BY <3>2, <3>3, <3>4
  <2> HIDE DEF ls
  <2>8. /\ loaded' \in [Session -> Pointer] /\ line' \in [Session -> Texted]
        /\ line'[s] = [of |-> {s}, texts |-> {<<ls[1]>>}]
    BY <2>4, <2>6, <2>7, OverwriteTyped
  <2>9. olds' \in Pointer
    BY <2>4, <2>6 DEF Pointer
  <2>10. toServer' \in [Session -> Seq(Lines)]
    BY <2>4, <2>5, <2>6
  <2>11. thread' \in [Session -> {"none", "recv", "handle", "append", "load", "store",
                          "gone"} \union WithAddress]
    BY <2>1 DEF ThreadTypes
  <2>12. ThreadTypes'
    BY <2>8, <2>9, <2>10, <2>11 DEF ThreadTypes
  <2>13. line'[s].texts = {<<Head(ts)>>}
    BY <2>7, <2>8
  <2> QED
    BY <2>1, <2>3, <2>12, <2>13 DEF ts
<1>2. CASE NextLine(s)
  <2>1. /\ thread[s] = "store" /\ thread' = [thread EXCEPT ![s] = "handle"]
        /\ loaded[s].left # <<>> /\ olds' = [loaded[s] EXCEPT !.left = Tail(@)]
        /\ loaded' = [loaded EXCEPT ![s] = NULL] /\ toServer' = toServer
        /\ line' = [line EXCEPT ![s] = [of    |-> loaded[s].of,
                                        texts |-> {<<Head(loaded[s].left)>>}]]
        /\ UNCHANGED idle
    BY <1>2 DEF NextLine, Thread
  <2>2. loaded[s] \in Pointer /\ loaded[s].left \in Seq(Lines)
    BY DEF ThreadTypes, Pointer
  <2> DEFINE x == Head(loaded[s].left)
  <2>3. x \in Lines /\ Tail(loaded[s].left) \in Seq(Lines)
    BY <2>1, <2>2, HeadTailProperties
  <2>4. olds' \in Pointer
    BY <2>1, <2>2, <2>3 DEF Pointer
  <2> DEFINE T == [of |-> loaded[s].of, texts |-> {<<x>>}]
  <2>5. line' = [line EXCEPT ![s] = T]
    BY <2>1
  <2>6. T \in Texted /\ T.texts = {<<x>>}
    <3> HIDE DEF x
    <3>1. <<x>> \in Seq(Lines) /\ <<x>> # <<>>
      BY <2>3
    <3>2. {<<x>>} \in SUBSET (Seq(Lines) \ {<<>>}) /\ loaded[s].of \in SUBSET Session
      BY <2>2, <3>1 DEF Pointer
    <3> QED
      BY <3>2 DEF Texted
  <2> HIDE DEF T, x
  <2>7. line' \in [Session -> Texted] /\ line'[s] = T
    BY <2>5, <2>6 DEF ThreadTypes
  <2>8. ThreadTypes'
    BY <2>1, <2>4, <2>7, NothingTyped DEF ThreadTypes
  <2> QED
    BY <2>1, <2>2, <2>6, <2>7, <2>8 DEF x
<1> QED
  BY <1>1, <1>2

\* What is seen of a text is a line.
LEMMA SeenTyped ==
  ASSUME NEW s \in Session, ThreadTypes
  PROVE  Seen(s) \subseteq Lines /\ Copied(s) \subseteq Args
<1>1. line[s].texts \subseteq Seq(Lines) \ {<<>>}
  BY DEF ThreadTypes, Texted
<1>2. ASSUME NEW t \in line[s].texts PROVE AsLine(t) \in Lines
  <2>1. t \in Seq(Lines) /\ t # <<>>
    BY <1>1
  <2>2. t[1] \in Lines
    BY <2>1, HeadTailProperties
  <2>3. Plain("text") \in Lines /\ Line(t[1].verb, Garbled) \in Lines
    <3>1. "text" \in Verbs
      BY DEF Verbs
    <3> QED
      BY <2>2, <3>1, ArgsKnown
  <2> QED
    BY <2>2, <2>3 DEF AsLine
<1>3. Seen(s) \subseteq Lines
  BY <1>2 DEF Seen
<1> QED
  BY <1>3, ArgsKnown DEF Copied

\* A text of one line is seen as that line.
LEMMA SeenAlone ==
  ASSUME NEW s \in Session, NEW x, line[s].texts = {<<x>>}
  PROVE  Seen(s) = {x}
<1>1. AsLine(<<x>>) = x
  BY DEF AsLine
<1> QED
  BY <1>1 DEF Seen

-----------------------------------------------------------------------------
(* A reply *)

\* The model counts two replies at most.
LEMMA SmallerOfTwo ==
  ASSUME NEW n \in Nat
  PROVE  Min({n, 2}) = IF n <= 2 THEN n ELSE 2
<1> DEFINE T == {n, 2}
           x == Min(T)
<1>1. \E z \in T : \A y \in T : z <= y
  <2>1. CASE n <= 2
    BY <2>1
  <2>2. CASE n > 2
    BY <2>2
  <2> QED
    BY <2>1, <2>2
<1>2. x \in T /\ \A y \in T : x <= y
  BY <1>1, Zenon DEF Min
<1> HIDE DEF x
<1>3. x = IF n <= 2 THEN n ELSE 2
  BY <1>2
<1> QED
  BY <1>3 DEF x

\* A reply is there for a client that is still there to read it.
LEMMA ReplyTypes ==
  ASSUME NEW s \in Session, ClientTypes, NEW n \in Nat \ {0}, Reply(s, n),
         UNCHANGED client
  PROVE  ClientTypes' /\ (client[s] # "gone" => replies'[s] > 0)
<1> DEFINE x == IF client[s] = "gone" THEN replies[s] ELSE Min({replies[s] + n, 2})
<1>1. /\ replies' = [replies EXCEPT ![s] = x]
      /\ reset' = [reset EXCEPT ![s] = client[s] = "gone"]
      /\ down' = down \/ down' = TRUE
  BY DEF Reply
<1>2. replies[s] \in 0..2
  BY DEF ClientTypes
<1>3. x \in 0..2 /\ (client[s] # "gone" => x > 0)
  <2>1. replies[s] + n \in Nat /\ replies[s] + n > 0
    BY <1>2
  <2> DEFINE p == replies[s] + n
  <2> HIDE DEF p
  <2>2. p \in Nat /\ p > 0 /\ Min({p, 2}) = IF p <= 2 THEN p ELSE 2
    BY <2>1, SmallerOfTwo DEF p
  <2> QED
    BY <1>2, <2>2 DEF p
<1> HIDE DEF x
<1> QED
  BY <1>1, <1>3 DEF ClientTypes

\* The number of replies to LIST is a number.
LEMMA ListFoldTyped ==
  ASSUME NEW file \in Seq(Lines)
  PROVE  Listed(file) \in Seq(Args)
<1> DEFINE R == [senders : Seq(Args), header : BOOLEAN]
           G == {k \in Nat : \A f \in Seq(Lines) : Len(f) = k => ListFold(f) \in R}
<1>1. 0 \in G
  <2>1. \A f \in Seq(Lines) : Len(f) = 0 => f = <<>>
    BY EmptySeq
  <2>2. ListFold(<<>>) \in R
    <3>1. [senders |-> <<>>, header |-> FALSE] \in R
      BY EmptySeq
    <3> QED
      BY <3>1, ListFoldEmpty DEF ListStart
  <2> HIDE DEF R
  <2> QED
    BY <2>1, <2>2
<1>2. ASSUME NEW k \in Nat, k \in G PROVE k + 1 \in G
  <2> SUFFICES ASSUME NEW f \in Seq(Lines), Len(f) = k + 1
               PROVE  ListFold(f) \in R
    OBVIOUS
  <2>1. f # <<>>
    BY EmptySeq
  <2>2. \E g \in Seq(Lines), l \in Lines : f = Append(g, l)
    BY <2>1, SequenceEmptyOrAppend
  <2>3. PICK g \in Seq(Lines) : \E l \in Lines : f = Append(g, l)
    BY <2>2
  <2>4. PICK l \in Lines : f = Append(g, l)
    BY <2>3
  <2>5. Len(g) \in Nat /\ Len(f) = Len(g) + 1
    BY <2>4, AppendProperties, LenProperties
  <2>6. Len(g) = k
    BY <2>5
  <2>7. ListFold(g) \in R
    BY <1>2, <2>6
  <2>8. ListFold(f) = ListLine(ListFold(g), l)
    BY <2>4, ListFoldAppend
  <2>9. l.arg \in Args
    BY ArgsKnown
  <2> DEFINE r == ListFold(g)
  <2> HIDE DEF r
  <2>10. r \in R
    BY <2>7 DEF r
  <2>11. r.senders \in Seq(Args) /\ Append(r.senders, l.arg) \in Seq(Args)
    BY <2>9, <2>10
  <2>12. ListLine(r, l) \in R
    BY <2>10, <2>11 DEF ListLine
  <2> QED
    BY <2>8, <2>12 DEF r
<1>3. Len(file) \in Nat /\ Len(file) \in G
  BY <1>1, <1>2, Induction, LenProperties
<1>4. ListFold(file) \in R
  BY <1>3
<1> QED
  BY <1>4 DEF Listed, ListFold

-----------------------------------------------------------------------------
(* The inductive invariant *)

Faithful ==
  \A a \in Address : ListsAs(mailbox[a], stored[a]) /\ ReadsAs(mailbox[a], stored[a])

\* A line for which there is room is a body's, and a line with an address is none.
Modes ==
  \A s \in Session :
    /\ thread[s] \in WithAddress => ~is_data_mode[s]
    /\ thread[s] = "append" => is_data_mode[s]

IInv == Typed /\ PartiesKnown /\ Modes /\ Faithful

\* The server starts with no mail and no session in data mode.
LEMMA InitInv == Init => IInv
<1> SUFFICES ASSUME Init PROVE IInv
  OBVIOUS
<1>1. PartiesKnown
  BY DEF Init, PartiesKnown
<1>2. Faithful
  BY EmptyFile DEF Init, Faithful
<1>3. Modes
  BY DEF Init, Modes, WithAddress
<1> QED
  BY <1>1, <1>2, <1>3, InitTypes DEF IInv

\* The modes are kept by a thread that goes on to another line, whatever that
\* does to the mode of its own session.
LEMMA ModesKept ==
  ASSUME IInv, NEW s \in Session,
         thread' = thread
           \/ \E at \in {"recv", "handle", "load", "store", "gone"} :
                thread' = [thread EXCEPT ![s] = at],
         UNCHANGED is_data_mode
           \/ (thread' # thread /\ \E m : is_data_mode' = [is_data_mode EXCEPT ![s] = m])
  PROVE  Modes'
<1>1. /\ thread \in [Session -> {"none", "recv", "handle", "append", "load", "store",
                             "gone"} \union WithAddress]
      /\ is_data_mode \in [Session -> BOOLEAN] /\ Modes
  BY DEF IInv, Typed, ThreadTypes, FieldTypes
<1>2. CASE thread' = thread
  BY <1>1, <1>2 DEF Modes
<1>3. ASSUME NEW at \in {"recv", "handle", "load", "store", "gone"},
             thread' = [thread EXCEPT ![s] = at]
      PROVE  Modes'
  <2>1. \A r \in Session \ {s} :
          thread'[r] = thread[r] /\ is_data_mode'[r] = is_data_mode[r]
    BY <1>1, <1>3
  <2>2. thread'[s] \notin WithAddress /\ thread'[s] # "append"
    BY <1>1, <1>3 DEF WithAddress
  <2> QED
    BY <1>1, <2>1, <2>2 DEF Modes
<1> QED
  BY <1>2, <1>3

\* Steps of a client change neither the fields of a session nor a file.
LEMMA ClientStep ==
  ASSUME NEW s \in Session, IInv, User(s) \/ ReadReply(s) \/ ServerLost(s)
  PROVE  ClientTypes' /\ ThreadTypes' /\ Modes' /\ UNCHANGED <<session, files>>
<1>1. ClientTypes /\ ThreadTypes
  BY DEF IInv, Typed
<1>2. client' \in [Session -> {"out", "prompt", "reply", "quit", "data",
                          "body", "sent", "eof", "gone"}]
  <2>1. CASE User(s)
    <3>1. \/ UNCHANGED client
          \/ \E c \in {"prompt", "reply", "quit", "data", "sent", "eof", "gone"} :
               client' = [client EXCEPT ![s] = c]
      <4>1. CASE Connect(s) \/ EndOfInput(s) \/ Kill(s) \/ \E ls \in Bodies : Body(s, ls)
        BY <4>1 DEF Connect, EndOfInput, Kill, Body, Client
      <4>2. ASSUME NEW n \in DOMAIN Script[s], Command(s, n)
            PROVE  client' = [client EXCEPT ![s] = Waits(Script[s][n])]
                   /\ Waits(Script[s][n]) \in {"reply", "quit", "data"}
        BY <4>2 DEF Command, Client, Waits
      <4> QED
        BY <2>1, <4>1, <4>2 DEF User
    <3> QED
      BY <1>1, <3>1 DEF ClientTypes
  <2>2. CASE ReadReply(s)
    BY <1>1, <2>2 DEF ReadReply, Client, ClientTypes
  <2>3. CASE ServerLost(s)
    BY <1>1, <2>3 DEF ServerLost, Client, ClientTypes
  <2> QED
    BY <2>1, <2>2, <2>3
<1>3. replies' \in [Session -> 0..2]
  <2>1. CASE ReadReply(s)
    <3>1. PICK n \in {0, replies[s] - 1, 2} :
            n <= replies[s] /\ replies' = [replies EXCEPT ![s] = n]
      BY <2>1 DEF ReadReply
    <3>2. replies[s] \in 0..2 /\ replies[s] > 0
      BY <1>1, <2>1 DEF ClientTypes, ReadReply
    <3>3. n \in 0..2
      BY <3>1, <3>2
    <3> QED
      BY <1>1, <3>1, <3>3 DEF ClientTypes
  <2>2. CASE User(s) \/ ServerLost(s)
    <3>1. replies' = replies \/ Ends(s)
      BY <2>2 DEF User, Connect, EndOfInput, Kill, Command, Body, ServerLost
    <3> QED
      BY <1>1, <3>1 DEF ClientTypes, Ends
  <2> QED
    BY <2>1, <2>2
<1>4. UNCHANGED <<session, files, reset, down, olds, loaded, line>>
      /\ (thread' = thread \/ thread' = [thread EXCEPT ![s] = "recv"])
  <2>1. CASE User(s)
    BY <2>1 DEF User, Connect, EndOfInput, Kill, Command, Body, serverVars, strtok
  <2>2. CASE ReadReply(s) \/ ServerLost(s)
    BY <2>2 DEF ReadReply, ServerLost, serverVars, strtok
  <2> QED
    BY <2>1, <2>2
<1>5. toServer' \in [Session -> Seq(Lines)]
  <2>1. CASE UNCHANGED toServer
    BY <1>1, <2>1 DEF ThreadTypes
  <2>2. ASSUME NEW ls \in Seq(Lines), Send(s, ls) PROVE toServer' \in [Session -> Seq(Lines)]
    <3>1. toServer[s] \in Seq(Lines)
      BY <1>1 DEF ThreadTypes
    <3>2. toServer[s] \o ls \in Seq(Lines)
      BY <3>1, ConcatProperties
    <3> QED
      BY <1>1, <2>2, <3>2 DEF Send, ThreadTypes
  <2>3. ASSUME NEW n \in DOMAIN Script[s], Command(s, n)
        PROVE  toServer' \in [Session -> Seq(Lines)]
    <3>1. Script[s] \in Seq(Lines)
      BY MySmtpAssumption
    <3>2. Script[s][n] \in Lines
      BY <3>1, LenProperties, ElementOfSeq
    <3>3. <<Script[s][n]>> \in Seq(Lines)
      BY <3>2
    <3> QED
      BY <2>2, <2>3, <3>3 DEF Command
  <2>4. ASSUME NEW ls \in Bodies, Body(s, ls)
        PROVE  toServer' \in [Session -> Seq(Lines)]
    <3>1. ls \in Seq(Lines) /\ Dot \in Lines
      BY MySmtpAssumption, LinesKnown
    <3>2. Append(ls, Dot) \in Seq(Lines)
      BY <3>1, AppendProperties
    <3> QED
      BY <2>2, <2>4, <3>2 DEF Body
  <2>5. CASE Connect(s) \/ EndOfInput(s) \/ Kill(s) \/ ReadReply(s) \/ ServerLost(s)
    BY <2>1, <2>5 DEF Connect, EndOfInput, Kill, ReadReply, ServerLost
  <2> QED
    BY <2>3, <2>4, <2>5 DEF User
<1>6. ClientTypes'
  BY <1>1, <1>2, <1>3, <1>4 DEF ClientTypes
<1>7. ThreadTypes'
  BY <1>1, <1>4, <1>5 DEF ThreadTypes
<1>8. Modes'
  BY <1>4, ModesKept DEF session
<1> QED
  BY <1>4, <1>6, <1>7, <1>8

\* Neither do the thread's steps that take a line, or find none, or look at one.
LEMMA ThreadStep ==
  ASSUME NEW s \in Session, IInv,
         \/ FirstLine(s) \/ Disconnect(s) \/ Load(s) \/ NextLine(s) \/ LastLine(s)
         \/ validate_email(s) \/ Measure(s)
  PROVE  ClientTypes' /\ ThreadTypes' /\ Modes' /\ UNCHANGED <<session, files>>
<1>1. ClientTypes /\ ThreadTypes /\ Modes
  BY DEF IInv, Typed
<1> DEFINE At == {"none", "recv", "handle", "append", "load", "store", "gone"}
                   \union WithAddress
<1>2. CASE FirstLine(s) \/ NextLine(s)
  <2>1. /\ ThreadTypes' /\ UNCHANGED idle
        /\ thread' = [thread EXCEPT ![s] = "handle"]
    BY <1>1, <1>2, TakenTypes
  <2>2. ClientTypes'
    BY <1>1, <2>1 DEF ClientTypes, idle, clientVars
  <2>3. Modes'
    BY <2>1, ModesKept DEF idle, session
  <2> QED
    BY <2>1, <2>2, <2>3 DEF idle
<1>3. CASE Disconnect(s) \/ Load(s) \/ LastLine(s)
  <2>1. /\ UNCHANGED idle /\ UNCHANGED <<toServer, line>>
        /\ \E at \in {"gone", "store", "recv"} : thread' = [thread EXCEPT ![s] = at]
        /\ olds' \in Pointer /\ loaded' \in [Session -> Pointer]
    BY <1>1, <1>3, NothingTyped
       DEF Disconnect, Load, LastLine, Thread, strtok, ThreadTypes
  <2>2. ClientTypes'
    BY <1>1, <2>1 DEF ClientTypes, idle, clientVars
  <2>3. Modes'
    BY <2>1, ModesKept DEF idle, session
  <2>4. ThreadTypes'
    BY <1>1, <2>1 DEF ThreadTypes
  <2> QED
    BY <2>1, <2>2, <2>3, <2>4 DEF idle
<1>4. CASE validate_email(s) \/ Measure(s)
  <2>1. PICK at \in {"append"} \union WithAddress :
          /\ LooksOn(s, at)
          /\ at \in WithAddress => ~is_data_mode[s]
          /\ at = "append" => is_data_mode[s]
    BY <1>4 DEF validate_email, Verb, Measure, InData, WithAddress
  <2>2. thread' = [thread EXCEPT ![s] = at] /\ UNCHANGED <<idle, toServer, strtok, line>>
    BY <2>1 DEF LooksOn, Thread
  <2>3. ClientTypes'
    BY <1>1, <2>2 DEF ClientTypes, idle, clientVars
  <2>4. ThreadTypes'
    BY <1>1, <2>1, <2>2 DEF ThreadTypes, strtok
  <2>5. Modes'
    BY <1>1, <2>1, <2>2 DEF Modes, ThreadTypes, idle, session
  <2> QED
    BY <2>2, <2>3, <2>4, <2>5 DEF idle
<1> QED
  BY <1>2, <1>3, <1>4

\* What has no part in a step stays as it was.
LEMMA Kept ==
  ASSUME IInv, ClientTypes', ThreadTypes', Modes', UNCHANGED <<session, files>>
  PROVE  IInv'
<1>1. FieldTypes' /\ FileTypes'
  BY DEF IInv, Typed, FieldTypes, FileTypes, session, party, files
<1>2. PartiesKnown' /\ Faithful'
  BY DEF IInv, PartiesKnown, Faithful, session, party, files
<1> QED
  BY <1>1, <1>2 DEF IInv, Typed

\* A line handled: what is left to show for each.
LEMMA HandledTypes ==
  ASSUME NEW s \in Session, IInv, NEW at, Handled(s, at),
         \/ \E n \in Nat \ {0} : Reply(s, n)
         \/ UNCHANGED <<replies, reset>> /\ down' \in BOOLEAN,
         UNCHANGED is_data_mode
           \/ \E m : is_data_mode' = [is_data_mode EXCEPT ![s] = m]
  PROVE  ClientTypes' /\ ThreadTypes' /\ Modes'
<1>1. ClientTypes /\ ThreadTypes
  BY DEF IInv, Typed
<1>2. /\ UNCHANGED <<clientVars, toServer, strtok>> /\ thread[s] = at
      /\ thread' = [thread EXCEPT ![s] = "load"] /\ line' = [line EXCEPT ![s] = NoLine]
  BY DEF Handled, Thread
<1>3. ThreadTypes'
  BY <1>1, <1>2, NothingTyped DEF ThreadTypes, strtok
<1>4. Modes'
  <2>1. CASE thread' # thread
    BY <1>2, <2>1, ModesKept
  <2>2. CASE thread' = thread
    <3>1. thread[s] = "load" /\ \A r \in Session : thread'[r] = thread[r]
      BY <1>1, <1>2, <2>2 DEF ThreadTypes
    <3>2. \A r \in Session \ {s} : is_data_mode'[r] = is_data_mode[r]
      BY DEF IInv, Typed, FieldTypes
    <3> QED
      BY <3>1, <3>2 DEF Modes, IInv, WithAddress
  <2> QED
    BY <2>1, <2>2
<1>5. ClientTypes'
  <2>1. CASE UNCHANGED <<replies, reset>> /\ down' \in BOOLEAN
    BY <1>1, <1>2, <2>1 DEF ClientTypes, clientVars
  <2>2. CASE \E n \in Nat \ {0} : Reply(s, n)
    BY <1>1, <1>2, <2>2, ReplyTypes DEF clientVars
  <2> QED
    BY <2>1, <2>2
<1> QED
  BY <1>3, <1>4, <1>5

\* LIST sends one reply for each mail it lists and one more.
LEMMA ListReplies ==
  ASSUME NEW s \in Session, FileTypes, handle_list(s)
  PROVE  \E n \in Nat \ {0} : Reply(s, n)
<1>1. PICK a \in Copied(s) :
        Reply(s, IF a \in Address THEN 1 + Len(Listed(mailbox[a])) ELSE 1)
  BY DEF handle_list
<1>2. a \in Address => Len(Listed(mailbox[a])) \in Nat
  <2> SUFFICES ASSUME a \in Address PROVE Len(Listed(mailbox[a])) \in Nat
    OBVIOUS
  <2>1. mailbox[a] \in Seq(Lines)
    BY DEF FileTypes
  <2> QED
    BY <2>1, ListFoldTyped, LenProperties
<1> DEFINE n == IF a \in Address THEN 1 + Len(Listed(mailbox[a])) ELSE 1
<1>3. n \in Nat \ {0}
  BY <1>2
<1>4. Reply(s, n)
  BY <1>1
<1> QED
  BY <1>3, <1>4, Zenon

\* A line that is answered, and changes nothing of a session or file.
LEMMA AnswerStep ==
  ASSUME NEW s \in Session, IInv, Answer(s) \/ handle_list(s)
  PROVE  IInv'
<1>1. UNCHANGED <<session, files>> /\ \E at : Handled(s, at)
  BY DEF Answer, handle_list
<1>2. \E n \in Nat \ {0} : Reply(s, n)
  <2>1. CASE Answer(s)
    <3>1. Reply(s, 1)
      BY <2>1 DEF Answer
    <3> QED
      BY <3>1
  <2>2. CASE handle_list(s)
    BY <2>2, ListReplies DEF IInv, Typed
  <2> QED
    BY <2>1, <2>2
<1>3. ClientTypes' /\ ThreadTypes' /\ Modes'
  BY <1>1, <1>2, HandledTypes DEF session
<1> QED
  BY <1>1, <1>3, Kept

\* MAIL FROM and RCPT TO set their field outside data mode, whatever is there to
\* be copied when they do.
LEMMA PartiesGiven ==
  ASSUME NEW s \in Session, IInv, handle_mail_from(s) \/ handle_rcpt_to(s)
  PROVE  IInv'
<1>1. FieldTypes /\ ThreadTypes /\ FileTypes /\ PartiesKnown /\ Faithful /\ Modes
  BY DEF IInv, Typed
<1>2. /\ Reply(s, 1) /\ thread[s] \in WithAddress /\ \E at : Handled(s, at)
      /\ UNCHANGED <<is_data_mode, data_buffer, files>>
      /\ \E a \in Copied(s) :
           \/ sender' = [sender EXCEPT ![s] = a] /\ UNCHANGED recipient
           \/ recipient' = [recipient EXCEPT ![s] = a] /\ UNCHANGED sender
  BY DEF handle_mail_from, handle_rcpt_to, Handled, Thread, WithAddress
<1>3. ~is_data_mode[s]
  BY <1>1, <1>2 DEF Modes
<1>4. PICK a \in Args :
        \/ sender' = [sender EXCEPT ![s] = a] /\ UNCHANGED recipient
        \/ recipient' = [recipient EXCEPT ![s] = a] /\ UNCHANGED sender
  BY <1>1, <1>2, SeenTyped
<1>5. FieldTypes'
  BY <1>1, <1>2, <1>4 DEF FieldTypes
<1>6. PartiesKnown'
  BY <1>1, <1>2, <1>3, <1>4 DEF FieldTypes, PartiesKnown
<1>7. FileTypes' /\ Faithful'
  BY <1>1, <1>2 DEF FileTypes, Faithful, files
<1>8. \E n \in Nat \ {0} : Reply(s, n)
  BY <1>2
<1>9. ClientTypes' /\ ThreadTypes' /\ Modes'
  BY <1>2, <1>8, HandledTypes
<1> QED
  BY <1>5, <1>6, <1>7, <1>9 DEF IInv, Typed

\* DATA is the one way into data mode, and looks at both parties.
LEMMA DataNeedsParties ==
  ASSUME NEW s \in Session, IInv, handle_data(s)
  PROVE  IInv'
<1>1. FieldTypes /\ FileTypes /\ PartiesKnown /\ Faithful
  BY DEF IInv, Typed
<1>2. Handled(s, "handle") /\ Reply(s, 1) /\ UNCHANGED <<party, files>>
  BY DEF handle_data
<1>3. FieldTypes' /\ PartiesKnown'
      /\ (UNCHANGED is_data_mode
            \/ \E m : is_data_mode' = [is_data_mode EXCEPT ![s] = m])
  <2>1. CASE PartiesSet(s)
    <3>1. /\ is_data_mode' = [is_data_mode EXCEPT ![s] = TRUE]
          /\ data_buffer' = [data_buffer EXCEPT ![s] = <<>>]
      BY <2>1 DEF handle_data
    <3>2. PartiesKnown'
      BY <1>1, <1>2, <2>1, <3>1 DEF PartiesSet, FieldTypes, PartiesKnown, party
    <3>3. <<>> \in Seq(Lines)
      OBVIOUS
    <3>4. FieldTypes'
      BY <1>1, <1>2, <3>1, <3>3 DEF FieldTypes, party
    <3> QED
      BY <3>1, <3>2, <3>4
  <2>2. CASE ~PartiesSet(s)
    BY <1>1, <1>2, <2>2 DEF handle_data, party, FieldTypes, PartiesKnown
  <2> QED
    BY <2>1, <2>2
<1>4. FileTypes' /\ Faithful'
  BY <1>1, <1>2 DEF FileTypes, Faithful, files
<1>5. \E n \in Nat \ {0} : Reply(s, n)
  BY <1>2
<1>6. ClientTypes' /\ ThreadTypes' /\ Modes'
  BY <1>2, <1>3, <1>5, HandledTypes
<1> QED
  BY <1>3, <1>4, <1>6 DEF IInv, Typed

\* A line of a body leaves the parties and the files alone.
LEMMA BodyLine ==
  ASSUME NEW s \in Session, IInv, Content(s) \/ TooLarge(s)
  PROVE  IInv'
<1>1. FieldTypes /\ ThreadTypes /\ FileTypes /\ PartiesKnown /\ Faithful
  BY DEF IInv, Typed
<1>2. UNCHANGED <<party, files>>
  BY DEF Content, TooLarge
<1>3. FileTypes' /\ Faithful'
  BY <1>1, <1>2 DEF FileTypes, Faithful, files
<1>4. CASE Content(s)
  <2>1. /\ \E t \in line[s].texts :
             /\ data_buffer' = [data_buffer EXCEPT ![s] = @ \o t]
             /\ down' \in {FALSE, ~Room(s, t)}
        /\ UNCHANGED <<is_data_mode, replies, reset>> /\ Handled(s, "append")
    BY <1>4 DEF Content
  <2>2. PICK t \in line[s].texts :
          /\ data_buffer' = [data_buffer EXCEPT ![s] = @ \o t]
          /\ down' \in {FALSE, ~Room(s, t)}
    BY <2>1
  <2>3. t \in Seq(Lines) /\ data_buffer[s] \in Seq(Lines)
    BY <1>1 DEF FieldTypes, ThreadTypes, Texted
  <2> DEFINE x == data_buffer[s] \o t
  <2>4. data_buffer' = [data_buffer EXCEPT ![s] = x] /\ x \in Seq(Lines)
    BY <2>2, <2>3, ConcatProperties
  <2> HIDE DEF x
  <2>5. FieldTypes'
    BY <1>1, <1>2, <2>1, <2>4 DEF FieldTypes, party
  <2>6. PartiesKnown'
    BY <1>1, <1>2, <2>1 DEF PartiesKnown, party
  <2>7. down' \in BOOLEAN
    BY <2>2
  <2>8. ClientTypes' /\ ThreadTypes' /\ Modes'
    BY <2>1, <2>7, HandledTypes
  <2> QED
    BY <1>3, <2>5, <2>6, <2>8 DEF IInv, Typed
<1>5. CASE TooLarge(s)
  <2>1. /\ is_data_mode' = [is_data_mode EXCEPT ![s] = FALSE]
        /\ UNCHANGED data_buffer /\ Handled(s, "handle") /\ \E n \in Nat \ {0} : Reply(s, n)
    BY <1>5 DEF TooLarge
  <2>2. FieldTypes'
    BY <1>1, <1>2, <2>1 DEF FieldTypes, party
  <2>3. PartiesKnown'
    BY <1>1, <1>2, <2>1 DEF FieldTypes, PartiesKnown, party
  <2>4. ClientTypes' /\ ThreadTypes' /\ Modes'
    BY <2>1, HandledTypes
  <2> QED
    BY <1>3, <2>2, <2>3, <2>4 DEF IInv, Typed
<1> QED
  BY <1>4, <1>5

\* The end of a body stores one mail, from and to somebody, or to a garbled name.
LEMMA MailStored ==
  ASSUME NEW s \in Session, IInv, EndOfData(s)
  PROVE  IInv'
<1>1. FieldTypes /\ FileTypes /\ PartiesKnown /\ Faithful
  BY DEF IInv, Typed
<1>2. /\ Handled(s, "handle") /\ UNCHANGED <<party, data_buffer>> /\ is_data_mode[s]
      /\ is_data_mode' = [is_data_mode EXCEPT ![s] = FALSE]
      /\ save_email(s) /\ \E n \in Nat \ {0} : Reply(s, n)
  BY DEF EndOfData, InData
<1>3. FieldTypes' /\ PartiesKnown'
  BY <1>1, <1>2 DEF FieldTypes, PartiesKnown, party
<1>4. ClientTypes' /\ ThreadTypes' /\ Modes'
  BY <1>2, HandledTypes
<1> DEFINE a == recipient[s]
           m == [from |-> sender[s], body |-> data_buffer[s]]
<1>5. FileTypes' /\ Faithful'
  <2>1. CASE a = Garbled
    BY <1>1, <1>2, <2>1 DEF save_email, FileTypes, Faithful, files
  <2>2. CASE a # Garbled
    <3>1. a \in Address /\ m \in Mails
      BY <1>1, <1>2, <2>2 DEF PartiesKnown, FieldTypes, Mails, Args
    <3>2. /\ mailbox' = [mailbox EXCEPT ![a] = @ \o Mail(m.from, m.body)]
          /\ stored' = [stored EXCEPT ![a] = Append(@, m)]
      BY <1>2, <2>2 DEF save_email
    <3> HIDE DEF a, m
    <3>3. mailbox[a] \in Seq(Lines) /\ stored[a] \in Seq(Mails)
      BY <1>1, <3>1 DEF FileTypes
    <3>4. Mail(m.from, m.body) \in Seq(Lines)
      BY <3>1, Grows DEF Mails
    <3>5. mailbox[a] \o Mail(m.from, m.body) \in Seq(Lines)
      BY <3>3, <3>4, ConcatProperties
    <3>6. Append(stored[a], m) \in Seq(Mails)
      BY <3>1, <3>3, AppendProperties
    <3>7. FileTypes'
      BY <1>1, <3>1, <3>2, <3>5, <3>6 DEF FileTypes
    <3>8. ASSUME NEW b \in Address
          PROVE  ListsAs(mailbox'[b], stored'[b]) /\ ReadsAs(mailbox'[b], stored'[b])
      <4>1. ListsAs(mailbox[b], stored[b]) /\ ReadsAs(mailbox[b], stored[b])
        BY <1>1 DEF Faithful
      <4>2. CASE b # a
        <5>1. mailbox'[b] = mailbox[b] /\ stored'[b] = stored[b]
          BY <1>1, <3>2, <4>2 DEF FileTypes
        <5> QED
          BY <4>1, <5>1
      <4>3. CASE b = a
        <5>1. /\ mailbox'[a] = mailbox[a] \o Mail(m.from, m.body)
              /\ stored'[a] = Append(stored[a], m)
          BY <1>1, <3>1, <3>2 DEF FileTypes
        <5>2. ListsAs(mailbox[a], stored[a]) /\ ReadsAs(mailbox[a], stored[a])
          BY <4>1, <4>3
        <5>3. /\ ListsAs(mailbox[a] \o Mail(m.from, m.body), Append(stored[a], m))
              /\ ReadsAs(mailbox[a] \o Mail(m.from, m.body), Append(stored[a], m))
          BY <3>1, <3>3, <5>2, ListsOneMore, ReadsOneMore
        <5> QED
          BY <4>3, <5>1, <5>3
      <4> QED
        BY <4>2, <4>3
    <3>9. Faithful'
      BY <3>8 DEF Faithful
    <3> QED
      BY <3>7, <3>9
  <2> QED
    BY <2>1, <2>2
<1> QED
  BY <1>3, <1>4, <1>5 DEF IInv, Typed

\* The invariant is kept by every step.
LEMMA StepInv == IInv /\ [Next]_vars => IInv'
<1> SUFFICES ASSUME IInv, [Next]_vars PROVE IInv'
  OBVIOUS
<1>1. CASE UNCHANGED vars
  <2>1. ClientTypes' /\ ThreadTypes' /\ Modes'
    BY <1>1 DEF vars, clientVars, strtok, session, IInv, Typed, ClientTypes,
                ThreadTypes, Modes
  <2> QED
    BY <1>1, <2>1, Kept DEF vars
<1>2. ASSUME NEW s \in Session, User(s) \/ ReadReply(s) \/ ServerLost(s)
      PROVE  IInv'
  BY <1>2, ClientStep, Kept
<1>3. ASSUME NEW s \in Session, handle_client(s) PROVE IInv'
  <2>1. CASE FirstLine(s) \/ Disconnect(s) \/ Load(s) \/ NextLine(s) \/ LastLine(s)
             \/ validate_email(s) \/ Measure(s)
    BY <2>1, ThreadStep, Kept
  <2>2. CASE Answer(s) \/ handle_list(s)
    BY <2>2, AnswerStep
  <2>3. CASE handle_mail_from(s) \/ handle_rcpt_to(s)
    BY <2>3, PartiesGiven
  <2>4. CASE handle_data(s)
    BY <2>4, DataNeedsParties
  <2>5. CASE Content(s) \/ TooLarge(s)
    BY <2>5, BodyLine
  <2>6. CASE EndOfData(s)
    BY <2>6, MailStored
  <2> QED
    BY <1>3, <2>1, <2>2, <2>3, <2>4, <2>5, <2>6
       DEF handle_client, process_command, handle_data_content
<1> QED
  BY <1>1, <1>2, <1>3 DEF Next

\* So it holds for ever.
LEMMA Invariant == Spec => []IInv
  BY InitInv, StepInv, PTL DEF Spec

-----------------------------------------------------------------------------
(* A client alone and its thread: what the server has still to do *)

\* The lines sent by a client that its thread has not handled: the one in hand,
\* those that are left in its buffer, and those on their way.
Hand(s) == IF thread[s] \in Busy THEN CHOOSE t \in line[s].texts : TRUE ELSE <<>>
Left(s) ==
  IF thread[s] = "store" THEN loaded[s].left
  ELSE IF thread[s] \in Busy \union {"load"} THEN olds.left ELSE <<>>
Pending(s) == (Hand(s) \o Left(s)) \o toServer[s]

\* Whatever is answered, the first n lines leave the session out of data mode:
\* a "." follows each line that may bring it there.
Settled(L, n, mode) ==
  /\ mode => \E j \in 1..n : L[j] = Dot
  /\ \A i \in 1..n : L[i].verb = "DATA" => \E j \in 1..n : i < j /\ L[j] = Dot

\* Nobody knows a client that has not connected; a thread goes after its client.
Engaged(s) ==
  /\ client[s] = "out" =>
       thread[s] = "none" /\ toServer[s] = <<>> /\ ~is_data_mode[s]
  /\ thread[s] = "none" => client[s] = "out"
  /\ thread[s] = "gone" => client[s] = "gone"

\* The line in the hand of a thread whose client is alone is one line, whoever
\* looks at it again, and fits where it was found to fit.
InHand(s) ==
  /\ Len(data_buffer[s]) <= DataLines
  /\ thread[s] \in Busy =>
       \E x \in Lines :
         /\ line[s].texts = {<<x>>}
         /\ thread[s] = "append" => x # Dot /\ Len(data_buffer[s]) < DataLines

\* What is under way for a client alone on the server, by where the client is.
UnderWay(s) ==
  LET L == Pending(s)
  IN  /\ down => client[s] = "gone"
      /\ client[s] \in {"prompt", "reply", "quit"} =>
           Settled(L, Len(L), is_data_mode[s])
      /\ client[s] \in {"reply", "quit"} => L # <<>> \/ replies[s] > 0
      /\ client[s] = "data" =>
           \/ L # <<>> /\ L[Len(L)].verb = "DATA"
              /\ Settled(L, Len(L) - 1, is_data_mode[s])
           \/ L = <<>> /\ replies[s] > 0
      /\ client[s] = "sent" =>
           \/ L # <<>> /\ L[Len(L)] = Dot
           \/ L = <<>> /\ replies[s] > 0 /\ ~is_data_mode[s]

AnswerInv ==
  \A s \in Session : Engaged(s) /\ (Alone(s) => InHand(s) /\ UnderWay(s))

\* The first of the lines to come, and the others.
LEMMA FirstAndRest ==
  ASSUME NEW S, NEW x \in S, NEW u \in Seq(S)
  PROVE  /\ <<x>> \o u \in Seq(S) /\ <<x>> \o u # <<>>
         /\ Head(<<x>> \o u) = x /\ Tail(<<x>> \o u) = u
<1>1. Len(<<x>>) = 1 /\ <<x>>[1] = x /\ <<x>> \in Seq(S)
  OBVIOUS
<1>2. Len(u) \in Nat /\ <<x>> \o u \in Seq(S) /\ Len(<<x>> \o u) = 1 + Len(u)
  BY <1>1, ConcatProperties, LenProperties
<1>3. \A i \in 1 .. 1+Len(u) : (<<x>> \o u)[i] = IF i <= 1 THEN <<x>>[i] ELSE u[i - 1]
  BY <1>1, ConcatProperties
<1>4. <<x>> \o u # <<>>
  BY <1>2, EmptySeq
<1>5. Tail(<<x>> \o u) \in Seq(S) /\ Len(Tail(<<x>> \o u)) = Len(u)
      /\ \A i \in 1..Len(u) : Tail(<<x>> \o u)[i] = (<<x>> \o u)[i + 1]
  BY <1>2, <1>4, HeadTailProperties
<1>6. \A i \in 1..Len(u) : (<<x>> \o u)[i + 1] = u[i]
  BY <1>2, <1>3
<1>7. Tail(<<x>> \o u) = u
  BY <1>5, <1>6, SeqEqual
<1>8. (<<x>> \o u)[1] = x
  BY <1>1, <1>2, <1>3
<1>9. Head(<<x>> \o u) = x
  BY <1>2, <1>4, <1>8, HeadTailProperties
<1> QED
  BY <1>2, <1>4, <1>7, <1>9

\* Put together again.
LEMMA Rejoined ==
  ASSUME NEW S, NEW f \in Seq(S), f # <<>>
  PROVE  <<Head(f)>> \o Tail(f) = f
<1>1. Len(f) \in Nat \ {0}
  BY EmptySeq, LenProperties
<1>2. 1 \in 1..Len(f) /\ Len(f) \in 1..Len(f)
  BY <1>1
<1>3. SubSeq(f, 1, Len(f)) = <<f[1]>> \o SubSeq(f, 2, Len(f))
  BY <1>2, SubSeqRecursiveFirst
<1>4. SubSeq(f, 1, Len(f)) = f /\ Tail(f) = SubSeq(f, 2, Len(f)) /\ Head(f) = f[1]
  BY SubSeqFull, TailIsSubSeq, HeadTailProperties
<1> QED
  BY <1>3, <1>4

\* The line in hand is the one that may be read.
LEMMA HandKnown ==
  ASSUME NEW s \in Session, NEW x, line[s].texts = {<<x>>}, thread[s] \in Busy
  PROVE  Hand(s) = <<x>>
<1>1. (CHOOSE t \in {<<x>>} : TRUE) \in {<<x>>}
  OBVIOUS
<1>2. Hand(s) = CHOOSE t \in {<<x>>} : TRUE
  BY DEF Hand
<1> QED
  BY <1>1, <1>2

\* All of them are lines.
LEMMA PendingTyped ==
  ASSUME NEW s \in Session, ThreadTypes, InHand(s)
  PROVE  /\ Hand(s) \in Seq(Lines) /\ Left(s) \in Seq(Lines)
         /\ toServer[s] \in Seq(Lines) /\ Pending(s) \in Seq(Lines)
<1>1. toServer[s] \in Seq(Lines)
  BY DEF ThreadTypes
<1>2. Left(s) \in Seq(Lines)
  <2>1. olds.left \in Seq(Lines) /\ loaded[s].left \in Seq(Lines) /\ <<>> \in Seq(Lines)
    BY DEF ThreadTypes, Pointer
  <2> QED
    BY <2>1 DEF Left
<1>3. Hand(s) \in Seq(Lines)
  <2>1. CASE thread[s] \in Busy
    <3>1. PICK x \in Lines : line[s].texts = {<<x>>}
      BY <2>1 DEF InHand
    <3>2. Hand(s) = <<x>>
      BY <2>1, <3>1, HandKnown
    <3>3. <<x>> \in Seq(Lines)
      OBVIOUS
    <3> QED
      BY <3>2, <3>3
  <2>2. CASE thread[s] \notin Busy
    <3>1. <<>> \in Seq(Lines)
      OBVIOUS
    <3> QED
      BY <2>2, <3>1 DEF Hand
  <2> QED
    BY <2>1, <2>2
<1>4. Hand(s) \o Left(s) \in Seq(Lines)
  BY <1>2, <1>3, ConcatProperties
<1>5. Pending(s) \in Seq(Lines)
  BY <1>1, <1>4, ConcatProperties DEF Pending
<1> QED
  BY <1>1, <1>2, <1>3, <1>5

\* A line that is taken stays the first one pending, and no other is lost or
\* repeated.
LEMMA TakenPending ==
  ASSUME NEW s \in Session, ThreadTypes, FirstLine(s) \/ NextLine(s)
  PROVE  Pending(s)' = Pending(s)
<1> DEFINE ts == toServer[s]
<1>1. ts \in Seq(Lines)
  BY DEF ThreadTypes
<1>2. thread'[s] = "handle" /\ "handle" \in Busy
      /\ "recv" \notin Busy /\ "store" \notin Busy
  <2>1. thread' = [thread EXCEPT ![s] = "handle"]
    BY TakenTypes
  <2> QED
    BY <2>1 DEF ThreadTypes, Busy, WithAddress
<1>3. Left(s)' = olds'.left
  BY <1>2 DEF Left
<1>4. CASE FirstLine(s)
  <2>1. thread[s] = "recv"
    BY <1>4 DEF FirstLine, Thread
  <2>2. PICK n \in 1..Len(toServer[s]) :
          /\ olds' = [of |-> {s}, left |-> SubSeq(toServer[s], 2, n)]
          /\ toServer' = [toServer EXCEPT ![s] = SubSeq(@, n+1, Len(@))]
    BY <1>4 DEF FirstLine
  <2>3. line'[s].texts = {<<Head(ts)>>} /\ ts # <<>>
    BY <1>4, <2>1, TakenTypes
  <2>4. Hand(s)' = <<Head(ts)>>
    <3>1. (CHOOSE t \in {<<Head(ts)>>} : TRUE) \in {<<Head(ts)>>}
      OBVIOUS
    <3>2. Hand(s)' = CHOOSE t \in {<<Head(ts)>>} : TRUE
      BY <1>2, <2>3 DEF Hand
    <3> QED
      BY <3>1, <3>2
  <2>5. toServer'[s] = SubSeq(ts, n+1, Len(ts)) /\ olds'.left = SubSeq(ts, 2, n)
    BY <2>2 DEF ThreadTypes
  <2>6. Pending(s)' = (<<Head(ts)>> \o SubSeq(ts, 2, n)) \o SubSeq(ts, n+1, Len(ts))
    BY <1>3, <2>4, <2>5 DEF Pending
  <2>7. Pending(s) = (<<>> \o <<>>) \o ts
    BY <1>2, <2>1 DEF Pending, Hand, Left
  <2> HIDE DEF ts
  <2>8. n \in 1..Len(ts) /\ Len(ts) \in Nat
    BY <1>1, <2>2, LenProperties DEF ts
  <2>9. <<Head(ts)>> \o SubSeq(ts, 2, n) = SubSeq(ts, 1, n)
    <3>1. 1 \in 1..Len(ts) /\ n \in 1..Len(ts) /\ Head(ts) = ts[1]
      BY <1>1, <2>3, <2>8, HeadTailProperties DEF ts
    <3>2. SubSeq(ts, 1, n) = <<ts[1]>> \o SubSeq(ts, 1+1, n)
      BY <1>1, <3>1, SubSeqRecursiveFirst
    <3> QED
      BY <3>1, <3>2
  <2>10. SubSeq(ts, 1, n) \o SubSeq(ts, n+1, Len(ts)) = ts
    <3>1. 1 \in 1 .. Len(ts)+1 /\ n \in 1-1..Len(ts) /\ Len(ts) \in n..Len(ts)
      BY <2>8
    <3>2. SubSeq(ts, 1, n) \o SubSeq(ts, n+1, Len(ts)) = SubSeq(ts, 1, Len(ts))
      BY <1>1, <3>1, ConcatAdjacentSubSeq
    <3> QED
      BY <1>1, <3>2, SubSeqFull
  <2>11. (<<>> \o <<>>) \o ts = ts
    <3>1. <<>> \in Seq(Lines)
      OBVIOUS
    <3>2. <<>> \o <<>> = <<>>
      BY <3>1, ConcatEmptySeq
    <3> QED
      BY <1>1, <3>2, ConcatEmptySeq
  <2> QED
    BY <2>6, <2>7, <2>9, <2>10, <2>11
<1>5. CASE NextLine(s)
  <2>1. /\ thread[s] = "store" /\ loaded[s].left # <<>> /\ toServer' = toServer
        /\ olds' = [loaded[s] EXCEPT !.left = Tail(@)]
    BY <1>5 DEF NextLine, Thread
  <2> DEFINE f == loaded[s].left
  <2>2. f \in Seq(Lines) /\ f # <<>> /\ line'[s].texts = {<<Head(f)>>}
    BY <1>5, <2>1, TakenTypes
  <2>3. olds'.left = Tail(f)
    BY <2>1 DEF ThreadTypes, Pointer
  <2>4. Hand(s)' = <<Head(f)>>
    <3>1. (CHOOSE t \in {<<Head(f)>>} : TRUE) \in {<<Head(f)>>}
      OBVIOUS
    <3>2. Hand(s)' = CHOOSE t \in {<<Head(f)>>} : TRUE
      BY <1>2, <2>2 DEF Hand
    <3> QED
      BY <3>1, <3>2
  <2>5. Pending(s)' = (<<Head(f)>> \o Tail(f)) \o ts
    BY <1>3, <2>1, <2>3, <2>4 DEF Pending
  <2>6. Pending(s) = (<<>> \o f) \o ts
    BY <1>2, <2>1 DEF Pending, Hand, Left
  <2> HIDE DEF f, ts
  <2>7. <<Head(f)>> \o Tail(f) = f /\ <<>> \o f = f
    BY <2>2, Rejoined, ConcatEmptySeq
  <2> QED
    BY <2>5, <2>6, <2>7
<1> QED
  BY <1>4, <1>5

\* A line that is handled is the first one pending, and no other is lost.
LEMMA HandledPending ==
  ASSUME NEW s \in Session, ThreadTypes, NEW at \in Busy, Handled(s, at),
         NEW x \in Lines, line[s].texts = {<<x>>}
  PROVE  /\ Pending(s) \in Seq(Lines) /\ Pending(s) # <<>>
         /\ x = Head(Pending(s)) /\ Pending(s)' = Tail(Pending(s))
<1> DEFINE ts == toServer[s]
           f == olds.left
<1>1. ts \in Seq(Lines) /\ f \in Seq(Lines)
  BY DEF ThreadTypes, Pointer
<1>2. /\ thread[s] = at /\ thread' = [thread EXCEPT ![s] = "load"]
      /\ UNCHANGED <<toServer, olds>>
  BY DEF Handled, Thread, strtok
<1>3. Hand(s) = <<x>>
  BY <1>2, HandKnown
<1>4. Left(s) = f
  BY <1>2 DEF Left, Busy, WithAddress
<1>5. Hand(s)' = <<>> /\ Left(s)' = f /\ toServer'[s] = ts
  <2>1. thread'[s] = "load"
    BY <1>2 DEF ThreadTypes
  <2> QED
    BY <1>2, <2>1 DEF Hand, Left, Busy, WithAddress
<1>6. Pending(s) = (<<x>> \o f) \o ts /\ Pending(s)' = (<<>> \o f) \o ts
  BY <1>3, <1>4, <1>5 DEF Pending
<1> HIDE DEF f, ts
<1>7. <<x>> \in Seq(Lines) /\ <<>> \o f = f
  BY <1>1, ConcatEmptySeq
<1> DEFINE u == f \o ts
<1>8. u \in Seq(Lines)
  BY <1>1, ConcatProperties
<1>9. (<<x>> \o f) \o ts = <<x>> \o u
  BY <1>1, <1>7, ConcatAssociative
<1>10. Pending(s) = <<x>> \o u /\ Pending(s)' = u
  BY <1>6, <1>7, <1>9
<1> HIDE DEF u
<1>11. /\ <<x>> \o u \in Seq(Lines) /\ <<x>> \o u # <<>>
       /\ Head(<<x>> \o u) = x /\ Tail(<<x>> \o u) = u
  BY <1>8, FirstAndRest
<1> QED
  BY <1>10, <1>11

\* One line less is to be settled.
LEMMA SettledTail ==
  ASSUME NEW L \in Seq(Lines), L # <<>>, NEW n \in 1..Len(L),
         NEW mode, NEW after, Settled(L, n, mode),
         after => (mode /\ Head(L) # Dot) \/ Head(L).verb = "DATA"
  PROVE  Settled(Tail(L), n - 1, after)
<1>1. /\ Len(L) \in Nat \ {0} /\ Head(L) = L[1] /\ Len(Tail(L)) = Len(L) - 1
      /\ \A i \in 1 .. Len(L)-1 : Tail(L)[i] = L[i+1]
  BY EmptySeq, HeadTailProperties
<1>2. \A i \in 1 .. n-1 : Tail(L)[i] = L[i+1]
  BY <1>1
<1>3. \A j \in 1..n : L[j] = Dot /\ j # 1 => Tail(L)[j-1] = Dot /\ j - 1 \in 1 .. n-1
  BY <1>2
<1>4. ASSUME after PROVE \E j \in 1 .. n-1 : Tail(L)[j] = Dot
  <2>1. CASE mode /\ Head(L) # Dot
    <3>1. PICK j \in 1..n : L[j] = Dot
      BY <2>1 DEF Settled
    <3>2. j # 1
      BY <1>1, <2>1, <3>1
    <3> QED
      BY <1>3, <3>1, <3>2
  <2>2. CASE Head(L).verb = "DATA"
    <3>1. 1 \in 1..n /\ L[1].verb = "DATA"
      BY <1>1, <2>2
    <3>2. PICK j \in 1..n : 1 < j /\ L[j] = Dot
      BY <3>1 DEF Settled
    <3> QED
      BY <1>3, <3>2
  <2> QED
    BY <1>4, <2>1, <2>2
<1>5. ASSUME NEW i \in 1 .. n-1, Tail(L)[i].verb = "DATA"
      PROVE  \E j \in 1 .. n-1 : i < j /\ Tail(L)[j] = Dot
  <2>1. i + 1 \in 1..n /\ L[i+1].verb = "DATA"
    BY <1>2, <1>5
  <2>2. PICK j \in 1..n : i + 1 < j /\ L[j] = Dot
    BY <2>1 DEF Settled
  <2>3. j # 1 /\ i < j - 1
    BY <2>2
  <2> QED
    BY <1>3, <2>2, <2>3
<1> QED
  BY <1>4, <1>5 DEF Settled

\* A command that is not DATA leaves what is settled settled.
LEMMA SettledAppend ==
  ASSUME NEW L \in Seq(Lines), NEW x \in Lines, NEW mode,
         Settled(L, Len(L), mode)
  PROVE  /\ Settled(Append(L, x), Len(L), mode)
         /\ x.verb # "DATA" => Settled(Append(L, x), Len(L) + 1, mode)
<1>1. Len(L) \in Nat /\ Append(L, x)[Len(L) + 1] = x
  BY AppendProperties, LenProperties
<1>2. \A i \in 1..Len(L) : Append(L, x)[i] = L[i] /\ i \in 1 .. Len(L)+1
  BY <1>1, AppendProperties
<1> DEFINE n == Len(L)
           M == Append(L, x)
<1> HIDE DEF M, n
<1>3. n \in Nat /\ M[n+1] = x /\ \A i \in 1..n : M[i] = L[i] /\ i \in 1..n+1
  BY <1>1, <1>2 DEF M, n
<1>4. \A i \in 1..n+1 : i \in 1..n \/ i = n + 1
  BY <1>3
<1>5. Settled(M, n, mode)
  BY <1>3 DEF Settled, n
<1>6. ASSUME x.verb # "DATA" PROVE Settled(M, n + 1, mode)
  BY <1>3, <1>4, <1>5, <1>6, Zenon DEF Settled
<1> QED
  BY <1>5, <1>6 DEF M, n

\* A "." at the end settles everything before it.
LEMMA SettledByDot ==
  ASSUME NEW L \in Seq(Lines), L # <<>>, L[Len(L)] = Dot, NEW mode
  PROVE  Settled(L, Len(L), mode)
<1>1. Len(L) \in Nat \ {0}
  BY EmptySeq
<1>2. Len(L) \in 1..Len(L)
  BY <1>1
<1>3. ASSUME NEW i \in 1..Len(L), L[i].verb = "DATA" PROVE i < Len(L)
  <2>1. L[i] # Dot
    BY <1>3 DEF Dot, Plain, Line
  <2> QED
    BY <1>1, <2>1
<1> QED
  BY <1>2, <1>3 DEF Settled

-----------------------------------------------------------------------------
(* Every line is answered, but those of a body *)

\* A line handled: not a look at one.
Handles(s) ==
  \/ Answer(s) \/ handle_mail_from(s) \/ handle_rcpt_to(s) \/ handle_data(s)
  \/ handle_list(s) \/ Content(s) \/ TooLarge(s) \/ EndOfData(s)

\* What handling the line in hand does to data mode, and whether there is a reply.
LEMMA HandledMode ==
  ASSUME NEW s \in Session, Typed, Modes, Handles(s), InHand(s)
  PROVE  \E x \in Lines, at \in Busy :
           /\ Handled(s, at) /\ line[s].texts = {<<x>>} /\ UNCHANGED client
           /\ is_data_mode'[s] => (is_data_mode[s] /\ x # Dot) \/ x.verb = "DATA"
           /\ client[s] # "gone" =>
                /\ UNCHANGED down
                /\ replies'[s] > 0 \/ (is_data_mode[s] /\ x # Dot)
<1>1. ClientTypes /\ ThreadTypes /\ FieldTypes /\ FileTypes
  BY DEF Typed
<1>2. PICK at \in Busy : Handled(s, at)
  BY DEF Handles, Answer, handle_mail_from, handle_rcpt_to, handle_data, handle_list,
         Content, TooLarge, EndOfData, Busy, WithAddress
<1>3. thread[s] = at /\ ~down /\ UNCHANGED client
  BY <1>2 DEF Handled, Thread, clientVars
<1>4. PICK x \in Lines :
        /\ line[s].texts = {<<x>>}
        /\ thread[s] = "append" => x # Dot /\ Len(data_buffer[s]) < DataLines
  BY <1>2, <1>3 DEF InHand
<1>5. Seen(s) = {x}
  BY <1>4, SeenAlone
<1>6. is_data_mode'[s] => (is_data_mode[s] /\ x # Dot) \/ x.verb = "DATA"
  <2>1. CASE Answer(s)
    BY <2>1 DEF Answer, Verb, session
  <2>2. CASE handle_mail_from(s) \/ handle_rcpt_to(s) \/ handle_list(s)
    <3>1. UNCHANGED is_data_mode /\ thread[s] \in WithAddress
      BY <2>2 DEF handle_mail_from, handle_rcpt_to, handle_list, session, Handled,
                  Thread, WithAddress
    <3> QED
      BY <3>1 DEF Modes
  <2>3. CASE handle_data(s)
    BY <1>5, <2>3 DEF handle_data, Verb
  <2>4. CASE Content(s)
    <3>1. UNCHANGED is_data_mode /\ thread[s] = "append"
      BY <2>4 DEF Content, Handled, Thread
    <3> QED
      BY <1>4, <3>1
  <2>5. CASE TooLarge(s) \/ EndOfData(s)
    BY <1>1, <2>5 DEF TooLarge, EndOfData, FieldTypes
  <2> QED
    BY <2>1, <2>2, <2>3, <2>4, <2>5 DEF Handles
<1>7. \/ is_data_mode[s] /\ x # Dot /\ UNCHANGED down
      \/ \E n \in Nat \ {0} : Reply(s, n)
  <2>1. CASE Answer(s) \/ handle_mail_from(s) \/ handle_rcpt_to(s) \/ handle_data(s)
             \/ TooLarge(s) \/ EndOfData(s)
    <3>1. Reply(s, 1)
      BY <2>1 DEF Answer, handle_mail_from, handle_rcpt_to, handle_data, TooLarge,
                  EndOfData
    <3> QED
      BY <3>1
  <2>2. CASE handle_list(s)
    BY <1>1, <2>2, ListReplies
  <2>3. CASE Content(s)
    <3>1. thread[s] = "append" /\ down' \in {FALSE, ~Room(s, <<x>>)}
      BY <1>4, <2>3 DEF Content, Handled, Thread
    <3>2. Room(s, <<x>>)
      <4>1. Len(data_buffer[s]) \in Nat /\ Len(<<x>>) = 1 /\ DataLines \in Nat
        BY <1>1, MySmtpAssumption, LenProperties DEF FieldTypes
      <4>2. Len(data_buffer[s]) < DataLines
        BY <1>4, <3>1
      <4> QED
        BY <4>1, <4>2 DEF Room
    <3>3. down' = FALSE /\ down = FALSE
      BY <1>1, <1>3, <3>1, <3>2 DEF ClientTypes
    <3> QED
      BY <1>4, <3>1, <3>3 DEF Modes
  <2> QED
    BY <2>1, <2>2, <2>3 DEF Handles
<1>8. \A n \in Nat \ {0} : Reply(s, n) /\ client[s] # "gone" =>
        UNCHANGED down /\ replies'[s] > 0
  BY <1>1, <1>3, ReplyTypes DEF Reply
<1>9. client[s] # "gone" =>
        UNCHANGED down /\ (replies'[s] > 0 \/ (is_data_mode[s] /\ x # Dot))
  BY <1>7, <1>8
<1> QED
  BY <1>2, <1>3, <1>4, <1>6, <1>9

\* A line handled takes what is under way a step on.
LEMMA HandledUnderWay ==
  ASSUME NEW s \in Session, Typed, Modes, Handles(s), InHand(s), UnderWay(s)
  PROVE  UnderWay(s)'
<1> DEFINE L == Pending(s)
           M == Pending(s)'
           m == is_data_mode[s]
           after == is_data_mode'[s]
           c == client[s]
           some == replies'[s] > 0
<1>1. PICK x \in Lines, at \in Busy :
        /\ Handled(s, at) /\ line[s].texts = {<<x>>} /\ UNCHANGED client
        /\ after => (m /\ x # Dot) \/ x.verb = "DATA"
        /\ c # "gone" => UNCHANGED down /\ (some \/ (m /\ x # Dot))
  BY HandledMode
<1>2. L \in Seq(Lines) /\ L # <<>> /\ x = Head(L) /\ M = Tail(L)
  BY <1>1, HandledPending DEF Typed
<1>3. client'[s] = c
  BY <1>1
<1>4. down => c = "gone"
  BY DEF UnderWay
<1>5. /\ c \in {"prompt", "reply", "quit"} => Settled(L, Len(L), m)
      /\ c = "data" => L[Len(L)].verb = "DATA" /\ Settled(L, Len(L) - 1, m)
      /\ c = "sent" => L[Len(L)] = Dot
  BY <1>2 DEF UnderWay
<1>6. down' => c = "gone"
  BY <1>1, <1>4
<1> SUFFICES ASSUME c # "gone"
             PROVE  /\ c \in {"prompt", "reply", "quit"} => Settled(M, Len(M), after)
                    /\ c \in {"reply", "quit"} => M # <<>> \/ some
                    /\ c = "data" =>
                         \/ M # <<>> /\ M[Len(M)].verb = "DATA"
                            /\ Settled(M, Len(M) - 1, after)
                         \/ M = <<>> /\ some
                    /\ c = "sent" =>
                         \/ M # <<>> /\ M[Len(M)] = Dot
                         \/ M = <<>> /\ some /\ ~after
  <2>1. UnderWay(s)' = 
          (/\ down' => client'[s] = "gone"
           /\ client'[s] \in {"prompt", "reply", "quit"} =>
                Settled(M, Len(M), after)
           /\ client'[s] \in {"reply", "quit"} => M # <<>> \/ some
           /\ client'[s] = "data" =>
                \/ M # <<>> /\ M[Len(M)].verb = "DATA"
                   /\ Settled(M, Len(M) - 1, after)
                \/ M = <<>> /\ some
           /\ client'[s] = "sent" =>
                \/ M # <<>> /\ M[Len(M)] = Dot
                \/ M = <<>> /\ some /\ ~after)
    BY DEF UnderWay, Settled
  <2> HIDE DEF L, M, m, after, c, some
  <2> QED
    BY <1>3, <1>6, <2>1
<1>7. /\ after => (m /\ Head(L) # Dot) \/ Head(L).verb = "DATA"
      /\ some \/ (m /\ Head(L) # Dot)
  BY <1>1, <1>2
<1> HIDE DEF L, M, m, after, c, some
<1>8. /\ Len(L) \in Nat \ {0} /\ Head(L) = L[1] /\ M \in Seq(Lines)
      /\ Len(M) = Len(L) - 1 /\ (M = <<>> <=> Len(L) = 1)
      /\ M # <<>> => M[Len(M)] = L[Len(L)]
  <2>1. Len(L) \in Nat \ {0} /\ Head(L) = L[1] /\ M \in Seq(Lines) /\ Len(M) = Len(L) - 1
        /\ \A i \in 1..Len(M) : M[i] = L[i+1]
    BY <1>2, EmptySeq, HeadTailProperties
  <2>2. Len(M) \in Nat /\ (M = <<>> <=> Len(M) = 0)
    BY <2>1, EmptySeq, LenProperties
  <2>3. M = <<>> <=> Len(L) = 1
    BY <2>1, <2>2
  <2>4. ASSUME M # <<>> PROVE M[Len(M)] = L[Len(L)]
    <3>1. Len(M) \in 1..Len(M) /\ Len(M) + 1 = Len(L)
      BY <2>1, <2>2, <2>4
    <3> QED
      BY <2>1, <3>1
  <2> QED
    BY <2>1, <2>3, <2>4
<1>9. ASSUME c \in {"prompt", "reply", "quit"}
      PROVE  Settled(M, Len(M), after) /\ (M # <<>> \/ some)
  <2>1. Len(L) \in 1..Len(L) /\ Settled(L, Len(L), m)
    BY <1>5, <1>8, <1>9
  <2>2. Settled(M, Len(M), after)
    BY <1>2, <1>7, <1>8, <2>1, SettledTail
  <2>3. M # <<>> \/ some
    <3> SUFFICES ASSUME M = <<>>, m, Head(L) # Dot PROVE FALSE
      BY <1>7
    <3>1. \E j \in 1..Len(L) : L[j] = Dot
      BY <2>1 DEF Settled
    <3>2. Len(L) = 1 /\ Head(L) = L[1]
      BY <1>8
    <3>3. \A j \in 1..Len(L) : j = 1
      BY <3>2
    <3> QED
      BY <3>1, <3>2, <3>3
  <2> QED
    BY <2>2, <2>3
<1>10. ASSUME c = "data"
       PROVE  \/ M # <<>> /\ M[Len(M)].verb = "DATA" /\ Settled(M, Len(M) - 1, after)
              \/ M = <<>> /\ some
  <2>1. CASE M # <<>>
    <3>1. Len(L) - 1 \in 1..Len(L)
      BY <1>8, <2>1
    <3>2. Settled(M, (Len(L) - 1) - 1, after)
      BY <1>2, <1>5, <1>7, <1>10, <3>1, SettledTail
    <3> QED
      BY <1>5, <1>8, <1>10, <2>1, <3>2
  <2>2. CASE M = <<>>
    <3>1. Settled(L, 0, m)
      BY <1>5, <1>8, <1>10, <2>2
    <3>2. ~m
      BY <3>1 DEF Settled
    <3> QED
      BY <1>7, <2>2, <3>2
  <2> QED
    BY <2>1, <2>2
<1>11. ASSUME c = "sent"
       PROVE  \/ M # <<>> /\ M[Len(M)] = Dot
              \/ M = <<>> /\ some /\ ~after
  <2>1. CASE M # <<>>
    BY <1>5, <1>8, <1>11, <2>1
  <2>2. CASE M = <<>>
    <3>1. Head(L) = Dot
      BY <1>5, <1>8, <1>11, <2>2
    <3>2. Head(L).verb # "DATA"
      BY <3>1 DEF Dot, Plain, Line
    <3> QED
      BY <1>7, <2>2, <3>1, <3>2
  <2> QED
    BY <2>1, <2>2
<1> QED
  BY <1>9, <1>10, <1>11

\* What a client sends waits behind what it sent before.
LEMMA SentPending ==
  ASSUME NEW s \in Session, ThreadTypes, InHand(s), NEW ls \in Seq(Lines), Send(s, ls),
         UNCHANGED <<thread, olds, loaded, line>>
  PROVE  Pending(s)' = Pending(s) \o ls
<1> DEFINE ts == toServer[s]
           h == Hand(s)
           f == Left(s)
<1>1. toServer'[s] = ts \o ls
  BY DEF Send, ThreadTypes
<1>2. Hand(s)' = h /\ Left(s)' = f
  BY DEF Hand, Left
<1>3. Pending(s) = (h \o f) \o ts /\ Pending(s)' = (h \o f) \o (ts \o ls)
  BY <1>1, <1>2 DEF Pending
<1>4. ts \in Seq(Lines) /\ h \in Seq(Lines) /\ f \in Seq(Lines)
  BY PendingTyped
<1> HIDE DEF ts, f, h
<1> DEFINE u == h \o f
<1>5. u \in Seq(Lines)
  BY <1>4, ConcatProperties
<1> HIDE DEF u
<1>6. (u \o ts) \o ls = u \o (ts \o ls)
  BY <1>4, <1>5, ConcatAssociative
<1> QED
  BY <1>3, <1>6 DEF u

\* A new client has nothing under way.
LEMMA ConnectUnderWay ==
  ASSUME NEW s \in Session, Typed, Engaged(s), Connect(s)
  PROVE  UnderWay(s)'
<1>1. ThreadTypes /\ ClientTypes
  BY DEF Typed
<1>2. client'[s] = "prompt" /\ thread'[s] = "recv" /\ toServer'[s] = <<>>
      /\ ~is_data_mode'[s] /\ ~down'
  BY <1>1 DEF Connect, Client, Engaged, session, ThreadTypes, ClientTypes
<1>3. Pending(s)' = <<>>
  <2>1. Pending(s)' = (<<>> \o <<>>) \o <<>>
    BY <1>2 DEF Pending, Hand, Left, Busy, WithAddress
  <2> QED
    BY <2>1
<1>4. Settled(<<>>, Len(<<>>), is_data_mode'[s])
  BY <1>2 DEF Settled
<1> QED
  BY <1>2, <1>3, <1>4 DEF UnderWay

\* A command is under way, or a "." behind a body is.
LEMMA SendUnderWay ==
  ASSUME NEW s \in Session, Typed, InHand(s), UnderWay(s),
         (\E n \in DOMAIN Script[s] : Command(s, n)) \/ (\E ls \in Bodies : Body(s, ls))
  PROVE  UnderWay(s)'
<1> DEFINE L == Pending(s)
           m == is_data_mode[s]
<1>1. ThreadTypes /\ ClientTypes /\ L \in Seq(Lines)
  BY PendingTyped DEF Typed
<1>2. UNCHANGED <<thread, olds, loaded, line, is_data_mode, down, replies>>
      /\ client[s] \in {"prompt", "body"}
  BY DEF Command, Body, Client, serverVars, strtok, session
<1>3. ~down
  BY <1>2 DEF UnderWay
<1>4. ASSUME NEW n \in DOMAIN Script[s], Command(s, n) PROVE UnderWay(s)'
  <2> DEFINE x == Script[s][n]
  <2>1. x \in Lines
    <3>1. Script[s] \in Seq(Lines)
      BY MySmtpAssumption
    <3> QED
      BY <3>1, LenProperties, ElementOfSeq
  <2>2. client[s] = "prompt" /\ client'[s] = Waits(x) /\ Send(s, <<x>>)
    BY <1>1, <1>4 DEF Command, Client, ClientTypes
  <2>3. Settled(L, Len(L), m)
    BY <2>2 DEF UnderWay
  <2>4. \/ Waits(x) \in {"reply", "quit"} /\ x.verb # "DATA"
        \/ Waits(x) = "data" /\ x.verb = "DATA"
    BY DEF Waits
  <2> HIDE DEF x, L
  <2>5. Pending(s)' = L \o <<x>>
    <3>1. <<x>> \in Seq(Lines)
      BY <2>1
    <3> QED
      BY <1>1, <1>2, <2>2, <3>1, SentPending DEF L
  <2>6. L \o <<x>> = Append(L, x)
    BY <1>1, <2>1, AppendIsConcat
  <2> DEFINE M == Append(L, x)
  <2>7. /\ Pending(s)' = M /\ Len(M) = Len(L) + 1 /\ Len(L) \in Nat
        /\ M # <<>> /\ M[Len(M)] = x
    BY <1>1, <2>1, <2>5, <2>6, AppendProperties, LenProperties
  <2>8. /\ Settled(M, Len(M) - 1, m) /\ (x.verb # "DATA" => Settled(M, Len(M), m))
    <3>1. /\ Settled(M, Len(L), m)
          /\ x.verb # "DATA" => Settled(M, Len(L) + 1, m)
      BY <1>1, <2>1, <2>3, SettledAppend
    <3>2. Len(M) - 1 = Len(L)
      BY <2>7
    <3> QED
      BY <2>7, <3>1, <3>2
  <2>9. m' = m
    BY <1>2
  <2> HIDE DEF M, m
  <2>10. CASE Waits(x) \in {"reply", "quit"}
    <3>1. client'[s] \in {"reply", "quit"} /\ Settled(M, Len(M), m)
      BY <2>2, <2>4, <2>8, <2>10
    <3> QED
      BY <1>2, <1>3, <2>7, <2>9, <3>1 DEF UnderWay, m
  <2>11. CASE Waits(x) = "data" /\ x.verb = "DATA"
    <3>1. client'[s] = "data"
      BY <2>2, <2>11
    <3> QED
      BY <1>2, <1>3, <2>7, <2>8, <2>9, <2>11, <3>1 DEF UnderWay, m
  <2> QED
    BY <2>4, <2>10, <2>11
<1>5. ASSUME NEW ls \in Bodies, Body(s, ls) PROVE UnderWay(s)'
  <2>1. ls \in Seq(Lines) /\ Dot \in Lines
    BY MySmtpAssumption, LinesKnown
  <2>2. client'[s] = "sent" /\ Send(s, Append(ls, Dot))
    BY <1>1, <1>5 DEF Body, Client, ClientTypes
  <2> HIDE DEF L
  <2>3. Append(ls, Dot) \in Seq(Lines)
    BY <2>1, AppendProperties
  <2>4. Pending(s)' = L \o Append(ls, Dot)
    BY <1>1, <1>2, <2>2, <2>3, SentPending DEF L
  <2>5. L \o Append(ls, Dot) = Append(L \o ls, Dot) /\ L \o ls \in Seq(Lines)
    BY <1>1, <2>1, ConcatAppend, ConcatProperties
  <2>6. Pending(s)' # <<>> /\ Pending(s)'[Len(Pending(s)')] = Dot
    <3> DEFINE K == L \o ls
    <3> HIDE DEF K
    <3>1. K \in Seq(Lines)
      BY <2>5 DEF K
    <3>2. Append(K, Dot) # <<>> /\ Append(K, Dot)[Len(Append(K, Dot))] = Dot
      BY <2>1, <3>1, AppendProperties
    <3> QED
      BY <2>4, <2>5, <3>2 DEF K
  <2> QED
    BY <1>2, <1>3, <2>2, <2>6 DEF UnderWay
<1> QED
  BY <1>4, <1>5

\* A client that reads a reply or stops sends nothing, and one alone loses no
\* server that it waits for.
LEMMA ReadUnderWay ==
  ASSUME NEW s \in Session, Typed, InHand(s), UnderWay(s),
         EndOfInput(s) \/ Kill(s) \/ ReadReply(s) \/ ServerLost(s)
  PROVE  UnderWay(s)'
<1> DEFINE L == Pending(s)
           m == is_data_mode[s]
<1>1. ThreadTypes /\ ClientTypes /\ L \in Seq(Lines)
  BY PendingTyped DEF Typed
<1>2. UNCHANGED <<thread, olds, loaded, line, toServer, is_data_mode, down>>
  BY DEF EndOfInput, Kill, ReadReply, ServerLost, serverVars, strtok, session
<1>3. Pending(s)' = L /\ m' = m
  BY <1>2 DEF Pending, Hand, Left
<1>4. \/ client'[s] = "gone"
      \/ client[s] = "body" /\ client'[s] = "eof"
      \/ client[s] = "data" /\ client'[s] = "body"
      \/ client[s] \in {"reply", "sent"} /\ client'[s] = "prompt"
  BY <1>1 DEF EndOfInput, Kill, ReadReply, ServerLost, Client, ClientTypes, UnderWay
<1>5. CASE client'[s] = "gone"
  BY <1>5 DEF UnderWay
<1>6. CASE client'[s] # "gone"
  <2>1. ~down'
    BY <1>2, <1>4, <1>6 DEF UnderWay
  <2>2. CASE client'[s] \in {"eof", "body"}
    BY <2>1, <2>2 DEF UnderWay
  <2>3. CASE client[s] \in {"reply", "sent"} /\ client'[s] = "prompt"
    <3>1. Settled(L, Len(L), m)
      <4>1. CASE client[s] = "reply"
        BY <4>1 DEF UnderWay
      <4>2. CASE client[s] = "sent"
        <5>1. CASE L # <<>> /\ L[Len(L)] = Dot
          BY <1>1, <5>1, SettledByDot
        <5>2. CASE L = <<>> /\ ~m
          BY <5>2 DEF Settled
        <5> QED
          BY <4>2, <5>1, <5>2 DEF UnderWay
      <4> QED
        BY <2>3, <4>1, <4>2
    <3> HIDE DEF L, m
    <3> QED
      BY <1>3, <2>1, <2>3, <3>1 DEF UnderWay, m
  <2> QED
    BY <1>4, <1>6, <2>2, <2>3
<1> QED
  BY <1>5, <1>6

\* So does a thread that takes a line, finds none, or looks at one.
Idles(s) ==
  \/ FirstLine(s) \/ Disconnect(s) \/ Load(s) \/ NextLine(s) \/ LastLine(s)
  \/ validate_email(s) \/ Measure(s)

\* What is to do stays so.
LEMMA IdlePending ==
  ASSUME NEW s \in Session, ThreadTypes, Idles(s)
  PROVE  Pending(s)' = Pending(s) /\ UNCHANGED idle
<1>1. CASE FirstLine(s) \/ NextLine(s)
  BY <1>1, TakenPending, TakenTypes
<1>2. CASE Disconnect(s)
  <2>1. /\ thread[s] = "recv" /\ thread'[s] = "gone" /\ toServer' = toServer
        /\ UNCHANGED idle
    BY <1>2 DEF Disconnect, Thread, ThreadTypes
  <2> QED
    BY <2>1 DEF Pending, Hand, Left, Busy, WithAddress
<1>3. CASE Load(s)
  <2>1. /\ thread[s] = "load" /\ thread'[s] = "store" /\ toServer' = toServer
        /\ loaded'[s] = olds /\ UNCHANGED idle
    BY <1>3 DEF Load, Thread, ThreadTypes
  <2> QED
    BY <2>1 DEF Pending, Hand, Left, Busy, WithAddress
<1>4. CASE LastLine(s)
  <2>1. /\ thread[s] = "store" /\ thread'[s] = "recv" /\ toServer' = toServer
        /\ loaded[s].left = <<>> /\ UNCHANGED idle
    BY <1>4 DEF LastLine, Thread, ThreadTypes
  <2> QED
    BY <2>1 DEF Pending, Hand, Left, Busy, WithAddress
<1>5. CASE validate_email(s) \/ Measure(s)
  <2>1. PICK at \in {"append"} \union WithAddress : LooksOn(s, at)
    BY <1>5 DEF validate_email, Verb, Measure, WithAddress
  <2>2. /\ thread[s] = "handle" /\ thread'[s] = at
        /\ UNCHANGED <<idle, toServer, strtok, line>>
    BY <2>1 DEF LooksOn, Thread, ThreadTypes
  <2>3. thread[s] \in Busy /\ thread'[s] \in Busy
        /\ thread[s] # "store" /\ thread'[s] # "store"
    BY <2>1, <2>2 DEF Busy, WithAddress
  <2>4. UNCHANGED <<line, olds, toServer>> /\ UNCHANGED idle
    BY <2>2 DEF strtok
  <2>5. Hand(s)' = Hand(s)
    BY <2>3, <2>4 DEF Hand
  <2>6. Left(s)' = Left(s)
    BY <2>3, <2>4 DEF Left
  <2> QED
    BY <2>4, <2>5, <2>6 DEF Pending
<1> QED
  BY <1>1, <1>2, <1>3, <1>4, <1>5 DEF Idles

\* What is under way stays so.
LEMMA IdleUnderWay ==
  ASSUME NEW s \in Session, Typed, UnderWay(s), Idles(s)
  PROVE  UnderWay(s)'
<1>1. Pending(s)' = Pending(s) /\ UNCHANGED idle
  BY IdlePending DEF Typed
<1>2. UNCHANGED <<client, replies, is_data_mode, down>>
  BY <1>1 DEF idle, clientVars, session
<1> QED
  BY <1>1, <1>2 DEF UnderWay

-----------------------------------------------------------------------------
(* The line in hand, and the room for it *)

\* A step of a client changes neither.
LEMMA ClientInHand ==
  ASSUME NEW s \in Session, Typed, InHand(s), User(s) \/ ReadReply(s) \/ ServerLost(s)
  PROVE  InHand(s)'
<1>1. /\ UNCHANGED <<data_buffer, line>>
      /\ thread' = thread \/ thread' = [thread EXCEPT ![s] = "recv"]
  <2>1. CASE User(s)
    BY <2>1 DEF User, Connect, EndOfInput, Kill, Command, Body, serverVars, session
  <2>2. CASE ReadReply(s) \/ ServerLost(s)
    BY <2>2 DEF ReadReply, ServerLost, serverVars, session
  <2> QED
    BY <2>1, <2>2
<1>2. CASE thread' = thread
  BY <1>1, <1>2 DEF InHand
<1>3. CASE thread' = [thread EXCEPT ![s] = "recv"]
  <2>1. thread'[s] \notin Busy
    BY <1>3 DEF Typed, ThreadTypes, Busy, WithAddress
  <2> QED
    BY <1>1, <2>1 DEF InHand
<1> QED
  BY <1>1, <1>2, <1>3

\* The line that was found to fit is the line that is appended.
LEMMA HandledInHand ==
  ASSUME NEW s \in Session, Typed, InHand(s), Handles(s)
  PROVE  InHand(s)'
<1>1. FieldTypes /\ ThreadTypes
  BY DEF Typed
<1>2. thread'[s] \notin Busy
  <2>1. \E at : Handled(s, at)
    BY DEF Handles, Answer, handle_mail_from, handle_rcpt_to, handle_data, handle_list,
           Content, TooLarge, EndOfData
  <2>2. thread' = [thread EXCEPT ![s] = "load"]
    BY <2>1 DEF Handled, Thread
  <2> QED
    BY <1>1, <2>2 DEF ThreadTypes, Busy, WithAddress
<1>3. Len(data_buffer'[s]) <= DataLines
  <2>1. CASE Content(s)
    <3>1. PICK x \in Lines :
            line[s].texts = {<<x>>} /\ Len(data_buffer[s]) < DataLines
      BY <2>1 DEF InHand, Content, Handled, Thread, Busy
    <3>2. data_buffer' = [data_buffer EXCEPT ![s] = @ \o <<x>>]
      BY <2>1, <3>1 DEF Content
    <3>3. data_buffer[s] \in Seq(Lines) /\ <<x>> \in Seq(Lines) /\ Len(<<x>>) = 1
      BY <1>1 DEF FieldTypes
    <3>4. /\ Len(data_buffer[s]) \in Nat
          /\ Len(data_buffer[s] \o <<x>>) = Len(data_buffer[s]) + 1
      BY <3>3, ConcatProperties, LenProperties
    <3>5. data_buffer'[s] = data_buffer[s] \o <<x>>
      BY <1>1, <3>2 DEF FieldTypes
    <3> QED
      BY <3>1, <3>4, <3>5, MySmtpAssumption
  <2>2. CASE handle_data(s)
    <3>1. data_buffer' = [data_buffer EXCEPT ![s] = <<>>] \/ UNCHANGED data_buffer
      BY <2>2 DEF handle_data
    <3>2. data_buffer'[s] = <<>> \/ data_buffer'[s] = data_buffer[s]
      BY <1>1, <3>1 DEF FieldTypes
    <3>3. Len(<<>>) <= DataLines
      BY MySmtpAssumption
    <3> QED
      BY <3>2, <3>3 DEF InHand
  <2>3. CASE ~Content(s) /\ ~handle_data(s)
    <3>1. UNCHANGED data_buffer
      BY <2>3 DEF Handles, Answer, handle_mail_from, handle_rcpt_to, handle_list,
                  TooLarge, EndOfData, session
    <3> QED
      BY <3>1 DEF InHand
  <2> QED
    BY <2>1, <2>2, <2>3
<1> QED
  BY <1>2, <1>3 DEF InHand

\* A line taken is one line, and one that is looked at stays so.
LEMMA IdleInHand ==
  ASSUME NEW s \in Session, Typed, InHand(s), Idles(s)
  PROVE  InHand(s)'
<1>1. ThreadTypes /\ FieldTypes
  BY DEF Typed
<1>2. UNCHANGED data_buffer
  BY <1>1, IdlePending DEF idle, session
<1>3. CASE FirstLine(s) \/ NextLine(s)
  <2>1. /\ thread' = [thread EXCEPT ![s] = "handle"]
        /\ LET f == IF thread[s] = "recv" THEN toServer[s] ELSE loaded[s].left
           IN  f \in Seq(Lines) /\ f # <<>> /\ line'[s].texts = {<<Head(f)>>}
    BY <1>1, <1>3, TakenTypes
  <2>2. thread'[s] # "append"
    BY <1>1, <2>1 DEF ThreadTypes
  <2>3. PICK f \in Seq(Lines) : f # <<>> /\ line'[s].texts = {<<Head(f)>>}
    BY <2>1
  <2>4. Head(f) \in Lines
    BY <2>3, HeadTailProperties
  <2> QED
    BY <1>2, <2>2, <2>3, <2>4 DEF InHand
<1>4. CASE Disconnect(s) \/ Load(s) \/ LastLine(s)
  <2>1. thread'[s] \in {"gone", "store", "recv"}
    BY <1>1, <1>4 DEF Disconnect, Load, LastLine, Thread, ThreadTypes
  <2>2. thread'[s] \notin Busy
    BY <2>1 DEF Busy, WithAddress
  <2> QED
    BY <1>2, <2>2 DEF InHand
<1>5. CASE validate_email(s)
  <2>1. PICK at \in WithAddress : LooksOn(s, at)
    BY <1>5 DEF validate_email, Verb
  <2>2. thread[s] = "handle" /\ thread'[s] # "append" /\ UNCHANGED line
    BY <1>1, <2>1 DEF LooksOn, Thread, ThreadTypes, WithAddress
  <2>3. \E x \in Lines : line[s].texts = {<<x>>}
    BY <2>2 DEF InHand, Busy
  <2> QED
    BY <1>2, <2>2, <2>3 DEF InHand
<1>6. CASE Measure(s)
  <2>1. /\ thread[s] = "handle" /\ UNCHANGED line
        /\ \E l \in Seen(s) : l # Dot
        /\ \E t \in line[s].texts : Room(s, t)
    BY <1>6 DEF Measure, LooksOn, Thread
  <2>2. PICK x \in Lines : line[s].texts = {<<x>>}
    BY <2>1 DEF InHand, Busy
  <2>3. x # Dot /\ Room(s, <<x>>)
    BY <2>1, <2>2, SeenAlone
  <2>4. Len(data_buffer[s]) < DataLines
    <3>1. Len(data_buffer[s]) \in Nat /\ Len(<<x>>) = 1 /\ DataLines \in Nat
      BY <1>1, MySmtpAssumption, LenProperties DEF FieldTypes
    <3> QED
      BY <2>3, <3>1 DEF Room
  <2> QED
    BY <1>2, <2>1, <2>2, <2>3, <2>4 DEF InHand
<1> QED
  BY <1>3, <1>4, <1>5, <1>6 DEF Idles

-----------------------------------------------------------------------------
(* One session and the others *)

\* A step of a thread takes a line, finds none, looks at one or handles one.
LEMMA ThreadSteps ==
  ASSUME NEW s \in Session, handle_client(s)
  PROVE  Idles(s) \/ Handles(s)
  BY DEF handle_client, process_command, handle_data_content, Idles, Handles

\* Where a step of one session leaves the others.
LEMMA Elsewhere ==
  ASSUME NEW s \in Session, Typed,
         handle_client(s) \/ User(s) \/ ReadReply(s) \/ ServerLost(s),
         NEW r \in Session, r # s
  PROVE  /\ client'[r] = client[r] /\ thread'[r] = thread[r]
         /\ toServer'[r] = toServer[r] /\ is_data_mode'[r] = is_data_mode[r]
<1>1. ClientTypes /\ ThreadTypes /\ FieldTypes
  BY DEF Typed
<1>2. CASE User(s) \/ ReadReply(s) \/ ServerLost(s)
  <2>1. /\ \/ UNCHANGED client
           \/ \E c : client' = [client EXCEPT ![s] = c]
        /\ \/ UNCHANGED thread
           \/ thread' = [thread EXCEPT ![s] = "recv"]
        /\ \/ UNCHANGED toServer
           \/ \E q : toServer' = [toServer EXCEPT ![s] = q]
        /\ UNCHANGED is_data_mode
    <3>1. CASE Connect(s) \/ EndOfInput(s) \/ Kill(s) \/ ReadReply(s) \/ ServerLost(s)
      BY <3>1 DEF Connect, EndOfInput, Kill, ReadReply, ServerLost, Client, serverVars,
                  session
    <3>2. ASSUME NEW n \in DOMAIN Script[s], Command(s, n)
          PROVE  /\ client' = [client EXCEPT ![s] = Waits(Script[s][n])]
                 /\ toServer' = [toServer EXCEPT ![s] = @ \o <<Script[s][n]>>]
                 /\ UNCHANGED <<thread, is_data_mode>>
      BY <3>2 DEF Command, Client, Send, serverVars, session
    <3>3. ASSUME NEW ls \in Bodies, Body(s, ls)
          PROVE  /\ client' = [client EXCEPT ![s] = "sent"]
                 /\ toServer' = [toServer EXCEPT ![s] = @ \o Append(ls, Dot)]
                 /\ UNCHANGED <<thread, is_data_mode>>
      BY <3>3 DEF Body, Client, Send, serverVars, session
    <3> QED
      BY <1>2, <3>1, <3>2, <3>3 DEF User
  <2> QED
    BY <1>1, <2>1 DEF ClientTypes, ThreadTypes
<1>3. CASE Idles(s)
  <2>1. UNCHANGED idle
    BY <1>1, <1>3, IdlePending
  <2>2. \E at : thread' = [thread EXCEPT ![s] = at]
    BY <1>3 DEF Idles, FirstLine, Disconnect, Load, NextLine, LastLine, validate_email,
                Measure, LooksOn, Thread
  <2>3. toServer'[r] = toServer[r]
    <3>1. CASE FirstLine(s)
      <4>1. \E q : toServer' = [toServer EXCEPT ![s] = q]
        BY <3>1 DEF FirstLine
      <4> QED
        BY <1>1, <4>1 DEF ThreadTypes
    <3>2. CASE ~FirstLine(s)
      BY <1>3, <3>2 DEF Idles, Disconnect, Load, NextLine, LastLine, validate_email,
                        Measure, LooksOn
    <3> QED
      BY <3>1, <3>2
  <2> QED
    BY <1>1, <2>1, <2>2, <2>3 DEF idle, clientVars, session, ThreadTypes
<1>4. CASE Handles(s)
  <2>1. \E at : Handled(s, at)
    BY <1>4 DEF Handles, Answer, handle_mail_from, handle_rcpt_to, handle_data,
                handle_list, Content, TooLarge, EndOfData
  <2>2. /\ thread' = [thread EXCEPT ![s] = "load"] /\ UNCHANGED <<client, toServer>>
    BY <2>1 DEF Handled, Thread, clientVars
  <2>3. UNCHANGED is_data_mode \/ \E m : is_data_mode' = [is_data_mode EXCEPT ![s] = m]
    BY <1>4 DEF Handles, Answer, handle_mail_from, handle_rcpt_to, handle_data,
                handle_list, Content, TooLarge, EndOfData, session
  <2> QED
    BY <1>1, <2>2, <2>3 DEF ThreadTypes, FieldTypes
<1> QED
  BY <1>2, <1>3, <1>4, ThreadSteps

\* A session that takes a step is connected, and stays so: while another is
\* alone, only that other one takes steps.
LEMMA StepEngaged ==
  ASSUME NEW s \in Session, Typed, Engaged(s),
         handle_client(s) \/ User(s) \/ ReadReply(s) \/ ServerLost(s)
  PROVE  client'[s] # "out" /\ Engaged(s)'
<1>1. ClientTypes /\ ThreadTypes
  BY DEF Typed
<1>2. CASE Connect(s)
  BY <1>1, <1>2 DEF Connect, Client, Engaged, ClientTypes, ThreadTypes
<1>3. CASE EndOfInput(s) \/ Kill(s) \/ ReadReply(s) \/ ServerLost(s)
           \/ (\E n \in DOMAIN Script[s] : Command(s, n))
           \/ (\E ls \in Bodies : Body(s, ls))
  <2>1. UNCHANGED thread /\ client[s] \notin {"out", "gone"}
    BY <1>3 DEF EndOfInput, Kill, ReadReply, ServerLost, Command, Body, Client,
                serverVars
  <2>2. client'[s] # "out"
    <3>1. CASE \E n \in DOMAIN Script[s] : Command(s, n)
      BY <1>1, <3>1 DEF Command, Client, ClientTypes, Waits
    <3>2. CASE EndOfInput(s) \/ Kill(s) \/ ReadReply(s) \/ ServerLost(s)
               \/ \E ls \in Bodies : Body(s, ls)
      BY <1>1, <3>2 DEF EndOfInput, Kill, ReadReply, ServerLost, Body, Client, ClientTypes
    <3> QED
      BY <1>3, <3>1, <3>2
  <2> QED
    BY <2>1, <2>2 DEF Engaged
<1>4. CASE Disconnect(s)
  BY <1>1, <1>4 DEF Disconnect, Thread, idle, clientVars, Engaged, ThreadTypes
<1>5. CASE Idles(s) /\ ~Disconnect(s)
  <2>1. UNCHANGED client
    BY <1>1, <1>5, IdlePending DEF idle, clientVars
  <2>2. \E at \in {"recv", "store", "append", "handle"} \union WithAddress :
          thread' = [thread EXCEPT ![s] = at]
    BY <1>5 DEF Idles, FirstLine, Load, NextLine, LastLine, validate_email, Verb,
                Measure, LooksOn, Thread
  <2>3. thread[s] \notin {"none", "gone"}
    BY <1>5 DEF Idles, FirstLine, Load, NextLine, LastLine, validate_email, Measure,
                LooksOn, Thread
  <2>4. thread'[s] \notin {"none", "gone"}
    BY <1>1, <2>2 DEF ThreadTypes, WithAddress
  <2> QED
    BY <2>1, <2>3, <2>4 DEF Engaged
<1>6. CASE Handles(s)
  <2>1. PICK at \in Busy : Handled(s, at)
    BY <1>6 DEF Handles, Answer, handle_mail_from, handle_rcpt_to, handle_data,
                handle_list, Content, TooLarge, EndOfData, Busy, WithAddress
  <2>2. /\ thread[s] = at /\ thread' = [thread EXCEPT ![s] = "load"] /\ UNCHANGED client
    BY <2>1 DEF Handled, Thread, clientVars
  <2>3. thread[s] \notin {"none", "gone"} /\ thread'[s] = "load"
    BY <1>1, <2>1, <2>2 DEF ThreadTypes, Busy, WithAddress
  <2> QED
    BY <2>2, <2>3 DEF Engaged
<1> QED
  BY <1>2, <1>3, <1>4, <1>5, <1>6, ThreadSteps DEF User

\* Nobody is connected at the start.
LEMMA InitAnswer == Init => AnswerInv
<1> SUFFICES ASSUME Init, NEW s \in Session
             PROVE  Engaged(s) /\ InHand(s) /\ UnderWay(s)
  BY DEF AnswerInv
<1>1. Engaged(s) /\ UnderWay(s)
  BY DEF Init, Engaged, UnderWay
<1>2. thread[s] \notin Busy
  BY DEF Init, Busy, WithAddress
<1>3. Len(data_buffer[s]) <= DataLines
  BY MySmtpAssumption DEF Init
<1> QED
  BY <1>1, <1>2, <1>3 DEF InHand

\* Every step keeps what is under way answered.
LEMMA StepAnswer == IInv /\ AnswerInv /\ [Next]_vars => AnswerInv'
<1> SUFFICES ASSUME IInv, AnswerInv, [Next]_vars PROVE AnswerInv'
  OBVIOUS
<1>0. Typed /\ Modes
  BY DEF IInv
<1>1. CASE UNCHANGED vars
  <2>1. UNCHANGED <<client, thread, toServer, olds, loaded, line, is_data_mode,
                    data_buffer, replies, down>>
    BY <1>1 DEF vars, clientVars, strtok, session
  <2>2. ASSUME NEW s \in Session
        PROVE  Engaged(s)' /\ (Alone(s)' => InHand(s)' /\ UnderWay(s)')
    <3>1. Engaged(s) /\ (Alone(s) => InHand(s) /\ UnderWay(s))
      BY DEF AnswerInv
    <3>2. Engaged(s)' /\ Alone(s)' = Alone(s)
      BY <2>1, <3>1 DEF Engaged, Alone
    <3>3. Pending(s)' = Pending(s)
      BY <2>1 DEF Pending, Hand, Left
    <3>4. UnderWay(s) => UnderWay(s)'
      BY <2>1, <3>3 DEF UnderWay
    <3>5. InHand(s) => InHand(s)'
      BY <2>1 DEF InHand
    <3> QED
      BY <3>1, <3>2, <3>4, <3>5
  <2> QED
    BY <2>2 DEF AnswerInv
<1>2. ASSUME NEW s \in Session,
             handle_client(s) \/ User(s) \/ ReadReply(s) \/ ServerLost(s)
      PROVE  AnswerInv'
  <2>1. Engaged(s) /\ (Alone(s) => InHand(s) /\ UnderWay(s))
    BY DEF AnswerInv
  <2>2. client'[s] # "out" /\ Engaged(s)'
    BY <1>0, <1>2, <2>1, StepEngaged
  <2>3. ASSUME NEW r \in Session, r # s PROVE Engaged(r)' /\ ~Alone(r)'
    <3>1. /\ client'[r] = client[r] /\ thread'[r] = thread[r]
          /\ toServer'[r] = toServer[r] /\ is_data_mode'[r] = is_data_mode[r]
      BY <1>0, <1>2, <2>3, Elsewhere
    <3>2. Engaged(r)
      BY DEF AnswerInv
    <3>3. Engaged(r)'
      BY <3>1, <3>2 DEF Engaged
    <3> QED
      BY <2>2, <2>3, <3>3 DEF Alone
  <2>4. ASSUME Alone(s)' PROVE Alone(s)
    BY <1>0, <1>2, <2>4, Elsewhere DEF Alone
  <2>5. ASSUME InHand(s) PROVE InHand(s)'
    BY <1>0, <1>2, <2>5, ClientInHand, HandledInHand, IdleInHand, ThreadSteps
  <2>6. ASSUME InHand(s), UnderWay(s) PROVE UnderWay(s)'
    <3>1. CASE Idles(s)
      BY <1>0, <2>6, <3>1, IdleUnderWay
    <3>2. CASE Handles(s)
      BY <1>0, <2>6, <3>2, HandledUnderWay
    <3>3. CASE Connect(s)
      BY <1>0, <2>1, <3>3, ConnectUnderWay
    <3>4. CASE (\E n \in DOMAIN Script[s] : Command(s, n)) \/ (\E ls \in Bodies : Body(s, ls))
      BY <1>0, <2>6, <3>4, SendUnderWay
    <3>5. CASE EndOfInput(s) \/ Kill(s) \/ ReadReply(s) \/ ServerLost(s)
      BY <1>0, <2>6, <3>5, ReadUnderWay
    <3> QED
      BY <1>2, <3>1, <3>2, <3>3, <3>4, <3>5, ThreadSteps DEF User
  <2>7. Alone(s)' => InHand(s)' /\ UnderWay(s)'
    BY <2>1, <2>4, <2>5, <2>6
  <2> QED
    BY <2>2, <2>3, <2>7 DEF AnswerInv
<1> QED
  BY <1>1, <1>2 DEF Next

\* So that holds for ever, too.
LEMMA AnswerInvariant == Spec => []AnswerInv
<1>1. IInv /\ [Next]_vars /\ AnswerInv => AnswerInv'
  BY StepAnswer
<1> QED
  BY InitAnswer, Invariant, <1>1, PTL DEF Spec

-----------------------------------------------------------------------------
(* The theorems *)

\* The types of all variables, and that no body outgrows its data_buffer as long
\* as no other client has come: the line for which handle_data_content found room
\* is then the line that it appends.
THEOREM TypeCorrect == Spec => []TypeOK
<1>1. IInv /\ AnswerInv => TypeOK
  BY TypeParts DEF IInv, AnswerInv, Bounded, InHand
<1> QED
  BY Invariant, AnswerInvariant, <1>1, PTL

\* save_email never opens the mailbox of nobody: a session in data mode has a
\* sender and a recipient, whichever lines of other threads it was given by strtok
\* and whatever was written over them while it handled them.
THEOREM PartiesAlwaysKnown == Spec => []PartiesKnown
<1>1. IInv => PartiesKnown
  BY DEF IInv
<1> QED
  BY Invariant, <1>1, PTL

\* handle_list gives the senders of the mails stored in a mailbox, each once and
\* in order, as long as no mail has a line "---" or
\* is from what is no address.
THEOREM ListAlwaysFaithful == Spec => []ListFaithful
<1>1. IInv => ListFaithful
  <2> SUFFICES ASSUME IInv, NEW a \in Address, NoSeparator(a)
               PROVE  Listed(mailbox[a]) = [n \in DOMAIN stored[a] |-> stored[a][n].from]
    BY DEF ListFaithful
  <2>1. ListsAs(mailbox[a], stored[a]) /\ NoSeparatorIn(stored[a])
    BY DEF IInv, Faithful, NoSeparator, NoSeparatorIn
  <2>2. ListFold(mailbox[a]).senders = [n \in DOMAIN stored[a] |-> stored[a][n].from]
    BY <2>1 DEF ListsAs
  <2> QED
    BY <2>2 DEF Listed, ListFold
<1> QED
  BY Invariant, <1>1, PTL

\* handle_get_mail gives each stored mail for its number, whole and alone, and
\* nothing for the number after the last, as long as each is from an address and
\* no line of a mail looks like the start or the end of one.
THEOREM GetAlwaysFaithful == Spec => []GetFaithful
<1>1. IInv => GetFaithful
  <2> SUFFICES ASSUME IInv, NEW a \in Address, NoSeparator(a), NoHeader(a),
                      NEW id \in 1 .. Len(stored[a])+1
               PROVE  handle_get_mail(mailbox[a], id) =
                        IF id > Len(stored[a]) THEN <<>>
                        ELSE Front(Mail(stored[a][id].from, stored[a][id].body))
    BY DEF GetFaithful
  <2>1. ReadsAs(mailbox[a], stored[a])
    BY DEF IInv, Faithful
  <2>2. NoSeparatorIn(stored[a]) /\ NoHeaderIn(stored[a])
    BY DEF NoSeparator, NoSeparatorIn, NoHeader, NoHeaderIn
  <2>3. stored[a] \in Seq(Mails)
    BY DEF IInv, Typed, FileTypes
  <2>4. id \in Nat \ {0}
    <3>1. Len(stored[a]) \in Nat
      BY <2>3, LenProperties
    <3> QED
      BY <3>1
  <2>5. GetFold(mailbox[a], id).text =
          IF id > Len(stored[a]) THEN <<>>
          ELSE Front(Mail(stored[a][id].from, stored[a][id].body))
    BY <2>1, <2>2, <2>4 DEF ReadsAs, Passed
  <2> QED
    BY <2>5 DEF handle_get_mail, GetFold
<1> QED
  BY Invariant, <1>1, PTL

\* A client alone on the server that waits for an answer, with nothing left that
\* its thread has to handle, has one to read: neither of them waits for the other.
THEOREM AlwaysAnswered == Spec => []Answered
<1>1. AnswerInv => Answered
  <2> SUFFICES ASSUME AnswerInv, NEW s \in Session, Waiting(s), Alone(s),
                      thread[s] = "recv", toServer[s] = <<>>
               PROVE  replies[s] > 0
    BY DEF Answered
  <2>1. UnderWay(s)
    BY DEF AnswerInv
  <2>2. Pending(s) = (<<>> \o <<>>) \o <<>>
    BY DEF Pending, Hand, Left, Busy, WithAddress
  <2>3. Pending(s) = <<>>
    BY <2>2
  <2> QED
    BY <2>1, <2>3 DEF UnderWay, Waiting
<1> QED
  BY AnswerInvariant, <1>1, PTL
=============================================================================
