---------------------------- MODULE BasicLemmas ----------------------------
(***************************************************************************)
(* Facts that do not depend on the program.  First induction, stated for   *)
(* sets so that it can be cited: a set of naturals has a least member.     *)
(* Then what may be found in a queue after something was put in or taken   *)
(* out.  The models keep queues of records of several shapes, so a queue   *)
(* is a sequence over some set that need not be named.                     *)
(***************************************************************************)
EXTENDS Integers, Sequences, SequencesExt, WellFoundedInduction, TLAPS

(* Every set of naturals that is not empty has a least member. *)
LEMMA LeastNat ==
    ASSUME NEW T \in SUBSET Nat, T # {}
    PROVE  \E m \in T : \A n \in T : m <= n
<1> DEFINE R == {s \in Nat \X Nat : s[1] < s[2]}
<1>1. IsWellFoundedOn(R, Nat)
  BY NatLessThanWellFounded DEF OpToRel
<1>2. \A n, m \in Nat : n < m => <<n, m>> \in R
  OBVIOUS
<1> HIDE DEF R
<1>3. PICK m \in T : \A n \in T : <<n, m>> \notin R
  BY <1>1, WFMin
<1>4. \A n \in T : ~(n < m)
  BY <1>2, <1>3
<1> QED BY <1>4

(* Induction: a set that has 0, and with n also n + 1, has every natural. *)
LEMMA Induction ==
    ASSUME NEW P, 0 \in P, \A n \in Nat : n \in P => n + 1 \in P
    PROVE  Nat \subseteq P
<1> SUFFICES ASSUME Nat \ P # {} PROVE FALSE
  OBVIOUS
<1>1. PICK m \in Nat \ P : \A n \in Nat \ P : m <= n
  BY LeastNat
<1>2. m # 0 /\ m - 1 \in Nat
  BY <1>1
<1>3. m - 1 \in P
  BY <1>1, <1>2
<1> QED BY <1>1, <1>2, <1>3

-----------------------------------------------------------------------------
IsQueue(s) == \E S : s \in Seq(S)

(* The empty queue, and the queues of one and two elements. *)
LEMMA ShortQueues ==
    /\ IsQueue(<<>>) /\ ToSet(<<>>) = {}
    /\ \A a : IsQueue(<<a>>) /\ ToSet(<<a>>) = {a}
    /\ \A a, b : IsQueue(<<a, b>>) /\ ToSet(<<a, b>>) = {a, b}
<1>1. IsQueue(<<>>) /\ ToSet(<<>>) = {}
  <2>1. <<>> \in Seq({})
    OBVIOUS
  <2> QED BY <2>1 DEF IsQueue, ToSet
<1>2. ASSUME NEW a PROVE IsQueue(<<a>>) /\ ToSet(<<a>>) = {a}
  <2>1. <<a>> \in Seq({a}) /\ DOMAIN <<a>> = {1} /\ <<a>>[1] = a
    OBVIOUS
  <2> QED BY <2>1 DEF IsQueue, ToSet
<1>3. ASSUME NEW a, NEW b PROVE IsQueue(<<a, b>>) /\ ToSet(<<a, b>>) = {a, b}
  <2>1. <<a, b>> \in Seq({a, b}) /\ DOMAIN <<a, b>> = {1, 2}
        /\ <<a, b>>[1] = a /\ <<a, b>>[2] = b
    OBVIOUS
  <2> QED BY <2>1 DEF IsQueue, ToSet
<1> QED BY <1>1, <1>2, <1>3

(* Append adds its element and nothing else. *)
LEMMA Appended ==
    ASSUME NEW s, IsQueue(s), NEW e
    PROVE  IsQueue(Append(s, e)) /\ ToSet(Append(s, e)) \subseteq ToSet(s) \cup {e}
<1>1. PICK S : s \in Seq(S)
  BY DEF IsQueue
<1>2. s \in Seq(S \cup {e})
  BY <1>1
<1>3. Append(s, e) \in Seq(S \cup {e})
  BY <1>2
<1>4. ASSUME NEW n \in DOMAIN Append(s, e)
      PROVE  Append(s, e)[n] = e \/ (n \in DOMAIN s /\ Append(s, e)[n] = s[n])
  BY <1>2, <1>4
<1> QED BY <1>3, <1>4 DEF IsQueue, ToSet

LEMMA AppendedIs ==
    ASSUME NEW S, NEW s \in Seq(S), NEW e \in S
    PROVE  Append(s, e) \in Seq(S) /\ ToSet(Append(s, e)) = ToSet(s) \cup {e}
<1>1. PICK q : q = Append(s, e)
  OBVIOUS
<1>2. /\ q \in Seq(S) /\ DOMAIN q = 1..(Len(s) + 1) /\ q[Len(s) + 1] = e
      /\ DOMAIN s = 1..Len(s) /\ Len(s) \in Nat
      /\ \A n \in 1..Len(s) : q[n] = s[n]
  BY <1>1
<1>3. \A n : n \in DOMAIN q <=> n \in DOMAIN s \/ n = Len(s) + 1
  BY <1>2
<1>4. \A n \in DOMAIN s : q[n] = s[n]
  BY <1>2
<1>5. ToSet(q) = ToSet(s) \cup {e}
  BY <1>2, <1>3, <1>4 DEF ToSet
<1> QED BY <1>1, <1>2, <1>5

(* A concatenation holds what its parts hold. *)
LEMMA Joined ==
    ASSUME NEW s, NEW t, IsQueue(s), IsQueue(t)
    PROVE  IsQueue(s \o t) /\ ToSet(s \o t) \subseteq ToSet(s) \cup ToSet(t)
<1>1. PICK S, T : s \in Seq(S) /\ t \in Seq(T)
  BY DEF IsQueue
<1>2. s \in Seq(S \cup T) /\ t \in Seq(S \cup T)
  BY <1>1
<1>3. s \o t \in Seq(S \cup T)
  BY <1>2
<1>4. ASSUME NEW n \in DOMAIN (s \o t)
      PROVE  \/ n \in DOMAIN s /\ (s \o t)[n] = s[n]
             \/ n - Len(s) \in DOMAIN t /\ (s \o t)[n] = t[n - Len(s)]
  BY <1>2, <1>4
<1> QED BY <1>3, <1>4 DEF IsQueue, ToSet

LEMMA JoinIs ==
    ASSUME NEW S, NEW s \in Seq(S), NEW t \in Seq(S)
    PROVE  /\ s \o t \in Seq(S) /\ Len(s \o t) = Len(s) + Len(t)
           /\ \A i \in 1..Len(s) : (s \o t)[i] = s[i]
           /\ \A i \in 1..Len(t) : (s \o t)[Len(s) + i] = t[i]
OBVIOUS

(* Concatenation holds something if either queue does. *)
LEMMA Longer ==
    ASSUME NEW s, NEW t, IsQueue(s), IsQueue(t), s # <<>> \/ t # <<>>
    PROVE  s \o t # <<>>
<1>1. PICK S, T : s \in Seq(S) /\ t \in Seq(T)
  BY DEF IsQueue
<1>2. s \in Seq(S \cup T) /\ t \in Seq(S \cup T) /\ (Len(s) > 0 \/ Len(t) > 0)
  BY <1>1
<1>3. Len(s \o t) > 0
  BY <1>2
<1> QED BY <1>3

(* It keeps what the first one holds. *)
LEMMA JoinedKeeps ==
    ASSUME NEW s, NEW t, IsQueue(s), IsQueue(t)
    PROVE  ToSet(s) \subseteq ToSet(s \o t)
<1>1. PICK S, T : s \in Seq(S) /\ t \in Seq(T)
  BY DEF IsQueue
<1>2. s \in Seq(S \cup T) /\ t \in Seq(S \cup T)
  BY <1>1
<1>3. PICK j : j = s \o t
  OBVIOUS
<1>4. /\ DOMAIN s = 1..Len(s) /\ Len(s) \in Nat /\ Len(t) \in Nat
      /\ DOMAIN j = 1..(Len(s) + Len(t)) /\ \A n \in 1..Len(s) : j[n] = s[n]
  BY <1>2, <1>3
<1>5. \A n \in DOMAIN s : n \in DOMAIN j /\ j[n] = s[n]
  BY <1>4
<1>6. ToSet(s) \subseteq ToSet(j)
  BY <1>5 DEF ToSet
<1> QED BY <1>3, <1>6

(* Taking the first element out leaves elements that were there before. *)
LEMMA Taken ==
    ASSUME NEW s, IsQueue(s), s # <<>>
    PROVE  /\ IsQueue(Tail(s)) /\ ToSet(Tail(s)) \subseteq ToSet(s)
           /\ Head(s) = s[1] /\ s[1] \in ToSet(s)
<1>1. PICK S : s \in Seq(S)
  BY DEF IsQueue
<1>2. Tail(s) \in Seq(S) /\ Head(s) = s[1] /\ 1 \in DOMAIN s
  BY <1>1
<1>3. ASSUME NEW n \in DOMAIN Tail(s)
      PROVE  n + 1 \in DOMAIN s /\ Tail(s)[n] = s[n + 1]
  BY <1>1, <1>3
<1> QED BY <1>2, <1>3 DEF IsQueue, ToSet

-----------------------------------------------------------------------------
(* The nodes within k hops of c, along the edges E: the function that the  *)
(* recursion describes exists.  A node is within k hops when a walk of k   *)
(* steps, some of which may stay where they are, leads there.              *)
Edges(E, S) == E \in [S -> SUBSET S]

HopsOf(G, c, E, S) ==
    /\ G \in [Nat -> SUBSET S]
    /\ G = [k \in Nat |-> IF k = 0 THEN {c}
                          ELSE G[k - 1] \cup UNION {E[u] : u \in G[k - 1]}]

LEMMA HopsExist ==
    ASSUME NEW S, NEW c \in S, NEW E, Edges(E, S)
    PROVE  \E G : HopsOf(G, c, E, S)
<1>0. E \in [S -> SUBSET S]
  BY DEF Edges
<1> DEFINE Walk(f, k) == /\ f \in [0..k -> S] /\ f[0] = c
                         /\ \A i \in 0..(k - 1) : f[i + 1] = f[i] \/ f[i + 1] \in E[f[i]]
           Reached(k) == {n \in S : \E f : Walk(f, k) /\ f[k] = n}
           G == [k \in Nat |-> Reached(k)]
<1>1. Reached(0) = {c}
  <2>1. ASSUME NEW f, Walk(f, 0) PROVE f[0] = c
    BY <2>1
  <2>2. Walk([i \in 0..0 |-> c], 0) /\ [i \in 0..0 |-> c][0] = c
    OBVIOUS
  <2> HIDE DEF Walk
  <2> QED BY <2>1, <2>2
<1>2. ASSUME NEW k \in Nat
      PROVE  Reached(k + 1) = Reached(k) \cup UNION {E[u] : u \in Reached(k)}
  <2>1. ASSUME NEW n \in S, NEW f, Walk(f, k + 1), f[k + 1] = n
        PROVE  \E u \in Reached(k) : n = u \/ n \in E[u]
    <3> DEFINE h == [i \in 0..k |-> f[i]]
    <3>1. \A i \in 0..k : i \in 0..(k + 1) /\ f[i] \in S
      BY <2>1
    <3>2. h \in [0..k -> S] /\ h[0] = c
      BY <2>1, <3>1
    <3>3. \A i \in 0..(k - 1) : h[i + 1] = h[i] \/ h[i + 1] \in E[h[i]]
      BY <2>1
    <3>4. Walk(h, k) /\ h[k] = f[k] /\ f[k] \in S
      BY <3>1, <3>2, <3>3
    <3>5. n = f[k] \/ n \in E[f[k]]
      BY <2>1
    <3> HIDE DEF Walk, h
    <3>6. f[k] \in Reached(k)
      BY <3>4
    <3> QED BY <3>5, <3>6
  <2>2. ASSUME NEW u \in S, NEW f, Walk(f, k), f[k] = u, NEW n \in S, n = u \/ n \in E[u]
        PROVE  n \in Reached(k + 1)
    <3> DEFINE h == [i \in 0..(k + 1) |-> IF i = k + 1 THEN n ELSE f[i]]
    <3>1. \A i \in 0..(k + 1) : i = k + 1 \/ i \in 0..k
      OBVIOUS
    <3>2. h \in [0..(k + 1) -> S] /\ h[0] = c /\ h[k + 1] = n
      BY <2>2, <3>1
    <3>3. \A i \in 0..k : h[i + 1] = h[i] \/ h[i + 1] \in E[h[i]]
      <4> SUFFICES ASSUME NEW i \in 0..k PROVE h[i + 1] = h[i] \/ h[i + 1] \in E[h[i]]
        OBVIOUS
      <4>1. CASE i = k
        <5>1. h[i] = u /\ h[i + 1] = n
          BY <2>2, <4>1
        <5> QED BY <2>2, <5>1
      <4>2. CASE i # k
        <5>1. i \in 0..(k - 1) /\ h[i] = f[i] /\ h[i + 1] = f[i + 1]
          BY <4>2
        <5> QED BY <2>2, <5>1
      <4> QED BY <4>1, <4>2
    <3>4. Walk(h, k + 1)
      <4>1. (k + 1) - 1 = k
        OBVIOUS
      <4> HIDE DEF h
      <4> QED BY <3>2, <3>3, <4>1
    <3> HIDE DEF Walk, h
    <3> QED BY <3>2, <3>4
  <2>3. \A u \in Reached(k) : u \in S /\ E[u] \subseteq S
    BY <1>0
  <2>4. Reached(k + 1) \subseteq Reached(k) \cup UNION {E[u] : u \in Reached(k)}
    <3> SUFFICES ASSUME NEW n \in Reached(k + 1)
                 PROVE  \E u \in Reached(k) : n = u \/ n \in E[u]
      OBVIOUS
    <3>1. n \in S
      OBVIOUS
    <3>2. PICK f : Walk(f, k + 1) /\ f[k + 1] = n
      <4> HIDE DEF Walk
      <4> QED OBVIOUS
    <3> HIDE DEF Reached, Walk
    <3> QED BY <2>1, <3>1, <3>2
  <2>5. ASSUME NEW u \in Reached(k), NEW n \in S, n = u \/ n \in E[u] PROVE n \in Reached(k + 1)
    <3>1. PICK f : Walk(f, k) /\ f[k] = u
      <4> HIDE DEF Walk
      <4> QED OBVIOUS
    <3>2. u \in S
      BY <2>3
    <3> HIDE DEF Reached, Walk
    <3> QED BY <2>2, <2>5, <3>1, <3>2
  <2> HIDE DEF Reached
  <2>6. Reached(k) \subseteq S
    BY <2>3
  <2>7. Reached(k) \cup UNION {E[u] : u \in Reached(k)} \subseteq Reached(k + 1)
    BY <2>3, <2>5
  <2> QED BY <2>4, <2>7
<1>3. \A k \in Nat : Reached(k) \in SUBSET S
  OBVIOUS
<1> HIDE DEF Reached
<1>4. G \in [Nat -> SUBSET S]
  BY <1>3
<1>5. ASSUME NEW k \in Nat
      PROVE  G[k] = IF k = 0 THEN {c} ELSE G[k - 1] \cup UNION {E[u] : u \in G[k - 1]}
  <2>1. CASE k = 0
    BY <1>1, <2>1
  <2>2. CASE k # 0
    <3>1. PICK j \in Nat : k = j + 1 /\ k - 1 = j
      BY <2>2
    <3> QED BY <1>2, <2>2, <3>1
  <2> QED BY <2>1, <2>2
<1> HIDE DEF G
<1>6. DOMAIN G = Nat
  BY <1>4
<1>7. G = [k \in Nat |-> IF k = 0 THEN {c}
                         ELSE G[k - 1] \cup UNION {E[u] : u \in G[k - 1]}]
  BY <1>4, <1>5
<1> QED BY <1>4, <1>7 DEF HopsOf

-----------------------------------------------------------------------------
(* A fold over a sequence takes the largest index left at each turn.       *)
LEMMA MaxIn ==
    ASSUME NEW n \in Nat, NEW s \in SUBSET (1..n), s # {}
    PROVE  Max(s) \in s /\ \A i \in s : i <= Max(s)
<1> DEFINE T == {m \in Nat : \A i \in s : i <= m}
<1>1. n \in T /\ T \in SUBSET Nat
  OBVIOUS
<1>2. PICK m \in T : \A q \in T : m <= q
  <2> HIDE DEF T
  <2> QED BY <1>1, LeastNat
<1>3. m \in Nat /\ \A i \in s : i <= m /\ i \in Nat \ {0}
  BY <1>2
<1>4. m # 0
  <2>1. PICK i : i \in s
    OBVIOUS
  <2> QED BY <1>3, <2>1
<1>5. m - 1 \notin T /\ m - 1 \in Nat
  BY <1>2, <1>3, <1>4
<1>6. m \in s
  BY <1>3, <1>5
<1>7. \E x \in s : \A y \in s : x >= y
  BY <1>3, <1>6
<1>8. Max(s) \in s /\ \A y \in s : Max(s) >= y
  <2>1. Max(s) = CHOOSE x \in s : \A y \in s : x >= y
    BY DEF Max
  <2> HIDE DEF T
  <2> QED BY <1>7, <2>1
<1> QED BY <1>3, <1>8

LEMMA MaxTop ==
    ASSUME NEW n \in Nat, NEW s \in SUBSET (1..n), n \in s
    PROVE  Max(s) = n
<1>1. Max(s) \in s /\ n <= Max(s)
  BY MaxIn
<1>2. Max(s) \in 1..n
  BY <1>1
<1>3. PICK m \in 1..n : m = Max(s)
  BY <1>2
<1> QED BY <1>1, <1>3

LEMMA IndexSets ==
    ASSUME NEW n \in Nat, NEW i \in 1..n
    PROVE  /\ 1..i \in SUBSET (1..n) /\ 1..i # {} /\ Max(1..i) = i
           /\ (1..i) \ {i} = 1..(i - 1)
<1>1. /\ i \in Nat /\ 1..i \in SUBSET (1..n) /\ 1..i # {} /\ i \in 1..i
      /\ (1..i) \ {i} = 1..(i - 1)
  OBVIOUS
<1>2. Max(1..i) = i
  BY <1>1, MaxTop
<1> QED BY <1>1, <1>2

(* Fold F from b on over the indices 1..n: its recursion has a solution.   *)
Turns(F, n, V) == F \in [(1..n) \X V -> V]

FoldOf(g, F, b, n, V) ==
    /\ g \in [SUBSET (1..n) -> V]
    /\ \A s \in SUBSET (1..n) :
          g[s] = IF s = {} THEN b ELSE F[<<Max(s), g[s \ {Max(s)}]>>]

LEMMA FoldExists ==
    ASSUME NEW n \in Nat, NEW V, NEW b \in V, NEW F, Turns(F, n, V)
    PROVE  \E g : FoldOf(g, F, b, n, V)
<1> DEFINE Done(k) == k <= n => \E g : FoldOf(g, F, b, k, V)
           D == {k \in Nat : Done(k)}
<1> HIDE DEF Done
<1>1. 0 \in D
  <2> DEFINE g == [s \in SUBSET (1..0) |-> b]
  <2>1. g \in [SUBSET (1..0) -> V] /\ \A s \in SUBSET (1..0) : s = {} /\ g[s] = b
    OBVIOUS
  <2>2. FoldOf(g, F, b, 0, V)
    BY <2>1 DEF FoldOf
  <2> HIDE DEF g
  <2>3. Done(0)
    BY <2>2 DEF Done
  <2> QED BY <2>3
<1>2. ASSUME NEW k \in Nat, k \in D PROVE k + 1 \in D
  <2> SUFFICES ASSUME k + 1 <= n
               PROVE  \E g : FoldOf(g, F, b, k + 1, V)
    <3>1. k + 1 \in Nat
      OBVIOUS
    <3> QED BY <3>1 DEF Done
  <2>1. PICK g : FoldOf(g, F, b, k, V)
    <3>1. k <= n
      OBVIOUS
    <3>2. Done(k)
      BY <1>2
    <3> QED BY <3>1, <3>2 DEF Done
  <2> DEFINE m == k + 1
             h == [s \in SUBSET (1..m) |-> IF m \in s THEN F[<<m, g[s \ {m}]>>] ELSE g[s]]
  <2>2. m \in 1..n /\ m \in Nat /\ \A i \in 1..m : i = m \/ i \in 1..k
    OBVIOUS
  <2>3. m \notin 1..k /\ \A i \in 1..k : i \in 1..m
    OBVIOUS
  <2> HIDE DEF m
  <2>4. \A s \in SUBSET (1..m) : /\ s \ {m} \in SUBSET (1..k)
                                 /\ m \notin s => s \in SUBSET (1..k)
    BY <2>2
  <2>5. h \in [SUBSET (1..m) -> V]
    BY <2>1, <2>2, <2>4 DEF FoldOf, Turns
  <2>6. ASSUME NEW s \in SUBSET (1..m), m \in s
        PROVE  h[s] = F[<<Max(s), h[s \ {Max(s)}]>>]
    <3>1. Max(s) = m
      BY <2>2, <2>6, MaxTop
    <3>2. s \ {m} \in SUBSET (1..m) /\ m \notin s \ {m}
      OBVIOUS
    <3>3. h[s \ {m}] = g[s \ {m}] /\ h[s] = F[<<m, g[s \ {m}]>>]
      BY <2>6, <3>2
    <3> QED BY <3>1, <3>3
  <2>7. ASSUME NEW s \in SUBSET (1..m), m \notin s
        PROVE  h[s] = IF s = {} THEN b ELSE F[<<Max(s), h[s \ {Max(s)}]>>]
    <3>1. s \in SUBSET (1..k) /\ h[s] = g[s]
      BY <2>4, <2>7
    <3>2. s \ {Max(s)} \in SUBSET (1..m) /\ m \notin s \ {Max(s)}
      BY <2>7
    <3>3. h[s \ {Max(s)}] = g[s \ {Max(s)}]
      BY <3>2
    <3>4. g[s] = IF s = {} THEN b ELSE F[<<Max(s), g[s \ {Max(s)}]>>]
      BY <2>1, <3>1 DEF FoldOf
    <3> QED BY <3>1, <3>3, <3>4
  <2> HIDE DEF h
  <2>8. FoldOf(h, F, b, m, V)
    BY <2>5, <2>6, <2>7 DEF FoldOf
  <2> QED BY <2>8 DEF m
<1> HIDE DEF D
<1>3. n \in D
  BY <1>1, <1>2, Induction
<1>4. Done(n) /\ n <= n
  BY <1>3 DEF D
<1> QED BY <1>4 DEF Done
=============================================================================
