----------------------------- MODULE OspfProofs -----------------------------
(***************************************************************************)
(* The routing table, for any number of names and lines: whatever order    *)
(* the announcements come in, each node keeps the neighbours of its newest *)
(* one, and a table that is finished has one entry for each client that    *)
(* announced itself and for nobody else.                                   *)
(***************************************************************************)
EXTENDS Ospf, BasicLemmas, FiniteSetTheorems

(* What the lines read so far have left. *)
LinesInv ==
    /\ DOMAIN seq_num = Names /\ DOMAIN neighbors = Names
    /\ \A n \in Names : seq_num[n] \in Int
    /\ heard \subseteq Announcements
    /\ NewestWins

LEMMA LineTypes ==
    ASSUME NEW l \in Announcements
    PROVE  l.name \in Names /\ l.seq \in Nat
BY OspfAssumption

(* A line of one node leaves the others alone. *)
LEMMA LineOthers ==
    ASSUME LinesInv, NEW l \in Announcements, ParseLSA(l), NEW n \in Names, n # l.name
    PROVE  /\ seq_num'[n] = seq_num[n] /\ neighbors'[n] = neighbors[n]
           /\ {m \in heard' : m.name = n} = {m \in heard : m.name = n}
<1>1. heard' = heard \cup {l}
  BY DEF ParseLSA
<1>2. seq_num'[n] = seq_num[n] /\ neighbors'[n] = neighbors[n]
  BY DEF ParseLSA, ParseNew, ParseOld, LinesInv
<1> QED BY <1>1, <1>2

(* The node a line names: the line wins if it is newer than all before. *)
LEMMA LineOwn ==
    ASSUME LinesInv, NEW l \in Announcements, ParseLSA(l)
    PROVE  LET n == l.name
           IN \E w \in heard' : /\ w.name = n
                                /\ \A m \in heard' : m.name = n => m.seq <= w.seq
                                /\ seq_num'[n] = w.seq
                                /\ neighbors'[n] = Distinct(w.nbrs)
<1> DEFINE n == l.name
<1>1. n \in Names /\ l.seq \in Nat /\ heard' = heard \cup {l} /\ seq_num[n] \in Int
  BY LineTypes DEF ParseLSA, LinesInv
<1>2. \A m \in heard : m.seq \in Nat
  BY LineTypes DEF LinesInv
<1>3. \A m \in heard : m.name = n => m.seq <= seq_num[n]
  <2>1. SUFFICES ASSUME NEW m \in heard, m.name = n PROVE m.seq <= seq_num[n]
    OBVIOUS
  <2>2. {x \in heard : x.name = n} # {}
    BY <2>1
  <2> QED BY <1>1, <2>1, <2>2 DEF LinesInv, NewestWins
<1>4. CASE ParseNew(l)
  <2>1. l.seq > seq_num[n] /\ seq_num'[n] = l.seq /\ neighbors'[n] = Distinct(l.nbrs)
    BY <1>1, <1>4 DEF ParseNew, LinesInv
  <2> HIDE DEF n
  <2>2. \A m \in heard' : m.name = n => m.seq <= l.seq
    BY <1>1, <1>2, <1>3, <2>1
  <2> QED BY <1>1, <2>1, <2>2 DEF n
<1>5. CASE ParseOld(l)
  <2>1. l.seq <= seq_num[n] /\ UNCHANGED <<seq_num, neighbors>>
    BY <1>5 DEF ParseOld
  <2>2. {x \in heard : x.name = n} # {}
    BY <1>1, <2>1 DEF LinesInv, NewestWins
  <2>3. PICK w \in heard : /\ w.name = n /\ seq_num[n] = w.seq
                           /\ neighbors[n] = Distinct(w.nbrs)
    BY <1>1, <2>2 DEF LinesInv, NewestWins
  <2> HIDE DEF n
  <2>4. \A m \in heard' : m.name = n => m.seq <= w.seq
    BY <1>1, <1>3, <2>1, <2>3
  <2> QED BY <1>1, <2>1, <2>3, <2>4 DEF n
<1> QED BY <1>4, <1>5 DEF ParseLSA

LEMMA LinesKept == LinesInv /\ [Next]_vars => LinesInv'
<1> SUFFICES ASSUME LinesInv, [Next]_vars PROVE LinesInv'
  OBVIOUS
<1>1. ASSUME NEW l \in Announcements, ParseLSA(l) PROVE LinesInv'
  <2>1. l.name \in Names /\ l.seq \in Nat
    BY LineTypes
  <2>2. /\ DOMAIN seq_num' = Names /\ DOMAIN neighbors' = Names
        /\ heard' \subseteq Announcements
    BY <1>1 DEF ParseLSA, ParseNew, ParseOld, LinesInv
  <2>3. \A n \in Names : seq_num'[n] \in Int
    BY <1>1, <2>1 DEF ParseLSA, ParseNew, ParseOld, LinesInv
  <2>4. ASSUME NEW n \in Names
        PROVE  LET mine == {m \in heard' : m.name = n}
               IN IF mine = {} THEN seq_num'[n] = -1 /\ neighbors'[n] = <<>>
                  ELSE \E w \in mine : /\ \A m \in mine : m.seq <= w.seq
                                       /\ seq_num'[n] = w.seq
                                       /\ neighbors'[n] = Distinct(w.nbrs)
    <3>1. CASE n # l.name
      <4>1. /\ seq_num'[n] = seq_num[n] /\ neighbors'[n] = neighbors[n]
            /\ {m \in heard' : m.name = n} = {m \in heard : m.name = n}
        BY <1>1, <3>1, LineOthers
      <4> QED BY <4>1 DEF LinesInv, NewestWins
    <3>2. CASE n = l.name
      <4>1. PICK w \in heard' : /\ w.name = n
                                /\ \A m \in heard' : m.name = n => m.seq <= w.seq
                                /\ seq_num'[n] = w.seq
                                /\ neighbors'[n] = Distinct(w.nbrs)
        BY <1>1, <3>2, LineOwn
      <4> QED BY <4>1
    <3> QED BY <3>1, <3>2
  <2> QED BY <2>2, <2>3, <2>4 DEF LinesInv, NewestWins
<1>2. CASE UNCHANGED <<seq_num, neighbors, heard>>
  BY <1>2 DEF LinesInv, NewestWins
<1>3. EndOfFile \/ FindServer \/ Expand \/ NoServer \/ UNCHANGED vars
        => UNCHANGED <<seq_num, neighbors, heard>>
  BY DEF EndOfFile, FindServer, Expand, NoServer, vars, lsaVars
<1> QED BY <1>1, <1>2, <1>3 DEF Next

(***************************************************************************)
(* Late and repeated announcements never bring old neighbours back: after  *)
(* any lines in any order, a node's list is that of its newest one.        *)
(***************************************************************************)
THEOREM NewestKept == Spec => []NewestWins
<1>1. Init => LinesInv
  BY DEF Init, LinesInv, NewestWins
<1>2. LinesInv => NewestWins
  BY DEF LinesInv
<1> QED BY <1>1, <1>2, LinesKept, PTL DEF Spec

-----------------------------------------------------------------------------
(* The names that are clients by what was read. *)
Expected == {l.name : l \in heard} \ (Routers \cup ToSet(servs))

Once(s) == \A m, n \in DOMAIN s : s[m] = s[n] => m = n

(* Each client is listed once, and the searches finished are those of the  *)
(* first clients of the list, in its order.                                *)
TableInv ==
    /\ IsQueue(servs) /\ IsQueue(clits) /\ Once(clits) /\ ToSet(clits) = Expected
    /\ IsQueue(routing_table) /\ searched \in Nat
    /\ Len(routing_table) <= Len(clits)
    /\ \A i \in DOMAIN routing_table : routing_table[i].clit = clits[i]
    /\ pc = "lsa" => routing_table = <<>>
    /\ pc \in {"spf", "assert"} => searched = Len(routing_table) + 1 /\ searched <= Len(clits)
    /\ pc = "serving" => Len(routing_table) = Len(clits)

LEMMA QueueShape ==
    ASSUME NEW s, IsQueue(s)
    PROVE  Len(s) \in Nat /\ DOMAIN s = 1..Len(s)
<1>1. PICK S : s \in Seq(S)
  BY DEF IsQueue
<1> QED BY <1>1

(* Appending what a list lacks keeps its elements apart. *)
LEMMA AppendOnce ==
    ASSUME NEW s, IsQueue(s), Once(s), NEW e
    PROVE  /\ IsQueue(AppendNew(s, e)) /\ Once(AppendNew(s, e))
           /\ ToSet(AppendNew(s, e)) = ToSet(s) \cup {e}
<1>1. PICK S : s \in Seq(S)
  BY DEF IsQueue
<1>2. s \in Seq(S \cup {e}) /\ DOMAIN s = 1..Len(s) /\ Len(s) \in Nat
  BY <1>1
<1>3. CASE Contains(s, e)
  <2>1. e \in ToSet(s)
    BY <1>2, <1>3 DEF Contains, ToSet
  <2> QED BY <1>3, <2>1 DEF AppendNew
<1>4. CASE ~Contains(s, e)
  <2> DEFINE q == Append(s, e)
  <2>1. /\ q \in Seq(S \cup {e}) /\ DOMAIN q = 1..(Len(s) + 1)
        /\ q[Len(s) + 1] = e
        /\ \A n \in 1..Len(s) : q[n] = s[n]
    BY <1>2
  <2>2. AppendNew(s, e) = q
    BY <1>4 DEF AppendNew
  <2>3. \A n \in 1..Len(s) : s[n] # e
    BY <1>4 DEF Contains
  <2> HIDE DEF q
  <2>4. Once(q)
    <3> SUFFICES ASSUME NEW m \in DOMAIN q, NEW n \in DOMAIN q, q[m] = q[n] PROVE m = n
      BY DEF Once
    <3>1. m \in 1..(Len(s) + 1) /\ n \in 1..(Len(s) + 1)
      BY <2>1
    <3>2. CASE m \in 1..Len(s) /\ n \in 1..Len(s)
      BY <1>2, <2>1, <3>2 DEF Once
    <3>3. CASE m = Len(s) + 1 \/ n = Len(s) + 1
      BY <1>2, <2>1, <2>3, <3>1, <3>3
    <3> QED BY <1>2, <3>1, <3>2, <3>3
  <2>5. ToSet(q) = ToSet(s) \cup {e}
    <3>1. ToSet(q) \subseteq ToSet(s) \cup {e}
      BY <1>2, <2>1 DEF ToSet
    <3>2. e \in ToSet(q)
      BY <1>2, <2>1 DEF ToSet
    <3>3. ToSet(s) \subseteq ToSet(q)
      <4> SUFFICES ASSUME NEW n \in DOMAIN s PROVE s[n] \in ToSet(q)
        BY DEF ToSet
      <4>1. n \in DOMAIN q /\ q[n] = s[n]
        BY <1>2, <2>1
      <4> QED BY <4>1 DEF ToSet
    <3> QED BY <3>1, <3>2, <3>3
  <2> QED BY <2>1, <2>2, <2>4, <2>5 DEF IsQueue
<1> QED BY <1>3, <1>4

LEMMA LineListed ==
    ASSUME TableInv, NEW l \in Announcements, ParseLSA(l)
    PROVE  TableInv'
<1>1. /\ pc = "lsa" /\ UNCHANGED <<pc, servs, routing_table, searched>>
      /\ heard' = heard \cup {l}
      /\ clits' = IF Contains(servs, l.name) \/ l.name \in Routers THEN clits
                                                    ELSE AppendNew(clits, l.name)
  BY DEF ParseLSA, MeetNode, spfVars
<1>2. routing_table = <<>> /\ routing_table' = <<>> /\ searched' \in Nat
  BY <1>1 DEF TableInv
<1>3. IsQueue(clits') /\ Once(clits') /\ ToSet(clits') = Expected'
  <2>1. {m.name : m \in heard'} = {m.name : m \in heard} \cup {l.name}
    BY <1>1
  <2>2. Contains(servs, l.name) <=> l.name \in ToSet(servs)
    <3>1. DOMAIN servs = 1..Len(servs)
      BY QueueShape DEF TableInv
    <3> QED BY <3>1 DEF Contains, ToSet
  <2>3. CASE Contains(servs, l.name) \/ l.name \in Routers
    BY <1>1, <2>1, <2>2, <2>3 DEF TableInv, Expected
  <2>4. CASE ~(Contains(servs, l.name) \/ l.name \in Routers)
    <3>1. IsQueue(clits') /\ Once(clits') /\ ToSet(clits') = ToSet(clits) \cup {l.name}
      BY <1>1, <2>4, AppendOnce DEF TableInv
    <3> QED BY <1>1, <2>1, <2>2, <2>4, <3>1 DEF TableInv, Expected
  <2> QED BY <2>3, <2>4
<1>4. Len(clits') \in Nat
  BY <1>3, QueueShape
<1>5. /\ IsQueue(routing_table') /\ Len(routing_table') = 0 /\ DOMAIN routing_table' = {}
  BY <1>2, ShortQueues
<1> QED BY <1>1, <1>2, <1>3, <1>4, <1>5 DEF TableInv

(* The next search starts from the client after the last one entered, or   *)
(* there is none left.                                                     *)
LEMMA SearchStarted ==
    ASSUME TableInv, UNCHANGED <<servs, clits, heard>>, IsQueue(routing_table'),
           Len(routing_table') <= Len(clits),
           \A i \in DOMAIN routing_table' : routing_table'[i].clit = clits[i],
           StartSearch(Len(routing_table') + 1)
    PROVE  TableInv'
<1>1. Len(routing_table') \in Nat /\ Len(clits) \in Nat
  BY QueueShape DEF TableInv
<1>2. /\ IsQueue(servs') /\ IsQueue(clits') /\ Once(clits') /\ ToSet(clits') = Expected'
      /\ clits' = clits
  BY DEF TableInv, Expected, Once
<1>3. CASE Len(routing_table') + 1 <= Len(clits)
  <2>1. pc' = "spf" /\ searched' = Len(routing_table') + 1
    BY <1>3 DEF StartSearch
  <2> QED BY <1>1, <1>2, <1>3, <2>1 DEF TableInv
<1>4. CASE ~(Len(routing_table') + 1 <= Len(clits))
  <2>1. pc' = "serving" /\ searched' = searched
    BY <1>4 DEF StartSearch
  <2> QED BY <1>1, <1>2, <1>4, <2>1 DEF TableInv
<1> QED BY <1>3, <1>4

LEMMA Entered ==
    ASSUME TableInv, FindServer
    PROVE  TableInv'
<1>1. PICK s :
        /\ pc = "spf" /\ UNCHANGED <<servs, clits, heard>>
        /\ routing_table' = Append(routing_table, [clit |-> clits[searched], serv |-> s])
        /\ StartSearch(searched + 1)
  BY DEF FindServer, lsaVars
<1> DEFINE e == [clit |-> clits[searched], serv |-> s]
<1>2. searched = Len(routing_table) + 1 /\ searched <= Len(clits) /\ Len(clits) \in Nat
  BY <1>1, QueueShape DEF TableInv
<1>3. PICK S : routing_table \in Seq(S)
  BY DEF TableInv, IsQueue
<1>4. e.clit = clits[searched]
  OBVIOUS
<1> HIDE DEF e
<1>5. /\ routing_table' = Append(routing_table, e)
      /\ IsQueue(routing_table')
  BY <1>1, Appended DEF TableInv, e
<1>6. /\ Len(routing_table') = searched
      /\ \A i \in DOMAIN routing_table' :
            \/ i = searched /\ routing_table'[i] = e
            \/ i \in DOMAIN routing_table /\ routing_table'[i] = routing_table[i]
  <2>1. routing_table \in Seq(S \cup {e})
    BY <1>3
  <2> QED BY <1>2, <1>5, <2>1
<1>7. \A i \in DOMAIN routing_table' : routing_table'[i].clit = clits[i]
  BY <1>4, <1>6 DEF TableInv
<1> QED BY <1>1, <1>2, <1>5, <1>6, <1>7, SearchStarted

LEMMA TableKept == TableInv /\ [Next]_vars => TableInv'
<1> SUFFICES ASSUME TableInv, [Next]_vars PROVE TableInv'
  OBVIOUS
<1>1. CASE EndOfFile
  <2>1. /\ UNCHANGED <<servs, clits, heard, routing_table>> /\ routing_table = <<>>
        /\ StartSearch(1)
    BY <1>1 DEF EndOfFile, lsaVars, TableInv
  <2>2. Len(routing_table') = 0 /\ DOMAIN routing_table' = {} /\ IsQueue(routing_table')
    BY <2>1, ShortQueues
  <2>3. 0 <= Len(clits)
    BY QueueShape DEF TableInv
  <2> QED BY <2>1, <2>2, <2>3, SearchStarted
<1>2. CASE Expand \/ UNCHANGED vars
  <2>1. UNCHANGED <<servs, clits, heard, routing_table, searched, pc>>
    BY <1>2 DEF Expand, lsaVars, spfVars, vars
  <2> QED BY <2>1 DEF TableInv, Expected, Once
<1>3. CASE NoServer
  <2>1. /\ UNCHANGED <<servs, clits, heard, routing_table, searched>>
        /\ pc = "spf" /\ pc' = "assert"
    BY <1>3 DEF NoServer, lsaVars, spfVars
  <2> QED BY <2>1 DEF TableInv, Expected, Once
<1> QED BY <1>1, <1>2, <1>3, LineListed, Entered DEF Next

(* A finished table, read by name. *)
LEMMA TableRead ==
    ASSUME TableInv, pc = "serving", NEW n \in Names
    PROVE  Cardinality(Entries(n)) =
              IF n \in {l.name : l \in heard} \ (Routers \cup ToSet(servs)) THEN 1 ELSE 0
<1>1. /\ DOMAIN routing_table = DOMAIN clits
      /\ \A i \in DOMAIN clits : routing_table[i].clit = clits[i]
  BY QueueShape DEF TableInv
<1>2. Entries(n) = {i \in DOMAIN clits : clits[i] = n}
  BY <1>1 DEF Entries
<1>3. CASE n \in ToSet(clits)
  <2>1. PICK i \in DOMAIN clits : clits[i] = n
    BY <1>3 DEF ToSet
  <2>2. Entries(n) = {i}
    BY <1>2, <2>1 DEF TableInv, Once
  <2>3. Cardinality({i}) = 1
    BY FS_Singleton
  <2> QED BY <1>3, <2>2, <2>3 DEF TableInv, Expected
<1>4. CASE n \notin ToSet(clits)
  <2>1. Entries(n) = {}
    BY <1>2, <1>4 DEF ToSet
  <2>2. Cardinality({}) = 0
    BY FS_EmptySet
  <2> QED BY <1>4, <2>1, <2>2 DEF TableInv, Expected
<1> QED BY <1>3, <1>4

LEMMA TableStart == ASSUME Init PROVE TableInv
<1>1. Expected = {}
  BY DEF Init, Expected
<1>2. IsQueue(servs)
  BY OspfAssumption DEF Init, IsQueue
<1>3. /\ IsQueue(<<>>) /\ ToSet(<<>>) = {} /\ Len(<<>>) = 0 /\ DOMAIN <<>> = {}
      /\ Once(<<>>)
  BY ShortQueues DEF Once
<1>4. clits = <<>> /\ routing_table = <<>> /\ pc = "lsa" /\ searched = 0
  BY DEF Init
<1> QED BY <1>1, <1>2, <1>3, <1>4 DEF TableInv

(***************************************************************************)
(* Once the server answers, route() finds one entry for every client that  *)
(* announced itself, whatever the number of its lines and their order, and *)
(* none for a router, a server or a client never heard of.                 *)
(***************************************************************************)
THEOREM TableHasAll == Spec => []TableComplete
<1>1. Init => TableInv
  BY TableStart
<1>2. TableInv => TableComplete
  BY TableRead DEF TableComplete
<1> QED BY <1>1, <1>2, TableKept, PTL DEF Spec

-----------------------------------------------------------------------------
(* The lists the lines leave: what a fold over neighbours returns.         *)
LEMMA IsIn ==
    ASSUME NEW S, NEW s \in Seq(S), NEW e
    PROVE  Contains(s, e) <=> e \in ToSet(s)
<1>1. DOMAIN s = 1..Len(s)
  OBVIOUS
<1> QED BY <1>1 DEF Contains, ToSet

LEMMA AppendIn ==
    ASSUME NEW S, NEW s \in Seq(S), NEW e \in S
    PROVE  /\ AppendNew(s, e) \in Seq(S)
           /\ ToSet(AppendNew(s, e)) = ToSet(s) \cup {e}
<1>1. CASE Contains(s, e)
  BY <1>1, IsIn DEF AppendNew
<1>2. CASE ~Contains(s, e)
  BY <1>2, AppendedIs DEF AppendNew
<1> QED BY <1>1, <1>2

(* The lists after each neighbour: the fold's turns, one by one. *)
LEMMA AllNewTurns ==
    ASSUME NEW S, NEW s \in Seq(S), NEW t \in Seq(S)
    PROVE  \E L : /\ L[0] = s /\ L[Len(t)] = AppendAllNew(s, t)
                  /\ \A i \in 1..Len(t) : L[i] = AppendNew(L[i - 1], t[i])
<1> DEFINE n == Len(t)
           F == [p \in (1..n) \X Seq(S) |-> AppendNew(p[2], t[p[1]])]
<1>1. n \in Nat /\ DOMAIN t = 1..n /\ \A i \in 1..n : t[i] \in S
  OBVIOUS
<1> HIDE DEF n
<1>2. F \in [(1..n) \X Seq(S) -> Seq(S)]
  BY <1>1, AppendIn
<1>3. \A i \in 1..n, a \in Seq(S) : F[<<i, a>>] = AppendNew(a, t[i])
  OBVIOUS
<1> HIDE DEF F
<1>4. PICK g \in [SUBSET (1..n) -> Seq(S)] :
        \A x \in SUBSET (1..n) : g[x] = IF x = {} THEN s ELSE F[<<Max(x), g[x \ {Max(x)}]>>]
  <2>1. PICK V : V = Seq(S)
    OBVIOUS
  <2>2. s \in V /\ Turns(F, n, V)
    BY <1>2, <2>1 DEF Turns
  <2>3. \E g : FoldOf(g, F, s, n, V)
    BY <1>1, <2>2, FoldExists
  <2> QED BY <2>1, <2>3 DEF FoldOf
<1>5. ASSUME NEW x \in SUBSET (1..n)
      PROVE  g[x] = IF x = {} THEN s ELSE AppendNew(g[x \ {Max(x)}], t[Max(x)])
  <2>1. CASE x = {}
    BY <1>4, <2>1
  <2>2. CASE x # {}
    <3>1. Max(x) \in 1..n
      BY <1>1, <2>2, MaxIn
    <3>2. x \ {Max(x)} \in SUBSET (1..n) /\ g[x \ {Max(x)}] \in Seq(S)
      BY <1>4
    <3> QED BY <1>3, <1>4, <2>2, <3>1, <3>2
  <2> QED BY <2>1, <2>2
<1>6. g = [x \in SUBSET (1..n) |->
             IF x = {} THEN s ELSE AppendNew(g[x \ {Max(x)}], t[Max(x)])]
  <2>1. DOMAIN g = SUBSET (1..n)
    BY <1>4
  <2> QED BY <1>5, <2>1
<1>7. PICK h : h = CHOOSE f : f = [x \in SUBSET (1..n) |->
                                     IF x = {} THEN s ELSE AppendNew(f[x \ {Max(x)}], t[Max(x)])]
  OBVIOUS
<1>8. h = [x \in SUBSET (1..n) |-> IF x = {} THEN s ELSE AppendNew(h[x \ {Max(x)}], t[Max(x)])]
  BY <1>6, <1>7
<1>9. AppendAllNew(s, t) = h[1..n]
  BY <1>1, <1>7 DEF AppendAllNew, FoldLeft, MapThenFoldSet
<1> DEFINE L == [i \in 0..n |-> h[1..i]]
<1>10. L[0] = s /\ L[n] = h[1..n]
  <2>1. 1..0 = {} /\ {} \in SUBSET (1..n) /\ 0 \in 0..n /\ n \in 0..n
    BY <1>1
  <2> QED BY <1>8, <2>1
<1>11. ASSUME NEW i \in 1..n PROVE L[i] = AppendNew(L[i - 1], t[i])
  <2>1. /\ 1..i \in SUBSET (1..n) /\ 1..i # {} /\ Max(1..i) = i
        /\ (1..i) \ {i} = 1..(i - 1)
    BY <1>1, IndexSets
  <2>2. h[1..i] = AppendNew(h[1..(i - 1)], t[i])
    BY <1>8, <2>1
  <2>3. i \in 0..n /\ i - 1 \in 0..n
    BY <1>1
  <2> QED BY <2>2, <2>3
<1> HIDE DEF L
<1>12. \A i \in 1..n : L[i] = AppendNew(L[i - 1], t[i])
  BY <1>11
<1>13. L[0] = s /\ L[n] = AppendAllNew(s, t)
  BY <1>9, <1>10
<1> QED BY <1>12, <1>13 DEF n

LEMMA AllNew ==
    ASSUME NEW S, NEW s \in Seq(S), NEW t \in Seq(S)
    PROVE  /\ AppendAllNew(s, t) \in Seq(S)
           /\ ToSet(AppendAllNew(s, t)) = ToSet(s) \cup ToSet(t)
           /\ Once(s) => Once(AppendAllNew(s, t))
<1>0. PICK n \in Nat : n = Len(t)
  OBVIOUS
<1>1. DOMAIN t = 1..n /\ \A i \in 1..n : t[i] \in S
  BY <1>0
<1>2. PICK L : /\ L[0] = s /\ L[n] = AppendAllNew(s, t)
               /\ \A i \in 1..n : L[i] = AppendNew(L[i - 1], t[i])
  BY <1>0, AllNewTurns
<1> DEFINE First(i) == {t[m] : m \in 1..i}
           Good(a, i) == /\ a \in Seq(S) /\ ToSet(a) = ToSet(s) \cup First(i)
                         /\ Once(s) => Once(a)
           D == {i \in Nat : i <= n => Good(L[i], i)}
<1>3. 0 \in D
  BY <1>2
<1>4. ASSUME NEW i \in Nat, i \in D PROVE i + 1 \in D
  <2> SUFFICES ASSUME i + 1 <= n PROVE Good(L[i + 1], i + 1)
    OBVIOUS
  <2>1. PICK m : m = i + 1
    OBVIOUS
  <2>2. m \in 1..n /\ m - 1 = i /\ t[m] \in S
    BY <1>0, <1>1, <2>1
  <2>3. PICK a, e : a = L[i] /\ e = t[m]
    OBVIOUS
  <2>4. Good(a, i) /\ e \in S
    BY <1>0, <1>4, <2>1, <2>2, <2>3
  <2>5. L[m] = AppendNew(a, e)
    BY <1>2, <2>2, <2>3
  <2>6. First(m) = First(i) \cup {e}
    <3>1. \A q : q \in 1..m <=> q \in 1..i \/ q = m
      BY <2>1
    <3> QED BY <2>3, <3>1
  <2> HIDE DEF First
  <2>7. AppendNew(a, e) \in Seq(S) /\ ToSet(AppendNew(a, e)) = ToSet(a) \cup {e}
    BY <2>4, AppendIn
  <2>8. Once(a) => Once(AppendNew(a, e))
    <3>1. IsQueue(a)
      BY <2>4 DEF IsQueue
    <3> QED BY <3>1, AppendOnce
  <2>9. Good(L[m], m)
    BY <2>4, <2>5, <2>6, <2>7, <2>8
  <2> QED BY <2>1, <2>9
<1> HIDE DEF D
<1>5. n \in D
  BY <1>3, <1>4, Induction
<1>6. First(n) = ToSet(t)
  BY <1>1 DEF ToSet
<1> HIDE DEF First
<1> QED BY <1>2, <1>5, <1>6 DEF D

(* The neighbours still to be reached: the same fold, without the marked.  *)
LEMMA ReachIn ==
    ASSUME NEW S, NEW s \in Seq(S), NEW e \in S
    PROVE  /\ Reach(s, e) \in Seq(S)
           /\ ToSet(Reach(s, e)) = ToSet(s) \cup ({e} \ marked)
<1>1. CASE e \in marked
  BY <1>1 DEF Reach
<1>2. CASE e \notin marked
  BY <1>2, AppendIn DEF Reach
<1> QED BY <1>1, <1>2

LEMMA UnreachedIs ==
    ASSUME NEW S, NEW u, neighbors[u] \in Seq(S)
    PROVE  /\ Unreached(u) \in Seq(S)
           /\ ToSet(Unreached(u)) = ToSet(neighbors[u]) \ marked
<1> DEFINE t == neighbors[u]
           n == Len(t)
           F == [p \in (1..n) \X Seq(S) |-> Reach(p[2], t[p[1]])]
<1>1. n \in Nat /\ DOMAIN t = 1..n /\ \A i \in 1..n : t[i] \in S
  OBVIOUS
<1> HIDE DEF n, t
<1>2. F \in [(1..n) \X Seq(S) -> Seq(S)]
  BY <1>1, ReachIn
<1>3. \A i \in 1..n, a \in Seq(S) : F[<<i, a>>] = Reach(a, t[i])
  OBVIOUS
<1>0. <<>> \in Seq(S) /\ ToSet(<<>>) = {}
  BY ShortQueues
<1> HIDE DEF F
<1>4. PICK g \in [SUBSET (1..n) -> Seq(S)] :
        \A x \in SUBSET (1..n) :
            g[x] = IF x = {} THEN <<>> ELSE F[<<Max(x), g[x \ {Max(x)}]>>]
  <2>1. PICK V : V = Seq(S)
    OBVIOUS
  <2>2. <<>> \in V /\ Turns(F, n, V)
    BY <1>0, <1>2, <2>1 DEF Turns
  <2>3. \E g : FoldOf(g, F, <<>>, n, V)
    BY <1>1, <2>2, FoldExists
  <2> QED BY <2>1, <2>3 DEF FoldOf
<1>5. ASSUME NEW x \in SUBSET (1..n)
      PROVE  g[x] = IF x = {} THEN <<>> ELSE Reach(g[x \ {Max(x)}], t[Max(x)])
  <2>1. CASE x = {}
    BY <1>4, <2>1
  <2>2. CASE x # {}
    <3>1. Max(x) \in 1..n
      BY <1>1, <2>2, MaxIn
    <3>2. x \ {Max(x)} \in SUBSET (1..n) /\ g[x \ {Max(x)}] \in Seq(S)
      BY <1>4
    <3> QED BY <1>3, <1>4, <2>2, <3>1, <3>2
  <2> QED BY <2>1, <2>2
<1>6. g = [x \in SUBSET (1..n) |-> IF x = {} THEN <<>> ELSE Reach(g[x \ {Max(x)}], t[Max(x)])]
  <2>1. DOMAIN g = SUBSET (1..n)
    BY <1>4
  <2> QED BY <1>5, <2>1
<1>7. PICK h : h = CHOOSE f : f = [x \in SUBSET (1..n) |->
                                     IF x = {} THEN <<>> ELSE Reach(f[x \ {Max(x)}], t[Max(x)])]
  OBVIOUS
<1>8. h = [x \in SUBSET (1..n) |-> IF x = {} THEN <<>> ELSE Reach(h[x \ {Max(x)}], t[Max(x)])]
  BY <1>6, <1>7
<1>9. Unreached(u) = h[1..n]
  BY <1>1, <1>7 DEF Unreached, FoldLeft, MapThenFoldSet, t
<1> DEFINE First(i) == {t[m] : m \in 1..i} \ marked
           D == {i \in Nat : i <= n => h[1..i] \in Seq(S) /\ ToSet(h[1..i]) = First(i)}
<1>10. 0 \in D
  <2>1. 1..0 = {} /\ First(0) = {} /\ {} \in SUBSET (1..n)
    OBVIOUS
  <2>2. h[{}] = <<>>
    BY <1>8, <2>1
  <2> QED BY <1>0, <2>1, <2>2
<1>11. ASSUME NEW i \in Nat, i \in D PROVE i + 1 \in D
  <2> SUFFICES ASSUME i + 1 <= n
               PROVE  h[1..(i + 1)] \in Seq(S) /\ ToSet(h[1..(i + 1)]) = First(i + 1)
    OBVIOUS
  <2>1. PICK m : m = i + 1
    OBVIOUS
  <2>2. m \in 1..n /\ m - 1 = i /\ t[m] \in S
    BY <1>1, <2>1
  <2>3. h[1..i] \in Seq(S) /\ ToSet(h[1..i]) = First(i)
    BY <1>1, <1>11, <2>1, <2>2
  <2>4. h[1..m] = Reach(h[1..i], t[m])
    <3>1. /\ 1..m \in SUBSET (1..n) /\ 1..m # {} /\ Max(1..m) = m
          /\ (1..m) \ {m} = 1..i
      BY <1>1, <2>2, IndexSets
    <3> QED BY <1>8, <3>1
  <2>5. First(m) = First(i) \cup ({t[m]} \ marked)
    <3>1. \A q : q \in 1..m <=> q \in 1..i \/ q = m
      BY <2>1
    <3> QED BY <3>1
  <2> HIDE DEF First
  <2>6. h[1..m] \in Seq(S) /\ ToSet(h[1..m]) = ToSet(h[1..i]) \cup ({t[m]} \ marked)
    <3>1. PICK a : a = h[1..i]
      OBVIOUS
    <3>2. PICK e : e = t[m]
      OBVIOUS
    <3>3. Reach(a, e) \in Seq(S) /\ ToSet(Reach(a, e)) = ToSet(a) \cup ({e} \ marked)
      <4>1. a \in Seq(S) /\ e \in S
        BY <2>2, <2>3, <3>1, <3>2
      <4> QED BY <4>1, ReachIn
    <3> QED BY <2>4, <3>1, <3>2, <3>3
  <2>7. ToSet(h[1..m]) = First(m)
    BY <2>3, <2>5, <2>6
  <2> QED BY <2>1, <2>6, <2>7
<1> HIDE DEF D
<1>12. n \in D
  BY <1>1, <1>10, <1>11, Induction
<1>13. First(n) = ToSet(t) \ marked
  BY <1>1 DEF ToSet
<1> HIDE DEF First
<1> QED BY <1>1, <1>9, <1>12, <1>13 DEF D, t

(* The first server of a list, if it has one. *)
LEMMA FirstServerIs ==
    ASSUME NEW S, NEW s \in Seq(S)
    PROVE  /\ FirstServer(s) = 0 => \A i \in DOMAIN s : ~IsServer(s[i])
           /\ FirstServer(s) # 0 => /\ FirstServer(s) \in DOMAIN s
                                    /\ IsServer(s[FirstServer(s)])
<1> DEFINE I == {i \in 1..Len(s) : IsServer(s[i])}
<1>1. FirstServer(s) = IF I # {} THEN Min(I) ELSE 0
  BY DEF FirstServer, SelectInSeq
<1>2. DOMAIN s = 1..Len(s) /\ I \in SUBSET Nat /\ \A i \in I : i # 0
  OBVIOUS
<1>3. I # {} => Min(I) \in I
  <2> HIDE DEF I
  <2> SUFFICES ASSUME I # {} PROVE Min(I) \in I
    OBVIOUS
  <2>1. \E i \in I : \A q \in I : i <= q
    BY <1>2, LeastNat
  <2> QED BY <2>1 DEF Min
<1> QED BY <1>1, <1>2, <1>3

-----------------------------------------------------------------------------
(* The lists hold names, whatever the lines say. *)
ListTypes ==
    /\ nodes \in Seq(Names) /\ servs \in Seq(Names) /\ clits \in Seq(Names)
    /\ seq_num \in [Names -> Int] /\ neighbors \in [Names -> Seq(Names)]
    /\ heard \subseteq Announcements

SearchTypes ==
    /\ routing_table \in Seq([clit : Names, serv : Names])
    /\ pc \in {"lsa", "spf", "serving", "assert"} /\ searched \in Nat
    /\ queue \in Seq(Names) /\ marked \subseteq Names

LEMMA Lists == TypeOK <=> ListTypes /\ SearchTypes
BY DEF TypeOK, ListTypes, SearchTypes

LEMMA EmptyIsSeq == \A S : <<>> \in Seq(S) /\ ToSet(<<>>) = {}
BY ShortQueues

LEMMA LineListTypes ==
    ASSUME ListTypes, NEW l \in Announcements, ParseLSA(l)
    PROVE  ListTypes'
<1>1. l.name \in Names /\ l.seq \in Nat /\ l.nbrs \in Seq(Names)
  BY OspfAssumption
<1>2. UNCHANGED servs /\ heard' = heard \cup {l} /\ MeetNode(l.name)
  BY DEF ParseLSA
<1>3. AppendNew(nodes, l.name) \in Seq(Names) /\ AppendNew(clits, l.name) \in Seq(Names)
  BY <1>1, AppendIn DEF ListTypes
<1>4. clits' \in Seq(Names)
  BY <1>2, <1>3 DEF MeetNode, ListTypes
<1>5. CASE ParseNew(l)
  <2>1. AppendAllNew(AppendNew(nodes, l.name), l.nbrs) \in Seq(Names)
    BY <1>1, <1>3, AllNew
  <2>2. Distinct(l.nbrs) \in Seq(Names)
    BY <1>1, EmptyIsSeq, AllNew DEF Distinct
  <2> QED BY <1>1, <1>2, <1>4, <1>5, <2>1, <2>2 DEF ParseNew, ListTypes
<1>6. CASE ParseOld(l)
  BY <1>2, <1>3, <1>4, <1>6 DEF ParseOld, ListTypes
<1> QED BY <1>5, <1>6 DEF ParseLSA

LEMMA StartTypes ==
    ASSUME ListTypes, searched \in Nat, NEW n \in Nat \ {0}, StartSearch(n),
           routing_table' \in Seq([clit : Names, serv : Names])
    PROVE  SearchTypes'
<1>1. CASE n <= Len(clits)
  <2>1. clits[n] \in Names
    BY <1>1 DEF ListTypes
  <2>2. <<clits[n]>> \in Seq(Names)
    BY <2>1
  <2> QED BY <1>1, <2>1, <2>2 DEF StartSearch, SearchTypes
<1>2. CASE ~(n <= Len(clits))
  BY <1>2, EmptyIsSeq DEF StartSearch, SearchTypes
<1> QED BY <1>1, <1>2

(* What a step of a search finds at the head of its queue. *)
LEMMA HeadIs ==
    ASSUME ListTypes, queue \in Seq(Names), queue # <<>>
    PROVE  /\ Head(queue) = queue[1] /\ queue[1] \in Names /\ Len(queue) \in Nat \ {0}
           /\ Unreached(Head(queue)) \in Seq(Names)
           /\ ToSet(Unreached(Head(queue))) = ToSet(neighbors[queue[1]]) \ marked
<1>1. Head(queue) = queue[1] /\ queue[1] \in Names /\ Len(queue) \in Nat \ {0}
  OBVIOUS
<1>2. neighbors[queue[1]] \in Seq(Names)
  BY <1>1 DEF ListTypes
<1> QED BY <1>1, <1>2, UnreachedIs

(* The server a search enters is one of the neighbours it looked at. *)
LEMMA FoundIs ==
    ASSUME ListTypes, SearchTypes, FindServer
    PROVE  \E s \in Names :
              /\ Contains(servs, s) /\ s \in ToSet(neighbors[queue[1]]) \ marked
              /\ pc = "spf" /\ queue # <<>> /\ queue[1] \in Names
              /\ routing_table' = Append(routing_table, [clit |-> clits[searched], serv |-> s])
              /\ StartSearch(searched + 1) /\ UNCHANGED lsaVars
<1>1. PICK fresh : fresh = Unreached(Head(queue))
  OBVIOUS
<1>2. PICK i : i = FirstServer(fresh)
  OBVIOUS
<1>3. /\ pc = "spf" /\ queue # <<>> /\ i # 0
      /\ routing_table' = Append(routing_table, [clit |-> clits[searched], serv |-> fresh[i]])
      /\ StartSearch(searched + 1) /\ UNCHANGED lsaVars
  BY <1>1, <1>2 DEF FindServer
<1>4. /\ fresh \in Seq(Names) /\ queue[1] \in Names
      /\ ToSet(fresh) = ToSet(neighbors[queue[1]]) \ marked
  BY <1>1, <1>3, HeadIs DEF SearchTypes
<1>5. i \in DOMAIN fresh /\ IsServer(fresh[i])
  BY <1>2, <1>3, <1>4, FirstServerIs
<1>6. fresh[i] \in ToSet(fresh) /\ fresh[i] \in Names
  BY <1>4, <1>5 DEF ToSet
<1> QED BY <1>3, <1>4, <1>5, <1>6 DEF IsServer

LEMMA TypesKept ==
    ASSUME TypeOK, TableInv, [Next]_vars
    PROVE  TypeOK'
<1>1. ListTypes /\ SearchTypes
  BY Lists
<1>2. ASSUME NEW l \in Announcements, ParseLSA(l) PROVE TypeOK'
  <2>1. ListTypes'
    BY <1>1, <1>2, LineListTypes
  <2>2. SearchTypes'
    BY <1>1, <1>2 DEF ParseLSA, spfVars, SearchTypes
  <2> QED BY <2>1, <2>2 DEF TypeOK, ListTypes, SearchTypes
<1>3. ASSUME UNCHANGED lsaVars PROVE ListTypes'
  BY <1>1, <1>3 DEF lsaVars, ListTypes
<1>4. CASE EndOfFile
  <2>1. StartSearch(1) /\ UNCHANGED <<lsaVars, routing_table>> /\ 1 \in Nat \ {0}
    BY <1>4 DEF EndOfFile
  <2>2. routing_table' \in Seq([clit : Names, serv : Names]) /\ searched \in Nat
    BY <1>1, <2>1 DEF SearchTypes
  <2> QED BY <1>1, <1>3, <2>1, <2>2, StartTypes
     DEF TypeOK, ListTypes, SearchTypes
<1>5. CASE FindServer
  <2>1. PICK s \in Names :
          /\ pc = "spf"
          /\ routing_table' = Append(routing_table, [clit |-> clits[searched], serv |-> s])
          /\ StartSearch(searched + 1) /\ UNCHANGED lsaVars
    BY <1>1, <1>5, FoundIs
  <2>2. searched + 1 \in Nat \ {0} /\ searched \in Nat
    BY <1>1 DEF SearchTypes
  <2>3. clits[searched] \in Names
    <3>1. searched \in 1..Len(clits)
      BY <2>1, QueueShape DEF TableInv
    <3> QED BY <1>1, <3>1 DEF ListTypes
  <2>4. routing_table' \in Seq([clit : Names, serv : Names])
    <3>1. PICK e : e = [clit |-> clits[searched], serv |-> s]
      OBVIOUS
    <3>2. PICK R : R = [clit : Names, serv : Names]
      OBVIOUS
    <3>3. e \in R
      BY <2>3, <3>1, <3>2
    <3>4. routing_table \in Seq(R) /\ routing_table' = Append(routing_table, e)
      BY <1>1, <2>1, <3>1, <3>2 DEF SearchTypes
    <3>5. routing_table' \in Seq(R)
      BY <3>3, <3>4
    <3> QED BY <3>2, <3>5
  <2> QED BY <1>1, <1>3, <2>1, <2>2, <2>4, StartTypes
     DEF TypeOK, ListTypes, SearchTypes
<1>6. CASE Expand
  <2>1. PICK fresh : fresh = Unreached(Head(queue))
    OBVIOUS
  <2>2. /\ queue # <<>> /\ queue' = Tail(queue) \o fresh /\ marked' = marked \cup ToSet(fresh)
        /\ UNCHANGED <<lsaVars, routing_table, pc, searched>>
    BY <1>6, <2>1 DEF Expand
  <2>3. fresh \in Seq(Names) /\ queue \in Seq(Names)
    BY <1>1, <2>1, <2>2, HeadIs DEF SearchTypes
  <2>4. Tail(queue) \in Seq(Names) /\ ToSet(fresh) \subseteq Names
    BY <2>2, <2>3 DEF ToSet
  <2>5. queue' \in Seq(Names)
    BY <2>2, <2>3, <2>4, JoinIs
  <2>6. SearchTypes'
    BY <1>1, <2>2, <2>4, <2>5 DEF SearchTypes
  <2> QED BY <1>3, <2>2, <2>6 DEF TypeOK, ListTypes, SearchTypes
<1>7. CASE NoServer \/ UNCHANGED vars
  BY <1>7 DEF NoServer, vars, lsaVars, spfVars, TypeOK
<1> QED BY <1>2, <1>4, <1>5, <1>6, <1>7 DEF Next

LEMMA TypesStart == ASSUME Init PROVE TypeOK
<1>1. nodes \in Seq(Names)
  BY OspfAssumption, EmptyIsSeq, AllNew DEF Init, Distinct
<1> QED BY <1>1, EmptyIsSeq, OspfAssumption DEF Init, TypeOK

(* Type correctness, for any names and lines: the folds return lists of    *)
(* names, and a search reads no list past its end.                         *)
THEOREM OspfTypes == Spec => []TypeOK
<1>1. Init => TypeOK /\ TableInv
  BY TypesStart, TableStart
<1>2. TypeOK /\ TableInv /\ [Next]_vars => TypeOK' /\ TableInv'
  BY TypesKept, TableKept
<1> QED BY <1>1, <1>2, PTL DEF Spec

-----------------------------------------------------------------------------
(* The nodes within k announced hops, by their recursion. *)
LEMMA WithinIs ==
    ASSUME ListTypes, NEW c \in Names
    PROVE  /\ Within(c)[0] = {c}
           /\ \A k \in Nat : /\ Within(c)[k] \subseteq Names
                             /\ Within(c)[k] \subseteq Within(c)[k + 1]
                             /\ \A u \in Within(c)[k] : ToSet(neighbors[u]) \subseteq Within(c)[k + 1]
                             /\ \A n \in Within(c)[k + 1] :
                                    \/ n \in Within(c)[k]
                                    \/ \E u \in Within(c)[k] : n \in ToSet(neighbors[u])
<1> DEFINE E == [u \in Names |-> ToSet(neighbors[u])]
<1>1. \A u \in Names : neighbors[u] \in Seq(Names) /\ ToSet(neighbors[u]) \subseteq Names
  <2> SUFFICES ASSUME NEW u \in Names
               PROVE neighbors[u] \in Seq(Names) /\ ToSet(neighbors[u]) \subseteq Names
    OBVIOUS
  <2>1. neighbors[u] \in Seq(Names)
    BY DEF ListTypes
  <2> QED BY <2>1 DEF ToSet
<1>2. Edges(E, Names) /\ \A u \in Names : E[u] = ToSet(neighbors[u])
  BY <1>1 DEF Edges
<1> HIDE DEF E
<1>a. PICK G : HopsOf(G, c, E, Names)
  BY <1>2, HopsExist
<1>3. /\ G \in [Nat -> SUBSET Names]
      /\ G = [k \in Nat |-> IF k = 0 THEN {c}
                            ELSE G[k - 1] \cup UNION {E[u] : u \in G[k - 1]}]
  BY <1>a DEF HopsOf
<1>4. G = [k \in Nat |-> IF k = 0 THEN {c}
                         ELSE G[k - 1] \cup UNION {ToSet(neighbors[u]) : u \in G[k - 1]}]
  <2>1. ASSUME NEW k \in Nat, k # 0
        PROVE  UNION {E[u] : u \in G[k - 1]} = UNION {ToSet(neighbors[u]) : u \in G[k - 1]}
    <3>1. k - 1 \in Nat /\ G[k - 1] \subseteq Names
      BY <1>3, <2>1
    <3> QED BY <1>2, <3>1
  <2>2. ASSUME NEW k \in Nat
        PROVE  G[k] = IF k = 0 THEN {c}
                      ELSE G[k - 1] \cup UNION {ToSet(neighbors[u]) : u \in G[k - 1]}
    <3>1. G[k] = IF k = 0 THEN {c} ELSE G[k - 1] \cup UNION {E[u] : u \in G[k - 1]}
      BY <1>3
    <3> QED BY <2>1, <3>1
  <2> QED BY <1>3, <2>2
<1> DEFINE W == Within(c)
<1>5. W = [k \in Nat |-> IF k = 0 THEN {c}
                         ELSE W[k - 1] \cup UNION {ToSet(neighbors[u]) : u \in W[k - 1]}]
  BY <1>4 DEF Within
<1> HIDE DEF W
<1>6. W[0] = {c}
  BY <1>5
<1>7. ASSUME NEW k \in Nat
      PROVE  W[k + 1] = W[k] \cup UNION {ToSet(neighbors[u]) : u \in W[k]}
  <2>1. k + 1 \in Nat /\ k + 1 # 0 /\ (k + 1) - 1 = k
    OBVIOUS
  <2> QED BY <1>5, <2>1
<1> DEFINE D == {k \in Nat : W[k] \subseteq Names}
<1>8. Nat \subseteq D
  <2>1. 0 \in D
    BY <1>6
  <2>2. ASSUME NEW k \in Nat, k \in D PROVE k + 1 \in D
    <3>1. \A u \in W[k] : ToSet(neighbors[u]) \subseteq Names
      BY <1>1, <2>2
    <3>2. W[k + 1] \subseteq Names
      BY <1>7, <2>2, <3>1
    <3> QED BY <3>2
  <2> HIDE DEF D
  <2> QED BY <2>1, <2>2, Induction
<1>9. ASSUME NEW k \in Nat
      PROVE  /\ W[k] \subseteq Names /\ W[k] \subseteq W[k + 1]
             /\ \A u \in W[k] : ToSet(neighbors[u]) \subseteq W[k + 1]
             /\ \A n \in W[k + 1] : n \in W[k] \/ \E u \in W[k] : n \in ToSet(neighbors[u])
  BY <1>7, <1>8
<1> QED BY <1>6, <1>9 DEF W

(* A set that has the client and is closed under announced hops has every  *)
(* node within any number of hops.                                         *)
LEMMA ClosedHasAll ==
    ASSUME ListTypes, NEW c \in Names, NEW M, c \in M,
           \A u \in M : ToSet(neighbors[u]) \subseteq M, NEW k \in Nat
    PROVE  Within(c)[k] \subseteq M
<1> DEFINE D == {i \in Nat : Within(c)[i] \subseteq M}
<1>1. 0 \in D
  BY WithinIs
<1>2. ASSUME NEW i \in Nat, i \in D PROVE i + 1 \in D
  <2>1. \A n \in Within(c)[i + 1] : n \in M
    BY <1>2, WithinIs
  <2> QED BY <2>1
<1> HIDE DEF D
<1>3. k \in D
  BY <1>1, <1>2, Induction
<1> QED BY <1>3 DEF D

(* The sizes of the sets of nodes. *)
LEMMA Sizes ==
    ASSUME NEW S \in SUBSET Names, NEW T \in SUBSET S
    PROVE  /\ Cardinality(S) \in Nat /\ Cardinality(T) \in Nat /\ Cardinality(Names) \in Nat
           /\ Cardinality(S) <= Cardinality(Names)
           /\ T # S => Cardinality(T) < Cardinality(S)
<1>1. IsFiniteSet(Names) /\ IsFiniteSet(S) /\ IsFiniteSet(T)
  BY OspfAssumption, FS_Subset
<1>2. Cardinality(S) \in Nat /\ Cardinality(T) \in Nat /\ Cardinality(Names) \in Nat
  BY <1>1, FS_CardinalityType
<1>3. Cardinality(S) <= Cardinality(Names)
  BY <1>1, FS_Subset
<1>4. Cardinality(T) <= Cardinality(S) /\ (Cardinality(T) = Cardinality(S) => T = S)
  BY <1>1, FS_Subset
<1> QED BY <1>2, <1>3, <1>4

-----------------------------------------------------------------------------
(* The running search.  Its queue is in order of distance: m nodes within  *)
(* d hops, then nodes d + 1 hops away; all nodes within d hops are marked. *)
Levels(W, d, m) ==
    /\ d < Cardinality(W[d])
    /\ W[d] \subseteq marked /\ marked \subseteq W[d + 1]
    /\ m = 0 => queue = <<>>
    /\ \A i \in 1..m : queue[i] \in W[d]
    /\ \A i \in (m + 1)..Len(queue) : queue[i] \in W[d + 1] \ W[d]

(* What is marked and was taken off the queue has its neighbours marked,   *)
(* and no server is marked.                                                *)
SearchInv ==
    pc = "spf" =>
      /\ clits[searched] \in marked /\ ToSet(queue) \subseteq marked
      /\ marked \cap ToSet(servs) = {}
      /\ \A u \in marked \ ToSet(queue) : ToSet(neighbors[u]) \subseteq marked
      /\ \E d \in Nat, m \in 0..Len(queue) : Levels(Within(clits[searched]), d, m)

SpfInv == TypeOK /\ TableInv /\ SearchInv /\ RoutesNearest /\ AssertOnlyWhenCutOff


(* The head of a queue is taken off and a list put at its end. *)
LEMMA Shifted ==
    ASSUME NEW S, NEW q \in Seq(S), q # <<>>, NEW f \in Seq(S)
    PROVE  LET t == Tail(q) \o f
           IN /\ t \in Seq(S) /\ Len(t) = Len(q) - 1 + Len(f)
              /\ \A i \in 1..Len(q) : i = 1 \/ t[i - 1] = q[i]
              /\ \A i \in 1..Len(t) :
                    \/ i <= Len(q) - 1 /\ t[i] = q[i + 1]
                    \/ i >= Len(q) /\ i - Len(q) + 1 \in 1..Len(f) /\ t[i] = f[i - Len(q) + 1]
              /\ ToSet(f) \subseteq ToSet(t)
              /\ ToSet(q) \subseteq {q[1]} \cup ToSet(t)
              /\ ToSet(t) \subseteq ToSet(q) \cup ToSet(f)
<1> DEFINE t == Tail(q) \o f
<1>1. /\ Tail(q) \in Seq(S) /\ Len(Tail(q)) = Len(q) - 1 /\ Len(q) \in Nat \ {0}
      /\ \A i \in 1..(Len(q) - 1) : Tail(q)[i] = q[i + 1]
      /\ Len(f) \in Nat
  OBVIOUS
<1>2. /\ t \in Seq(S) /\ Len(t) = Len(q) - 1 + Len(f)
      /\ \A i \in 1..(Len(q) - 1) : t[i] = Tail(q)[i]
      /\ \A i \in 1..Len(f) : t[(Len(q) - 1) + i] = f[i]
  BY <1>1, JoinIs
<1>3. DOMAIN t = 1..Len(t) /\ DOMAIN q = 1..Len(q) /\ DOMAIN f = 1..Len(f)
  BY <1>2
<1> HIDE DEF t
<1>4. \A i \in 1..Len(q) : i = 1 \/ (i - 1 \in 1..(Len(q) - 1) /\ t[i - 1] = q[i])
  <2> SUFFICES ASSUME NEW i \in 1..Len(q), i # 1
               PROVE  i - 1 \in 1..(Len(q) - 1) /\ t[i - 1] = q[i]
    OBVIOUS
  <2>1. PICK j : j = i - 1
    OBVIOUS
  <2>2. j \in 1..(Len(q) - 1) /\ j + 1 = i
    BY <1>1, <2>1
  <2>3. t[j] = q[j + 1]
    BY <1>1, <1>2, <2>2
  <2> QED BY <2>1, <2>2, <2>3
<1>5. ASSUME NEW i \in 1..Len(t)
      PROVE  \/ i <= Len(q) - 1 /\ t[i] = q[i + 1]
             \/ i >= Len(q) /\ i - Len(q) + 1 \in 1..Len(f) /\ t[i] = f[i - Len(q) + 1]
  <2>1. CASE i <= Len(q) - 1
    <3>1. i \in 1..(Len(q) - 1)
      BY <1>1, <1>2, <2>1
    <3> QED BY <1>1, <1>2, <2>1, <3>1
  <2>2. CASE i >= Len(q)
    <3>1. PICK j : j = i - Len(q) + 1
      OBVIOUS
    <3>2. j \in 1..Len(f) /\ (Len(q) - 1) + j = i
      BY <1>1, <1>2, <2>2, <3>1
    <3>3. t[(Len(q) - 1) + j] = f[j]
      BY <1>2, <3>2
    <3> QED BY <2>2, <3>1, <3>2, <3>3
  <2> QED BY <1>1, <1>2, <2>1, <2>2
<1>6. ToSet(f) \subseteq ToSet(t)
  <2> SUFFICES ASSUME NEW i \in 1..Len(f) PROVE f[i] \in ToSet(t)
    BY <1>3 DEF ToSet
  <2>1. PICK j : j = (Len(q) - 1) + i
    OBVIOUS
  <2>2. j \in 1..Len(t) /\ t[j] = f[i]
    BY <1>1, <1>2, <2>1
  <2> QED BY <1>3, <2>2 DEF ToSet
<1>7. ToSet(q) \subseteq {q[1]} \cup ToSet(t)
  <2> SUFFICES ASSUME NEW i \in 1..Len(q), i # 1 PROVE q[i] \in ToSet(t)
    BY <1>3 DEF ToSet
  <2>1. PICK j : j = i - 1
    OBVIOUS
  <2>2. j \in 1..Len(t) /\ t[j] = q[i]
    BY <1>1, <1>2, <1>4, <2>1
  <2> QED BY <1>3, <2>2 DEF ToSet
<1>8. ToSet(t) \subseteq ToSet(q) \cup ToSet(f)
  <2> SUFFICES ASSUME NEW i \in 1..Len(t) PROVE t[i] \in ToSet(q) \cup ToSet(f)
    BY <1>3 DEF ToSet
  <2>1. CASE i <= Len(q) - 1 /\ t[i] = q[i + 1]
    <3>1. i + 1 \in DOMAIN q
      BY <1>1, <1>2, <1>3, <2>1
    <3> QED BY <2>1, <3>1 DEF ToSet
  <2>2. CASE i - Len(q) + 1 \in 1..Len(f) /\ t[i] = f[i - Len(q) + 1]
    BY <1>3, <2>2 DEF ToSet
  <2> QED BY <1>5, <2>1, <2>2
<1> QED BY <1>2, <1>4, <1>5, <1>6, <1>7, <1>8 DEF t

LEMMA WithinSame ==
    ASSUME NEW c, UNCHANGED neighbors PROVE Within(c)' = Within(c)
BY DEF Within

(* A search begins with its client alone, which is no server. *)
LEMMA SearchStart ==
    ASSUME ListTypes, TableInv, UNCHANGED lsaVars, NEW n \in Nat \ {0}, StartSearch(n)
    PROVE  SearchInv'
<1>1. UNCHANGED <<clits, servs, neighbors>>
  BY DEF lsaVars
<1>2. CASE n <= Len(clits)
  <2>1. PICK c : c = clits[n]
    OBVIOUS
  <2>2. /\ pc' = "spf" /\ queue' = <<c>> /\ marked' = {c} /\ searched' = n
        /\ clits'[searched'] = c
    BY <1>1, <1>2, <2>1 DEF StartSearch
  <2>3. c \in Names /\ c \in ToSet(clits)
    <3>1. clits \in Seq(Names)
      BY DEF ListTypes
    <3>2. n \in 1..Len(clits) /\ DOMAIN clits = 1..Len(clits) /\ clits[n] \in Names
      BY <1>2, <3>1
    <3> QED BY <2>1, <3>2 DEF ToSet
  <2>4. c \notin ToSet(servs)
    BY <2>3 DEF TableInv, Expected
  <2>5. PICK W : W = Within(c)
    OBVIOUS
  <2>6. W = Within(clits[searched])'
    BY <1>1, <2>2, <2>5, WithinSame
  <2>7. W[0] = {c} /\ {c} \subseteq W[0 + 1] /\ Cardinality({c}) = 1
    BY <2>3, <2>5, WithinIs, FS_Singleton
  <2>8. /\ Len(queue') = 1 /\ ToSet(queue') = {c} /\ queue'[1] = c
    BY <2>2, ShortQueues
  <2>9. Levels(W, 0, 1)'
    <3>1. 0 < Cardinality(W[0]) /\ W[0] \subseteq marked' /\ marked' \subseteq W[0 + 1]
      BY <2>2, <2>7
    <3>2. \A i \in 1..1 : queue'[i] \in W[0]
      BY <2>7, <2>8
    <3>3. \A i \in (1 + 1)..Len(queue') : FALSE
      BY <2>8
    <3> QED BY <3>1, <3>2, <3>3 DEF Levels
  <2>10. 0 \in Nat /\ 1 \in 0..Len(queue')
    BY <2>8
  <2>11. \E d \in Nat, m \in 0..Len(queue') : Levels(W, d, m)'
    BY <2>9, <2>10
  <2> QED BY <1>1, <2>2, <2>4, <2>6, <2>8, <2>11 DEF SearchInv
<1>3. CASE ~(n <= Len(clits))
  BY <1>3 DEF StartSearch, SearchInv
<1> QED BY <1>2, <1>3


(* One node expanded: the queue stays in order of distance, and when the   *)
(* last node within d hops leaves it, all within d + 1 hops are marked.    *)
LEMMA LevelsKept ==
    ASSUME ListTypes, queue \in Seq(Names), queue # <<>>, NEW c \in Names,
           NEW W, W = Within(c), NEW d \in Nat, NEW m \in 0..Len(queue), Levels(W, d, m),
           NEW fresh \in Seq(Names), ToSet(fresh) = ToSet(neighbors[queue[1]]) \ marked,
           queue' = Tail(queue) \o fresh, marked' = marked \cup ToSet(fresh),
           \A u \in marked' \ ToSet(queue') : ToSet(neighbors[u]) \subseteq marked'
    PROVE  \E e \in Nat, k \in 0..Len(queue') : Levels(W, e, k)'
<1> DEFINE N == ToSet(neighbors[queue[1]])
<1>1. /\ d < Cardinality(W[d]) /\ W[d] \subseteq marked /\ marked \subseteq W[d + 1]
      /\ m # 0 /\ \A i \in 1..m : queue[i] \in W[d]
      /\ \A i \in (m + 1)..Len(queue) : queue[i] \in W[d + 1] \ W[d]
  BY DEF Levels
<1>2. \A k \in Nat : /\ W[k] \subseteq Names /\ W[k] \subseteq W[k + 1]
                     /\ \A u \in W[k] : ToSet(neighbors[u]) \subseteq W[k + 1]
                     /\ \A n \in W[k + 1] :
                            \/ n \in W[k]
                            \/ \E u \in W[k] : n \in ToSet(neighbors[u])
  BY WithinIs
<1>3. PICK L \in Nat \ {0} : L = Len(queue)
  OBVIOUS
<1>4. PICK K \in Nat : K = Len(fresh)
  OBVIOUS
<1>5. m \in 1..L
  BY <1>1, <1>3
<1>6. 1 \in 1..m /\ queue[1] \in W[d]
  BY <1>1, <1>5
<1>7. N \subseteq W[d + 1] /\ ToSet(fresh) \subseteq W[d + 1] \ W[d]
  <2>1. N \subseteq W[d + 1]
    BY <1>2, <1>6
  <2> QED BY <1>1, <2>1
<1>8. /\ queue' \in Seq(Names) /\ Len(queue') = L - 1 + K
      /\ \A i \in 1..Len(queue') :
            \/ i <= L - 1 /\ queue'[i] = queue[i + 1]
            \/ i >= L /\ i - L + 1 \in 1..K /\ queue'[i] = fresh[i - L + 1]
  BY <1>3, <1>4, Shifted
<1> HIDE DEF N
<1>b. PICK Q \in Nat : Q = L - 1 + K
  OBVIOUS
<1>9. Q = Len(queue') /\ Q = L - 1 + K
  BY <1>8, <1>b
<1>10. DOMAIN fresh = 1..K
  BY <1>4
<1>11. \A i \in 1..(m - 1) : queue'[i] \in W[d]
  <2> SUFFICES ASSUME NEW i \in 1..(m - 1) PROVE queue'[i] \in W[d]
    OBVIOUS
  <2>1. i \in 1..Q /\ i <= L - 1 /\ i + 1 \in 1..m
    BY <1>5, <1>9
  <2>2. queue'[i] = queue[i + 1]
    BY <1>8, <1>9, <2>1
  <2> QED BY <1>1, <2>1, <2>2
<1>12. \A i \in m..Q : queue'[i] \in W[d + 1] \ W[d]
  <2> SUFFICES ASSUME NEW i \in m..Q PROVE queue'[i] \in W[d + 1] \ W[d]
    OBVIOUS
  <2>1. i \in 1..Q
    BY <1>5
  <2>2. CASE i <= L - 1 /\ queue'[i] = queue[i + 1]
    <3>1. i + 1 \in (m + 1)..L
      BY <1>5, <2>1, <2>2
    <3> QED BY <1>1, <1>3, <2>2, <3>1
  <2>3. CASE i >= L /\ i - L + 1 \in 1..K /\ queue'[i] = fresh[i - L + 1]
    <3>1. fresh[i - L + 1] \in ToSet(fresh)
      BY <1>10, <2>3 DEF ToSet
    <3> QED BY <1>7, <2>3, <3>1
  <2> QED BY <1>8, <1>9, <2>1, <2>2, <2>3
<1>13. W[d] \subseteq marked' /\ marked' \subseteq W[d + 1]
  BY <1>1, <1>7
<1>14. CASE m - 1 # 0 \/ queue' = <<>>
  <2>1. PICK k \in Nat : k = m - 1
    BY <1>5
  <2>2. k \in 0..Q /\ k + 1 = m
    BY <1>5, <1>9, <2>1
  <2>3. Levels(W, d, k)'
    BY <1>1, <1>9, <1>11, <1>12, <1>13, <1>14, <2>1, <2>2 DEF Levels
  <2> QED BY <1>9, <2>2, <2>3
<1>15. CASE m = 1 /\ queue' # <<>>
  <2>1. Q # 0
    BY <1>8, <1>9, <1>15
  <2>2. \A i \in 1..Q : queue'[i] \in W[d + 1] \ W[d]
    BY <1>12, <1>15
  <2>3. \A u \in W[d] : u \notin ToSet(queue')
    <3>1. DOMAIN queue' = 1..Q
      BY <1>8, <1>9
    <3> QED BY <2>2, <3>1 DEF ToSet
  <2>4. \A u \in W[d] : ToSet(neighbors[u]) \subseteq marked'
    BY <1>13, <2>3
  <2>5. W[d + 1] \subseteq marked'
    BY <1>2, <1>13, <2>4
  <2>6. PICK e \in Nat : e = d + 1
    OBVIOUS
  <2>7. marked' \subseteq W[e + 1]
    BY <1>2, <1>13, <2>6
  <2>8. e < Cardinality(W[e])
    <3>1. queue'[1] \in W[e] /\ queue'[1] \notin W[d]
      <4>1. 1 \in 1..Q
        BY <2>1
      <4> QED BY <2>2, <2>6, <4>1
    <3>2. PICK S : S = W[e]
      OBVIOUS
    <3>3. PICK T : T = W[d]
      OBVIOUS
    <3>4. S \in SUBSET Names /\ T \in SUBSET S /\ T # S
      BY <1>2, <2>6, <3>1, <3>2, <3>3
    <3>5. Cardinality(T) < Cardinality(S) /\ Cardinality(T) \in Nat /\ Cardinality(S) \in Nat
      BY <3>4, Sizes
    <3> QED BY <1>1, <2>6, <3>2, <3>3, <3>5
  <2>9. Levels(W, e, Q)'
    <3>1. \A i \in (Q + 1)..Len(queue') : FALSE
      BY <1>9
    <3> QED BY <2>1, <2>2, <2>5, <2>6, <2>7, <2>8, <3>1 DEF Levels
  <2>10. Q \in 0..Len(queue')
    BY <1>9
  <2> QED BY <2>9, <2>10
<1> QED BY <1>5, <1>14, <1>15

LEMMA ExpandKeeps ==
    ASSUME ListTypes, SearchTypes, TableInv, SearchInv, Expand
    PROVE  SearchInv'
<1>1. PICK fresh : fresh = Unreached(Head(queue))
  OBVIOUS
<1>2. /\ pc = "spf" /\ queue # <<>> /\ queue' = Tail(queue) \o fresh
      /\ marked' = marked \cup ToSet(fresh) /\ FirstServer(fresh) = 0
      /\ UNCHANGED <<clits, servs, neighbors, pc, searched>>
  BY <1>1 DEF Expand, lsaVars
<1>3. queue \in Seq(Names) /\ marked \subseteq Names
  BY DEF SearchTypes
<1>4. fresh \in Seq(Names) /\ ToSet(fresh) = ToSet(neighbors[queue[1]]) \ marked
  BY <1>1, <1>2, <1>3, HeadIs
<1>5. PICK c : c = clits[searched]
  OBVIOUS
<1>6. /\ c \in marked /\ ToSet(queue) \subseteq marked
      /\ marked \cap ToSet(servs) = {}
      /\ \A u \in marked \ ToSet(queue) : ToSet(neighbors[u]) \subseteq marked
      /\ \E d \in Nat, m \in 0..Len(queue) : Levels(Within(c), d, m)
  BY <1>2, <1>5 DEF SearchInv
<1>7. c \in Names
  BY <1>3, <1>6
<1>8. /\ ToSet(fresh) \subseteq ToSet(queue')
      /\ ToSet(queue) \subseteq {queue[1]} \cup ToSet(queue')
      /\ ToSet(queue') \subseteq ToSet(queue) \cup ToSet(fresh)
  BY <1>2, <1>3, <1>4, Shifted
<1>9. \A n \in ToSet(fresh) : n \notin ToSet(servs)
  <2>1. \A i \in DOMAIN fresh : ~IsServer(fresh[i])
    BY <1>2, <1>4, FirstServerIs
  <2>2. DOMAIN servs = 1..Len(servs)
    BY DEF ListTypes
  <2> QED BY <2>1, <2>2 DEF IsServer, Contains, ToSet
<1>10. \A u \in marked' \ ToSet(queue') : ToSet(neighbors[u]) \subseteq marked'
  <2> SUFFICES ASSUME NEW u \in marked' \ ToSet(queue')
               PROVE  ToSet(neighbors[u]) \subseteq marked'
    OBVIOUS
  <2>1. u \in marked
    BY <1>2, <1>8
  <2>2. CASE u = queue[1]
    BY <1>2, <1>4, <2>2
  <2>3. CASE u # queue[1]
    BY <1>2, <1>6, <1>8, <2>1, <2>3
  <2> QED BY <2>2, <2>3
<1>11. PICK W : W = Within(c)
  OBVIOUS
<1>12. PICK d \in Nat, m \in 0..Len(queue) : Levels(W, d, m)
  BY <1>6, <1>11
<1>13. \E e \in Nat, k \in 0..Len(queue') : Levels(W, e, k)'
  BY <1>2, <1>3, <1>4, <1>7, <1>10, <1>11, <1>12, LevelsKept
<1>14. W = Within(clits[searched])' /\ clits'[searched'] = c
  BY <1>2, <1>5, <1>11, WithinSame
<1> QED BY <1>2, <1>6, <1>8, <1>9, <1>10, <1>13, <1>14 DEF SearchInv


(* The server a search finds: no server is within d hops, and this one is  *)
(* within d + 1, which is no more than there are names.                    *)
LEMMA NearestFound ==
    ASSUME ListTypes, SearchTypes, SearchInv, pc = "spf", queue # <<>>,
           NEW s \in Names, Contains(servs, s), s \in ToSet(neighbors[queue[1]])
    PROVE  Nearest(clits[searched], s)
<1>1. PICK c : c = clits[searched]
  OBVIOUS
<1>2. PICK W : W = Within(c)
  OBVIOUS
<1>3. c \in marked /\ marked \subseteq Names /\ marked \cap ToSet(servs) = {}
  BY <1>1 DEF SearchInv, SearchTypes
<1>4. PICK d \in Nat, m \in 0..Len(queue) : Levels(W, d, m)
  BY <1>1, <1>2 DEF SearchInv
<1>5. Len(queue) \in Nat /\ queue \in Seq(Names)
  BY DEF SearchTypes
<1>6. /\ d < Cardinality(W[d]) /\ W[d] \subseteq marked /\ m # 0
      /\ \A i \in 1..m : queue[i] \in W[d]
  BY <1>4 DEF Levels
<1>7. 1 \in 1..m
  BY <1>5, <1>6
<1>8. /\ W[d] \subseteq Names
      /\ \A u \in W[d] : ToSet(neighbors[u]) \subseteq W[d + 1]
  BY <1>2, <1>3, WithinIs
<1>9. s \in W[d + 1]
  BY <1>6, <1>7, <1>8
<1>10. ToSet(servs) \cap W[d] = {}
  BY <1>3, <1>6
<1>11. Cardinality(W[d]) \in Nat /\ Cardinality(Names) \in Nat
       /\ Cardinality(W[d]) <= Cardinality(Names)
  <2>1. PICK S : S = W[d]
    OBVIOUS
  <2>2. S \in SUBSET Names /\ S \in SUBSET S
    BY <1>8, <2>1
  <2> QED BY <2>1, <2>2, Sizes
<1>12. PICK k \in Nat : k = d + 1
  OBVIOUS
<1>13. k \in 1..Cardinality(Names) /\ k - 1 = d
  BY <1>6, <1>11, <1>12
<1>14. s \in W[k] /\ ToSet(servs) \cap W[k - 1] = {}
  BY <1>9, <1>10, <1>12, <1>13
<1> QED BY <1>1, <1>2, <1>13, <1>14 DEF Nearest

LEMMA NearestSame ==
    ASSUME NEW c, NEW s, UNCHANGED <<neighbors, servs>>, Nearest(c, s)
    PROVE  Nearest(c, s)'
BY WithinSame DEF Nearest

(* An entry of the table, kept or made. *)
LEMMA EntriesKept ==
    ASSUME RoutesNearest, UNCHANGED <<neighbors, servs, routing_table>>
    PROVE  RoutesNearest'
<1> SUFFICES ASSUME NEW i \in DOMAIN routing_table
             PROVE  /\ Contains(servs, routing_table[i].serv)'
                    /\ Nearest(routing_table[i].clit, routing_table[i].serv)'
  BY DEF RoutesNearest
<1>1. PICK c, s : c = routing_table[i].clit /\ s = routing_table[i].serv
  OBVIOUS
<1>2. Contains(servs, s) /\ Nearest(c, s)
  BY <1>1 DEF RoutesNearest
<1>3. Contains(servs', s) /\ Nearest(c, s)'
  BY <1>2, NearestSame
<1> QED BY <1>1, <1>3 DEF Contains

LEMMA FindKeeps ==
    ASSUME ListTypes, SearchTypes, TableInv, SearchInv, RoutesNearest, FindServer
    PROVE  SearchInv' /\ RoutesNearest'
<1>1. PICK s \in Names :
        /\ Contains(servs, s) /\ s \in ToSet(neighbors[queue[1]])
        /\ pc = "spf" /\ queue # <<>>
        /\ routing_table' = Append(routing_table, [clit |-> clits[searched], serv |-> s])
        /\ StartSearch(searched + 1) /\ UNCHANGED lsaVars
  BY FoundIs
<1>2. UNCHANGED <<neighbors, servs>>
  BY <1>1 DEF lsaVars
<1>3. SearchInv'
  <2>1. searched + 1 \in Nat \ {0}
    BY DEF SearchTypes
  <2> QED BY <1>1, <2>1, SearchStart
<1>4. PICK c : c = clits[searched]
  OBVIOUS
<1>5. Nearest(c, s)
  BY <1>1, <1>4, NearestFound
<1>6. PICK e : e = [clit |-> c, serv |-> s]
  OBVIOUS
<1>7. e.clit = c /\ e.serv = s
  BY <1>6
<1>8. routing_table' = Append(routing_table, e)
  BY <1>1, <1>4, <1>6
<1>9. \A i \in DOMAIN routing_table' :
          routing_table'[i] = e \/ (i \in DOMAIN routing_table
                                    /\ routing_table'[i] = routing_table[i])
  <2>1. PICK S : routing_table \in Seq(S)
    BY DEF TableInv, IsQueue
  <2>2. routing_table \in Seq(S \cup {e})
    BY <2>1
  <2> QED BY <1>8, <2>2
<1>10. RoutesNearest'
  <2> SUFFICES ASSUME NEW i \in DOMAIN routing_table'
               PROVE  /\ Contains(servs', routing_table'[i].serv)
                      /\ Nearest(routing_table[i].clit, routing_table[i].serv)'
    BY DEF RoutesNearest, Contains
  <2>1. PICK b, t : b = routing_table'[i].clit /\ t = routing_table'[i].serv
    OBVIOUS
  <2>2. Contains(servs, t) /\ Nearest(b, t)
    <3>1. CASE routing_table'[i] = e
      BY <1>1, <1>5, <1>7, <2>1, <3>1
    <3>2. CASE i \in DOMAIN routing_table /\ routing_table'[i] = routing_table[i]
      BY <2>1, <3>2 DEF RoutesNearest
    <3> QED BY <1>9, <3>1, <3>2
  <2>3. Contains(servs', t) /\ Nearest(b, t)'
    BY <1>2, <2>2, NearestSame
  <2> QED BY <2>1, <2>3
<1> QED BY <1>3, <1>10

(* The queue has run dry: what is marked is closed under announced hops,   *)
(* and no server is among it.                                              *)
LEMMA CutOff ==
    ASSUME ListTypes, SearchTypes, SearchInv, NoServer
    PROVE  AssertOnlyWhenCutOff'
<1>1. pc = "spf" /\ queue = <<>> /\ UNCHANGED <<servs, clits, neighbors, searched>>
  BY DEF NoServer, lsaVars, spfVars
<1>2. PICK c : c = clits[searched]
  OBVIOUS
<1>3. /\ c \in marked /\ marked \subseteq Names /\ marked \cap ToSet(servs) = {}
      /\ \A u \in marked : ToSet(neighbors[u]) \subseteq marked
  BY <1>1, <1>2, EmptyIsSeq DEF SearchInv, SearchTypes
<1>4. PICK k : k = Cardinality(Names)
  OBVIOUS
<1>5. k \in Nat
  BY <1>4, OspfAssumption, FS_CardinalityType
<1>6. Within(c)[k] \subseteq marked
  BY <1>3, <1>5, ClosedHasAll
<1>7. Within(c)' = Within(c) /\ clits'[searched'] = c
  BY <1>1, <1>2, WithinSame
<1>8. ToSet(servs') \cap Within(clits[searched])'[k] = {}
  BY <1>1, <1>3, <1>6, <1>7
<1> QED BY <1>4, <1>8 DEF AssertOnlyWhenCutOff

LEMMA SpfKept ==
    ASSUME SpfInv, [Next]_vars
    PROVE  SpfInv'
<1>1. TypeOK /\ TableInv /\ SearchInv /\ RoutesNearest /\ AssertOnlyWhenCutOff
  BY DEF SpfInv
<1>2. ListTypes /\ SearchTypes /\ TypeOK' /\ TableInv'
  BY <1>1, Lists, TypesKept, TableKept
<1> SUFFICES SearchInv' /\ RoutesNearest' /\ AssertOnlyWhenCutOff'
  BY <1>2 DEF SpfInv
<1>3. ASSUME NEW l \in Announcements, ParseLSA(l)
      PROVE  SearchInv' /\ RoutesNearest' /\ AssertOnlyWhenCutOff'
  <2>1. pc' = "lsa" /\ routing_table' = <<>>
    BY <1>1, <1>3 DEF ParseLSA, spfVars, TableInv
  <2>2. DOMAIN routing_table' = {}
    BY <2>1
  <2> QED BY <2>1, <2>2 DEF SearchInv, RoutesNearest, AssertOnlyWhenCutOff
<1>4. CASE EndOfFile
  <2>1. StartSearch(1) /\ UNCHANGED lsaVars /\ UNCHANGED <<neighbors, servs, routing_table>>
        /\ 1 \in Nat \ {0}
    BY <1>4 DEF EndOfFile, lsaVars
  <2>2. SearchInv' /\ RoutesNearest'
    BY <1>1, <1>2, <2>1, SearchStart, EntriesKept
  <2>3. pc' # "assert"
    BY <2>1 DEF StartSearch
  <2> QED BY <2>2, <2>3 DEF AssertOnlyWhenCutOff
<1>5. CASE FindServer
  <2>1. SearchInv' /\ RoutesNearest'
    BY <1>1, <1>2, <1>5, FindKeeps
  <2>2. pc' # "assert"
    BY <1>5 DEF FindServer, StartSearch
  <2> QED BY <2>1, <2>2 DEF AssertOnlyWhenCutOff
<1>6. CASE Expand
  <2>1. SearchInv'
    BY <1>1, <1>2, <1>6, ExpandKeeps
  <2>2. UNCHANGED <<neighbors, servs, routing_table>> /\ pc' = "spf"
    BY <1>6 DEF Expand, lsaVars
  <2> QED BY <1>1, <2>1, <2>2, EntriesKept DEF AssertOnlyWhenCutOff
<1>7. CASE NoServer
  <2>1. AssertOnlyWhenCutOff'
    BY <1>1, <1>2, <1>7, CutOff
  <2>2. UNCHANGED <<neighbors, servs, routing_table>> /\ pc' = "assert"
    BY <1>7 DEF NoServer, lsaVars, spfVars
  <2> QED BY <1>1, <2>1, <2>2, EntriesKept DEF SearchInv
<1>8. CASE UNCHANGED vars
  <2>1. UNCHANGED <<clits, servs, neighbors, pc, searched, queue, marked, routing_table>>
    BY <1>8 DEF vars
  <2>2. RoutesNearest'
    BY <1>1, <2>1, EntriesKept
  <2>3. Within(clits[searched])' = Within(clits[searched])
    BY <2>1 DEF Within
  <2>4. SearchInv'
    BY <1>1, <2>1, <2>3 DEF SearchInv, Levels
  <2>5. AssertOnlyWhenCutOff'
    BY <1>1, <2>1, <2>3 DEF AssertOnlyWhenCutOff
  <2> QED BY <2>2, <2>4, <2>5
<1> QED BY <1>3, <1>4, <1>5, <1>6, <1>7, <1>8 DEF Next

LEMMA SpfStart == ASSUME Init PROVE SpfInv
<1>1. pc = "lsa" /\ DOMAIN routing_table = {}
  BY DEF Init
<1> QED BY <1>1, TypesStart, TableStart DEF SpfInv, SearchInv, RoutesNearest, AssertOnlyWhenCutOff

(***************************************************************************)
(* On any lists, whatever loops and one-way links they have, each search   *)
(* enters a server that no other is nearer than by announced hops.         *)
(***************************************************************************)
THEOREM Nearness == Spec => []RoutesNearest
<1>1. SpfInv => RoutesNearest
  BY DEF SpfInv
<1> QED BY <1>1, SpfStart, SpfKept, PTL DEF Spec

(***************************************************************************)
(* assert(0) after a search is met only when the lists really leave its    *)
(* client without a server, never because the search missed one.           *)
(***************************************************************************)
THEOREM AssertMeansCutOff == Spec => []AssertOnlyWhenCutOff
<1>1. SpfInv => AssertOnlyWhenCutOff
  BY DEF SpfInv
<1> QED BY <1>1, SpfStart, SpfKept, PTL DEF Spec
=============================================================================
