-------------------------- MODULE NameServerProofs --------------------------
(***************************************************************************)
(* The resolvers and the name server over a network that loses, delays and *)
(* copies, for any number of hosts and servers: an address a resolve comes *)
(* back with answers its own query and is a nearest server's, a resolve    *)
(* fails only over a copied datagram, the server crashes only over a host  *)
(* without a route, and rotation is fair.  What OspfProofs proves of  *)
(* the table is used through an instance.                                  *)
(***************************************************************************)
EXTENDS NameServer, BasicLemmas, FiniteSetTheorems, FunctionTheorems

(* What is proved of the routing table holds of the name server's. *)
OP == INSTANCE OspfProofs WITH Names <- Addresses

(* An answer the name server gave host h. *)
Vouched(d, h) == d.qr = 1 => [id |-> d.id, addr |-> d.addr] \in given[h]

HostTables ==
    /\ DOMAIN given = Hosts /\ DOMAIN socket = Hosts
    /\ DOMAIN id = Hosts /\ DOMAIN rc = Hosts /\ DOMAIN dialed = Hosts
    /\ \A h \in Hosts : IsQueue(socket[h])

WireVouched ==
    \A d \in BagToSet(wire) : \/ d.to = "ns" /\ d.from \in Hosts
                              \/ d.to \in Hosts /\ Vouched(d, d.to)

SocketsVouched == \A h \in Hosts : \A d \in ToSet(socket[h]) : Vouched(d, h)

FreshInv == HostTables /\ WireVouched /\ SocketsVouched /\ AnswersFresh

-----------------------------------------------------------------------------
(* What a bag holds after a datagram went in or out. *)
LEMMA BagAdd ==
    ASSUME NEW b, NEW d
    PROVE  BagToSet(b (+) SetToBag({d})) = BagToSet(b) \cup {d}
BY DEF BagToSet, SetToBag, (+)

LEMMA BagRemove ==
    ASSUME NEW b, NEW d
    PROVE  BagToSet(b (-) SetToBag({d})) \subseteq BagToSet(b)
BY DEF BagToSet, SetToBag, (-)

LEMMA WireChanges ==
    ASSUME NEW d
    PROVE  BagToSet(With(d)) = BagToSet(wire) \cup {d}
           /\ BagToSet(Without(d)) \subseteq BagToSet(wire)
BY BagAdd, BagRemove DEF With, Without

LEMMA ReplyChanges ==
    ASSUME NEW q, NEW d, Reply(q, d)
    PROVE  BagToSet(wire') \subseteq BagToSet(wire) \cup {d}
<1>1. wire' = Without(q) (+) SetToBag({d})
  BY DEF Reply
<1>2. BagToSet(wire') = BagToSet(Without(q)) \cup {d}
  BY <1>1, BagAdd
<1> QED BY <1>2, WireChanges

(* What is vouched for stays so: the name server forgets no answer.        *)
LEMMA StillVouched ==
    ASSUME NEW h \in Hosts, given[h] \subseteq given'[h], NEW d, Vouched(d, h)
    PROVE  Vouched(d, h)'
BY DEF Vouched

-----------------------------------------------------------------------------
LEMMA FreshInit == Init => FreshInv
<1> SUFFICES ASSUME Init PROVE FreshInv
  OBVIOUS
<1>1. HostTables /\ SocketsVouched
  BY ShortQueues DEF Init, DnsInit, HostTables, SocketsVouched
<1>2. WireVouched
  BY DEF Init, DnsInit, WireVouched, EmptyBag, SetToBag, BagToSet
<1>3. AnswersFresh
  BY DEF Init, DnsInit, AnswersFresh
<1> QED BY <1>1, <1>2, <1>3 DEF FreshInv

(* A step that gives no answer and lets no host receive one. *)
LEMMA QuietStep ==
    ASSUME FreshInv, UNCHANGED <<hostVars, socket, given>>,
           BagToSet(wire') \subseteq BagToSet(wire)
    PROVE  FreshInv'
<1> USE DEF FreshInv
<1>1. HostTables'
  BY DEF HostTables, hostVars
<1>2. WireVouched'
  BY DEF WireVouched, Vouched
<1>3. SocketsVouched'
  BY DEF SocketsVouched, Vouched
<1>4. AnswersFresh'
  BY DEF AnswersFresh, hostVars
<1> QED BY <1>1, <1>2, <1>3, <1>4

LEMMA AskFresh ==
    ASSUME FreshInv, NEW h \in Hosts, Ask(h)
    PROVE  FreshInv'
<1> USE DEF FreshInv
<1>1. /\ \E short \in BOOLEAN : wire' = With(Query(h, short))
      /\ id' = [id EXCEPT ![h] = clock]
      /\ waiting' = waiting \cup {h}
      /\ UNCHANGED <<rc, dialed, socket, given>>
  BY DEF Ask, histVars
<1>2. HostTables'
  BY <1>1 DEF HostTables
<1>3. WireVouched'
  <2>0. PICK short \in BOOLEAN : wire' = With(Query(h, short))
    BY <1>1
  <2>1. Query(h, short).to = "ns" /\ Query(h, short).from \in Hosts
    BY DEF Query
  <2>2. BagToSet(wire') = BagToSet(wire) \cup {Query(h, short)}
    BY <2>0, WireChanges
  <2> QED BY <1>1, <2>1, <2>2 DEF WireVouched, Vouched
<1>4. SocketsVouched'
  BY <1>1 DEF SocketsVouched, Vouched
<1>5. AnswersFresh'
  BY <1>1 DEF AnswersFresh, HostTables
<1> QED BY <1>2, <1>3, <1>4, <1>5

LEMMA ReceiveFresh ==
    ASSUME FreshInv, NEW h \in Hosts, Receive(h)
    PROVE  FreshInv'
<1> USE DEF FreshInv
<1> DEFINE d == Head(socket[h])
<1>1. /\ socket[h] # <<>>
      /\ rc' = [rc EXCEPT ![h] = IF Repeats(d, h) THEN 0 ELSE -1]
      /\ dialed' = [dialed EXCEPT ![h] = IF Repeats(d, h) THEN d.addr ELSE Unset]
      /\ socket' = [socket EXCEPT ![h] = Tail(socket[h])]
      /\ waiting' = waiting \ {h}
      /\ UNCHANGED <<id, wire, given>>
  BY DEF Receive, histVars
<1>2. /\ IsQueue(Tail(socket[h])) /\ ToSet(Tail(socket[h])) \subseteq ToSet(socket[h])
      /\ d \in ToSet(socket[h])
  BY <1>1, Taken DEF HostTables
<1> HIDE DEF d
<1>3. HostTables'
  BY <1>1, <1>2 DEF HostTables
<1>4. WireVouched'
  BY <1>1 DEF WireVouched, Vouched
<1>5. SocketsVouched'
  BY <1>1, <1>2 DEF SocketsVouched, Vouched, HostTables
<1>6. AnswersFresh'
  <2>1. Vouched(d, h)
    BY <1>2 DEF SocketsVouched
  <2>2. Repeats(d, h) => [id |-> id[h], addr |-> d.addr] \in given[h]
    BY <2>1 DEF Vouched, Repeats
  <2>3. rc'[h] = 0 => Repeats(d, h) /\ dialed'[h] = d.addr
    BY <1>1 DEF HostTables
  <2>4. \A g \in Hosts \ {h} : rc'[g] = rc[g] /\ dialed'[g] = dialed[g]
    BY <1>1 DEF HostTables
  <2> QED BY <1>1, <2>2, <2>3, <2>4 DEF AnswersFresh
<1> QED BY <1>3, <1>4, <1>5, <1>6

(* An answer given and sent in the same step. *)
LEMMA NamedFresh ==
    ASSUME FreshInv, NEW q \in BagToSet(wire), q.to = "ns", NEW addr,
           Named(q, addr), UNCHANGED <<hostVars, socket>>
    PROVE  FreshInv'
<1> USE DEF FreshInv
<1> DEFINE d == Answer(q, addr)
<1>1. q.from \in Hosts
  BY DnsAssumption DEF WireVouched, DnsAssumption
<1>2. given' = [given EXCEPT ![q.from] = given[q.from] \cup {[id |-> q.id, addr |-> addr]}]
  BY DEF Named
<1>3. \A h \in Hosts : given[h] \subseteq given'[h]
  BY <1>1, <1>2 DEF HostTables
<1>4. HostTables'
  BY <1>2 DEF HostTables, hostVars
<1>5. d.to = q.from /\ Vouched(d, q.from)'
  BY <1>1, <1>2 DEF Answer, Vouched, HostTables
<1>6. BagToSet(wire') \subseteq BagToSet(wire) \cup {d}
  BY ReplyChanges DEF Named
<1> HIDE DEF d
<1>7. WireVouched'
  BY <1>1, <1>3, <1>5, <1>6, StillVouched DEF WireVouched
<1>8. SocketsVouched'
  BY <1>3, StillVouched DEF SocketsVouched
<1>9. AnswersFresh'
  BY <1>3 DEF AnswersFresh, hostVars
<1> QED BY <1>4, <1>7, <1>8, <1>9

LEMMA ServeFresh ==
    ASSUME FreshInv, NEW q \in BagToSet(wire), Serve(q)
    PROVE  FreshInv'
<1>1. q.to = "ns" /\ UNCHANGED <<hostVars, socket>>
  BY DEF Serve
<1>2. CASE RefuseQuery(q)
  <2> DEFINE d == ErrorFor(q)
  <2>1. q.from \in Hosts
    BY <1>1, DnsAssumption DEF WireVouched, FreshInv
  <2>2. d.to \in Hosts /\ Vouched(d, d.to)'
    BY <2>1 DEF ErrorFor, Vouched
  <2>3. BagToSet(wire') \subseteq BagToSet(wire) \cup {d}
    BY <1>2, ReplyChanges DEF RefuseQuery
  <2>4. UNCHANGED given
    BY <1>2 DEF RefuseQuery, histVars
  <2> HIDE DEF d
  <2>5. WireVouched'
    BY <2>2, <2>3, <2>4 DEF WireVouched, Vouched, FreshInv
  <2>6. HostTables' /\ SocketsVouched' /\ AnswersFresh'
    BY <1>1, <2>4 DEF HostTables, SocketsVouched, AnswersFresh, Vouched, hostVars, FreshInv
  <2> QED BY <2>5, <2>6 DEF FreshInv
<1>3. CASE RouteByRotation(q) \/ RouteByTable(q)
  BY <1>1, <1>3, NamedFresh DEF RouteByRotation, RouteByTable
<1>4. CASE RouteUnknown(q)
  BY <1>1, <1>4, WireChanges, QuietStep DEF RouteUnknown, histVars
<1> QED BY <1>2, <1>3, <1>4 DEF Serve

LEMMA NetworkFresh ==
    ASSUME FreshInv, NEW d \in BagToSet(wire), Deliver(d) \/ Lose(d) \/ Duplicate(d)
    PROVE  FreshInv'
<1>1. CASE Deliver(d)
  <2> USE DEF FreshInv
  <2>1. /\ d.to \in Hosts /\ Vouched(d, d.to)
        /\ socket' = [socket EXCEPT ![d.to] = Append(socket[d.to], d)]
        /\ BagToSet(wire') \subseteq BagToSet(wire)
        /\ UNCHANGED <<hostVars, given>>
    BY <1>1, WireChanges DEF Deliver, WireVouched, histVars
  <2>2. /\ IsQueue(Append(socket[d.to], d))
        /\ ToSet(Append(socket[d.to], d)) \subseteq ToSet(socket[d.to]) \cup {d}
    BY <2>1, Appended DEF HostTables
  <2>3. HostTables'
    BY <2>1, <2>2 DEF HostTables, hostVars
  <2>4. SocketsVouched'
    BY <2>1, <2>2 DEF SocketsVouched, Vouched, HostTables
  <2>5. WireVouched' /\ AnswersFresh'
    BY <2>1 DEF WireVouched, Vouched, AnswersFresh, hostVars
  <2> QED BY <2>3, <2>4, <2>5
<1>2. CASE Lose(d)
  BY <1>2, WireChanges, QuietStep DEF Lose, histVars
<1>3. CASE Duplicate(d)
  BY <1>3, WireChanges, QuietStep DEF Duplicate, histVars
<1> QED BY <1>1, <1>2, <1>3

LEMMA FreshStep == FreshInv /\ [Next]_vars => FreshInv'
<1> SUFFICES ASSUME FreshInv, [Next]_vars PROVE FreshInv'
  OBVIOUS
<1>1. CASE UNCHANGED dnsVars
  BY <1>1, QuietStep DEF dnsVars, histVars
<1>2. CASE SkipTable \/ (\E l \in Announcements : Announce(l)) \/ BuildTable
  BY <1>2, <1>1 DEF SkipTable, Announce, BuildTable
<1>3. CASE NoServer
  BY <1>3, QuietStep DEF NoServer, histVars
<1>4. CASE Answering \/ Failing
  BY <1>4, ServeFresh, QuietStep
     DEF Answering, ServerStep, Failing, SelectFails, Spins, RecvFails, Stops, histVars
<1>5. CASE Outside
  <2>1. CASE HostStep
    BY <2>1, AskFresh, ReceiveFresh DEF HostStep
  <2>2. CASE NetworkStep
    BY <2>2, NetworkFresh DEF NetworkStep, Delivery
  <2>3. CASE Tick
    BY <2>3, QuietStep DEF Tick, histVars
  <2> QED BY <1>5, <2>1, <2>2, <2>3 DEF Outside
<1>6. CASE UNCHANGED vars
  BY <1>6, <1>1 DEF vars
<1> QED BY <1>2, <1>3, <1>4, <1>5, <1>6 DEF Next

(***************************************************************************)
(* No loss, copy, delay or other host's traffic makes resolve return an    *)
(* address that was not given to this host for the id it asks with.        *)
(***************************************************************************)
THEOREM ResolveFresh == Spec => []AnswersFresh
<1>1. FreshInv => AnswersFresh
  BY DEF FreshInv
<1> QED BY <1>1, FreshInit, FreshStep, PTL DEF Spec


-----------------------------------------------------------------------------
(* The map of the network inside the name server is that of module Ospf.   *)
LEMMA MapAssumed == OP!OspfAssumption
BY NameServerAssumption DEF IsFiniteSet, OP!IsFiniteSet

LEMMA MapStart ==
    ASSUME Init PROVE OP!Init
BY DEF Init, O!Init, OP!Init, O!Distinct, OP!Distinct, O!AppendAllNew, OP!AppendAllNew,
       O!FoldLeft, OP!FoldLeft, O!MapThenFoldSet, OP!MapThenFoldSet, O!Max, OP!Max,
       O!AppendNew, OP!AppendNew, O!Contains, OP!Contains

LEMMA MapLine ==
    ASSUME NEW l, O!ParseLSA(l) PROVE OP!ParseLSA(l)
<1>1. O!MeetNode(l.name) => OP!MeetNode(l.name)
  BY DEF O!MeetNode, OP!MeetNode, O!AppendNew, OP!AppendNew, O!Contains, OP!Contains
<1>2. O!ParseNew(l) => OP!ParseNew(l)
  BY DEF O!ParseNew, OP!ParseNew, O!Distinct, OP!Distinct, O!AppendAllNew, OP!AppendAllNew,
         O!FoldLeft, OP!FoldLeft, O!MapThenFoldSet, OP!MapThenFoldSet, O!Max, OP!Max,
         O!AppendNew, OP!AppendNew, O!Contains, OP!Contains
<1>3. O!ParseOld(l) => OP!ParseOld(l)
  BY DEF O!ParseOld, OP!ParseOld, O!AppendNew, OP!AppendNew, O!Contains, OP!Contains
<1>4. /\ pc = "lsa" /\ O!Cardinality(heard) < MaxLines
      /\ O!MeetNode(l.name) /\ (O!ParseNew(l) \/ O!ParseOld(l))
      /\ heard' = heard \cup {l} /\ UNCHANGED <<servs, pc, O!spfVars>>
  BY DEF O!ParseLSA
<1>5. OP!Cardinality(heard) = O!Cardinality(heard) /\ UNCHANGED OP!spfVars
  BY <1>4 DEF O!Cardinality, OP!Cardinality, O!spfVars, OP!spfVars
<1> QED BY <1>1, <1>2, <1>3, <1>4, <1>5 DEF OP!ParseLSA

LEMMA MapStep ==
    ASSUME O!EndOfFile \/ O!FindServer \/ O!Expand \/ O!NoServer
    PROVE  OP!Next
<1>1. O!EndOfFile => OP!EndOfFile
  BY DEF O!EndOfFile, OP!EndOfFile, O!StartSearch, OP!StartSearch, O!lsaVars, OP!lsaVars
<1>2. O!FindServer => OP!FindServer
  BY DEF O!FindServer, OP!FindServer, O!StartSearch, OP!StartSearch, O!lsaVars, OP!lsaVars,
         O!FirstServer, OP!FirstServer, O!SelectInSeq, OP!SelectInSeq, O!Min, OP!Min,
         O!IsServer, OP!IsServer, O!Contains, OP!Contains, O!Unreached, OP!Unreached,
         O!Reach, OP!Reach, O!AppendNew, OP!AppendNew,
         O!FoldLeft, OP!FoldLeft, O!MapThenFoldSet, OP!MapThenFoldSet, O!Max, OP!Max
<1>3. O!Expand => OP!Expand
  BY DEF O!Expand, OP!Expand, O!lsaVars, OP!lsaVars, O!ToSet, OP!ToSet,
         O!FirstServer, OP!FirstServer, O!SelectInSeq, OP!SelectInSeq, O!Min, OP!Min,
         O!IsServer, OP!IsServer, O!Contains, OP!Contains, O!Unreached, OP!Unreached,
         O!Reach, OP!Reach, O!AppendNew, OP!AppendNew,
         O!FoldLeft, OP!FoldLeft, O!MapThenFoldSet, OP!MapThenFoldSet, O!Max, OP!Max
<1>4. O!NoServer => OP!NoServer
  BY DEF O!NoServer, OP!NoServer, O!lsaVars, OP!lsaVars, O!spfVars, OP!spfVars
<1> QED BY <1>1, <1>2, <1>3, <1>4 DEF OP!Next

(* Outside SkipTable, a step of the name server is a step of the map or    *)
(* leaves it alone.                                                        *)
LEMMA MapNext ==
    ASSUME [Next]_vars
    PROVE  SkipTable \/ (~rr_flag /\ OP!Next) \/ UNCHANGED ospfVars
<1>1. CASE \E l \in Announcements : Announce(l)
  <2>1. PICK l \in Announcements : ~rr_flag /\ O!ParseLSA(l)
    BY <1>1 DEF Announce
  <2>2. OP!Next
    BY <2>1, MapLine DEF OP!Next
  <2> QED BY <2>1, <2>2
<1>2. CASE BuildTable
  BY <1>2, MapStep DEF BuildTable
<1>3. CASE NoServer
  BY <1>3, MapStep DEF NoServer
<1>4. CASE Answering \/ Failing \/ Outside \/ UNCHANGED vars
  BY <1>4 DEF Answering, Failing, Outside, vars
<1> QED BY <1>1, <1>2, <1>3, <1>4 DEF Next

(* With -r the servers file is all that is read; else the map is kept as   *)
(* module Ospf keeps it, and no step changes it once it is built.          *)
MapInv ==
    /\ servs = ServerNames
    /\ rr_flag \in BOOLEAN
    /\ rr_flag => /\ OP!TypeOK /\ nodes = OP!Distinct(ServerNames)
                  /\ pc \in {"lsa", "serving"}
    /\ ~rr_flag => OP!SpfInv /\ OP!LinesInv

LEMMA MapInit == Init => MapInv
<1> SUFFICES ASSUME Init PROVE MapInv
  OBVIOUS
<1>1. OP!SpfInv
  BY MapStart, MapAssumed, OP!SpfStart
<1>2. OP!LinesInv
  BY MapStart DEF OP!Init, OP!LinesInv, OP!NewestWins
<1>3. OP!TypeOK
  BY <1>1 DEF OP!SpfInv
<1>4. /\ servs = ServerNames /\ rr_flag \in BOOLEAN /\ pc = "lsa"
      /\ nodes = OP!Distinct(ServerNames)
  BY MapStart DEF OP!Init, Init, DnsInit
<1> QED BY <1>1, <1>2, <1>3, <1>4 DEF MapInv

LEMMA ModeKept == [Next]_vars => UNCHANGED rr_flag
BY DEF Next, vars, dnsVars, SkipTable, Announce, BuildTable, NoServer, Answering, Failing,
       Outside, HostStep, ServerStep, NetworkStep, Delivery, Serve, SelectFails, Spins,
       RecvFails, Stops, Ask, Receive, Deliver, Lose, Duplicate, Tick

LEMMA ServersKept == OP!Next => UNCHANGED servs
BY DEF OP!Next, OP!ParseLSA, OP!EndOfFile, OP!FindServer, OP!Expand, OP!NoServer, OP!lsaVars

LEMMA MapKept == MapInv /\ [Next]_vars => MapInv'
<1> SUFFICES ASSUME MapInv, [Next]_vars PROVE MapInv'
  OBVIOUS
<1>1. UNCHANGED rr_flag
  BY ModeKept
<1>2. CASE ~rr_flag /\ OP!Next
  <2>1. OP!SpfInv'
    BY <1>2, MapAssumed, OP!SpfKept DEF MapInv
  <2>2. OP!LinesInv'
    BY <1>2, MapAssumed, OP!LinesKept DEF MapInv
  <2> QED BY <1>1, <1>2, <2>1, <2>2, ServersKept DEF MapInv
<1>3. CASE UNCHANGED ospfVars
  <2>1. UNCHANGED OP!vars
    BY <1>3 DEF ospfVars, OP!vars
  <2>2. ~rr_flag => OP!SpfInv' /\ OP!LinesInv'
    BY <2>1, MapAssumed, OP!SpfKept, OP!LinesKept DEF MapInv
  <2>3. rr_flag => OP!TypeOK'
    BY <1>3 DEF MapInv, OP!TypeOK, ospfVars
  <2> QED BY <1>1, <1>3, <2>2, <2>3 DEF MapInv, ospfVars
<1>4. CASE SkipTable
  <2>1. /\ rr_flag /\ pc' = "serving"
        /\ UNCHANGED <<nodes, seq_num, neighbors, servs, clits, routing_table, searched,
                       queue, marked, heard>>
    BY <1>4 DEF SkipTable
  <2>2. OP!TypeOK'
    BY <2>1 DEF MapInv, OP!TypeOK
  <2> QED BY <1>1, <2>1, <2>2 DEF MapInv
<1> QED BY <1>2, <1>3, <1>4, MapNext

(* Once it serves, or has aborted, the map stays as it is. *)
LEMMA MapSettled ==
    ASSUME [Next]_vars, pc \in {"serving", "assert"}
    PROVE  UNCHANGED ospfVars
<1>1. ~SkipTable
  BY DEF SkipTable
<1>2. ~OP!Next
  BY DEF OP!Next, OP!ParseLSA, OP!EndOfFile, OP!FindServer, OP!Expand, OP!NoServer
<1> QED BY <1>1, <1>2, MapNext


-----------------------------------------------------------------------------
(* Hops over what the file last said are hops over the lists it left.      *)
LEMMA NewestIs ==
    ASSUME OP!LinesInv, OP!ListTypes, NEW n \in Addresses
    PROVE  Newest(n) = OP!ToSet(neighbors[n])
<1>0. OP!ToSet(<<>>) = {} /\ \A s : OP!ToSet(s) = ToSet(s)
  BY ShortQueues DEF OP!ToSet, ToSet
<1>1. CASE Said(n) = {}
  BY <1>0, <1>1 DEF Newest, Said, OP!LinesInv, OP!NewestWins
<1>2. CASE Said(n) # {}
  <2>1. PICK l \in Said(n) : /\ \A m \in Said(n) : m.seq <= l.seq
                             /\ neighbors[n] = OP!Distinct(l.nbrs)
    BY <1>2 DEF Said, OP!LinesInv, OP!NewestWins
  <2>2. \A m \in Said(n) : m \in Announcements /\ m.name = n /\ m.seq \in Nat
                           /\ m.nbrs \in Seq(Addresses)
    BY NameServerAssumption DEF Said, OP!LinesInv
  <2>3. \A w \in Said(n) : (\A m \in Said(n) : m.seq <= w.seq) => w = l
    <3> SUFFICES ASSUME NEW w \in Said(n), \A m \in Said(n) : m.seq <= w.seq PROVE w = l
      OBVIOUS
    <3>1. w.seq = l.seq
      BY <2>1, <2>2
    <3> QED BY <2>2, <3>1, NameServerAssumption
  <2>4. (CHOOSE w \in Said(n) : \A m \in Said(n) : m.seq <= w.seq) = l
    BY <2>1, <2>3
  <2>5. OP!ToSet(OP!Distinct(l.nbrs)) = OP!ToSet(l.nbrs)
    <3>1. <<>> \in Seq(Addresses) /\ l.nbrs \in Seq(Addresses)
      BY <2>2
    <3>2. /\ OP!AppendAllNew(<<>>, l.nbrs) \in Seq(Addresses)
          /\ OP!ToSet(OP!AppendAllNew(<<>>, l.nbrs)) = OP!ToSet(<<>>) \cup OP!ToSet(l.nbrs)
      BY <3>1, MapAssumed, OP!AllNew
    <3> QED BY <1>0, <3>2 DEF OP!Distinct
  <2> QED BY <1>0, <1>2, <2>1, <2>4, <2>5 DEF Newest
<1> QED BY <1>1, <1>2

LEMMA HopsAre ==
    ASSUME OP!LinesInv, OP!ListTypes, NEW h \in Addresses
    PROVE  \A k \in Nat : Hops(h)[k] = OP!Within(h)[k]
<1> DEFINE E == [n \in Addresses |-> Newest(n)]
<1>1. \A n \in Addresses : Newest(n) = OP!ToSet(neighbors[n]) /\ Newest(n) \subseteq Addresses
  <2> SUFFICES ASSUME NEW n \in Addresses
               PROVE  Newest(n) = OP!ToSet(neighbors[n]) /\ Newest(n) \subseteq Addresses
    OBVIOUS
  <2>1. neighbors[n] \in Seq(Addresses)
    BY DEF OP!ListTypes
  <2>2. OP!ToSet(neighbors[n]) \subseteq Addresses
    BY <2>1 DEF OP!ToSet
  <2> QED BY <2>2, NewestIs
<1>2. Edges(E, Addresses) /\ \A n \in Addresses : E[n] = Newest(n)
  BY <1>1 DEF Edges
<1> HIDE DEF E
<1>3. PICK G : HopsOf(G, h, E, Addresses)
  BY <1>2, HopsExist
<1>4. /\ G \in [Nat -> SUBSET Addresses]
      /\ G = [k \in Nat |-> IF k = 0 THEN {h}
                            ELSE G[k - 1] \cup UNION {E[u] : u \in G[k - 1]}]
  BY <1>3 DEF HopsOf
<1>5. G = [k \in Nat |-> IF k = 0 THEN {h}
                         ELSE G[k - 1] \cup UNION {Newest(n) : n \in G[k - 1]}]
  <2>1. ASSUME NEW k \in Nat, k # 0
        PROVE  UNION {E[u] : u \in G[k - 1]} = UNION {Newest(n) : n \in G[k - 1]}
    <3>1. k - 1 \in Nat /\ G[k - 1] \subseteq Addresses
      BY <1>4, <2>1
    <3> QED BY <1>2, <3>1
  <2>2. ASSUME NEW k \in Nat
        PROVE  G[k] = IF k = 0 THEN {h}
                      ELSE G[k - 1] \cup UNION {Newest(n) : n \in G[k - 1]}
    <3>1. G[k] = IF k = 0 THEN {h} ELSE G[k - 1] \cup UNION {E[u] : u \in G[k - 1]}
      BY <1>4
    <3> QED BY <2>1, <3>1
  <2> QED BY <1>4, <2>2
<1> DEFINE H == Hops(h)
<1>6. H = [k \in Nat |-> IF k = 0 THEN {h}
                         ELSE H[k - 1] \cup UNION {Newest(n) : n \in H[k - 1]}]
  BY <1>5 DEF Hops
<1> HIDE DEF H
<1>7. H[0] = {h}
  BY <1>6
<1>8. ASSUME NEW k \in Nat
      PROVE  H[k + 1] = H[k] \cup UNION {Newest(n) : n \in H[k]}
  <2>1. k + 1 \in Nat /\ k + 1 # 0 /\ (k + 1) - 1 = k
    OBVIOUS
  <2> QED BY <1>6, <2>1
<1>9. PICK W : W = OP!Within(h)
  OBVIOUS
<1>10. /\ W[0] = {h}
       /\ \A k \in Nat : /\ W[k] \subseteq Addresses
                         /\ W[k] \subseteq W[k + 1]
                         /\ \A u \in W[k] : OP!ToSet(neighbors[u]) \subseteq W[k + 1]
                         /\ \A n \in W[k + 1] :
                                \/ n \in W[k]
                                \/ \E u \in W[k] : n \in OP!ToSet(neighbors[u])
  BY <1>9, MapAssumed, OP!WithinIs
<1> DEFINE D == {k \in Nat : H[k] = W[k]}
<1>11. 0 \in D
  BY <1>7, <1>10
<1>12. ASSUME NEW k \in Nat, k \in D PROVE k + 1 \in D
  <2>1. H[k] = W[k] /\ W[k] \subseteq Addresses
    BY <1>10, <1>12
  <2>2. \A u \in W[k] : Newest(u) = OP!ToSet(neighbors[u])
    BY <1>1, <2>1
  <2>3. \A n : n \in H[k + 1] <=> n \in W[k] \/ \E u \in W[k] : n \in OP!ToSet(neighbors[u])
    BY <1>8, <2>1, <2>2
  <2>4. H[k + 1] = W[k + 1]
    BY <1>10, <2>3
  <2> QED BY <2>4
<1> HIDE DEF D
<1>13. Nat \subseteq D
  BY <1>11, <1>12, Induction
<1> QED BY <1>9, <1>13 DEF D, H

(* An entry of the table names a nearest server by what the file said. *)
LEMMA EntryNearest ==
    ASSUME MapInv, ~rr_flag, NEW i \in DOMAIN routing_table
    PROVE  \E k \in 1..Far :
              /\ routing_table[i].serv \in Hops(routing_table[i].clit)[k] \cap ToSet(ServerNames)
              /\ Hops(routing_table[i].clit)[k - 1] \cap ToSet(ServerNames) = {}
<1>1. OP!TypeOK /\ OP!RoutesNearest /\ OP!LinesInv /\ servs = ServerNames
  BY DEF MapInv, OP!SpfInv
<1>2. OP!ListTypes
  BY <1>1, MapAssumed, OP!Lists
<1>3. PICK h, s : h = routing_table[i].clit /\ s = routing_table[i].serv
  OBVIOUS
<1>4. h \in Addresses
  <2>1. PICK R : R = [clit : Addresses, serv : Addresses]
    OBVIOUS
  <2>2. routing_table \in Seq(R)
    BY <1>1, <2>1 DEF OP!TypeOK
  <2>3. routing_table[i] \in R
    BY <2>2
  <2> QED BY <1>3, <2>1, <2>3
<1>5. OP!Contains(servs, s) /\ OP!Nearest(h, s)
  BY <1>1, <1>3 DEF OP!RoutesNearest
<1>6. s \in ToSet(ServerNames)
  <2>1. \E j \in 1..Len(ServerNames) : ServerNames[j] = s
    BY <1>1, <1>5 DEF OP!Contains
  <2>2. DOMAIN ServerNames = 1..Len(ServerNames)
    BY NameServerAssumption
  <2> QED BY <2>1, <2>2 DEF ToSet
<1>7. OP!Cardinality(Addresses) = Far /\ OP!ToSet(servs) = ToSet(ServerNames)
  BY <1>1 DEF Far, Cardinality, OP!Cardinality, OP!ToSet, ToSet
<1>8. Far \in Nat
  BY NameServerAssumption, FS_CardinalityType DEF Far
<1>9. PICK k \in 1..Far : s \in OP!Within(h)[k]
                          /\ ToSet(ServerNames) \cap OP!Within(h)[k - 1] = {}
  BY <1>5, <1>7 DEF OP!Nearest
<1>10. k \in Nat /\ k - 1 \in Nat
  BY <1>8
<1>11. s \in Hops(h)[k] /\ Hops(h)[k - 1] \cap ToSet(ServerNames) = {}
  <2>1. \A j \in Nat : Hops(h)[j] = OP!Within(h)[j]
    BY <1>1, <1>2, <1>4, HopsAre
  <2>2. PICK j \in Nat : j = k - 1
    BY <1>10
  <2> QED BY <1>9, <1>10, <2>1, <2>2
<1> QED BY <1>3, <1>6, <1>11


-----------------------------------------------------------------------------
(* What route() finds in the table. *)
Entered(h, s) == \E i \in DOMAIN routing_table :
                    routing_table[i].clit = h /\ routing_table[i].serv = s

LEMMA EntryIs ==
    ASSUME IsQueue(routing_table), NEW h
    PROVE  /\ Entry(h) # 0 => Entered(h, Best(h))
           /\ Entry(h) = 0 => \A s : ~Entered(h, s)
<1> DEFINE I == {i \in 1..Len(routing_table) : routing_table[i].clit = h}
<1>1. Entry(h) = IF I # {} THEN Min(I) ELSE 0
  BY DEF Entry, SelectInSeq
<1>2. PICK S : routing_table \in Seq(S)
  BY DEF IsQueue
<1>3. DOMAIN routing_table = 1..Len(routing_table) /\ I \in SUBSET Nat /\ \A i \in I : i # 0
  BY <1>2
<1>4. I # {} => Min(I) \in I
  <2> HIDE DEF I
  <2> SUFFICES ASSUME I # {} PROVE Min(I) \in I
    OBVIOUS
  <2>1. \E i \in I : \A q \in I : i <= q
    BY <1>3, LeastNat
  <2> QED BY <2>1 DEF Min
<1>5. Entry(h) # 0 => Entry(h) \in I
  BY <1>1, <1>4
<1>6. Entry(h) = 0 => I = {}
  BY <1>1, <1>3, <1>4
<1> QED BY <1>3, <1>5, <1>6 DEF Entered, Best

(* Answers are given from the finished table only. *)
GivenInv ==
    ~rr_flag => \A h \in Hosts : \A g \in given[h] : pc = "serving" /\ Entered(h, g.addr)

(* The steps that give an answer, and those that do not. *)
LEMMA GivenChange ==
    ASSUME [Next]_vars
    PROVE  \/ UNCHANGED given
           \/ \E q \in BagToSet(wire) :
                 /\ pc = "serving" /\ UNCHANGED ospfVars /\ q.to = "ns"
                 /\ \/ rr_flag /\ RouteByRotation(q) /\ Named(q, NextServer)
                    \/ ~rr_flag /\ Entry(q.from) # 0 /\ Named(q, Best(q.from))
                                /\ UNCHANGED query_count
<1>1. CASE Answering
  <2>1. PICK q \in BagToSet(wire) : Serve(q)
    BY <1>1 DEF Answering, ServerStep
  <2>2. pc = "serving" /\ UNCHANGED ospfVars /\ q.to = "ns"
    BY <1>1, <2>1 DEF Answering, Serve
  <2> QED BY <2>1, <2>2
          DEF Serve, RefuseQuery, RouteByRotation, RouteByTable, RouteUnknown, histVars
<1>2. CASE Outside
  BY <1>2 DEF Outside, HostStep, NetworkStep, Delivery, Ask, Receive, Deliver, Lose,
              Duplicate, Tick, histVars
<1>3. CASE SkipTable \/ (\E l \in Announcements : Announce(l)) \/ BuildTable \/ NoServer
           \/ Failing \/ UNCHANGED vars
  BY <1>3 DEF SkipTable, Announce, BuildTable, NoServer, Failing, SelectFails, Spins,
              RecvFails, Stops, vars, dnsVars, histVars
<1> QED BY <1>1, <1>2, <1>3 DEF Next

LEMMA GivenKept ==
    ASSUME MapInv, FreshInv, GivenInv, [Next]_vars
    PROVE  GivenInv'
<1> SUFFICES ASSUME ~rr_flag, NEW h \in Hosts, NEW g \in given'[h]
             PROVE  pc' = "serving" /\ Entered(h, g.addr)'
  BY ModeKept DEF GivenInv
<1>0. ASSUME g \in given[h] PROVE pc' = "serving" /\ Entered(h, g.addr)'
  <2>1. pc = "serving" /\ Entered(h, g.addr)
    BY <1>0 DEF GivenInv
  <2>2. UNCHANGED <<pc, routing_table>>
    BY <2>1, MapSettled DEF ospfVars
  <2> QED BY <2>1, <2>2 DEF Entered
<1>1. CASE UNCHANGED given
  BY <1>0, <1>1
<1>2. CASE ~UNCHANGED given
  <2>1. PICK q \in BagToSet(wire) :
          /\ pc = "serving" /\ UNCHANGED ospfVars /\ q.to = "ns"
          /\ Entry(q.from) # 0 /\ Named(q, Best(q.from))
    BY <1>2, GivenChange
  <2>2. q.from \in Hosts
    BY <2>1, DnsAssumption DEF FreshInv, WireVouched
  <2>3. PICK b : b = Best(q.from)
    OBVIOUS
  <2>4. given' = [given EXCEPT ![q.from] = given[q.from] \cup {[id |-> q.id, addr |-> b]}]
    BY <2>1, <2>3 DEF Named
  <2>5. g \in given[h] \/ (h = q.from /\ g = [id |-> q.id, addr |-> b])
    BY <2>2, <2>4 DEF FreshInv, HostTables
  <2>6. Entered(q.from, b)
    <3>1. IsQueue(routing_table)
      <4>1. OP!IsQueue(routing_table)
        BY DEF MapInv, OP!SpfInv, OP!TableInv
      <4> QED BY <4>1 DEF OP!IsQueue, IsQueue
    <3> QED BY <2>1, <2>3, <3>1, EntryIs
  <2>7. UNCHANGED <<pc, routing_table>>
    BY <2>1 DEF ospfVars
  <2>8. CASE h = q.from /\ g = [id |-> q.id, addr |-> b]
    <3>1. g.addr = b
      BY <2>8
    <3> QED BY <2>1, <2>6, <2>7, <2>8, <3>1 DEF Entered
  <2> QED BY <1>0, <2>5, <2>8
<1> QED BY <1>1, <1>2

LEMMA GivenInit == Init => GivenInv
BY DEF Init, DnsInit, GivenInv

(***************************************************************************)
(* The address a successful resolve hands on is that of a server that, by  *)
(* what the announcements last said, no other is nearer than: for any      *)
(* network, any order and loss of announcements, whenever the query came.  *)
(***************************************************************************)
THEOREM DialsNearest == Spec => []NearestDialed
<1> DEFINE I == MapInv /\ FreshInv /\ GivenInv
<1>1. Init => I
  BY MapInit, FreshInit, GivenInit
<1>2. I /\ [Next]_vars => I'
  BY MapKept, FreshStep, GivenKept
<1>3. I => NearestDialed
  <2> SUFFICES ASSUME MapInv, FreshInv, GivenInv, ~rr_flag, NEW p \in Proxies \ waiting,
                      rc[p] = 0, dialed[p] # NULL
               PROVE  \E k \in 1..Far : /\ dialed[p] \in Hops(p)[k] \cap ToSet(ServerNames)
                                        /\ Hops(p)[k - 1] \cap ToSet(ServerNames) = {}
    BY DEF NearestDialed
  <2>1. p \in Hosts
    BY DEF Hosts
  <2>2. PICK g : g = [id |-> id[p], addr |-> dialed[p]]
    OBVIOUS
  <2>3. g \in given[p] /\ g.addr = dialed[p]
    BY <2>1, <2>2 DEF FreshInv, AnswersFresh
  <2>4. Entered(p, dialed[p])
    BY <2>1, <2>3 DEF GivenInv
  <2>5. PICK i \in DOMAIN routing_table :
          routing_table[i].clit = p /\ routing_table[i].serv = dialed[p]
    BY <2>4 DEF Entered
  <2> QED BY <2>5, EntryNearest
<1> HIDE DEF I
<1> QED BY <1>1, <1>2, <1>3, PTL DEF Spec


-----------------------------------------------------------------------------
(* What travels for a proxy: its queries are the reference query, and what *)
(* comes back is an answer, since only queries for other names are         *)
(* refused.  A query of its own under way means that it still waits or was *)
(* answered before.                                                        *)
Fits(d) == d.qr = 1 /\ d.rcode = 0 /\ d.ours

Asking(d) == d.to = "ns" /\ d.from \in Hosts /\ d.ours = (d.from \in Proxies)

Known(h) == h \in Proxies => h \in waiting \/ given[h] # {}

TrafficInv ==
    /\ \A d \in BagToSet(wire) : \/ Asking(d) /\ Known(d.from)
                                 \/ d.to \in Hosts /\ (d.to \in Proxies => Fits(d))
    /\ \A p \in Proxies : \A d \in ToSet(socket[p]) : Fits(d) /\ given[p] # {}

LEMMA TrafficInit == Init => TrafficInv
<1> SUFFICES ASSUME Init PROVE TrafficInv
  OBVIOUS
<1>1. BagToSet(wire) = {}
  BY DEF Init, DnsInit, EmptyBag, SetToBag, BagToSet
<1>2. \A p \in Proxies : ToSet(socket[p]) = {}
  BY ShortQueues DEF Init, DnsInit, Hosts
<1> QED BY <1>1, <1>2 DEF TrafficInv

(* A step after which nothing new travels and nothing is forgotten. *)
LEMMA TrafficQuiet ==
    ASSUME TrafficInv, BagToSet(wire') \subseteq BagToSet(wire), UNCHANGED <<waiting, given, socket>>
    PROVE  TrafficInv'
BY DEF TrafficInv, Asking, Known, Fits

LEMMA TrafficAsk ==
    ASSUME TrafficInv, NEW h \in Hosts, Ask(h)
    PROVE  TrafficInv'
<1>1. PICK d : wire' = With(d) /\ \E short \in BOOLEAN : d = Query(h, short)
  BY DEF Ask
<1>2. d.to = "ns" /\ d.from = h /\ d.ours = (h \in Proxies)
  BY <1>1 DEF Query
<1>3. /\ BagToSet(wire') = BagToSet(wire) \cup {d}
      /\ waiting' = waiting \cup {h} /\ UNCHANGED <<given, socket>>
  BY <1>1, WireChanges DEF Ask, histVars
<1>4. Asking(d) /\ Known(d.from)'
  BY <1>2, <1>3 DEF Asking, Known
<1>5. \A e \in BagToSet(wire) : Known(e.from) => Known(e.from)'
  BY <1>3 DEF Known
<1>6. \A e \in BagToSet(wire') : \/ Asking(e) /\ Known(e.from)'
                                 \/ e.to \in Hosts /\ (e.to \in Proxies => Fits(e))
  BY <1>3, <1>4, <1>5 DEF TrafficInv
<1> QED BY <1>3, <1>6 DEF TrafficInv, Asking, Fits, Known

LEMMA TrafficReceive ==
    ASSUME TrafficInv, FreshInv, NEW h \in Hosts, Receive(h)
    PROVE  TrafficInv'
<1>1. /\ socket' = [socket EXCEPT ![h] = Tail(socket[h])]
      /\ socket[h] # <<>> /\ waiting' = waiting \ {h} /\ UNCHANGED <<wire, given>>
  BY DEF Receive, histVars
<1>2. DOMAIN socket = Hosts /\ IsQueue(socket[h])
  BY DEF FreshInv, HostTables
<1>3. /\ ToSet(Tail(socket[h])) \subseteq ToSet(socket[h])
      /\ socket[h][1] \in ToSet(socket[h])
  BY <1>1, <1>2, Taken
<1>4. h \in Proxies => given[h] # {}
  BY <1>3 DEF TrafficInv
<1>5. \A g : Known(g) => Known(g)'
  BY <1>1, <1>4 DEF Known
<1>6. \A p \in Proxies : ToSet(socket'[p]) \subseteq ToSet(socket[p])
  BY <1>1, <1>2, <1>3 DEF Hosts
<1>7. \A e \in BagToSet(wire') : \/ Asking(e) /\ Known(e.from)'
                                 \/ e.to \in Hosts /\ (e.to \in Proxies => Fits(e))
  BY <1>1, <1>5 DEF TrafficInv
<1> QED BY <1>1, <1>6, <1>7 DEF TrafficInv, Asking, Fits, Known


(* The name server replies to a query. *)
LEMMA TrafficReply ==
    ASSUME TrafficInv, HostTables, NEW q \in BagToSet(wire), q.to = "ns", NEW d,
           d.to = q.from, q.ours => Fits(d), Reply(q, d), UNCHANGED <<waiting, socket>>,
           \A h \in Hosts : given[h] \subseteq given'[h]
    PROVE  TrafficInv'
<1>1. BagToSet(wire') \subseteq BagToSet(wire) \cup {d}
  BY ReplyChanges
<1>2. Asking(q)
  BY DnsAssumption DEF TrafficInv, Hosts
<1>3. d.to \in Hosts /\ (d.to \in Proxies => Fits(d))
  BY <1>2 DEF Asking
<1>4. \A h : Known(h) => Known(h)'
  BY DEF Known, Hosts
<1>5. \A e \in BagToSet(wire') : \/ Asking(e) /\ Known(e.from)'
                                 \/ e.to \in Hosts /\ (e.to \in Proxies => Fits(e))
  BY <1>1, <1>3, <1>4 DEF TrafficInv
<1>6. \A p \in Proxies : given[p] # {} => given'[p] # {}
  BY DEF Hosts
<1> QED BY <1>5, <1>6 DEF TrafficInv, Asking, Fits, Known

LEMMA TrafficServe ==
    ASSUME TrafficInv, FreshInv, NEW q \in BagToSet(wire), Serve(q)
    PROVE  TrafficInv'
<1>1. q.to = "ns" /\ UNCHANGED <<waiting, socket>> /\ HostTables
  BY DEF Serve, hostVars, FreshInv
<1>2. q.from \in Hosts
  BY <1>1, DnsAssumption DEF TrafficInv, Asking, Hosts
<1>3. CASE RefuseQuery(q)
  <2>1. PICK d : d = ErrorFor(q)
    OBVIOUS
  <2>2. d.to = q.from /\ ~q.ours /\ Reply(q, d) /\ UNCHANGED given
    BY <1>3, <2>1 DEF RefuseQuery, ErrorFor, histVars
  <2> QED BY <1>1, <2>2, TrafficReply
<1>4. ASSUME NEW addr, Named(q, addr) PROVE TrafficInv'
  <2>1. PICK d : d = Answer(q, addr)
    OBVIOUS
  <2>2. d.to = q.from /\ Reply(q, d) /\ (q.ours => Fits(d))
    BY <1>4, <2>1 DEF Named, Answer, Fits
  <2>3. given' = [given EXCEPT ![q.from] = given[q.from] \cup {[id |-> q.id, addr |-> addr]}]
    BY <1>4 DEF Named
  <2>4. \A h \in Hosts : given[h] \subseteq given'[h]
    BY <1>1, <1>2, <2>3 DEF HostTables
  <2> QED BY <1>1, <2>2, <2>4, TrafficReply
<1>5. CASE RouteUnknown(q)
  BY <1>1, <1>5, WireChanges, TrafficQuiet DEF RouteUnknown, histVars
<1> QED BY <1>3, <1>4, <1>5 DEF Serve, RouteByRotation, RouteByTable

LEMMA TrafficNetwork ==
    ASSUME TrafficInv, FreshInv, NEW d \in BagToSet(wire), Deliver(d) \/ Lose(d) \/ Duplicate(d)
    PROVE  TrafficInv'
<1>1. CASE Deliver(d)
  <2>1. /\ d.to # "ns" /\ socket' = [socket EXCEPT ![d.to] = Append(socket[d.to], d)]
        /\ BagToSet(wire') \subseteq BagToSet(wire) /\ UNCHANGED <<waiting, given>>
    BY <1>1, WireChanges DEF Deliver, hostVars, histVars
  <2>2. d.to \in Hosts /\ (d.to \in Proxies => Fits(d))
    BY <2>1 DEF TrafficInv, Asking
  <2>3. DOMAIN socket = Hosts /\ IsQueue(socket[d.to]) /\ Vouched(d, d.to)
    BY <2>1, <2>2 DEF FreshInv, HostTables, WireVouched
  <2>4. d.to \in Proxies => given[d.to] # {}
    BY <2>2, <2>3 DEF Fits, Vouched
  <2>5. ToSet(Append(socket[d.to], d)) \subseteq ToSet(socket[d.to]) \cup {d}
    BY <2>3, Appended
  <2>6. \A p \in Proxies : \A e \in ToSet(socket'[p]) : Fits(e) /\ given[p] # {}
    <3> SUFFICES ASSUME NEW p \in Proxies, NEW e \in ToSet(socket'[p])
                 PROVE  Fits(e) /\ given[p] # {}
      OBVIOUS
    <3>1. CASE p = d.to
      BY <2>1, <2>2, <2>3, <2>4, <2>5, <3>1 DEF TrafficInv
    <3>2. CASE p # d.to
      BY <2>1, <2>3, <3>2 DEF TrafficInv, Hosts
    <3> QED BY <3>1, <3>2
  <2> QED BY <2>1, <2>6 DEF TrafficInv, Asking, Known, Fits
<1>2. CASE Lose(d)
  BY <1>2, WireChanges, TrafficQuiet DEF Lose, hostVars, histVars
<1>3. CASE Duplicate(d)
  BY <1>3, WireChanges, TrafficQuiet DEF Duplicate, hostVars, histVars
<1> QED BY <1>1, <1>2, <1>3

LEMMA TrafficKept == TrafficInv /\ FreshInv /\ [Next]_vars => TrafficInv'
<1> SUFFICES ASSUME TrafficInv, FreshInv, [Next]_vars PROVE TrafficInv'
  OBVIOUS
<1>1. CASE UNCHANGED dnsVars
  BY <1>1, TrafficQuiet DEF dnsVars, hostVars, histVars
<1>2. CASE SkipTable \/ (\E l \in Announcements : Announce(l)) \/ BuildTable
  BY <1>2, <1>1 DEF SkipTable, Announce, BuildTable
<1>3. CASE NoServer
  BY <1>3, TrafficQuiet DEF NoServer, hostVars, histVars
<1>4. CASE Answering \/ Failing
  BY <1>4, TrafficServe, TrafficQuiet
     DEF Answering, ServerStep, Failing, SelectFails, Spins, RecvFails, Stops, hostVars, histVars
<1>5. CASE Outside
  <2>1. CASE HostStep
    BY <2>1, TrafficAsk, TrafficReceive DEF HostStep
  <2>2. CASE NetworkStep
    BY <2>2, TrafficNetwork DEF NetworkStep, Delivery
  <2>3. CASE Tick
    BY <2>3, TrafficQuiet DEF Tick, hostVars, histVars
  <2> QED BY <1>5, <2>1, <2>2, <2>3 DEF Outside
<1>6. CASE UNCHANGED vars
  BY <1>6, <1>1 DEF vars
<1> QED BY <1>2, <1>3, <1>4, <1>5, <1>6 DEF Next


-----------------------------------------------------------------------------
(* A query too short to tell whether it matches is a known stranger's.     *)
CutInv ==
    /\ cut \subseteq Hosts
    /\ \A d \in BagToSet(wire) : d.to = "ns" /\ d.short => d.from \in cut

LEMMA CutInit == Init => CutInv
BY DEF Init, DnsInit, CutInv, EmptyBag, SetToBag, BagToSet

LEMMA CutServe ==
    ASSUME CutInv, FreshInv, NEW q \in BagToSet(wire), Serve(q)
    PROVE  CutInv'
<1>1. q.to = "ns" /\ UNCHANGED cut
  BY DEF Serve, netVars
<1>2. q.from # "ns"
  BY <1>1, DnsAssumption DEF FreshInv, WireVouched, Hosts
<1>3. ASSUME NEW d, Reply(q, d), d.to = q.from PROVE CutInv'
  <2>1. BagToSet(wire') \subseteq BagToSet(wire) \cup {d}
    BY <1>3, ReplyChanges
  <2>2. \A e \in {d} : e.to # "ns"
    BY <1>2, <1>3
  <2> QED BY <1>1, <2>1, <2>2 DEF CutInv
<1>4. CASE RefuseQuery(q)
  BY <1>3, <1>4 DEF RefuseQuery, ErrorFor
<1>5. ASSUME NEW addr, Named(q, addr) PROVE CutInv'
  BY <1>3, <1>5 DEF Named, Answer
<1>6. CASE wire' = Without(q)
  <2>1. BagToSet(wire') \subseteq BagToSet(wire)
    BY <1>6, WireChanges
  <2> QED BY <1>1, <2>1 DEF CutInv
<1> QED BY <1>4, <1>5, <1>6 DEF Serve, RouteByRotation, RouteByTable, RouteUnknown

LEMMA CutKept == CutInv /\ FreshInv /\ [Next]_vars => CutInv' /\ cut \subseteq cut'
<1> SUFFICES ASSUME CutInv, FreshInv, [Next]_vars PROVE CutInv' /\ cut \subseteq cut'
  OBVIOUS
<1>1. ASSUME BagToSet(wire') \subseteq BagToSet(wire), UNCHANGED cut
      PROVE  CutInv' /\ cut \subseteq cut'
  BY <1>1 DEF CutInv
<1>2. CASE SkipTable \/ (\E l \in Announcements : Announce(l)) \/ BuildTable \/ NoServer
           \/ Failing \/ UNCHANGED vars
  BY <1>1, <1>2 DEF SkipTable, Announce, BuildTable, NoServer, Failing, SelectFails, Spins,
              RecvFails, Stops, vars, dnsVars, netVars
<1>3. CASE Answering
  BY <1>3, CutServe DEF Answering, ServerStep, Serve, netVars
<1>4. ASSUME NEW h \in Hosts, Ask(h) PROVE CutInv' /\ cut \subseteq cut'
  <2>1. ASSUME NEW short \in BOOLEAN, wire' = With(Query(h, short)),
               cut \subseteq cut', cut' \subseteq Hosts, short => h \in cut'
        PROVE  CutInv'
    <3>1. PICK d : d = Query(h, short)
      OBVIOUS
    <3>2. d.from = h /\ (d.short => h \in cut')
      BY <2>1, <3>1 DEF Query
    <3>3. BagToSet(wire') = BagToSet(wire) \cup {d}
      BY <2>1, <3>1, WireChanges
    <3> QED BY <2>1, <3>2, <3>3 DEF CutInv
  <2> QED BY <1>4, <2>1 DEF Ask, CutInv
<1>5. ASSUME NEW h \in Hosts, Receive(h) PROVE CutInv' /\ cut \subseteq cut'
  BY <1>1, <1>5 DEF Receive, netVars
<1>6. ASSUME NEW d \in BagToSet(wire), Deliver(d) \/ Lose(d) \/ Duplicate(d)
      PROVE  CutInv' /\ cut \subseteq cut'
  BY <1>1, <1>6, WireChanges DEF Deliver, Lose, Duplicate, netVars
<1>7. CASE Outside
  BY <1>1, <1>4, <1>5, <1>6, <1>7 DEF Outside, HostStep, NetworkStep, Delivery, Tick, netVars
<1> QED BY <1>2, <1>3, <1>7 DEF Next

(* How the name server crashes, and which hosts stop waiting. *)
LEMMA FateChange ==
    ASSUME [Next]_vars
    PROVE  \/ UNCHANGED fate \/ fate' # "crashed"
           \/ ~rr_flag /\ pc' = "assert"
           \/ \E q \in BagToSet(wire) :
                 /\ ~rr_flag /\ pc = "serving" /\ UNCHANGED <<ospfVars, waiting, cut>>
                 /\ q.to = "ns" /\ Matches(q) /\ Entry(q.from) = 0
<1>1. CASE Answering
  <2>1. PICK q \in BagToSet(wire) : Serve(q)
    BY <1>1 DEF Answering, ServerStep
  <2>2. pc = "serving" /\ UNCHANGED ospfVars /\ q.to = "ns" /\ UNCHANGED <<waiting, cut>>
    BY <1>1, <2>1 DEF Answering, Serve, hostVars, netVars
  <2> QED BY <2>1, <2>2 DEF Serve, RefuseQuery, RouteByRotation, RouteByTable, RouteUnknown
<1>2. CASE Outside
  BY <1>2 DEF Outside, HostStep, NetworkStep, Delivery, Ask, Receive, Deliver, Lose,
              Duplicate, Tick
<1>3. CASE NoServer
  BY <1>3 DEF NoServer, O!NoServer
<1>4. CASE Failing
  BY <1>4 DEF Failing, SelectFails, Spins, RecvFails, Stops
<1>5. CASE SkipTable \/ (\E l \in Announcements : Announce(l)) \/ BuildTable \/ UNCHANGED vars
  BY <1>5 DEF SkipTable, Announce, BuildTable, vars, dnsVars
<1> QED BY <1>1, <1>2, <1>3, <1>4, <1>5 DEF Next

LEMMA WaitingChange ==
    ASSUME [Next]_vars
    PROVE  \/ waiting \subseteq waiting'
           \/ \E h \in Hosts : socket[h] # <<>> /\ waiting' = waiting \ {h}
<1>1. CASE Answering
  BY <1>1 DEF Answering, ServerStep, Serve, hostVars
<1>2. CASE Outside
  BY <1>2 DEF Outside, HostStep, NetworkStep, Delivery, Ask, Receive, Deliver, Lose,
              Duplicate, Tick, hostVars
<1>3. CASE SkipTable \/ (\E l \in Announcements : Announce(l)) \/ BuildTable \/ NoServer
           \/ Failing \/ UNCHANGED vars
  BY <1>3 DEF SkipTable, Announce, BuildTable, NoServer, Failing, SelectFails, Spins,
              RecvFails, Stops, vars, dnsVars, hostVars
<1> QED BY <1>1, <1>2, <1>3 DEF Next

(* A name server that crashed aborted in a search, or read the entry of a  *)
(* host that has none: a proxy that waits and was never answered, so that  *)
(* nothing is under way that would end its wait, or one that sent too      *)
(* short a query.                                                          *)
Unentered(p) == \A s : ~Entered(p, s)

DownInv ==
    fate = "crashed" =>
      ~rr_flag /\ \/ pc = "assert"
                  \/ pc = "serving" /\ \E p \in (waiting \cap Proxies) \cup cut : Unentered(p)

LEMMA DownKept ==
    ASSUME MapInv, FreshInv, GivenInv, TrafficInv, CutInv, DownInv, [Next]_vars
    PROVE  DownInv'
<1> SUFFICES ASSUME fate' = "crashed"
             PROVE  ~rr_flag /\ \/ pc' = "assert"
                                \/ /\ pc' = "serving"
                                   /\ \E p \in (waiting' \cap Proxies) \cup cut' : Unentered(p)'
  BY ModeKept DEF DownInv
<1>1. IsQueue(routing_table)
  <2>1. ~rr_flag => OP!IsQueue(routing_table)
    BY DEF MapInv, OP!SpfInv, OP!TableInv
  <2>2. rr_flag => OP!IsQueue(routing_table)
    BY DEF MapInv, OP!TypeOK, OP!IsQueue
  <2> QED BY <2>1, <2>2 DEF OP!IsQueue, IsQueue
<1>2. ASSUME NEW p \in Proxies, Unentered(p), ~rr_flag PROVE given[p] = {} /\ socket[p] = <<>>
  <2>1. p \in Hosts
    BY DEF Hosts
  <2>2. given[p] = {}
    BY <1>2, <2>1 DEF GivenInv, Unentered
  <2>3. IsQueue(socket[p]) /\ ToSet(socket[p]) = {}
    BY <2>1, <2>2 DEF TrafficInv, FreshInv, HostTables
  <2>4. socket[p] = <<>>
    BY <2>3, Taken
  <2> QED BY <2>2, <2>4
<1>3. CASE fate = "crashed"
  <2>1. ~rr_flag /\ pc \in {"assert", "serving"} /\ UNCHANGED ospfVars
    BY <1>3, MapSettled DEF DownInv
  <2>2. UNCHANGED <<pc, routing_table>>
    BY <2>1 DEF ospfVars
  <2>3. CASE pc = "serving"
    <3>1. PICK p \in (waiting \cap Proxies) \cup cut : Unentered(p)
      BY <1>3, <2>3 DEF DownInv
    <3>2. Unentered(p)'
      BY <2>2, <3>1 DEF Unentered, Entered
    <3>3. CASE p \in cut
      BY <2>1, <2>2, <2>3, <3>2, <3>3, CutKept
    <3>4. CASE p \in waiting \cap Proxies
      <4>1. p \in waiting'
        BY <1>2, <2>1, <3>1, <3>4, WaitingChange
      <4> QED BY <2>1, <2>2, <2>3, <3>2, <3>4, <4>1
    <3> QED BY <3>3, <3>4
  <2> QED BY <2>1, <2>2, <2>3
<1>4. CASE fate # "crashed"
  <2>1. CASE ~rr_flag /\ pc' = "assert"
    BY <2>1
  <2>2. CASE \E q \in BagToSet(wire) :
                /\ ~rr_flag /\ pc = "serving" /\ UNCHANGED <<ospfVars, waiting, cut>>
                /\ q.to = "ns" /\ Matches(q) /\ Entry(q.from) = 0
    <3>1. PICK q \in BagToSet(wire) :
            /\ ~rr_flag /\ pc = "serving" /\ UNCHANGED <<ospfVars, waiting, cut>>
            /\ q.to = "ns" /\ Matches(q) /\ Entry(q.from) = 0
      BY <2>2
    <3>2. Asking(q) /\ Known(q.from)
      BY <3>1, DnsAssumption DEF TrafficInv, Hosts
    <3>3. Unentered(q.from)
      BY <1>1, <3>1, EntryIs DEF Unentered
    <3>4. Unentered(q.from)' /\ waiting' = waiting /\ cut' = cut /\ pc' = "serving"
      BY <3>1, <3>3 DEF Unentered, Entered, ospfVars
    <3>5. CASE q.ours
      <4>1. q.from \in Proxies
        BY <3>2, <3>5 DEF Asking
      <4>2. q.from \in waiting
        BY <1>2, <3>1, <3>2, <3>3, <4>1 DEF Known
      <4> QED BY <3>1, <3>4, <4>1, <4>2
    <3>6. CASE q.short
      <4>1. q.from \in cut
        BY <3>1, <3>6 DEF CutInv
      <4> QED BY <3>1, <3>4, <4>1
    <3> QED BY <3>1, <3>5, <3>6 DEF Matches
  <2> QED BY <1>4, <2>1, <2>2, FateChange
<1> QED BY <1>3, <1>4

(* Who has no entry in the table once it is finished. *)
LEMMA NoEntry ==
    ASSUME MapInv, ~rr_flag, pc = "serving", NEW p \in Addresses, Unentered(p)
    PROVE  Said(p) = {} \/ p \in Routers \cup ToSet(ServerNames)
<1>1. OP!TableInv /\ servs = ServerNames
  BY DEF MapInv, OP!SpfInv
<1>2. OP!Cardinality(OP!Entries(p)) =
          IF p \in {l.name : l \in heard} \ (Routers \cup OP!ToSet(servs)) THEN 1 ELSE 0
  BY <1>1, MapAssumed, OP!TableRead
<1>3. OP!Entries(p) = {}
  BY DEF OP!Entries, Unentered, Entered
<1>4. OP!Cardinality(OP!Entries(p)) = 0
  <2>1. OP!Cardinality({}) = Cardinality({}) /\ Cardinality({}) = 0
    BY FS_EmptySet DEF Cardinality, OP!Cardinality
  <2> QED BY <1>3, <2>1
<1>5. OP!ToSet(servs) = ToSet(ServerNames)
  BY <1>1 DEF OP!ToSet, ToSet
<1> QED BY <1>2, <1>4, <1>5 DEF Said

(* Over which client the search aborted. *)
LEMMA Aborted ==
    ASSUME MapInv, ~rr_flag, pc = "assert"
    PROVE  \E l \in heard : Hops(l.name)[Far] \cap ToSet(ServerNames) = {}
<1>1. /\ OP!TableInv /\ OP!TypeOK /\ OP!LinesInv /\ OP!AssertOnlyWhenCutOff
      /\ servs = ServerNames
  BY DEF MapInv, OP!SpfInv
<1>2. OP!ListTypes /\ clits \in Seq(Addresses)
  BY <1>1, MapAssumed, OP!Lists DEF OP!TypeOK
<1>3. PICK c : c = clits[searched]
  OBVIOUS
<1>4. c \in Addresses /\ \E l \in heard : l.name = c
  <2>1. searched = Len(routing_table) + 1 /\ searched <= Len(clits) /\ searched \in Nat
    BY <1>1 DEF OP!TableInv
  <2>2. Len(routing_table) \in Nat
    BY <1>1, MapAssumed, OP!QueueShape DEF OP!TableInv
  <2>3. searched \in 1..Len(clits) /\ DOMAIN clits = 1..Len(clits)
    BY <1>2, <2>1, <2>2
  <2>4. c \in OP!ToSet(clits) /\ c \in Addresses
    BY <1>2, <1>3, <2>3 DEF OP!ToSet
  <2> QED BY <1>1, <2>4 DEF OP!TableInv, OP!Expected
<1>5. OP!Cardinality(Addresses) = Far /\ OP!ToSet(servs) = ToSet(ServerNames)
  BY <1>1 DEF Far, Cardinality, OP!Cardinality, OP!ToSet, ToSet
<1>6. Far \in Nat
  BY NameServerAssumption, FS_CardinalityType DEF Far
<1>7. ToSet(ServerNames) \cap OP!Within(c)[Far] = {}
  BY <1>1, <1>3, <1>5 DEF OP!AssertOnlyWhenCutOff
<1>8. Hops(c)[Far] = OP!Within(c)[Far]
  BY <1>1, <1>2, <1>4, <1>6, HopsAre
<1> QED BY <1>4, <1>7, <1>8

(***************************************************************************)
(* The name server never crashes over a client that announced itself and   *)
(* has a way to a server, whatever queries come, late, copied, refused or  *)
(* too short: for any network.  That it exits on an error of select or of  *)
(* recvfrom, or goes on without serving, are steps of the specification    *)
(* too, and none of them is a crash.                                       *)
(***************************************************************************)
THEOREM DownJustified == Spec => []CrashesOnlyUnrouted
<1> DEFINE I == MapInv /\ FreshInv /\ GivenInv /\ TrafficInv /\ CutInv /\ DownInv
<1>1. Init => I
  <2>1. Init => DownInv
    BY DEF Init, DnsInit, DownInv
  <2> QED BY <2>1, MapInit, FreshInit, GivenInit, TrafficInit, CutInit
<1>2. I /\ [Next]_vars => I'
  BY MapKept, FreshStep, GivenKept, TrafficKept, CutKept, DownKept
<1>3. I => CrashesOnlyUnrouted
  <2> SUFFICES ASSUME MapInv, DownInv, fate = "crashed"
               PROVE  /\ ~rr_flag
                      /\ \/ \E l \in heard : Hops(l.name)[Far] \cap ToSet(ServerNames) = {}
                         \/ \E p \in (waiting \cap Proxies) \cup cut :
                               Said(p) = {} \/ p \in Routers \cup ToSet(ServerNames)
    BY DEF CrashesOnlyUnrouted
  <2>1. ~rr_flag
    BY DEF DownInv
  <2>2. CASE pc = "assert"
    BY <2>1, <2>2, Aborted
  <2>3. CASE pc = "serving" /\ \E p \in (waiting \cap Proxies) \cup cut : Unentered(p)
    <3>1. PICK p \in (waiting \cap Proxies) \cup cut : Unentered(p)
      BY <2>3
    <3>2. CASE p \in Addresses
      BY <2>1, <2>3, <3>1, <3>2, NoEntry
    <3>3. CASE p \notin Addresses
      <4>1. Said(p) = {}
        BY <2>1, <3>3, NameServerAssumption DEF Said, MapInv, OP!LinesInv
      <4> QED BY <2>1, <3>1, <4>1
    <3> QED BY <3>2, <3>3
  <2> QED BY <2>1, <2>2, <2>3 DEF DownInv
<1> HIDE DEF I
<1> QED BY <1>1, <1>2, <1>3, PTL DEF Spec


-----------------------------------------------------------------------------
(* One copy put in or taken out changes the count of that datagram alone.  *)
LEMMA BagPut ==
    ASSUME NEW b, IsABag(b), NEW d
    PROVE  LET w == b (+) SetToBag({d})
           IN /\ IsABag(w) /\ BagToSet(w) = BagToSet(b) \cup {d}
              /\ d \notin BagToSet(b) => w[d] = 1
              /\ \A x \in BagToSet(b) : x = d \/ w[x] = b[x]
<1> DEFINE w == b (+) SetToBag({d})
<1>1. DOMAIN w = DOMAIN b \cup {d}
  BY DEF SetToBag, (+)
<1>2. \A x \in DOMAIN b : b[x] \in Nat /\ b[x] > 0
  BY DEF IsABag
<1>3. \A x \in DOMAIN b : x = d \/ w[x] = b[x]
  BY <1>2 DEF SetToBag, (+)
<1>4. w[d] = (IF d \in DOMAIN b THEN b[d] ELSE 0) + 1
  BY DEF SetToBag, (+)
<1>5. w = [x \in DOMAIN w |-> w[x]]
  BY DEF (+)
<1> HIDE DEF w
<1>6. w[d] \in Nat /\ w[d] > 0 /\ (d \notin DOMAIN b => w[d] = 1)
  BY <1>2, <1>4
<1>7. \A x \in DOMAIN w : w[x] \in {n \in Nat : n > 0}
  BY <1>1, <1>2, <1>3, <1>6
<1>8. IsABag(w)
  BY <1>5, <1>7 DEF IsABag
<1> QED BY <1>1, <1>3, <1>6, <1>8 DEF BagToSet, w

LEMMA BagTake ==
    ASSUME NEW b, IsABag(b), NEW d \in BagToSet(b)
    PROVE  LET w == b (-) SetToBag({d})
           IN /\ IsABag(w)
              /\ \A x : x # d => (x \in BagToSet(w) <=> x \in BagToSet(b))
              /\ b[d] = 1 => d \notin BagToSet(w)
              /\ \A x \in BagToSet(w) : x = d \/ w[x] = b[x]
<1> DEFINE w == b (-) SetToBag({d})
           c == [x \in DOMAIN b |-> IF x = d THEN b[x] - 1 ELSE b[x]]
<1>1. w = [x \in {y \in DOMAIN c : c[y] > 0} |-> c[x]]
  BY DEF SetToBag, (-)
<1>2. \A x \in DOMAIN b : b[x] \in Nat /\ b[x] > 0
  BY DEF IsABag
<1>3. /\ DOMAIN c = DOMAIN b /\ \A x \in DOMAIN b : x = d \/ c[x] = b[x]
      /\ c[d] = b[d] - 1 /\ d \in DOMAIN b
  BY DEF BagToSet
<1> HIDE DEF c, w
<1>4. DOMAIN w = {y \in DOMAIN b : c[y] > 0} /\ \A x \in DOMAIN w : w[x] = c[x]
  BY <1>1, <1>3
<1>5. \A x \in DOMAIN b : c[x] \in Nat
  BY <1>2, <1>3
<1>6. \A x \in DOMAIN w : w[x] \in {n \in Nat : n > 0}
  BY <1>4, <1>5
<1>7. w = [x \in DOMAIN w |-> w[x]]
  BY <1>1
<1>8. IsABag(w)
  BY <1>6, <1>7 DEF IsABag
<1>9. b[d] = 1 => d \notin DOMAIN w
  BY <1>3, <1>4
<1>10. \A x : x # d => (x \in DOMAIN w <=> x \in DOMAIN b)
  BY <1>2, <1>3, <1>4
<1>11. \A x \in DOMAIN w : x = d \/ w[x] = b[x]
  BY <1>3, <1>4
<1> QED BY <1>8, <1>9, <1>10, <1>11 DEF BagToSet, w

(* At most one datagram exists for a proxy the network copied none for: it *)
(* is under way or has arrived, and carries the id the proxy asks with.    *)
Mine(p) == {d \in BagToSet(wire) : Host(d) = p}

OneFlight(p) ==
    /\ rc[p] = 0
    /\ p \notin waiting => Mine(p) = {} /\ socket[p] = <<>>
    /\ \/ socket[p] = <<>> /\ \A d, e \in Mine(p) : d = e /\ wire[d] = 1
       \/ Mine(p) = {} /\ Len(socket[p]) = 1
    /\ \A d \in Mine(p) \cup ToSet(socket[p]) : d.id = id[p]

CountInv == IsABag(wire) /\ \A p \in Proxies \ copied : OneFlight(p)

(* The wire keeps what it has for every host but h. *)
OnlyFor(h) ==
    \A x : Host(x) # h => /\ x \in BagToSet(wire') <=> x \in BagToSet(wire)
                          /\ x \in BagToSet(wire') => wire'[x] = wire[x]

LEMMA WireFor ==
    ASSUME IsABag(wire), NEW d
    PROVE  /\ wire' = With(d) => IsABag(wire') /\ OnlyFor(Host(d))
           /\ d \in BagToSet(wire) /\ wire' = Without(d) => IsABag(wire') /\ OnlyFor(Host(d))
           /\ \A q \in BagToSet(wire) :
                 Host(q) = Host(d) /\ Reply(q, d) => IsABag(wire') /\ OnlyFor(Host(d))
<1>1. ASSUME wire' = With(d) PROVE IsABag(wire') /\ OnlyFor(Host(d))
  <2>1. wire' = wire (+) SetToBag({d})
    BY <1>1 DEF With
  <2>2. /\ IsABag(wire') /\ BagToSet(wire') = BagToSet(wire) \cup {d}
        /\ \A x \in BagToSet(wire) : x = d \/ wire'[x] = wire[x]
    BY <2>1, BagPut
  <2> QED BY <2>2 DEF OnlyFor
<1>2. ASSUME d \in BagToSet(wire), wire' = Without(d) PROVE IsABag(wire') /\ OnlyFor(Host(d))
  BY <1>2, BagTake DEF Without, OnlyFor
<1>3. ASSUME NEW q \in BagToSet(wire), Host(q) = Host(d), Reply(q, d)
      PROVE  IsABag(wire') /\ OnlyFor(Host(d))
  <2>1. PICK b : b = Without(q)
    OBVIOUS
  <2>2. /\ IsABag(b) /\ \A x : x # q => (x \in BagToSet(b) <=> x \in BagToSet(wire))
        /\ \A x \in BagToSet(b) : x = q \/ b[x] = wire[x]
    BY <2>1, BagTake DEF Without
  <2>3. wire' = b (+) SetToBag({d})
    BY <1>3, <2>1 DEF Reply
  <2>4. /\ IsABag(wire') /\ BagToSet(wire') = BagToSet(b) \cup {d}
        /\ \A x \in BagToSet(b) : x = d \/ wire'[x] = b[x]
    BY <2>2, <2>3, BagPut
  <2> QED BY <1>3, <2>2, <2>4 DEF OnlyFor
<1> QED BY <1>1, <1>2, <1>3

LEMMA FlightOther ==
    ASSUME NEW h, OnlyFor(h), NEW p \in Proxies, p # h, OneFlight(p),
           rc'[p] = rc[p], id'[p] = id[p], socket'[p] = socket[p],
           p \in waiting' <=> p \in waiting
    PROVE  OneFlight(p)'
<1>1. \A d : Host(d) = p => /\ d \in BagToSet(wire') <=> d \in BagToSet(wire)
                            /\ d \in BagToSet(wire') => wire'[d] = wire[d]
  BY DEF OnlyFor
<1>2. Mine(p)' = Mine(p) /\ \A d \in Mine(p) : wire'[d] = wire[d]
  BY <1>1 DEF Mine, Host
<1> QED BY <1>2 DEF OneFlight


(* The steps that touch no datagram. *)
LEMMA CountQuiet ==
    ASSUME CountInv, UNCHANGED <<wire, waiting, id, rc, socket, copied>>
    PROVE  CountInv'
BY DEF CountInv, OneFlight, Mine, Host

LEMMA CountAsk ==
    ASSUME CountInv, FreshInv, NEW h \in Hosts, Ask(h)
    PROVE  CountInv'
<1>1. PICK d : wire' = With(d) /\ \E short \in BOOLEAN : d = Query(h, short)
  BY DEF Ask
<1>2. d.to = "ns" /\ d.from = h /\ d.id = clock /\ Host(d) = h
  BY <1>1 DEF Query, Host
<1>3. /\ h \notin waiting /\ wire' = With(d) /\ id' = [id EXCEPT ![h] = clock]
      /\ waiting' = waiting \cup {h} /\ UNCHANGED <<rc, socket, copied>>
  BY <1>1 DEF Ask, netVars
<1>4. IsABag(wire') /\ OnlyFor(h) /\ DOMAIN id = Hosts
  BY <1>2, <1>3, WireFor DEF CountInv, FreshInv, HostTables
<1> SUFFICES ASSUME NEW p \in Proxies \ copied PROVE OneFlight(p)'
  BY <1>3, <1>4 DEF CountInv
<1>5. OneFlight(p)
  BY DEF CountInv
<1>6. CASE p = h
  <2>1. Mine(h) = {} /\ socket[h] = <<>> /\ rc[h] = 0
    BY <1>3, <1>5, <1>6 DEF OneFlight
  <2>2. d \notin BagToSet(wire)
    BY <1>2, <2>1 DEF Mine
  <2>3. BagToSet(wire') = BagToSet(wire) \cup {d} /\ wire'[d] = 1
    BY <1>3, <2>2, BagPut DEF With, CountInv
  <2>4. Mine(h)' = {d}
    BY <1>2, <2>1, <2>3 DEF Mine, Host
  <2>5. id'[h] = d.id
    BY <1>2, <1>3, <1>4
  <2>6. ToSet(socket'[h]) = {} /\ socket'[h] = <<>> /\ h \in waiting'
    BY <1>3, <2>1, ShortQueues
  <2> QED BY <1>3, <1>6, <2>1, <2>3, <2>4, <2>5, <2>6 DEF OneFlight
<1>7. CASE p # h
  BY <1>3, <1>4, <1>5, <1>7, FlightOther
<1> QED BY <1>6, <1>7

LEMMA CountReceive ==
    ASSUME CountInv, FreshInv, TrafficInv, NEW h \in Hosts, Receive(h)
    PROVE  CountInv'
<1>1. PICK d : d = Head(socket[h])
  OBVIOUS
<1>2. /\ h \in waiting /\ socket[h] # <<>>
      /\ rc' = [rc EXCEPT ![h] = IF Repeats(d, h) THEN 0 ELSE -1]
      /\ socket' = [socket EXCEPT ![h] = Tail(socket[h])]
      /\ waiting' = waiting \ {h} /\ UNCHANGED <<id, wire, copied>>
  BY <1>1 DEF Receive, netVars
<1>3. DOMAIN rc = Hosts /\ DOMAIN socket = Hosts /\ IsQueue(socket[h]) /\ IsABag(wire')
  BY <1>2 DEF FreshInv, HostTables, CountInv
<1>4. OnlyFor(h)
  BY <1>2 DEF OnlyFor
<1> SUFFICES ASSUME NEW p \in Proxies \ copied PROVE OneFlight(p)'
  BY <1>2, <1>3 DEF CountInv
<1>5. OneFlight(p)
  BY DEF CountInv
<1>6. CASE p = h
  <2>1. Mine(h) = {} /\ Len(socket[h]) = 1
    BY <1>2, <1>5, <1>6 DEF OneFlight
  <2>2. d \in ToSet(socket[h])
    BY <1>1, <1>2, <1>3, Taken
  <2>3. d.id = id[h] /\ Fits(d)
    BY <1>5, <1>6, <2>2 DEF OneFlight, TrafficInv
  <2>4. rc'[h] = 0
    BY <1>2, <1>3, <2>3 DEF Repeats, Fits
  <2>5. socket'[h] = <<>>
    <3>1. PICK S : socket[h] \in Seq(S)
      BY <1>3 DEF IsQueue
    <3>2. PICK s : s = socket[h]
      OBVIOUS
    <3>3. PICK r : r = Tail(s)
      OBVIOUS
    <3>4. s \in Seq(S) /\ s # <<>>
      BY <1>2, <3>1, <3>2
    <3>5. r \in Seq(S) /\ Len(r) = Len(s) - 1
      BY <3>3, <3>4
    <3>6. Len(r) = 0
      BY <2>1, <3>2, <3>5
    <3>7. r = <<>>
      BY <3>5, <3>6
    <3> QED BY <1>2, <1>3, <3>2, <3>3, <3>7
  <2>6. Mine(h)' = {} /\ ToSet(socket'[h]) = {}
    BY <1>2, <2>1, <2>5, ShortQueues DEF Mine, Host
  <2> QED BY <1>6, <2>4, <2>5, <2>6 DEF OneFlight
<1>7. CASE p # h
  BY <1>2, <1>3, <1>4, <1>5, <1>7, FlightOther
<1> QED BY <1>6, <1>7

(* The one datagram of a proxy is taken off the wire. *)
LEMMA TheOne ==
    ASSUME CountInv, NEW p \in Proxies \ copied, NEW d \in BagToSet(wire), Host(d) = p
    PROVE  /\ Mine(p) = {d} /\ wire[d] = 1 /\ d.id = id[p] /\ p \in waiting
           /\ socket[p] = <<>> /\ rc[p] = 0
           /\ \A x \in BagToSet(Without(d)) : Host(x) # p
<1>1. OneFlight(p) /\ d \in Mine(p)
  BY DEF CountInv, Mine
<1>2. /\ Mine(p) = {d} /\ wire[d] = 1 /\ d.id = id[p] /\ p \in waiting
      /\ socket[p] = <<>> /\ rc[p] = 0
  BY <1>1 DEF OneFlight
<1>3. d \notin BagToSet(Without(d)) /\ BagToSet(Without(d)) \subseteq BagToSet(wire)
  BY <1>2, BagTake, WireChanges DEF CountInv, Without
<1> QED BY <1>2, <1>3 DEF Mine

LEMMA CountServe ==
    ASSUME CountInv, FreshInv, TrafficInv, NEW q \in BagToSet(wire), Serve(q)
    PROVE  CountInv'
<1>1. q.to = "ns" /\ UNCHANGED <<waiting, id, rc, socket, copied>>
  BY DEF Serve, hostVars, netVars
<1>2. q.from \in Hosts /\ Host(q) = q.from
  BY <1>1, DnsAssumption DEF TrafficInv, Asking, Hosts, Host
<1>3. ASSUME NEW d, Reply(q, d), d.to = q.from, d.id = q.id PROVE CountInv'
  <2>1. d.to # "ns" /\ Host(d) = q.from
    BY <1>2, <1>3, DnsAssumption DEF Host, Hosts
  <2>2. IsABag(wire') /\ OnlyFor(q.from)
    BY <1>2, <1>3, <2>1, WireFor DEF CountInv
  <2> SUFFICES ASSUME NEW p \in Proxies \ copied PROVE OneFlight(p)'
    BY <1>1, <2>2 DEF CountInv
  <2>3. CASE p = q.from
    <3>1. /\ q.id = id[p] /\ p \in waiting /\ socket[p] = <<>> /\ rc[p] = 0
          /\ \A x \in BagToSet(Without(q)) : Host(x) # p
      BY <1>2, <2>3, TheOne
    <3>2. d \notin BagToSet(Without(q)) /\ IsABag(Without(q))
      BY <2>1, <2>3, <3>1, BagTake DEF Without, CountInv
    <3>3. BagToSet(wire') = BagToSet(Without(q)) \cup {d} /\ wire'[d] = 1
      BY <1>3, <3>2, BagPut DEF Reply
    <3>4. Mine(p)' = {d}
      BY <2>1, <2>3, <3>1, <3>3 DEF Mine, Host
    <3> QED BY <1>1, <1>3, <3>1, <3>3, <3>4, ShortQueues DEF OneFlight
  <2>4. CASE p # q.from
    BY <1>1, <2>2, <2>4, FlightOther DEF CountInv
  <2> QED BY <2>3, <2>4
<1>4. CASE RefuseQuery(q)
  <2>1. PICK d : d = ErrorFor(q)
    OBVIOUS
  <2>2. Reply(q, d) /\ d.to = q.from /\ d.id = q.id
    BY <1>4, <2>1 DEF RefuseQuery, ErrorFor
  <2> QED BY <1>3, <2>2
<1>5. ASSUME NEW addr, Named(q, addr) PROVE CountInv'
  <2>1. PICK d : d = Answer(q, addr)
    OBVIOUS
  <2>2. Reply(q, d) /\ d.to = q.from /\ d.id = q.id
    BY <1>5, <2>1 DEF Named, Answer
  <2> QED BY <1>3, <2>2
<1>6. CASE wire' = Without(q)
  <2>1. IsABag(wire') /\ OnlyFor(q.from)
    BY <1>2, <1>6, WireFor DEF CountInv
  <2> SUFFICES ASSUME NEW p \in Proxies \ copied PROVE OneFlight(p)'
    BY <1>1, <2>1 DEF CountInv
  <2>2. CASE p = q.from
    <3>1. /\ p \in waiting /\ socket[p] = <<>> /\ rc[p] = 0
          /\ \A x \in BagToSet(Without(q)) : Host(x) # p
      BY <1>2, <2>2, TheOne
    <3>2. Mine(p)' = {}
      BY <1>6, <3>1 DEF Mine, Host
    <3> QED BY <1>1, <3>1, <3>2, ShortQueues DEF OneFlight
  <2>3. CASE p # q.from
    BY <1>1, <2>1, <2>3, FlightOther DEF CountInv
  <2> QED BY <2>2, <2>3
<1> QED BY <1>4, <1>5, <1>6 DEF Serve, RouteByRotation, RouteByTable, RouteUnknown


LEMMA CountNetwork ==
    ASSUME CountInv, FreshInv, TrafficInv, NEW d \in BagToSet(wire),
           Deliver(d) \/ Lose(d) \/ Duplicate(d)
    PROVE  CountInv'
<1>1. UNCHANGED <<waiting, id, rc>> /\ IsABag(wire')
      /\ (wire' = Without(d) \/ wire' = With(d)) /\ OnlyFor(Host(d))
  BY WireFor DEF Deliver, Lose, Duplicate, hostVars, CountInv
<1>2. PICK h : h = Host(d)
  OBVIOUS
<1>3. copied \subseteq copied' /\ (Duplicate(d) => h \in copied')
  BY <1>2 DEF Deliver, Lose, Duplicate, netVars
<1>4. ~Deliver(d) => UNCHANGED socket
  BY DEF Lose, Duplicate
<1>5. DOMAIN socket = Hosts
  BY DEF FreshInv, HostTables
<1>6. Deliver(d) => /\ d.to = h /\ h \in Hosts
                    /\ socket' = [socket EXCEPT ![h] = Append(socket[h], d)]
  BY <1>2, DnsAssumption DEF Deliver, Host, TrafficInv, Asking
<1> SUFFICES ASSUME NEW p \in Proxies \ copied' PROVE OneFlight(p)'
  BY <1>1 DEF CountInv
<1>7. OneFlight(p) /\ p \in Proxies \ copied /\ p \in Hosts
  BY <1>3 DEF CountInv, Hosts
<1>8. CASE p # h
  <2>1. socket'[p] = socket[p]
    BY <1>4, <1>5, <1>6, <1>7, <1>8
  <2> QED BY <1>1, <1>2, <1>7, <1>8, <2>1, FlightOther
<1>9. CASE p = h
  <2>1. /\ d.id = id[p] /\ p \in waiting /\ socket[p] = <<>> /\ rc[p] = 0
        /\ \A x \in BagToSet(Without(d)) : Host(x) # p
    BY <1>2, <1>7, <1>9, TheOne
  <2>2. wire' = Without(d)
    BY <1>3, <1>9 DEF Deliver, Lose
  <2>3. Mine(p)' = {}
    BY <2>1, <2>2 DEF Mine, Host
  <2>4. CASE Deliver(d)
    <3>1. socket'[p] = Append(<<>>, d)
      BY <1>5, <1>6, <1>9, <2>1, <2>4
    <3>2. socket'[p] = <<d>>
      BY <3>1
    <3>3. ToSet(socket'[p]) = {d} /\ Len(socket'[p]) = 1
      BY <3>2, ShortQueues
    <3> QED BY <1>1, <2>1, <2>3, <3>3 DEF OneFlight
  <2>5. CASE ~Deliver(d)
    <3>1. socket'[p] = <<>> /\ ToSet(socket'[p]) = {}
      BY <1>4, <2>1, <2>5, ShortQueues
    <3> QED BY <1>1, <2>1, <2>3, <3>1 DEF OneFlight
  <2> QED BY <2>4, <2>5
<1> QED BY <1>8, <1>9

LEMMA CountInit == Init => CountInv
<1> SUFFICES ASSUME Init PROVE CountInv
  OBVIOUS
<1>1. BagToSet(wire) = {} /\ IsABag(wire)
  <2>1. wire = [x \in {} |-> 1]
    BY DEF Init, DnsInit, EmptyBag, SetToBag
  <2> QED BY <2>1 DEF IsABag, BagToSet
<1>2. \A p \in Proxies : socket[p] = <<>> /\ rc[p] = 0 /\ Mine(p) = {}
  BY <1>1 DEF Init, DnsInit, Hosts, Mine
<1> QED BY <1>1, <1>2, ShortQueues DEF CountInv, OneFlight

LEMMA CountKept == CountInv /\ FreshInv /\ TrafficInv /\ [Next]_vars => CountInv'
<1> SUFFICES ASSUME CountInv, FreshInv, TrafficInv, [Next]_vars PROVE CountInv'
  OBVIOUS
<1>1. CASE UNCHANGED dnsVars
  BY <1>1, CountQuiet DEF dnsVars, hostVars, netVars
<1>2. CASE SkipTable \/ (\E l \in Announcements : Announce(l)) \/ BuildTable
  BY <1>2, <1>1 DEF SkipTable, Announce, BuildTable
<1>3. CASE NoServer
  BY <1>3, CountQuiet DEF NoServer, hostVars, netVars
<1>4. CASE Answering \/ Failing
  BY <1>4, CountServe, CountQuiet
     DEF Answering, ServerStep, Failing, SelectFails, Spins, RecvFails, Stops, hostVars, netVars
<1>5. CASE Outside
  <2>1. CASE HostStep
    BY <2>1, CountAsk, CountReceive DEF HostStep
  <2>2. CASE NetworkStep
    BY <2>2, CountNetwork DEF NetworkStep, Delivery
  <2>3. CASE Tick
    BY <2>3, CountQuiet DEF Tick, hostVars, netVars
  <2> QED BY <1>5, <2>1, <2>2, <2>3 DEF Outside
<1>6. CASE UNCHANGED vars
  BY <1>6, <1>1 DEF vars
<1> QED BY <1>2, <1>3, <1>4, <1>5, <1>6 DEF Next

(***************************************************************************)
(* A resolve fails only where a datagram was copied: a host has one        *)
(* datagram in flight at a time, so nothing late is left for the next      *)
(* resolve to take for its answer.                                         *)
(***************************************************************************)
THEOREM FailsNotAlone == Spec => []FailsOnlyAfterCopy
<1> DEFINE I == FreshInv /\ TrafficInv /\ CountInv
<1>1. Init => I
  BY FreshInit, TrafficInit, CountInit
<1>2. I /\ [Next]_vars => I'
  BY FreshStep, TrafficKept, CountKept
<1>3. I => FailsOnlyAfterCopy
  BY DEF CountInv, OneFlight, FailsOnlyAfterCopy
<1> HIDE DEF I
<1> QED BY <1>1, <1>2, <1>3, PTL DEF Spec



-----------------------------------------------------------------------------
(* In rotation the name server names the servers of its file. *)
LEMMA RotationNodes ==
    ASSUME MapInv, rr_flag
    PROVE  nodes \in Seq(Addresses) /\ ToSet(nodes) = ToSet(ServerNames) /\ Len(nodes) \in Nat \ {0}
<1>1. PICK s : s = OP!Distinct(ServerNames)
  OBVIOUS
<1>2. OP!ToSet(<<>>) = {} /\ \A t : OP!ToSet(t) = ToSet(t)
  BY ShortQueues DEF OP!ToSet, ToSet
<1>3. <<>> \in Seq(Addresses) /\ ServerNames \in Seq(Addresses)
  BY NameServerAssumption
<1>4. s \in Seq(Addresses) /\ ToSet(s) = ToSet(ServerNames)
  <2>1. /\ OP!AppendAllNew(<<>>, ServerNames) \in Seq(Addresses)
        /\ OP!ToSet(OP!AppendAllNew(<<>>, ServerNames)) = OP!ToSet(<<>>) \cup OP!ToSet(ServerNames)
    BY <1>3, MapAssumed, OP!AllNew
  <2>2. OP!ToSet(s) = ToSet(s) /\ OP!ToSet(ServerNames) = ToSet(ServerNames)
    BY <1>2
  <2> QED BY <1>1, <1>2, <2>1, <2>2 DEF OP!Distinct
<1>5. ServerNames[1] \in ToSet(ServerNames)
  <2>1. 1 \in DOMAIN ServerNames
    BY NameServerAssumption
  <2> QED BY <2>1 DEF ToSet
<1>6. s # <<>>
  BY <1>4, <1>5, ShortQueues
<1>7. Len(s) \in Nat \ {0}
  BY <1>4, <1>6
<1> QED BY <1>1, <1>4, <1>7 DEF MapInv

LEMMA NextIs ==
    ASSUME MapInv, rr_flag, query_count \in Nat
    PROVE  NextServer \in Addresses
<1>1. nodes \in Seq(Addresses) /\ Len(nodes) \in Nat \ {0}
  BY RotationNodes
<1>2. PICK n : n = Len(nodes)
  OBVIOUS
<1>3. (query_count % n) + 1 \in 1..n
  BY <1>1, <1>2
<1>4. nodes[(query_count % n) + 1] \in Addresses
  BY <1>1, <1>2, <1>3
<1> QED BY <1>2, <1>4 DEF NextServer

LEMMA BestIs ==
    ASSUME MapInv, NEW h, Entry(h) # 0
    PROVE  Best(h) \in Addresses
<1>1. OP!TypeOK
  BY DEF MapInv, OP!SpfInv
<1>2. PICK R : R = [clit : Addresses, serv : Addresses]
  OBVIOUS
<1>3. routing_table \in Seq(R)
  BY <1>1, <1>2 DEF OP!TypeOK
<1>4. IsQueue(routing_table)
  BY <1>3 DEF IsQueue
<1>5. PICK i \in DOMAIN routing_table : routing_table[i].serv = Best(h)
  BY <1>4, EntryIs DEF Entered
<1>6. routing_table[i] \in R
  BY <1>3
<1> QED BY <1>2, <1>5, <1>6

(* The resolvers' and the name server's own state, and every address given. *)
HostTypes ==
    /\ clock \in 0..MaxClock /\ asked \in 0..MaxAsked
    /\ waiting \subseteq Hosts
    /\ id \in [Hosts -> 0..MaxClock]
    /\ rc \in [Hosts -> {0, -1}]
    /\ dialed \in [Hosts -> Addresses \cup {NULL, Unset}]
    /\ \A h \in Hosts : rc[h] = -1 <=> dialed[h] = Unset
    /\ query_count \in 0..(CountRange - 1)
    /\ rr_flag \in BOOLEAN /\ stray \in Strays
    /\ fate \in {"up", "spinning", "exited", "crashed"}
    /\ \A h \in Hosts : \A g \in given[h] : g.addr \in Addresses

LEMMA HostsStart == Init => HostTypes
BY DnsAssumption DEF Init, DnsInit, HostTypes

LEMMA HostsQuiet ==
    ASSUME HostTypes, UNCHANGED <<clock, asked, hostVars, query_count, rr_flag, stray, given>>,
           fate' \in {"up", "spinning", "exited", "crashed"}
    PROVE  HostTypes'
BY DEF HostTypes, hostVars

LEMMA HostsReceive ==
    ASSUME HostTypes, FreshInv, NEW h \in Hosts, Receive(h)
    PROVE  HostTypes'
<1>1. PICK d : d = Head(socket[h])
  OBVIOUS
<1>2. /\ socket[h] # <<>>
      /\ rc' = [rc EXCEPT ![h] = IF Repeats(d, h) THEN 0 ELSE -1]
      /\ dialed' = [dialed EXCEPT ![h] = IF Repeats(d, h) THEN d.addr ELSE Unset]
      /\ waiting' = waiting \ {h}
      /\ UNCHANGED <<clock, id, query_count, rr_flag, stray, fate, asked, given>>
  BY <1>1 DEF Receive, histVars
<1>3. Repeats(d, h) => d.addr \in Addresses
  <2>1. d \in ToSet(socket[h])
    BY <1>1, <1>2, Taken DEF FreshInv, HostTables
  <2>2. Vouched(d, h)
    BY <2>1 DEF FreshInv, SocketsVouched
  <2>3. PICK g : g = [id |-> d.id, addr |-> d.addr]
    OBVIOUS
  <2>4. Repeats(d, h) => g \in given[h] /\ g.addr = d.addr
    BY <2>2, <2>3 DEF Vouched, Repeats
  <2> QED BY <2>4 DEF HostTypes
<1>4. rc' \in [Hosts -> {0, -1}] /\ dialed' \in [Hosts -> Addresses \cup {NULL, Unset}]
  BY <1>2, <1>3 DEF HostTypes
<1>5. \A g \in Hosts : rc'[g] = -1 <=> dialed'[g] = Unset
  <2>1. rc'[h] = -1 <=> dialed'[h] = Unset
    BY <1>2, <1>3, DnsAssumption DEF HostTypes
  <2>2. \A g \in Hosts \ {h} : rc'[g] = rc[g] /\ dialed'[g] = dialed[g]
    BY <1>2 DEF HostTypes
  <2> QED BY <2>1, <2>2 DEF HostTypes
<1> QED BY <1>2, <1>4, <1>5 DEF HostTypes

LEMMA HostsServe ==
    ASSUME HostTypes, MapInv, FreshInv, NEW q \in BagToSet(wire), Serve(q)
    PROVE  HostTypes'
<1>1. /\ q.to = "ns"
      /\ UNCHANGED <<clock, hostVars, rr_flag, stray, asked>>
  BY DEF Serve
<1>2. q.from \in Hosts /\ DOMAIN given = Hosts
  BY <1>1, DnsAssumption DEF FreshInv, HostTables, WireVouched
<1>3. ASSUME NEW addr \in Addresses, Named(q, addr), query_count' \in 0..(CountRange - 1),
             UNCHANGED fate
      PROVE  HostTypes'
  <2>1. given' = [given EXCEPT ![q.from] = given[q.from] \cup {[id |-> q.id, addr |-> addr]}]
    BY <1>3 DEF Named
  <2>2. \A h \in Hosts : \A g \in given'[h] : g.addr \in Addresses
    BY <1>2, <2>1 DEF HostTypes
  <2> QED BY <1>1, <1>3, <2>2 DEF HostTypes, hostVars
<1>4. CASE RefuseQuery(q)
  BY <1>1, <1>4, HostsQuiet DEF RefuseQuery, histVars, HostTypes
<1>5. CASE RouteByRotation(q)
  <2>1. rr_flag /\ Named(q, NextServer) /\ query_count' = (query_count + 1) % CountRange
        /\ UNCHANGED fate
    BY <1>5 DEF RouteByRotation
  <2>2. query_count \in Nat /\ CountRange \in Nat \ {0}
    BY DnsAssumption DEF HostTypes
  <2>3. query_count' \in 0..(CountRange - 1)
    BY <2>1, <2>2
  <2>4. NextServer \in Addresses
    BY <2>1, <2>2, NextIs
  <2> QED BY <1>3, <2>1, <2>3, <2>4
<1>6. CASE RouteByTable(q)
  <2>1. Entry(q.from) # 0 /\ Named(q, Best(q.from)) /\ UNCHANGED <<query_count, fate>>
    BY <1>6 DEF RouteByTable
  <2> QED BY <1>3, <2>1, BestIs DEF HostTypes
<1>7. CASE RouteUnknown(q)
  BY <1>1, <1>7, HostsQuiet DEF RouteUnknown, histVars
<1> QED BY <1>4, <1>5, <1>6, <1>7 DEF Serve

LEMMA HostsKept == HostTypes /\ MapInv /\ FreshInv /\ [Next]_vars => HostTypes'
<1> SUFFICES ASSUME HostTypes, MapInv, FreshInv, [Next]_vars PROVE HostTypes'
  OBVIOUS
<1>1. CASE UNCHANGED dnsVars
  BY <1>1, HostsQuiet DEF dnsVars, histVars, HostTypes
<1>2. CASE SkipTable \/ (\E l \in Announcements : Announce(l)) \/ BuildTable
  BY <1>2, <1>1 DEF SkipTable, Announce, BuildTable
<1>3. CASE NoServer
  BY <1>3, HostsQuiet DEF NoServer, histVars
<1>4. CASE Answering \/ Failing
  BY <1>4, HostsServe, HostsQuiet
     DEF Answering, ServerStep, Failing, SelectFails, Spins, RecvFails, Stops, histVars
<1>5. CASE Outside
  <2>1. ASSUME NEW h \in Hosts, Ask(h) PROVE HostTypes'
    BY <2>1, DnsAssumption DEF Ask, histVars, HostTypes
  <2>2. CASE HostStep
    BY <2>1, <2>2, HostsReceive DEF HostStep
  <2>3. CASE NetworkStep
    BY <2>3, HostsQuiet DEF NetworkStep, Delivery, Deliver, Lose, Duplicate, histVars, HostTypes
  <2>4. CASE Tick
    BY <2>4, DnsAssumption DEF Tick, hostVars, histVars, HostTypes
  <2> QED BY <1>5, <2>2, <2>3, <2>4 DEF Outside
<1>6. CASE UNCHANGED vars
  BY <1>6, <1>1 DEF vars
<1> QED BY <1>2, <1>3, <1>4, <1>5, <1>6 DEF Next

(* Type correctness of the resolvers, the name server and its map. *)
THEOREM NameServerTypes == Spec => []TypeOK
<1> DEFINE I == MapInv /\ FreshInv /\ TrafficInv /\ CountInv /\ HostTypes
<1>1. Init => I
  BY MapInit, FreshInit, TrafficInit, CountInit, HostsStart
<1>2. I /\ [Next]_vars => I'
  BY MapKept, FreshStep, TrafficKept, CountKept, HostsKept
<1>3. I => TypeOK
  <2> SUFFICES ASSUME MapInv, CountInv, HostTypes PROVE TypeOK
    OBVIOUS
  <2>1. DnsTypeOK
    BY DEF CountInv, HostTypes, DnsTypeOK
  <2>2. OP!TypeOK
    BY DEF MapInv, OP!SpfInv
  <2> QED BY <2>1, <2>2 DEF TypeOK, O!TypeOK, OP!TypeOK
<1> HIDE DEF I
<1> QED BY <1>1, <1>2, <1>3, PTL DEF Spec



-----------------------------------------------------------------------------
(* The remainder counts up and starts again. *)
LEMMA Quotient ==
    ASSUME NEW q \in Nat, NEW n \in Nat \ {0}
    PROVE  q = n * (q \div n) + (q % n) /\ q \div n \in Nat /\ q % n \in 0..(n - 1)
BY Z3

LEMMA Remainder ==
    ASSUME NEW n \in Nat \ {0}, NEW d \in Nat, NEW r \in 0..(n - 1), NEW q \in Nat, q = n * d + r
    PROVE  q % n = r
BY Z3

LEMMA NextRemainder ==
    ASSUME NEW n \in Nat \ {0}, NEW q \in Nat
    PROVE  (q + 1) % n = IF q % n = n - 1 THEN 0 ELSE (q % n) + 1
<1>1. PICK d \in Nat, r \in 0..(n - 1) : q = n * d + r /\ r = q % n
  BY Quotient
<1>2. q + 1 \in Nat /\ d + 1 \in Nat /\ 0 \in 0..(n - 1)
  OBVIOUS
<1>3. CASE r = n - 1
  <2>1. n * (d + 1) = n * d + n /\ n * d \in Nat
    BY Z3
  <2>2. PICK m \in Nat : m = n * d /\ n * (d + 1) = m + n
    BY <2>1
  <2>3. PICK k : k = n * (d + 1)
    OBVIOUS
  <2>4. q = m + r /\ k = m + n
    BY <1>1, <2>2, <2>3
  <2>5. q + 1 = k + 0
    BY <1>3, <2>4
  <2> QED BY <1>1, <1>2, <1>3, <2>3, <2>5, Remainder
<1>4. CASE r # n - 1
  <2>1. r + 1 \in 0..(n - 1) /\ q + 1 = n * d + (r + 1)
    BY <1>1, <1>4
  <2> QED BY <1>1, <1>2, <1>4, <2>1, Remainder
<1> QED BY <1>3, <1>4

(* So does the remainder of a counter whose range the divisor divides.     *)
LEMMA WrapRemainder ==
    ASSUME NEW n \in Nat \ {0}, NEW c \in Nat \ {0}, c % n = 0, NEW q \in 0..(c - 1)
    PROVE  ((q + 1) % c) % n = IF q % n = n - 1 THEN 0 ELSE (q % n) + 1
<1>0. q \in Nat
  OBVIOUS
<1>1. CASE q + 1 = c
  <2>1. (q + 1) % c = 0 /\ 0 % n = 0
    BY <1>1
  <2>2. (q + 1) % n = 0
    BY <1>1
  <2> QED BY <1>0, <2>1, <2>2, NextRemainder
<1>2. CASE q + 1 # c
  <2>1. q + 1 \in 0..(c - 1)
    BY <1>2
  <2>2. (q + 1) % c = q + 1
    BY <2>1
  <2> QED BY <1>0, <2>2, NextRemainder
<1> QED BY <1>1, <1>2

(* Two lists without repetitions of the same elements are as long. *)
LEMMA OnceLength ==
    ASSUME NEW S, NEW s \in Seq(S), \A m, n \in DOMAIN s : s[m] = s[n] => m = n
    PROVE  Cardinality(ToSet(s)) = Len(s)
<1>1. DOMAIN s = 1..Len(s) /\ Len(s) \in Nat
  OBVIOUS
<1>2. PICK n \in Nat : n = Len(s)
  BY <1>1
<1>3. s \in [1..n -> ToSet(s)]
  BY <1>1, <1>2 DEF ToSet
<1>4. \A m, k \in 1..n : s[m] = s[k] => m = k
  BY <1>1, <1>2
<1>5. \A e \in ToSet(s) : \E m \in 1..n : s[m] = e
  BY <1>1, <1>2 DEF ToSet
<1>6. s \in Bijection(1..n, ToSet(s))
  BY <1>3, <1>4, <1>5, Fun_IsBij
<1>7. ExistsBijection(1..n, ToSet(s))
  BY <1>6 DEF ExistsBijection
<1> QED BY <1>2, <1>7, FS_CountingElements

LEMMA RotationOnce ==
    ASSUME MapInv, rr_flag
    PROVE  /\ Len(nodes) = Len(ServerNames)
           /\ \A m, n \in 1..Len(nodes) : nodes[m] = nodes[n] => m = n
<1>1. PICK s : s = OP!Distinct(ServerNames)
  OBVIOUS
<1>2. nodes = s /\ s \in Seq(Addresses) /\ ToSet(s) = ToSet(ServerNames)
  BY <1>1, RotationNodes DEF MapInv
<1>3. <<>> \in Seq(Addresses) /\ ServerNames \in Seq(Addresses)
  BY NameServerAssumption
<1>4. \A m, n \in DOMAIN s : s[m] = s[n] => m = n
  <2>1. OP!Once(<<>>)
    BY DEF OP!Once
  <2>2. OP!Once(OP!AppendAllNew(<<>>, ServerNames))
    BY <1>3, <2>1, MapAssumed, OP!AllNew
  <2> QED BY <1>1, <2>2 DEF OP!Distinct, OP!Once
<1>5. \A m, n \in DOMAIN ServerNames : ServerNames[m] = ServerNames[n] => m = n
  BY NameServerAssumption
<1>6. Cardinality(ToSet(s)) = Len(s)
  BY <1>2, <1>4, OnceLength
<1>7. Cardinality(ToSet(ServerNames)) = Len(ServerNames)
  BY <1>3, <1>5, OnceLength
<1>8. DOMAIN s = 1..Len(s)
  BY <1>2
<1> QED BY <1>2, <1>4, <1>6, <1>7, <1>8

(* The servers named once more than the others are those up to the count.  *)
Ahead(n) == IF n <= query_count % Len(nodes) THEN 1 ELSE 0

RotationInv ==
    rr_flag => /\ tally \in [Addresses -> Nat]
               /\ \E b \in Nat : \A n \in 1..Len(nodes) : tally[nodes[n]] = b + Ahead(n)

LEMMA RotationStart ==
    ASSUME Init, MapInv PROVE RotationInv
<1> SUFFICES ASSUME rr_flag
             PROVE  /\ tally \in [Addresses -> Nat]
                    /\ \A n \in 1..Len(nodes) : tally[nodes[n]] = 0 + Ahead(n)
  BY DEF RotationInv
<1>1. tally = [a \in Addresses |-> 0] /\ query_count = 0
  BY DEF Init, DnsInit
<1>2. nodes \in Seq(Addresses) /\ Len(nodes) \in Nat \ {0}
  BY RotationNodes
<1>3. \A n \in 1..Len(nodes) : nodes[n] \in Addresses
  BY <1>2
<1>4. PICK c \in Nat \ {0} : c = Len(nodes)
  BY <1>2
<1>5. \A n \in 1..c : Ahead(n) = 0
  <2>1. 0 % c = 0
    OBVIOUS
  <2> QED BY <1>1, <1>4, <2>1 DEF Ahead
<1> QED BY <1>1, <1>3, <1>4, <1>5

(* Outside the rotation nothing changes the counts. *)
LEMMA TallyChange ==
    ASSUME [Next]_vars, rr_flag
    PROVE  \/ UNCHANGED <<tally, query_count>>
           \/ /\ query_count' = (query_count + 1) % CountRange
              /\ tally' = [tally EXCEPT ![NextServer] = tally[NextServer] + 1]
<1>1. CASE Answering
  <2>1. PICK q \in BagToSet(wire) : Serve(q)
    BY <1>1 DEF Answering, ServerStep
  <2> QED BY <2>1 DEF Serve, RefuseQuery, RouteByRotation, RouteByTable, RouteUnknown,
                      Named, histVars
<1>2. CASE Outside
  BY <1>2 DEF Outside, HostStep, NetworkStep, Delivery, Ask, Receive, Deliver, Lose,
              Duplicate, Tick, histVars
<1>3. CASE SkipTable \/ (\E l \in Announcements : Announce(l)) \/ BuildTable \/ NoServer
           \/ Failing \/ UNCHANGED vars
  BY <1>3 DEF SkipTable, Announce, BuildTable, NoServer, Failing, SelectFails, Spins,
              RecvFails, Stops, vars, dnsVars, histVars
<1> QED BY <1>1, <1>2, <1>3 DEF Next

LEMMA NodesKept ==
    ASSUME MapInv, MapInv', rr_flag, [Next]_vars PROVE UNCHANGED <<nodes, rr_flag>>
BY ModeKept DEF MapInv

LEMMA RotationKept ==
    ASSUME CountRange % Len(ServerNames) = 0, MapInv, MapInv', HostTypes, RotationInv, [Next]_vars
    PROVE  RotationInv'
<1> SUFFICES ASSUME rr_flag PROVE RotationInv'
  BY ModeKept DEF RotationInv
<1>1. UNCHANGED <<nodes, rr_flag>>
  BY NodesKept
<1>2. CASE UNCHANGED <<tally, query_count>>
  BY <1>1, <1>2 DEF RotationInv, Ahead
<1>3. CASE ~UNCHANGED <<tally, query_count>>
  <2>1. /\ query_count' = (query_count + 1) % CountRange
        /\ tally' = [tally EXCEPT ![NextServer] = tally[NextServer] + 1]
    BY <1>3, TallyChange
  <2>2. /\ nodes \in Seq(Addresses) /\ Len(nodes) \in Nat \ {0} /\ Len(nodes) = Len(ServerNames)
        /\ \A m, n \in 1..Len(nodes) : nodes[m] = nodes[n] => m = n
    BY RotationNodes, RotationOnce
  <2>3. PICK c \in Nat \ {0} : c = Len(nodes)
    BY <2>2
  <2>4. PICK r : r = query_count % c
    OBVIOUS
  <2>5. query_count \in 0..(CountRange - 1) /\ CountRange \in Nat \ {0} /\ CountRange % c = 0
    BY <2>2, <2>3, DnsAssumption DEF HostTypes
  <2>6. r \in 0..(c - 1)
    BY <2>4, <2>5
  <2>7. query_count' % c = IF r = c - 1 THEN 0 ELSE r + 1
    BY <2>1, <2>4, <2>5, WrapRemainder
  <2>8. \A n \in 1..c : nodes[n] \in Addresses
    BY <2>2, <2>3
  <2>9. PICK i \in 1..c : i = r + 1
    BY <2>6
  <2>10. NextServer = nodes[i] /\ nodes[i] \in Addresses
    BY <2>3, <2>4, <2>8, <2>9 DEF NextServer
  <2>11. PICK b \in Nat : \A n \in 1..c : tally[nodes[n]] = b + Ahead(n)
    BY <2>3 DEF RotationInv
  <2>12. tally \in [Addresses -> Nat]
    BY DEF RotationInv
  <2>13. tally' \in [Addresses -> Nat]
    BY <2>1, <2>10, <2>12
  <2>14. /\ tally'[nodes[i]] = tally[nodes[i]] + 1
         /\ \A n \in 1..c : n # i => tally'[nodes[n]] = tally[nodes[n]]
    BY <2>1, <2>2, <2>3, <2>8, <2>10, <2>12
  <2>15. \A n \in 1..c : Ahead(n) = IF n <= r THEN 1 ELSE 0
    BY <2>3, <2>4 DEF Ahead
  <2>16. \A n \in 1..c : Ahead(n)' = IF n <= query_count' % c THEN 1 ELSE 0
    BY <1>1, <2>3 DEF Ahead
  <2>17. \A n \in 1..c : tally'[nodes[n]] = b + (IF n <= r + 1 THEN 1 ELSE 0)
    BY <2>6, <2>9, <2>11, <2>14, <2>15
  <2>18. CASE r = c - 1
    <3>1. b + 1 \in Nat /\ \A n \in 1..c : tally'[nodes[n]] = (b + 1) + Ahead(n)'
      BY <2>7, <2>16, <2>17, <2>18
    <3> QED BY <1>1, <2>3, <2>13, <3>1 DEF RotationInv
  <2>19. CASE r # c - 1
    <3>1. \A n \in 1..c : tally'[nodes[n]] = b + Ahead(n)'
      BY <2>7, <2>16, <2>17, <2>19
    <3> QED BY <1>1, <2>3, <2>13, <3>1 DEF RotationInv
  <2> QED BY <2>18, <2>19
<1> QED BY <1>2, <1>3

(***************************************************************************)
(* Rotation is fair to the servers for any number of them that divides the *)
(* range of query_count, over its wrap and whoever asks.                   *)
(***************************************************************************)
THEOREM RotationFair ==
    ASSUME CountRange % Len(ServerNames) = 0
    PROVE  Spec => []RotationBalanced
<1> DEFINE I == MapInv /\ FreshInv /\ HostTypes /\ RotationInv
<1>1. Init => I
  BY MapInit, FreshInit, HostsStart, RotationStart
<1>2. I /\ [Next]_vars => I'
  BY MapKept, FreshStep, HostsKept, RotationKept
<1>3. I => RotationBalanced
  <2> SUFFICES ASSUME MapInv, RotationInv, rr_flag, NEW s \in ToSet(nodes), NEW t \in ToSet(nodes)
               PROVE  tally[s] - tally[t] <= 1
    BY DEF RotationBalanced
  <2>1. DOMAIN nodes = 1..Len(nodes)
    BY RotationNodes
  <2>2. PICK m, n \in 1..Len(nodes) : s = nodes[m] /\ t = nodes[n]
    BY <2>1 DEF ToSet
  <2>3. PICK b \in Nat : tally[s] = b + Ahead(m) /\ tally[t] = b + Ahead(n)
    BY <2>2 DEF RotationInv
  <2>4. Ahead(m) \in {0, 1} /\ Ahead(n) \in {0, 1}
    BY DEF Ahead
  <2> QED BY <2>3, <2>4
<1> HIDE DEF I
<1> QED BY <1>1, <1>2, <1>3, PTL DEF Spec
=============================================================================
