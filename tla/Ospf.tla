-------------------------------- MODULE Ospf --------------------------------
(***************************************************************************)
(* The name server's map of the network (ospf.c).  OSPF_init reads the     *)
(* servers file, then the link state announcements one line at a time,     *)
(* keeping for each node the neighbours of its newest announcement, then   *)
(* runs one breadth-first search per client and enters the first server    *)
(* each search meets in the routing table that route() looks clients up    *)
(* in.  The search works on the lists as announced: an edge exists in the  *)
(* direction its own end announced.                                        *)
(***************************************************************************)
EXTENDS Integers, Sequences, FiniteSets, SequencesExt

CONSTANTS Names,         (* every name a file may contain                   *)
          ServerNames,   (* the servers file                                *)
          Routers,       (* the names that start with "router"              *)
          Announcements, (* the lines genlsa.py may write: each whole, with *)
                         (* its three fields, and shorter than BUFSIZE      *)
          MaxLines,      (* bound on the lines of the LSA file              *)
          NULL

ASSUME OspfAssumption ==
    /\ IsFiniteSet(Names)
    /\ ServerNames \in Seq(Names)
    /\ Routers \subseteq Names
    /\ Announcements \subseteq [name : Names, seq : Nat, nbrs : Seq(Names)]
    /\ \A l \in Announcements : l.nbrs # <<>>
    /\ MaxLines \in Nat
    /\ NULL \notin Names

VARIABLES nodes,         \* the names met so far, in the order met
          seq_num,       \* the sequence number each node's neighbours are from
          neighbors,     \* and those neighbours
          servs, clits,
          routing_table, \* a client and its server for each search finished
          pc,            \* "lsa", "spf", "serving", or "assert"
          searched,      \* searches started, the one running included
          queue, marked, \* of the running search
          heard          \* the announcements read: history, not code

vars == <<nodes, seq_num, neighbors, servs, clits, routing_table, pc, searched,
          queue, marked, heard>>
lsaVars == <<nodes, seq_num, neighbors, servs, clits, heard>>
spfVars == <<routing_table, searched, queue, marked>>

-----------------------------------------------------------------------------
(* add_new_node, add_new_neighbor: a list grows by what it lacks. *)
AppendNew(s, n)    == IF Contains(s, n) THEN s ELSE Append(s, n)
AppendAllNew(s, t) == FoldLeft(AppendNew, s, t)
Distinct(t)        == AppendAllNew(<<>>, t)

Init ==
    /\ servs = ServerNames
    /\ nodes = Distinct(ServerNames)
    /\ seq_num = [n \in Names |-> -1]
    /\ neighbors = [n \in Names |-> <<>>]
    /\ clits = <<>> /\ routing_table = <<>>
    /\ pc = "lsa"
    /\ searched = 0 /\ queue = <<>> /\ marked = {}
    /\ heard = {}

(* Mutants: a client is entered again with each announcement; the old      *)
(* neighbours are not freed.                                               *)
MutMeetNode(n) ==
    clits' = IF Contains(servs, n) \/ n \in Routers THEN clits ELSE Append(clits, n)

MutParseNew(l) ==
    /\ l.seq > seq_num[l.name]
    /\ seq_num' = [seq_num EXCEPT ![l.name] = l.seq]
    /\ neighbors' = [neighbors EXCEPT ![l.name] = AppendAllNew(@, l.nbrs)]
    /\ nodes' = AppendAllNew(AppendNew(nodes, l.name), l.nbrs)

(* A line of parse_LSA.  Its node is known from then on, and a client if   *)
(* it is neither server nor router, even when the line is old news.        *)
MeetNode(n) ==
    clits' = IF Contains(servs, n) \/ n \in Routers THEN clits ELSE AppendNew(clits, n)

ParseNew(l) ==
    /\ l.seq > seq_num[l.name]
    /\ seq_num' = [seq_num EXCEPT ![l.name] = l.seq]
    /\ neighbors' = [neighbors EXCEPT ![l.name] = Distinct(l.nbrs)]
    /\ nodes' = AppendAllNew(AppendNew(nodes, l.name), l.nbrs)

ParseOld(l) ==
    /\ l.seq <= seq_num[l.name]
    /\ nodes' = AppendNew(nodes, l.name)
    /\ UNCHANGED <<seq_num, neighbors>>

ParseLSA(l) ==
    /\ pc = "lsa"
    /\ Cardinality(heard) < MaxLines
    /\ MeetNode(l.name)
    /\ ParseNew(l) \/ ParseOld(l)
    /\ heard' = heard \cup {l}
    /\ UNCHANGED <<servs, pc, spfVars>>

-----------------------------------------------------------------------------
MutStartSearch(n) == \* the marks of the last search are kept
    IF n <= Len(clits)
    THEN pc' = "spf" /\ queue' = <<clits[n]>> /\ marked' = marked \cup {clits[n]} /\ searched' = n
    ELSE pc' = "serving" /\ queue' = <<>> /\ UNCHANGED <<marked, searched>>

(* mylist_foreach over the clients: the search number n starts from its    *)
(* client, or there is none left and OSPF_init returns.                    *)
StartSearch(n) ==
    IF n <= Len(clits)
    THEN /\ pc' = "spf"
         /\ queue' = <<clits[n]>>
         /\ marked' = {clits[n]}
         /\ searched' = n
    ELSE /\ pc' = "serving"
         /\ queue' = <<>> /\ marked' = {}
         /\ UNCHANGED searched

EndOfFile ==
    /\ pc = "lsa"
    /\ StartSearch(1)
    /\ UNCHANGED <<lsaVars, routing_table>>

(* One node off the queue: its unreached neighbours in list order, up to   *)
(* the first server.                                                       *)
Reach(s, n)  == IF n \in marked THEN s ELSE AppendNew(s, n)
Unreached(u) == FoldLeft(Reach, <<>>, neighbors[u])

IsServer(n)    == Contains(servs, n)
FirstServer(s) == SelectInSeq(s, IsServer)

FindServer ==
    /\ pc = "spf" /\ queue # <<>>
    /\ LET fresh == Unreached(Head(queue))
       IN /\ FirstServer(fresh) # 0
          /\ routing_table' = Append(routing_table, [clit |-> clits[searched],
                                                     serv |-> fresh[FirstServer(fresh)]])
    /\ StartSearch(searched + 1)
    /\ UNCHANGED lsaVars

(* Mutants: a stack for a queue; a node leaves the queue only if it had    *)
(* unreached neighbours.                                                   *)
MutExpandDepthFirst ==
    /\ pc = "spf" /\ queue # <<>>
    /\ LET fresh == Unreached(Head(queue))
       IN /\ FirstServer(fresh) = 0
          /\ queue' = fresh \o Tail(queue)
          /\ marked' = marked \cup ToSet(fresh)
    /\ UNCHANGED <<lsaVars, routing_table, pc, searched>>

MutExpandPeek ==
    /\ pc = "spf" /\ queue # <<>>
    /\ LET fresh == Unreached(Head(queue))
       IN /\ FirstServer(fresh) = 0
          /\ queue' = IF fresh = <<>> THEN queue ELSE Tail(queue) \o fresh
          /\ marked' = marked \cup ToSet(fresh)
    /\ UNCHANGED <<lsaVars, routing_table, pc, searched>>

Expand ==
    /\ pc = "spf" /\ queue # <<>>
    /\ LET fresh == Unreached(Head(queue))
       IN /\ FirstServer(fresh) = 0
          /\ queue' = Tail(queue) \o fresh
          /\ marked' = marked \cup ToSet(fresh)
    /\ UNCHANGED <<lsaVars, routing_table, pc, searched>>

(* Mutant: assert(0) compiled out, the entry left without a server. *)
MutNoServer ==
    /\ pc = "spf" /\ queue = <<>>
    /\ routing_table' = Append(routing_table, [clit |-> clits[searched], serv |-> NULL])
    /\ StartSearch(searched + 1)
    /\ UNCHANGED lsaVars

(* The queue runs dry: assert(0). *)
NoServer ==
    /\ pc = "spf" /\ queue = <<>>
    /\ pc' = "assert"
    /\ UNCHANGED <<lsaVars, spfVars>>

Next == \/ \E l \in Announcements : ParseLSA(l)
        \/ EndOfFile \/ FindServer \/ Expand \/ NoServer

Spec == Init /\ [][Next]_vars

FairSpec == Spec /\ WF_vars(EndOfFile \/ FindServer \/ Expand \/ NoServer)

-----------------------------------------------------------------------------
(* Reference: the nodes within k announced hops of a client. *)
Within(c) ==
    LET W[k \in Nat] ==
          IF k = 0 THEN {c}
          ELSE W[k - 1] \cup UNION {ToSet(neighbors[u]) : u \in W[k - 1]}
    IN W

Nearest(c, s) ==
    \E k \in 1..Cardinality(Names) :
        /\ s \in Within(c)[k]
        /\ ToSet(servs) \cap Within(c)[k - 1] = {}

Entries(c) == {i \in DOMAIN routing_table : routing_table[i].clit = c}

-----------------------------------------------------------------------------
(* Type correctness of the lists. *)
TypeOK ==
    /\ nodes \in Seq(Names) /\ servs \in Seq(Names) /\ clits \in Seq(Names)
    /\ seq_num \in [Names -> Int]
    /\ neighbors \in [Names -> Seq(Names)]
    /\ routing_table \in Seq([clit : Names, serv : Names])
    /\ pc \in {"lsa", "spf", "serving", "assert"}
    /\ searched \in Nat
    /\ queue \in Seq(Names) /\ marked \subseteq Names
    /\ heard \subseteq Announcements

(* In whatever order the announcements came, late and repeated ones too,   *)
(* each node's neighbours are those of its newest one.                     *)
NewestWins ==
    \A n \in Names :
        LET mine == {l \in heard : l.name = n}
        IN IF mine = {} THEN seq_num[n] = -1 /\ neighbors[n] = <<>>
           ELSE \E l \in mine : /\ \A m \in mine : m.seq <= l.seq
                                /\ seq_num[n] = l.seq
                                /\ neighbors[n] = Distinct(l.nbrs)

(* A search enters a server no other server is nearer than, by announced   *)
(* hops.                                                                   *)
RoutesNearest ==
    \A i \in DOMAIN routing_table :
        /\ Contains(servs, routing_table[i].serv)
        /\ Nearest(routing_table[i].clit, routing_table[i].serv)

(* Once the server answers, every client that announced itself has exactly *)
(* one entry, so route() finds it; a client never heard of has none, and   *)
(* route() would read the NULL it is given for that one.                   *)
TableComplete ==
    pc = "serving" =>
        \A n \in Names :
            Cardinality(Entries(n)) =
                IF n \in {l.name : l \in heard} \ (Routers \cup ToSet(servs)) THEN 1 ELSE 0

(* A search that finds nothing had nothing to find: no server is within    *)
(* reach of its client over the announced lists.                           *)
AssertOnlyWhenCutOff ==
    pc = "assert" =>
        ToSet(servs) \cap Within(clits[searched])[Cardinality(Names)] = {}

(* "should never reach here" (calc_sp): every search finds a server. *)
NeverReached == pc # "assert"

(* OSPF_init returns, or aborts: no search runs for ever, whatever loops   *)
(* the lists have.                                                         *)
Finishes == pc = "spf" ~> pc \in {"serving", "assert"}
=============================================================================
