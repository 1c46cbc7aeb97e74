----------------------------- MODULE NameServer -----------------------------
(***************************************************************************)
(* The name server as a whole: nameserver.c binds its socket, builds the   *)
(* map of the network (module Ospf), then answers (module Dns).  Queries   *)
(* may come while it still reads its files; they wait in its socket.  With *)
(* -r only the servers file is read.                                       *)
(***************************************************************************)
EXTENDS Dns

CONSTANTS ServerNames,   (* the servers file, without repetitions *)
          Routers,       (* the names that start with "router"    *)
          Announcements, (* the lines genlsa.py may write         *)
          MaxLines       (* bound on the lines of the LSA file    *)

ASSUME NameServerAssumption ==
    /\ IsFiniteSet(Addresses)
    /\ ServerNames \in Seq(Addresses) /\ Len(ServerNames) > 0
    /\ Routers \subseteq Addresses
    /\ Announcements \subseteq [name : Addresses, seq : Nat, nbrs : Seq(Addresses)]
    /\ MaxLines \in Nat
    /\ NULL \notin Addresses
    /\ \A m, n \in DOMAIN ServerNames : ServerNames[m] = ServerNames[n] => m = n
    /\ \A l \in Announcements : l.nbrs # <<>>
    /\ \A l, m \in Announcements : l.name = m.name /\ l.seq = m.seq => l = m

VARIABLES seq_num, neighbors, servs, clits, pc, searched, queue, marked, heard

ospfVars == <<nodes, seq_num, neighbors, servs, clits, routing_table, pc, searched,
              queue, marked, heard>>
vars == <<dnsVars, ospfVars>>

O == INSTANCE Ospf WITH Names <- Addresses

-----------------------------------------------------------------------------
Init == DnsInit /\ O!Init

(* OSPF_init. *)
SkipTable ==
    /\ rr_flag /\ pc = "lsa"
    /\ pc' = "serving"
    /\ UNCHANGED <<dnsVars, nodes, seq_num, neighbors, servs, clits, routing_table,
                   searched, queue, marked, heard>>

Announce(l) == ~rr_flag /\ O!ParseLSA(l) /\ UNCHANGED dnsVars

BuildTable ==
    /\ ~rr_flag
    /\ O!EndOfFile \/ O!FindServer \/ O!Expand
    /\ UNCHANGED dnsVars

(* assert(0) takes the process down. *)
NoServer ==
    /\ ~rr_flag /\ O!NoServer
    /\ fate' = "crashed"
    /\ UNCHANGED <<clock, hostVars, socket, wire, query_count, rr_flag, stray, asked, histVars, netVars>>

MutAnswering == ServerStep /\ UNCHANGED ospfVars \* does not wait for OSPF_init
Answering    == pc = "serving" /\ ServerStep /\ UNCHANGED ospfVars

Failing      == pc = "serving" /\ (SelectFails \/ Spins \/ RecvFails) /\ UNCHANGED ospfVars

Outside == (HostStep \/ NetworkStep \/ Tick) /\ UNCHANGED ospfVars

Next == \/ SkipTable \/ (\E l \in Announcements : Announce(l)) \/ BuildTable \/ NoServer
        \/ Answering \/ Failing \/ Outside

Spec == Init /\ [][Next]_vars

(* The name server goes on, and so does the network.                       *)
FairSpec ==
    /\ Spec
    /\ WF_vars(SkipTable \/ BuildTable \/ NoServer \/ (pc = "serving" /\ SelectFails /\ UNCHANGED ospfVars))
    /\ \A h \in Hosts : WF_vars(Receive(h) /\ UNCHANGED ospfVars)
    /\ WF_vars(Answering \/ (Delivery /\ UNCHANGED ospfVars))

-----------------------------------------------------------------------------
(* Reference: hops over the newest announcement of each node.              *)
Said(n) == {l \in heard : l.name = n}
Newest(n) == IF Said(n) = {} THEN {}
             ELSE ToSet((CHOOSE l \in Said(n) : \A m \in Said(n) : m.seq <= l.seq).nbrs)
Hops(h) ==
    LET H[k \in Nat] == IF k = 0 THEN {h} ELSE H[k - 1] \cup UNION {Newest(n) : n \in H[k - 1]}
    IN H
Far == Cardinality(Addresses)

(* Type correctness of both parts. *)
TypeOK == DnsTypeOK /\ O!TypeOK

(* The address a proxy goes on with after a resolve that succeeded is that *)
(* of a server no other server is nearer than, by what the LSA file last   *)
(* said of each node: whenever the query came, and whatever became of the  *)
(* datagrams.                                                              *)
NearestDialed ==
    ~rr_flag => \A p \in Proxies \ waiting :
      rc[p] = 0 /\ dialed[p] # NULL =>
        \E k \in 1..Far : /\ dialed[p] \in Hops(p)[k] \cap ToSet(ServerNames)
                          /\ Hops(p)[k - 1] \cap ToSet(ServerNames) = {}

(* The name server crashes only in table mode, and only over a client that *)
(* announced itself but has no way to a server, or over a query of a host  *)
(* that is no client, since it never announced itself, or its name is a    *)
(* router's or a server's: a proxy, whose resolve never returns, or one    *)
(* whose query was too short to tell.                                      *)
CrashesOnlyUnrouted ==
    fate = "crashed" =>
      /\ ~rr_flag
      /\ \/ \E l \in heard : Hops(l.name)[Far] \cap ToSet(ServerNames) = {}
         \/ \E h \in (waiting \cap Proxies) \cup cut :
               Said(h) = {} \/ h \in Routers \cup ToSet(ServerNames)
=============================================================================
