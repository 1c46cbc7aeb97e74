----------------------------- MODULE PoolProofs -----------------------------
(***************************************************************************)
(* The pool's invariants hold for every table size, descriptor range and   *)
(* address set, and the pool implements Sessions.  Inv is the conjunction  *)
(* the runs check; it is inductive because the exact reference counts, the *)
(* ownership of descriptors and the shape of conns are carried together.   *)
(***************************************************************************)
EXTENDS Pool, FiniteSetTheorems, TLAPS

Inv == /\ TypeOK
       /\ ConnsWellFormed
       /\ RefCountsExact
       /\ SocketsOwned
       /\ SelectSetExact
       /\ CountersExact

-----------------------------------------------------------------------------
(* Facts about tables.  Every set of slots is finite. *)
LEMMA SlotSets ==
    ASSUME NEW S \in SUBSET Slots
    PROVE  /\ IsFiniteSet(S)
           /\ Cardinality(S) \in Nat
           /\ Cardinality(S) <= FD_SETSIZE
<1>1. FD_SETSIZE \in Nat /\ FD_SETSIZE - 1 \in Int
  BY PoolAssumption
<1>2. IsFiniteSet(Slots) /\ Cardinality(Slots) = FD_SETSIZE
  <2>1. 0 <= FD_SETSIZE - 1
    BY PoolAssumption
  <2> QED BY <1>1, <2>1, FS_Interval DEF Slots
<1> QED BY <1>1, <1>2, FS_Subset, FS_CardinalityType

(* Slots and indices compare as integers do. *)
LEMMA SlotsAreIntegers == Slots \subseteq Indices /\ Indices \subseteq Int
BY PoolAssumption DEF Slots, Indices

(* Filling a free slot adds that slot to the live ones. *)
LEMMA FillSlot ==
    ASSUME NEW tbl, NEW new, NEW i \in Slots,
           tbl[i] = NULL, new[i] # NULL,
           \A j \in Slots : j # i => new[j] = tbl[j]
    PROVE  /\ i \notin Live(tbl)
           /\ Live(new) = Live(tbl) \cup {i}
           /\ Cardinality(Live(new)) = Cardinality(Live(tbl)) + 1
<1>1. i \notin Live(tbl) /\ Live(new) = Live(tbl) \cup {i}
  BY DEF Live
<1>2. Live(tbl) \in SUBSET Slots
  BY DEF Live
<1>3. Cardinality(Live(tbl) \cup {i}) = Cardinality(Live(tbl)) + 1
  BY <1>1, <1>2, SlotSets, FS_AddElement
<1> QED BY <1>1, <1>3

(* Emptying a live slot removes that slot from the live ones. *)
LEMMA EmptySlot ==
    ASSUME NEW tbl, NEW new, NEW i \in Slots,
           tbl[i] # NULL, new[i] = NULL,
           \A j \in Slots : j # i => new[j] = tbl[j]
    PROVE  /\ i \in Live(tbl)
           /\ Live(new) = Live(tbl) \ {i}
           /\ Cardinality(Live(new)) = Cardinality(Live(tbl)) - 1
<1>1. i \in Live(tbl) /\ Live(new) = Live(tbl) \ {i}
  BY DEF Live
<1>2. Live(tbl) \in SUBSET Slots
  BY DEF Live
<1>3. Cardinality(Live(tbl) \ {i}) = Cardinality(Live(tbl)) - 1
  BY <1>1, <1>2, SlotSets, FS_RemoveElement
<1> QED BY <1>1, <1>3

(* Rewriting a live record leaves the live slots as they are. *)
LEMMA UpdateSlot ==
    ASSUME NEW tbl, NEW new, NEW i \in Slots,
           tbl[i] # NULL, new[i] # NULL,
           \A j \in Slots : j # i => new[j] = tbl[j]
    PROVE  Live(new) = Live(tbl)
BY DEF Live

(* Records are not the empty slot. *)
LEMMA RecordsNotNull ==
    /\ \A r \in ClientRec : r # NULL
    /\ \A r \in ServerRec : r # NULL
    /\ \A r \in ConnRec : r # NULL
BY PoolAssumption

-----------------------------------------------------------------------------
(* The empty pool satisfies the invariant. *)
LEMMA InitInv == PoolInit => Inv
<1> SUFFICES ASSUME PoolInit PROVE Inv
  OBVIOUS
<1>1. Live(client_l) = {} /\ Live(server_l) = {} /\ Live(conn_l) = {}
  BY DEF PoolInit, Live
<1>2. ClientFds = {} /\ ServerFds = {}
  BY <1>1 DEF ClientFds, ServerFds
<1>3. TypeOK
  BY PoolAssumption DEF PoolInit, TypeOK, Indices
<1>4. ConnsWellFormed /\ RefCountsExact /\ SocketsOwned
  BY <1>1, <1>2 DEF ConnsWellFormed, RefCountsExact, SocketsOwned
<1>5. SelectSetExact
  BY <1>2, PoolAssumption DEF PoolInit, SelectSetExact
<1>6. CountersExact
  BY <1>1, FS_EmptySet DEF PoolInit, CountersExact
<1> QED BY <1>3, <1>4, <1>5, <1>6 DEF Inv

(* A new client: a fresh descriptor in a fresh slot, with no conns. *)
LEMMA AcceptInv ==
    ASSUME Inv, NEW addr \in Addrs, Accept(addr)
    PROVE  Inv'
<1> USE DEF Inv
<1>1. PICK fd \in Fds :
        /\ LowestFree(fd)
        /\ open' = open \cup {fd}
        /\ \/ \E i \in Slots : AddClient(fd, addr, i)
           \/ Full(client_l) /\ UNCHANGED <<clientVars, read_nrdy, maxfd>>
  BY DEF Accept
<1>2. fd \notin open
  BY <1>1 DEF LowestFree
<1>3. UNCHANGED <<server_l, cur_server, max_serv_idx, conn_l, cur_conn, max_conn_idx, status>>
  BY DEF Accept, serverVars, connVars
<1>4. CASE Full(client_l) /\ UNCHANGED <<clientVars, read_nrdy, maxfd>>
  <2>1. UNCHANGED <<client_l, cur_client, max_clit_idx, read_nrdy, maxfd>>
    BY <1>4 DEF clientVars
  <2>2. UNCHANGED <<ClientFds, ServerFds>>
    BY <2>1, <1>3 DEF ClientFds, ServerFds, Live
  <2>3. TypeOK'
    BY <2>1, <1>1, <1>3 DEF TypeOK
  <2>4. ConnsWellFormed' /\ RefCountsExact'
    BY <2>1, <1>3 DEF ConnsWellFormed, RefCountsExact, Live, ConnsVia, ConnsOf
  <2>5. SocketsOwned'
    BY <2>1, <2>2, <1>1, <1>3 DEF SocketsOwned, Live
  <2>6. SelectSetExact'
    BY <2>1, <2>2, <1>1, <1>3 DEF SelectSetExact
  <2>7. CountersExact'
    BY <2>1, <1>3 DEF CountersExact, Live
  <2> QED BY <2>3, <2>4, <2>5, <2>6, <2>7
<1>5. ASSUME NEW i \in Slots, AddClient(fd, addr, i)
      PROVE  Inv'
  <2> DEFINE r == [fd |-> fd, addr |-> addr, num_serv |-> 0]
  <2>1. r \in ClientRec /\ r # NULL
    BY RecordsNotNull DEF ClientRec
  <2>2. /\ client_l' = [client_l EXCEPT ![i] = r]
        /\ client_l[i] = NULL
        /\ client_l \in [Slots -> ClientRec \cup {NULL}]
    BY <1>5 DEF AddClient, FirstFree, TypeOK
  <2>3. /\ i \notin Live(client_l)
        /\ Live(client_l') = Live(client_l) \cup {i}
        /\ Cardinality(Live(client_l')) = Cardinality(Live(client_l)) + 1
        /\ \A j \in Slots : j # i => client_l'[j] = client_l[j]
        /\ client_l'[i] = r
    <3> HIDE DEF r
    <3>1. client_l'[i] = r /\ \A j \in Slots : j # i => client_l'[j] = client_l[j]
      BY <2>2
    <3> QED BY <3>1, <2>1, <2>2, FillSlot
  <2>4. Live(server_l') = Live(server_l) /\ Live(conn_l') = Live(conn_l)
    BY <1>3
  <2>5. ClientFds' = ClientFds \cup {fd} /\ ServerFds' = ServerFds
    BY <2>3, <1>3 DEF ClientFds, ServerFds, Live
  <2>6. /\ read_nrdy' = read_nrdy \cup {fd}
        /\ maxfd' = Larger(fd, maxfd)
        /\ max_clit_idx' = Larger(i, max_clit_idx)
        /\ cur_client' = cur_client + 1
    BY <1>5 DEF AddClient
  <2>7. TypeOK'
    <3>1. client_l' \in [Slots -> ClientRec \cup {NULL}]
      BY <2>1, <2>2
    <3>2. max_clit_idx' \in Indices
      BY <2>6, PoolAssumption DEF TypeOK, Indices, Slots, Larger
    <3> QED BY <3>1, <3>2, <2>6, <1>1, <1>3, PoolAssumption DEF TypeOK, Larger
  <2>8. ConnsWellFormed'
    BY <2>3, <2>4, <1>3 DEF ConnsWellFormed, ConnsVia, Live, TypeOK, ConnRec
  <2>9. RefCountsExact'
    <3>1. ConnsOf(conn_l', i) = {}
      BY <2>3, <1>3 DEF ConnsOf, ConnsWellFormed, Live
    <3>2. \A c \in Live(client_l) : client_l'[c] = client_l[c] /\ ConnsOf(conn_l', c) = ConnsOf(conn_l, c)
      BY <2>3, <1>3 DEF Live, ConnsOf
    <3>3. client_l'[i].num_serv = Cardinality(ConnsOf(conn_l', i))
      BY <2>3, <3>1, FS_EmptySet
    <3> QED BY <3>2, <3>3, <2>3, <2>4, <1>3 DEF RefCountsExact
  <2>10. SocketsOwned'
    <3>1. fd \notin ClientFds \cup ServerFds /\ fd # ListenFd
      BY <1>2 DEF SocketsOwned, SelectSetExact, Accept
    <3> QED BY <3>1, <2>3, <2>4, <2>5, <1>1, <1>3 DEF SocketsOwned, ClientFds, Live
  <2>11. SelectSetExact'
    BY <2>5, <2>6, <1>1, <1>3, PoolAssumption DEF SelectSetExact, TypeOK, Larger
  <2>12. CountersExact'
    BY <2>3, <2>4, <2>6, <1>3 DEF CountersExact, Larger, TypeOK, Indices, Live, Slots
  <2> QED BY <2>7, <2>8, <2>9, <2>10, <2>11, <2>12
<1> QED BY <1>1, <1>4, <1>5

(* A new server on a fresh descriptor, or on none, and its conn to client c. *)
LEMMA NewServerInv ==
    ASSUME Inv, status = "serving",
           NEW c \in Slots, client_l[c] # NULL, NEW addr \in Addrs,
           NEW fd \in Fds \cup {NoFd}, fd \notin open,
           NewServer(fd, addr, c),
           open \subseteq open', open' \subseteq Fds, fd = NoFd \/ fd \in open'
    PROVE  Inv'
<1> USE DEF Inv
<1>1. PICK i \in Slots, k \in Slots : AddServer(fd, addr, i) /\ AddConn(c, i, k)
  BY DEF NewServer
<1>2. UNCHANGED <<cur_client, max_clit_idx, status>>
  BY DEF NewServer
<1> DEFINE srv == [fd |-> fd, addr |-> addr, num_clit |-> 1]
           con == [clit_idx |-> c, serv_idx |-> i]
           clt == [client_l[c] EXCEPT !.num_serv = @ + 1]
<1>3. /\ srv \in ServerRec /\ con \in ConnRec /\ clt \in ClientRec
      /\ srv # NULL /\ con # NULL /\ clt # NULL
  <2>1. client_l[c] \in ClientRec
    BY DEF TypeOK
  <2>2. srv \in ServerRec /\ con \in ConnRec /\ clt \in ClientRec
    BY <2>1 DEF ServerRec, ConnRec, ClientRec
  <2> QED BY <2>2, RecordsNotNull
<1>4. /\ clt.fd = client_l[c].fd
      /\ clt.num_serv = client_l[c].num_serv + 1
      /\ con.clit_idx = c /\ con.serv_idx = i
      /\ srv.fd = fd /\ srv.num_clit = 1
  BY DEF TypeOK, ClientRec
<1>5. /\ server_l \in [Slots -> ServerRec \cup {NULL}]
      /\ server_l' = [server_l EXCEPT ![i] = srv] /\ server_l[i] = NULL
  BY <1>1 DEF AddServer, FirstFree, TypeOK
<1>5b. /\ conn_l \in [Slots -> ConnRec \cup {NULL}]
       /\ conn_l' = [conn_l EXCEPT ![k] = con] /\ conn_l[k] = NULL
  BY <1>1 DEF AddConn, FirstFree, TypeOK
<1>5c. /\ client_l \in [Slots -> ClientRec \cup {NULL}]
       /\ client_l' = [client_l EXCEPT ![c] = clt]
  BY <1>1 DEF AddConn, TypeOK
<1> HIDE DEF srv, con, clt
<1>6. /\ i \notin Live(server_l)
      /\ Live(server_l') = Live(server_l) \cup {i}
      /\ Cardinality(Live(server_l')) = Cardinality(Live(server_l)) + 1
      /\ \A j \in Slots : j # i => server_l'[j] = server_l[j]
      /\ server_l'[i] = srv
  <2>1. server_l'[i] = srv /\ \A j \in Slots : j # i => server_l'[j] = server_l[j]
    BY <1>5
  <2>2. server_l[i] = NULL /\ server_l'[i] # NULL
    BY <2>1, <1>3, <1>5
  <2>3. /\ i \notin Live(server_l)
        /\ Live(server_l') = Live(server_l) \cup {i}
        /\ Cardinality(Live(server_l')) = Cardinality(Live(server_l)) + 1
    BY <2>1, <2>2, FillSlot
  <2> QED BY <2>1, <2>3
<1>7. /\ k \notin Live(conn_l)
      /\ Live(conn_l') = Live(conn_l) \cup {k}
      /\ Cardinality(Live(conn_l')) = Cardinality(Live(conn_l)) + 1
      /\ \A j \in Slots : j # k => conn_l'[j] = conn_l[j]
      /\ conn_l'[k] = con
  <2>1. conn_l'[k] = con /\ \A j \in Slots : j # k => conn_l'[j] = conn_l[j]
    BY <1>5b
  <2>2. conn_l[k] = NULL /\ conn_l'[k] # NULL
    BY <2>1, <1>3, <1>5b
  <2>3. /\ k \notin Live(conn_l)
        /\ Live(conn_l') = Live(conn_l) \cup {k}
        /\ Cardinality(Live(conn_l')) = Cardinality(Live(conn_l)) + 1
    BY <2>1, <2>2, FillSlot
  <2> QED BY <2>1, <2>3
<1>8. /\ Live(client_l') = Live(client_l)
      /\ \A j \in Slots : j # c => client_l'[j] = client_l[j]
      /\ client_l'[c] = clt
  <2>1. client_l'[c] = clt /\ \A j \in Slots : j # c => client_l'[j] = client_l[j]
    BY <1>5c
  <2> QED BY <2>1, <1>3, UpdateSlot
<1>9. /\ read_nrdy' = read_nrdy \cup {Bit(fd)}
      /\ maxfd' = Larger(fd, maxfd)
      /\ max_serv_idx' = Larger(i, max_serv_idx)
      /\ max_conn_idx' = Larger(k, max_conn_idx)
      /\ cur_server' = cur_server + 1
      /\ cur_conn' = cur_conn + 1
  BY <1>1 DEF AddServer, AddConn
<1>10. ClientFds' = ClientFds /\ ServerFds' = ServerFds \cup ({fd} \ {NoFd})
  <2>1. \A j \in Live(client_l) : client_l'[j].fd = client_l[j].fd
    BY <1>4, <1>8 DEF Live
  <2>2. \A j \in Live(server_l) : server_l'[j] = server_l[j]
    BY <1>6 DEF Live
  <2> QED BY <2>1, <2>2, <1>4, <1>6, <1>8 DEF ClientFds, ServerFds
<1>11. TypeOK'
  <2>1. /\ server_l' \in [Slots -> ServerRec \cup {NULL}]
        /\ conn_l' \in [Slots -> ConnRec \cup {NULL}]
        /\ client_l' \in [Slots -> ClientRec \cup {NULL}]
    BY <1>3, <1>5, <1>5b, <1>5c
  <2>2. max_serv_idx' \in Indices /\ max_conn_idx' \in Indices
    BY <1>9, PoolAssumption DEF TypeOK, Indices, Slots, Larger
  <2>3. maxfd' \in Fds /\ read_nrdy' \subseteq Fds \cup {AliasFd}
    BY <1>9, PoolAssumption DEF TypeOK, Larger, Bit, NoFd
  <2> QED BY <2>1, <2>2, <2>3, <1>2, <1>9 DEF TypeOK
<1>12. ConnsWellFormed'
  <2>1. \A s \in Live(server_l) : ConnsVia(conn_l', s) = ConnsVia(conn_l, s)
    BY <1>3, <1>4, <1>6, <1>7 DEF ConnsVia, Live
  <2>2. ConnsVia(conn_l', i) = {k}
    BY <1>3, <1>4, <1>6, <1>7 DEF ConnsVia, Live, ConnsWellFormed
  <2>3. \A j \in Live(conn_l') : /\ client_l'[conn_l'[j].clit_idx] # NULL
                                 /\ server_l'[conn_l'[j].serv_idx] # NULL
    BY <1>3, <1>4, <1>5, <1>5b, <1>5c, <1>6, <1>7, <1>8 DEF ConnsWellFormed, Live, ConnRec
  <2> QED BY <2>1, <2>2, <2>3, <1>6, <1>7 DEF ConnsWellFormed
<1>13. RefCountsExact'
  <2>1. ConnsOf(conn_l', c) = ConnsOf(conn_l, c) \cup {k} /\ k \notin ConnsOf(conn_l, c)
    BY <1>3, <1>4, <1>7 DEF ConnsOf, Live
  <2>2. Cardinality(ConnsOf(conn_l', c)) = Cardinality(ConnsOf(conn_l, c)) + 1
    BY <2>1, SlotSets, FS_AddElement DEF ConnsOf
  <2>3. client_l'[c].num_serv = Cardinality(ConnsOf(conn_l', c))
    BY <2>2, <1>4, <1>8 DEF RefCountsExact, Live
  <2>4. \A d \in Live(client_l) : d # c =>
          client_l'[d] = client_l[d] /\ ConnsOf(conn_l', d) = ConnsOf(conn_l, d)
    BY <1>3, <1>4, <1>7, <1>8 DEF ConnsOf, Live
  <2>5. \A d \in Live(client_l') : client_l'[d].num_serv = Cardinality(ConnsOf(conn_l', d))
    BY <2>3, <2>4, <1>8 DEF RefCountsExact
  <2>6. \A s \in Live(server_l') : server_l'[s].num_clit = 1
    BY <1>4, <1>6 DEF RefCountsExact, Live
  <2> QED BY <2>5, <2>6 DEF RefCountsExact
<1>14. SocketsOwned'
  <2>1. fd \notin ClientFds \cup ServerFds /\ fd # ListenFd
    BY PoolAssumption DEF SocketsOwned, SelectSetExact, NoFd
  <2>2. \A s, t \in Live(server_l') :
          server_l'[s].fd = server_l'[t].fd => s = t \/ server_l'[s].fd = NoFd
    BY <2>1, <1>4, <1>6 DEF SocketsOwned, ServerFds, Live
  <2>3. \A d, e \in Live(client_l') : client_l'[d].fd = client_l'[e].fd => d = e
    BY <1>4, <1>8 DEF SocketsOwned, Live
  <2> QED BY <2>1, <2>2, <2>3, <1>10 DEF SocketsOwned
<1>15. SelectSetExact'
  BY <1>9, <1>10, <1>2, PoolAssumption DEF SelectSetExact, TypeOK, Larger, Bit, NoFd
<1>16. CountersExact'
  <2>1. /\ cur_client' = Cardinality(Live(client_l'))
        /\ cur_server' = Cardinality(Live(server_l'))
        /\ cur_conn' = Cardinality(Live(conn_l'))
    BY <1>2, <1>6, <1>7, <1>8, <1>9 DEF CountersExact
  <2>2. \A j \in Live(client_l') : j <= max_clit_idx'
    BY <1>2, <1>8 DEF CountersExact
  <2>3. \A j \in Live(server_l') : j <= max_serv_idx'
    BY <1>6, <1>9, SlotsAreIntegers DEF CountersExact, Larger, TypeOK, Live
  <2>4. \A j \in Live(conn_l') : j <= max_conn_idx'
    BY <1>7, <1>9, SlotsAreIntegers DEF CountersExact, Larger, TypeOK, Live
  <2> QED BY <2>1, <2>2, <2>3, <2>4 DEF CountersExact
<1> QED BY <1>11, <1>12, <1>13, <1>14, <1>15, <1>16

(***************************************************************************)
(* Closing a conn frees its server, and its client exactly when no conn of *)
(* that client remains.                                                    *)
(***************************************************************************)
LEMMA CloseConnShape ==
    ASSUME Inv, NEW k \in Slots, CloseConn(k)
    PROVE  LET c == conn_l[k].clit_idx
               s == conn_l[k].serv_idx
               last == client_l[c].num_serv = 1
           IN /\ c \in Slots /\ s \in Slots
              /\ client_l[c] # NULL /\ server_l[s] # NULL /\ conn_l[k] # NULL
              /\ server_l' = [server_l EXCEPT ![s] = NULL]
              /\ conn_l' = [conn_l EXCEPT ![k] = NULL]
              /\ ConnsVia(conn_l, s) = {k}
              /\ k \in ConnsOf(conn_l, c)
              /\ ConnsOf(conn_l', c) = ConnsOf(conn_l, c) \ {k}
              /\ client_l[c].num_serv = Cardinality(ConnsOf(conn_l', c)) + 1
              /\ last <=> ConnsOf(conn_l', c) = {}
              /\ last => client_l' = [client_l EXCEPT ![c] = NULL]
              /\ ~last => client_l' = [client_l EXCEPT ![c].num_serv = @ - 1]
              /\ cur_server' = cur_server - 1
              /\ cur_client' = IF last THEN cur_client - 1 ELSE cur_client
              /\ cur_conn' = cur_conn - 1
<1> DEFINE c == conn_l[k].clit_idx
           s == conn_l[k].serv_idx
<1> USE DEF Inv
<1>1. c \in Slots /\ s \in Slots /\ conn_l[k] # NULL
  BY DEF CloseConn, Release, TypeOK, ConnRec
<1>2. client_l[c] # NULL /\ server_l[s] # NULL
  BY <1>1 DEF ConnsWellFormed, Live
<1>3. server_l[s].num_clit = 1
  BY <1>1, <1>2 DEF RefCountsExact, Live
<1>4. k \in ConnsOf(conn_l, c) /\ k \in ConnsVia(conn_l, s)
  BY <1>1 DEF ConnsOf, ConnsVia
<1>5. ConnsVia(conn_l, s) = {k}
  BY <1>1, <1>2, <1>4 DEF ConnsWellFormed, Live
<1>6. conn_l' = [conn_l EXCEPT ![k] = NULL] /\ conn_l \in [Slots -> ConnRec \cup {NULL}]
  BY DEF CloseConn, Release, TypeOK
<1>7. ConnsOf(conn_l', c) = ConnsOf(conn_l, c) \ {k}
  <2> HIDE DEF c
  <2> QED BY <1>6 DEF ConnsOf
<1>8. /\ client_l[c].num_serv = Cardinality(ConnsOf(conn_l, c))
      /\ Cardinality(ConnsOf(conn_l', c)) = Cardinality(ConnsOf(conn_l, c)) - 1
      /\ Cardinality(ConnsOf(conn_l', c)) \in Nat
      /\ Cardinality(ConnsOf(conn_l, c)) \in Nat
      /\ ConnsOf(conn_l', c) = {} <=> Cardinality(ConnsOf(conn_l', c)) = 0
  <2> HIDE DEF c
  <2>1. ConnsOf(conn_l, c) \in SUBSET Slots /\ ConnsOf(conn_l', c) \in SUBSET Slots
    BY DEF ConnsOf
  <2>2. client_l[c].num_serv = Cardinality(ConnsOf(conn_l, c))
    BY <1>1, <1>2 DEF RefCountsExact, Live
  <2>3. Cardinality(ConnsOf(conn_l', c)) = Cardinality(ConnsOf(conn_l, c)) - 1
    BY <1>4, <1>7, <2>1, SlotSets, FS_RemoveElement
  <2> QED BY <2>1, <2>2, <2>3, SlotSets, FS_EmptySet
<1>9. /\ client_l[c].num_serv = Cardinality(ConnsOf(conn_l', c)) + 1
      /\ client_l[c].num_serv = 1 <=> ConnsOf(conn_l', c) = {}
  BY <1>8
<1>10. /\ server_l' = [server_l EXCEPT ![s] = NULL]
       /\ client_l[c].num_serv = 1 => client_l' = [client_l EXCEPT ![c] = NULL]
       /\ client_l[c].num_serv # 1 => client_l' = [client_l EXCEPT ![c].num_serv = @ - 1]
       /\ cur_server' = cur_server - 1
       /\ cur_client' = IF client_l[c].num_serv = 1 THEN cur_client - 1 ELSE cur_client
       /\ cur_conn' = cur_conn - 1
  <2>1. /\ server_l' = IF server_l[s].num_clit = 1 THEN [server_l EXCEPT ![s] = NULL]
                        ELSE [server_l EXCEPT ![s].num_clit = @ - 1]
        /\ client_l' = IF client_l[c].num_serv = 1 THEN [client_l EXCEPT ![c] = NULL]
                        ELSE [client_l EXCEPT ![c].num_serv = @ - 1]
    BY DEF CloseConn, Release
  <2>2. /\ cur_server' = IF server_l[s].num_clit = 1 THEN cur_server - 1 ELSE cur_server
        /\ cur_client' = IF client_l[c].num_serv = 1 THEN cur_client - 1 ELSE cur_client
        /\ cur_conn' = cur_conn - 1
    BY DEF CloseConn, Release
  <2> HIDE DEF c, s
  <2> QED BY <1>3, <2>1, <2>2
<1> QED BY <1>1, <1>2, <1>4, <1>5, <1>6, <1>7, <1>9, <1>10

LEMMA CloseConnInv ==
    ASSUME Inv, NEW k \in Slots, CloseConn(k)
    PROVE  Inv'
<1> DEFINE c == conn_l[k].clit_idx
           s == conn_l[k].serv_idx
           last == client_l[c].num_serv = 1
           closed == {fd \in Fds \cup {NoFd} : \/ fd = server_l[s].fd
                                               \/ last /\ fd = client_l[c].fd}
<1> USE DEF Inv
<1>1. /\ c \in Slots /\ s \in Slots
      /\ client_l[c] # NULL /\ server_l[s] # NULL /\ conn_l[k] # NULL
      /\ ConnsVia(conn_l, s) = {k}
      /\ k \in ConnsOf(conn_l, c)
      /\ ConnsOf(conn_l', c) = ConnsOf(conn_l, c) \ {k}
      /\ client_l[c].num_serv = Cardinality(ConnsOf(conn_l', c)) + 1
      /\ last <=> ConnsOf(conn_l', c) = {}
  BY CloseConnShape
<1>2. /\ server_l' = [server_l EXCEPT ![s] = NULL]
      /\ conn_l' = [conn_l EXCEPT ![k] = NULL]
      /\ last => client_l' = [client_l EXCEPT ![c] = NULL]
      /\ ~last => client_l' = [client_l EXCEPT ![c].num_serv = @ - 1]
  BY CloseConnShape
<1>3. /\ cur_server' = cur_server - 1
      /\ cur_client' = IF last THEN cur_client - 1 ELSE cur_client
      /\ cur_conn' = cur_conn - 1
  BY CloseConnShape
<1>4. open' = open \ closed /\ read_nrdy' = read_nrdy \ {Bit(fd) : fd \in closed}
  <2>1. server_l[s].num_clit = 1
    BY <1>1 DEF RefCountsExact, Live
  <2> QED BY <2>1 DEF CloseConn, Release
<1>5. /\ UNCHANGED <<max_clit_idx, max_serv_idx, max_conn_idx, maxfd, status>>
      /\ status = "serving"
  BY DEF CloseConn, Release
<1>6. /\ client_l \in [Slots -> ClientRec \cup {NULL}]
      /\ server_l \in [Slots -> ServerRec \cup {NULL}]
      /\ conn_l \in [Slots -> ConnRec \cup {NULL}]
      /\ client_l[c] \in ClientRec /\ server_l[s] \in ServerRec
  BY <1>1 DEF TypeOK
<1>7. Cardinality(ConnsOf(conn_l', c)) \in Nat
  <2> HIDE DEF c
  <2>1. ConnsOf(conn_l', c) \in SUBSET Slots
    BY DEF ConnsOf
  <2> QED BY <2>1, SlotSets
<1> HIDE DEF c, s, last, closed
<1>8. /\ Live(server_l') = Live(server_l) \ {s}
      /\ Cardinality(Live(server_l')) = Cardinality(Live(server_l)) - 1
      /\ \A j \in Slots : j # s => server_l'[j] = server_l[j]
  <2>1. server_l'[s] = NULL /\ \A j \in Slots : j # s => server_l'[j] = server_l[j]
    BY <1>1, <1>2, <1>6
  <2> QED BY <2>1, <1>1, EmptySlot
<1>9. /\ Live(conn_l') = Live(conn_l) \ {k}
      /\ Cardinality(Live(conn_l')) = Cardinality(Live(conn_l)) - 1
      /\ \A j \in Slots : j # k => conn_l'[j] = conn_l[j]
      /\ conn_l'[k] = NULL
  <2>1. conn_l'[k] = NULL /\ \A j \in Slots : j # k => conn_l'[j] = conn_l[j]
    BY <1>1, <1>2, <1>6
  <2> QED BY <2>1, <1>1, EmptySlot
<1>10. ASSUME last
       PROVE  /\ Live(client_l') = Live(client_l) \ {c}
              /\ Cardinality(Live(client_l')) = Cardinality(Live(client_l)) - 1
              /\ \A j \in Slots : j # c => client_l'[j] = client_l[j]
              /\ client_l' \in [Slots -> ClientRec \cup {NULL}]
              /\ ClientFds' = ClientFds \ {client_l[c].fd}
  <2>1. client_l'[c] = NULL /\ \A j \in Slots : j # c => client_l'[j] = client_l[j]
    BY <1>1, <1>2, <1>6, <1>10
  <2>2. /\ Live(client_l') = Live(client_l) \ {c}
        /\ Cardinality(Live(client_l')) = Cardinality(Live(client_l)) - 1
    BY <2>1, <1>1, EmptySlot
  <2>3. ClientFds' = ClientFds \ {client_l[c].fd}
    BY <2>1, <2>2, <1>1 DEF ClientFds, Live, SocketsOwned
  <2> QED BY <2>1, <2>2, <2>3, <1>2, <1>6, <1>10
<1>11. ASSUME ~last
       PROVE  /\ Live(client_l') = Live(client_l)
              /\ \A j \in Slots : j # c => client_l'[j] = client_l[j]
              /\ client_l'[c].num_serv = client_l[c].num_serv - 1
              /\ client_l'[c].fd = client_l[c].fd
              /\ client_l' \in [Slots -> ClientRec \cup {NULL}]
              /\ ClientFds' = ClientFds
  <2> DEFINE r == [client_l[c] EXCEPT !.num_serv = @ - 1]
  <2>1. client_l' = [client_l EXCEPT ![c] = r]
    BY <1>2, <1>11
  <2>2. /\ r \in ClientRec
        /\ r.num_serv = client_l[c].num_serv - 1 /\ r.fd = client_l[c].fd
    <3>1. client_l[c].num_serv - 1 \in Nat
      BY <1>1, <1>7
    <3> QED BY <3>1, <1>6 DEF ClientRec
  <2> HIDE DEF r
  <2>3. client_l'[c] = r /\ \A j \in Slots : j # c => client_l'[j] = client_l[j]
    BY <2>1, <1>1, <1>6
  <2>4. r # NULL
    BY <2>2, RecordsNotNull
  <2>5. Live(client_l') = Live(client_l)
    BY <2>3, <2>4, <1>1, UpdateSlot
  <2>6. ClientFds' = ClientFds
    BY <2>2, <2>3, <2>5 DEF ClientFds, Live
  <2> QED BY <2>1, <2>2, <2>3, <2>5, <2>6, <1>6
<1>12. ServerFds' = ServerFds \ {server_l[s].fd}
  BY <1>1, <1>8 DEF ServerFds, Live, SocketsOwned
<1>13. TypeOK'
  <2>1. /\ server_l' \in [Slots -> ServerRec \cup {NULL}]
        /\ conn_l' \in [Slots -> ConnRec \cup {NULL}]
    BY <1>2, <1>6
  <2>2. client_l' \in [Slots -> ClientRec \cup {NULL}]
    BY <1>10, <1>11
  <2>3. /\ cur_client' \in Int /\ cur_server' \in Int /\ cur_conn' \in Int
        /\ read_nrdy' \subseteq Fds \cup {AliasFd} /\ open' \subseteq Fds
    BY <1>3, <1>4 DEF TypeOK
  <2> QED BY <2>1, <2>2, <2>3, <1>5 DEF TypeOK
<1>14. ConnsWellFormed'
  <2>1. \A j \in Live(conn_l') : conn_l'[j] = conn_l[j] /\ j # k
    BY <1>9 DEF Live
  <2>2. \A j \in Live(conn_l') : conn_l[j].serv_idx # s
    BY <2>1, <1>1, <1>9 DEF ConnsVia, Live
  <2>3. \A j \in Live(conn_l') : server_l'[conn_l'[j].serv_idx] # NULL
    BY <2>1, <2>2, <1>6, <1>8, <1>9 DEF ConnsWellFormed, Live, ConnRec
  <2>4. \A j \in Live(conn_l') : last => conn_l[j].clit_idx # c
    BY <2>1, <1>1, <1>9 DEF ConnsOf, Live
  <2>5. \A j \in Live(conn_l') : client_l'[conn_l'[j].clit_idx] # NULL
    <3> SUFFICES ASSUME NEW j \in Live(conn_l')
                 PROVE  client_l'[conn_l'[j].clit_idx] # NULL
      OBVIOUS
    <3>1. conn_l[j].clit_idx \in Live(client_l) /\ conn_l'[j] = conn_l[j]
      BY <2>1, <1>6, <1>9 DEF ConnsWellFormed, Live, ConnRec
    <3>2. conn_l[j].clit_idx \in Live(client_l')
      BY <3>1, <2>4, <1>10, <1>11
    <3> QED BY <3>1, <3>2 DEF Live
  <2>6. \A t \in Live(server_l') : ConnsVia(conn_l', t) = ConnsVia(conn_l, t)
    BY <1>1, <1>8, <1>9 DEF ConnsVia, Live
  <2>7. \A t \in Live(server_l') : \E j \in Live(conn_l') : ConnsVia(conn_l', t) = {j}
    BY <2>6, <1>8, <1>9 DEF ConnsWellFormed, Live, ConnsVia
  <2> QED BY <2>3, <2>5, <2>7 DEF ConnsWellFormed
<1>15. RefCountsExact'
  <2>1. \A t \in Live(server_l') : server_l'[t].num_clit = 1
    BY <1>8 DEF RefCountsExact, Live
  <2>2. \A d \in Live(client_l') : d # c =>
          client_l'[d] = client_l[d] /\ ConnsOf(conn_l', d) = ConnsOf(conn_l, d)
    <3> SUFFICES ASSUME NEW d \in Live(client_l'), d # c
                 PROVE  client_l'[d] = client_l[d] /\ ConnsOf(conn_l', d) = ConnsOf(conn_l, d)
      OBVIOUS
    <3>1. client_l'[d] = client_l[d]
      BY <1>10, <1>11 DEF Live
    <3>2. conn_l[k].clit_idx # d
      BY <1>1 DEF ConnsOf
    <3> QED BY <3>1, <3>2, <1>9 DEF ConnsOf
  <2>3. c \in Live(client_l') => client_l'[c].num_serv = Cardinality(ConnsOf(conn_l', c))
    BY <1>1, <1>7, <1>10, <1>11
  <2>4. \A d \in Live(client_l') : client_l'[d].num_serv = Cardinality(ConnsOf(conn_l', d))
    <3> SUFFICES ASSUME NEW d \in Live(client_l')
                 PROVE  client_l'[d].num_serv = Cardinality(ConnsOf(conn_l', d))
      OBVIOUS
    <3>1. d # c => d \in Live(client_l)
      BY <1>10, <1>11
    <3> QED BY <3>1, <2>2, <2>3 DEF RefCountsExact
  <2> QED BY <2>1, <2>4 DEF RefCountsExact
<1>16. ClientFds' \subseteq ClientFds /\ (last => client_l[c].fd \notin ClientFds')
  BY <1>10, <1>11
<1>17. server_l[s].fd \notin ClientFds /\ client_l[c].fd \notin ServerFds
  <2>1. NoFd \notin ClientFds
    <3>1. \A d \in Live(client_l) : client_l[d].fd \in Fds
      BY DEF TypeOK, Live, ClientRec
    <3> QED BY <3>1, PoolAssumption DEF ClientFds, NoFd
  <2>2. server_l[s].fd = NoFd \/ server_l[s].fd \in ServerFds
    BY <1>1 DEF ServerFds, Live
  <2>3. client_l[c].fd \in ClientFds
    BY <1>1 DEF ClientFds, Live
  <2> QED BY <2>1, <2>2, <2>3 DEF SocketsOwned
<1>18. SocketsOwned'
  <2>1. \A d, e \in Live(client_l') : client_l'[d].fd = client_l'[e].fd => d = e
    BY <1>1, <1>10, <1>11 DEF SocketsOwned, Live
  <2>2. \A t, u \in Live(server_l') :
          server_l'[t].fd = server_l'[u].fd => t = u \/ server_l'[t].fd = NoFd
    BY <1>8 DEF SocketsOwned, Live
  <2>3. ClientFds' \cup ServerFds' \subseteq open'
    <3>1. server_l[s].fd \notin ClientFds'
      BY <1>16, <1>17
    <3>2. last => client_l[c].fd \notin ServerFds'
      BY <1>1, <1>12 DEF SocketsOwned, ClientFds, Live
    <3> QED BY <3>1, <3>2, <1>4, <1>12, <1>16 DEF SocketsOwned, closed
  <2> QED BY <2>1, <2>2, <2>3, <1>12, <1>16 DEF SocketsOwned
<1>19. SelectSetExact'
  <2>1. /\ client_l[c].fd \in Fds
        /\ server_l[s].fd \in Fds \cup {NoFd}
    BY <1>6 DEF ClientRec, ServerRec
  <2>2. {Bit(fd) : fd \in closed} \ {AliasFd}
          = ({server_l[s].fd} \cup (IF last THEN {client_l[c].fd} ELSE {})) \ {NoFd}
    BY <2>1, PoolAssumption DEF Bit, closed, NoFd
  <2>3. server_l[s].fd \notin ClientFds /\ client_l[c].fd \notin ServerFds
    BY <1>17
  <2>4. server_l[s].fd # ListenFd /\ client_l[c].fd # ListenFd
    BY <1>1, PoolAssumption DEF SocketsOwned, ServerFds, ClientFds, Live, NoFd
  <2>5. NoFd \notin ClientFds \cup ServerFds \cup {ListenFd}
    BY PoolAssumption DEF ClientFds, ServerFds, Live, TypeOK, ClientRec, NoFd
  <2>6. ClientFds' = ClientFds \ (IF last THEN {client_l[c].fd} ELSE {})
    BY <1>10, <1>11
  <2>7. read_nrdy' \ {AliasFd} = {ListenFd} \cup ClientFds' \cup ServerFds'
    BY <2>2, <2>3, <2>4, <2>5, <2>6, <1>4, <1>12 DEF SelectSetExact
  <2>8. ListenFd \in open'
    BY <2>4, <1>4, <1>5 DEF SelectSetExact, closed
  <2> QED BY <2>7, <2>8, <1>4, <1>5, <1>18 DEF SelectSetExact, SocketsOwned
<1>20. CountersExact'
  BY <1>3, <1>5, <1>8, <1>9, <1>10, <1>11 DEF CountersExact
<1> QED BY <1>13, <1>14, <1>15, <1>18, <1>19, <1>20

(* Every step of the pool preserves the invariant. *)
LEMMA NextInv == Inv /\ [PoolNext]_poolVars => Inv'
<1> SUFFICES ASSUME Inv, [PoolNext]_poolVars PROVE Inv'
  OBVIOUS
<1>1. ASSUME NEW addr \in Addrs, Accept(addr) PROVE Inv'
  BY <1>1, AcceptInv
<1>2. CASE AcceptFails
  <2>1. /\ UNCHANGED <<client_l, cur_client, max_clit_idx, server_l, cur_server, max_serv_idx>>
        /\ UNCHANGED <<conn_l, cur_conn, max_conn_idx, read_nrdy, maxfd>>
        /\ open' = open \ {ListenFd} /\ status' = "deaf"
    BY <1>2 DEF AcceptFails, clientVars, serverVars, connVars
  <2>2. UNCHANGED <<ClientFds, ServerFds>>
    BY <2>1 DEF ClientFds, ServerFds, Live
  <2>3. TypeOK' /\ ConnsWellFormed' /\ RefCountsExact' /\ CountersExact'
    BY <2>1 DEF Inv, TypeOK, ConnsWellFormed, RefCountsExact, CountersExact, Live, ConnsOf, ConnsVia
  <2>4. SocketsOwned' /\ SelectSetExact'
    BY <2>1, <2>2 DEF Inv, SocketsOwned, SelectSetExact, Live
  <2> QED BY <2>3, <2>4 DEF Inv
<1>3. ASSUME NEW c \in Slots, NEW addr \in Addrs, WantsServer(c, addr)
      PROVE  status = "serving" /\ client_l[c] # NULL /\ NoFd \notin open /\ open \subseteq Fds
  BY <1>3, PoolAssumption DEF WantsServer, Inv, TypeOK, NoFd
<1>4. ASSUME NEW c \in Slots, NEW addr \in Addrs, Connect(c, addr) PROVE Inv'
  <2>1. PICK fd \in Fds : LowestFree(fd) /\ open' = open \cup {fd} /\ NewServer(fd, addr, c)
    BY <1>4 DEF Connect
  <2>2. fd \notin open /\ open \subseteq open' /\ open' \subseteq Fds /\ fd \in open'
    BY <2>1, <1>3, <1>4 DEF LowestFree, Connect
  <2> QED BY <2>1, <2>2, <1>3, <1>4, NewServerInv DEF Connect
<1>5. ASSUME NEW c \in Slots, NEW addr \in Addrs, ConnectFails(c, addr) PROVE Inv'
  <2>1. open \subseteq open' /\ open' \subseteq Fds /\ NewServer(NoFd, addr, c)
    BY <1>3, <1>5 DEF ConnectFails
  <2> QED BY <2>1, <1>3, <1>5, NewServerInv DEF ConnectFails
<1>6. ASSUME NEW c \in Slots, NEW addr \in Addrs, SocketFails(c, addr) PROVE Inv'
  <2>1. open \subseteq open' /\ open' \subseteq Fds /\ NewServer(NoFd, addr, c)
    BY <1>3, <1>6 DEF SocketFails
  <2> QED BY <2>1, <1>3, <1>6, NewServerInv DEF SocketFails
<1>7. ASSUME NEW k \in Slots, CloseConn(k) PROVE Inv'
  BY <1>7, CloseConnInv
<1>8. CASE \/ \E c \in Slots, addr \in Addrs : Overrun(c, addr)
           \/ UNCHANGED poolVars
  <2>1. /\ UNCHANGED <<client_l, cur_client, max_clit_idx, server_l, cur_server, max_serv_idx>>
        /\ UNCHANGED <<conn_l, cur_conn, max_conn_idx, read_nrdy, maxfd, open>>
        /\ status' \in {status, "overrun"}
    BY <1>8 DEF Overrun, poolVars, clientVars, serverVars, connVars, fdVars
  <2>2. UNCHANGED <<ClientFds, ServerFds>>
    BY <2>1 DEF ClientFds, ServerFds, Live
  <2>3. TypeOK' /\ ConnsWellFormed' /\ RefCountsExact' /\ CountersExact'
    BY <2>1 DEF Inv, TypeOK, ConnsWellFormed, RefCountsExact, CountersExact, Live, ConnsOf, ConnsVia
  <2>4. SocketsOwned' /\ SelectSetExact'
    BY <2>1, <2>2 DEF Inv, SocketsOwned, SelectSetExact, Live
  <2> QED BY <2>3, <2>4 DEF Inv
<1> QED BY <1>1, <1>2, <1>4, <1>5, <1>6, <1>7, <1>8 DEF PoolNext

-----------------------------------------------------------------------------
(* The invariant the runs check holds of every behaviour of the pool. *)
THEOREM PoolInv == PoolSpec => []Inv
<1>1. PoolInit => Inv
  BY InitInv
<1>2. Inv /\ [PoolNext]_poolVars => Inv'
  BY NextInv
<1> QED BY <1>1, <1>2, PTL DEF PoolSpec

(* Its type-correctness conjunct. *)
THEOREM PoolTypeCorrect == PoolSpec => []TypeOK
<1>1. Inv => TypeOK
  BY DEF Inv
<1> QED BY <1>1, PoolInv, PTL

(***************************************************************************)
(* Reference counts are exact: the assertions of close_conn cannot fail    *)
(* and a client socket outlives all its connections but no longer.         *)
(***************************************************************************)
THEOREM PoolRefCounts == PoolSpec => []RefCountsExact
<1>1. Inv => RefCountsExact
  BY DEF Inv
<1> QED BY <1>1, PoolInv, PTL

(***************************************************************************)
(* Conns name live records and each server has exactly one: the lookup of  *)
(* server2client never fails and never finds another viewer.               *)
(***************************************************************************)
THEOREM PoolConns == PoolSpec => []ConnsWellFormed
<1>1. Inv => ConnsWellFormed
  BY DEF Inv
<1> QED BY <1>1, PoolInv, PTL

(* The counters are exact and the bounded scans miss no live record. *)
THEOREM PoolCounters == PoolSpec => []CountersExact
<1>1. Inv => CountersExact
  BY DEF Inv
<1> QED BY <1>1, PoolInv, PTL

(* No descriptor has two owners, and none is held after it is closed. *)
THEOREM PoolSockets == PoolSpec => []SocketsOwned
<1>1. Inv => SocketsOwned
  BY DEF Inv
<1> QED BY <1>1, PoolInv, PTL

(* select is given the sockets of live records and no other. *)
THEOREM PoolSelectSet == PoolSpec => []SelectSetExact
<1>1. Inv => SelectSetExact
  BY DEF Inv
<1> QED BY <1>1, PoolInv, PTL

(***************************************************************************)
(* cur_conn never exceeds the table, so the test that guards accept in the *)
(* event loop, cur_conn <= FD_SETSIZE, is always true: it limits nothing.  *)
(***************************************************************************)
THEOREM AcceptGuardVacuous == PoolSpec => [](cur_conn <= FD_SETSIZE)
<1>1. Inv => cur_conn <= FD_SETSIZE
  <2>1. Live(conn_l) \in SUBSET Slots
    BY DEF Live
  <2> QED BY <2>1, SlotSets DEF Inv, CountersExact
<1> QED BY <1>1, PoolInv, PTL

-----------------------------------------------------------------------------
(* Where the code comes to index a table with -1, a table is full, for a   *)
(* client that is there, and it stays so: nothing runs after it.           *)
Stuffed == status = "overrun" => /\ Full(server_l) \/ Full(conn_l)
                                 /\ \E c \in Slots : client_l[c] # NULL

LEMMA StuffedNext == Stuffed /\ [PoolNext]_poolVars => Stuffed'
<1> SUFFICES ASSUME Stuffed, [PoolNext]_poolVars PROVE Stuffed'
  OBVIOUS
<1>1. CASE \E c \in Slots, addr \in Addrs : Overrun(c, addr)
  BY <1>1 DEF Overrun, WantsServer, Stuffed, clientVars, serverVars, connVars, Full
<1>2. CASE UNCHANGED poolVars
  BY <1>2 DEF poolVars, clientVars, serverVars, connVars, Stuffed, Full
<1>3. CASE \/ \E addr \in Addrs : Accept(addr)
           \/ AcceptFails
           \/ \E c \in Slots, addr \in Addrs :
                 Connect(c, addr) \/ ConnectFails(c, addr) \/ SocketFails(c, addr)
           \/ \E k \in Slots : CloseConn(k)
  <2>1. status' # "overrun"
    BY <1>3 DEF Accept, AcceptFails, Connect, ConnectFails, SocketFails, WantsServer, NewServer,
                CloseConn, Release
  <2> QED BY <2>1 DEF Stuffed
<1> QED BY <1>1, <1>2, <1>3 DEF PoolNext

(* A full table of conns takes as many servers: no two conns share one. *)
LEMMA FullOfServers ==
    ASSUME Inv, Full(server_l) \/ Full(conn_l)
    PROVE  Cardinality(Live(server_l)) = FD_SETSIZE
<1>1. IsFiniteSet(Slots) /\ Cardinality(Slots) = FD_SETSIZE
  <2>1. FD_SETSIZE \in Nat /\ FD_SETSIZE - 1 \in Int /\ 0 <= FD_SETSIZE - 1
    BY PoolAssumption
  <2> QED BY <2>1, FS_Interval DEF Slots
<1>2. CASE Full(server_l)
  <2>1. Live(server_l) = Slots
    BY <1>2 DEF Full, Live
  <2> QED BY <2>1, <1>1
<1>3. CASE Full(conn_l)
  <2> DEFINE via == [k \in Slots |-> conn_l[k].serv_idx]
  <2>1. \A k \in Slots : k \in Live(conn_l) /\ conn_l[k].serv_idx \in Live(server_l)
    BY <1>3 DEF Full, Live, Inv, TypeOK, ConnsWellFormed, ConnRec
  <2>2. ASSUME NEW j \in Slots, NEW k \in Slots, via[j] = via[k] PROVE j = k
    <3>1. PICK l : ConnsVia(conn_l, conn_l[j].serv_idx) = {l}
      BY <2>1 DEF Inv, ConnsWellFormed
    <3>2. {j, k} \subseteq ConnsVia(conn_l, conn_l[j].serv_idx)
      BY <2>1, <2>2 DEF ConnsVia, Live
    <3> QED BY <3>1, <3>2
  <2>3. via \in Injection(Slots, Live(server_l))
    BY <2>1, <2>2 DEF Injection, IsInjective
  <2>4. Live(server_l) \in SUBSET Slots
    BY DEF Live
  <2>5. IsFiniteSet(Live(server_l)) /\ Cardinality(Live(server_l)) <= FD_SETSIZE
    BY <2>4, SlotSets
  <2>6. Cardinality(Slots) <= Cardinality(Live(server_l))
    BY <2>3, <2>5, FS_Injection
  <2>7. Cardinality(Live(server_l)) \in Nat /\ FD_SETSIZE \in Nat
    BY <2>4, SlotSets, PoolAssumption
  <2> QED BY <1>1, <2>5, <2>6, <2>7
<1> QED BY <1>2, <1>3

(* Live clients and opened servers have as many descriptors as records. *)
LEMMA SocketCount ==
    ASSUME Inv
    PROVE  /\ IsFiniteSet(ClientFds) /\ Cardinality(ClientFds) = Cardinality(Live(client_l))
           /\ IsFiniteSet(ServerFds)
           /\ Cardinality(ServerFds) = Cardinality(Live(server_l) \ UnopenedServers)
<1> DEFINE opened == Live(server_l) \ UnopenedServers
           cfd == [c \in Live(client_l) |-> client_l[c].fd]
           sfd == [s \in opened |-> server_l[s].fd]
<1>1. IsFiniteSet(Live(client_l)) /\ IsFiniteSet(opened)
  <2>1. Live(client_l) \in SUBSET Slots /\ opened \in SUBSET Slots
    BY DEF Live
  <2> QED BY <2>1, SlotSets
<1>2. cfd \in Surjection(Live(client_l), ClientFds) /\ cfd \in Injection(Live(client_l), ClientFds)
  BY DEF Surjection, Injection, IsInjective, ClientFds, Inv, SocketsOwned
<1>3. ServerFds = {server_l[s].fd : s \in opened}
  BY DEF ServerFds, UnopenedServers
<1>4. sfd \in Surjection(opened, ServerFds) /\ sfd \in Injection(opened, ServerFds)
  <2>1. sfd \in Surjection(opened, ServerFds)
    BY <1>3 DEF Surjection
  <2>2. \A s, t \in opened : sfd[s] = sfd[t] => s = t
    BY DEF Inv, SocketsOwned, UnopenedServers
  <2> QED BY <1>3, <2>1, <2>2 DEF Injection, IsInjective
<1>5. IsFiniteSet(ClientFds) /\ Cardinality(ClientFds) = Cardinality(Live(client_l))
  BY <1>1, <1>2, FS_Surjection
<1>6. IsFiniteSet(ServerFds) /\ Cardinality(ServerFds) = Cardinality(opened)
  BY <1>1, <1>4, FS_Surjection
<1> QED BY <1>5, <1>6

(***************************************************************************)
(* The process indexes a table with -1 only with more sockets in use,      *)
(* those that never opened counted, than a table has slots: however many   *)
(* connections were made, shared and closed, no slot was lost on the way.  *)
(***************************************************************************)
THEOREM PoolOverrun == PoolSpec => []OverrunOnlyWhenFull
<1>1. PoolInit => Stuffed
  BY DEF PoolInit, Stuffed
<1>2. Inv /\ Stuffed => OverrunOnlyWhenFull
  <2> SUFFICES ASSUME Inv, Stuffed, status = "overrun"
               PROVE  Cardinality(ClientFds \cup ServerFds) + Cardinality(UnopenedServers) > FD_SETSIZE
    BY DEF OverrunOnlyWhenFull
  <2>1. Cardinality(Live(server_l)) = FD_SETSIZE
    BY FullOfServers DEF Stuffed
  <2>2. /\ Live(server_l) \in SUBSET Slots /\ UnopenedServers \in SUBSET Slots
        /\ Live(client_l) \in SUBSET Slots
        /\ Live(server_l) \cap UnopenedServers = UnopenedServers
    BY DEF Live, UnopenedServers
  <2>3. /\ IsFiniteSet(Live(server_l)) /\ IsFiniteSet(Live(client_l))
        /\ Cardinality(Live(client_l)) \in Nat /\ Cardinality(UnopenedServers) \in Nat
    BY <2>2, SlotSets
  <2>4. Cardinality(Live(server_l) \ UnopenedServers) = FD_SETSIZE - Cardinality(UnopenedServers)
    BY <2>1, <2>2, <2>3, FS_Difference
  <2>5. Live(client_l) # {}
    BY DEF Stuffed, Live
  <2>6. Cardinality(Live(client_l)) > 0
    BY <2>3, <2>5, FS_EmptySet
  <2>7. Cardinality(ClientFds \cup ServerFds) = Cardinality(ClientFds) + Cardinality(ServerFds)
    <3>1. ClientFds \cap ServerFds = {}
      BY DEF Inv, SocketsOwned
    <3>2. Cardinality(ClientFds \cap ServerFds) = 0
      BY <3>1, FS_EmptySet
    <3>3. Cardinality(ClientFds) \in Nat /\ Cardinality(ServerFds) \in Nat
      BY SocketCount, FS_CardinalityType
    <3>4. Cardinality(ClientFds \cup ServerFds)
             = Cardinality(ClientFds) + Cardinality(ServerFds) - Cardinality(ClientFds \cap ServerFds)
      BY SocketCount, FS_Union
    <3> QED BY <3>2, <3>3, <3>4
  <2> QED BY <2>3, <2>4, <2>6, <2>7, SocketCount, PoolAssumption
<1>3. Stuffed /\ [PoolNext]_poolVars => Stuffed'
  BY StuffedNext
<1> QED BY <1>1, <1>2, <1>3, PoolInv, PTL DEF PoolSpec

-----------------------------------------------------------------------------
(* Refinement.  A new server is a Dial by its client. *)
LEMMA NewServerDials ==
    ASSUME Inv, NEW c \in Slots, client_l[c] # NULL,
           NEW addr, NEW fd, NewServer(fd, addr, c)
    PROVE  Abs!Next
<1> USE DEF Inv
<1>1. PICK i \in Slots, k \in Slots : AddServer(fd, addr, i) /\ AddConn(c, i, k)
  BY DEF NewServer
<1> DEFINE con == [clit_idx |-> c, serv_idx |-> i]
<1>2. /\ \A j \in Slots : j # k => conn_l'[j] = conn_l[j]
      /\ conn_l'[k] = con
      /\ conn_l[k] = NULL /\ con # NULL
  BY <1>1, RecordsNotNull DEF AddConn, FirstFree, TypeOK, ConnRec
<1>3. Live(client_l') = Live(client_l)
  <2>1. client_l[c] \in ClientRec
    BY DEF TypeOK
  <2>2. client_l'[c] # NULL /\ \A j \in Slots : j # c => client_l'[j] = client_l[j]
    <3> DEFINE r == [client_l[c] EXCEPT !.num_serv = @ + 1]
    <3>1. client_l' = [client_l EXCEPT ![c] = r]
      BY <1>1 DEF AddConn
    <3>2. r # NULL
      BY <2>1, RecordsNotNull DEF ClientRec
    <3> HIDE DEF r
    <3> QED BY <3>1, <3>2 DEF TypeOK
  <2> QED BY <2>2, UpdateSlot
<1>4. server_l[i] = NULL
  BY <1>1 DEF AddServer, FirstFree
<1>5. LiveTunnels' = LiveTunnels \cup {<<c, i>>}
  <2>1. con.clit_idx = c /\ con.serv_idx = i
    OBVIOUS
  <2> HIDE DEF con
  <2> QED BY <1>2, <2>1 DEF LiveTunnels, Live
<1>6. \A t \in LiveTunnels : t[2] # i
  BY <1>4 DEF LiveTunnels, ConnsWellFormed
<1>7. Abs!Dial(c, i)
  BY <1>3, <1>5, <1>6 DEF Abs!Dial, Live
<1> QED BY <1>7 DEF Abs!Next

(* Closing a conn is a HangUp, taking the viewer along with the last tunnel. *)
LEMMA CloseConnHangsUp ==
    ASSUME Inv, NEW k \in Slots, CloseConn(k)
    PROVE  Abs!Next
<1> DEFINE c == conn_l[k].clit_idx
           s == conn_l[k].serv_idx
           last == client_l[c].num_serv = 1
<1> USE DEF Inv
<1>1. /\ c \in Slots /\ s \in Slots
      /\ client_l[c] # NULL /\ conn_l[k] # NULL
      /\ ConnsVia(conn_l, s) = {k}
      /\ ConnsOf(conn_l', c) = ConnsOf(conn_l, c) \ {k}
      /\ client_l[c].num_serv = Cardinality(ConnsOf(conn_l', c)) + 1
      /\ last <=> ConnsOf(conn_l', c) = {}
      /\ conn_l' = [conn_l EXCEPT ![k] = NULL]
      /\ last => client_l' = [client_l EXCEPT ![c] = NULL]
      /\ ~last => client_l' = [client_l EXCEPT ![c].num_serv = @ - 1]
  BY CloseConnShape
<1>2. /\ client_l \in [Slots -> ClientRec \cup {NULL}]
      /\ conn_l \in [Slots -> ConnRec \cup {NULL}]
      /\ client_l' \in [Slots -> ClientRec \cup {NULL}]
  BY CloseConnInv DEF TypeOK
<1> HIDE DEF last
<1>3. /\ conn_l'[k] = NULL
      /\ \A j \in Slots : j # k => conn_l'[j] = conn_l[j]
  BY <1>1, <1>2
<1>4. Live(client_l') = IF last THEN Live(client_l) \ {c} ELSE Live(client_l)
  <2> HIDE DEF c
  <2>1. CASE last
    BY <2>1, <1>1, <1>2 DEF Live
  <2>2. CASE ~last
    <3> DEFINE r == [client_l[c] EXCEPT !.num_serv = @ - 1]
    <3>1. client_l' = [client_l EXCEPT ![c] = r]
      BY <2>2, <1>1
    <3>2. client_l'[c] = r
      BY <3>1, <1>1, <1>2
    <3>3. r # NULL
      <4>1. client_l[c] \in ClientRec
        BY <1>1, <1>2
      <4>2. Cardinality(ConnsOf(conn_l', c)) \in Nat
        BY SlotSets DEF ConnsOf
      <4>3. client_l[c].num_serv - 1 \in Nat
        BY <1>1, <4>2
      <4>4. r \in ClientRec
        BY <4>1, <4>3 DEF ClientRec
      <4> QED BY <4>4, RecordsNotNull
    <3> HIDE DEF r
    <3> QED BY <2>2, <3>1, <3>2, <3>3, <1>1, <1>2 DEF Live
  <2> QED BY <2>1, <2>2
<1>5. \A j \in Slots : j # k /\ conn_l[j] # NULL => conn_l[j].serv_idx # s
  BY <1>1 DEF ConnsVia
<1>6. LiveTunnels' = LiveTunnels \ {<<c, s>>} /\ <<c, s>> \in LiveTunnels
  BY <1>1, <1>3, <1>5 DEF LiveTunnels, Live
<1>7. last <=> Abs!TunnelsOf(c) = {<<c, s>>}
  <2>1. \A j \in Slots : j \in ConnsOf(conn_l', c) <=>
          j # k /\ conn_l[j] # NULL /\ conn_l[j].clit_idx = c
    BY <1>3 DEF ConnsOf
  <2>2. ASSUME last PROVE Abs!TunnelsOf(c) = {<<c, s>>}
    BY <2>1, <2>2, <1>1, <1>6 DEF Abs!TunnelsOf, LiveTunnels, Live
  <2>3. ASSUME ~last PROVE Abs!TunnelsOf(c) # {<<c, s>>}
    <3>1. PICK j \in Slots : j # k /\ conn_l[j] # NULL /\ conn_l[j].clit_idx = c
      BY <2>1, <2>3, <1>1 DEF ConnsOf
    <3>2. <<c, conn_l[j].serv_idx>> \in Abs!TunnelsOf(c)
      BY <3>1 DEF Abs!TunnelsOf, LiveTunnels, Live
    <3> QED BY <3>1, <3>2, <1>5
  <2> QED BY <2>2, <2>3
<1>8. Abs!HangUp(c, s)
  BY <1>4, <1>6, <1>7 DEF Abs!HangUp
<1> QED BY <1>1, <1>8 DEF Abs!Next

(***************************************************************************)
(* The pool implements Sessions, for every size of the tables.             *)
(***************************************************************************)
THEOREM PoolImplementsSessions == PoolSpec => ImplementsSessions
<1>1. PoolInit => Abs!Init
  BY DEF PoolInit, Abs!Init, Live, LiveTunnels
<1>2. Inv /\ [PoolNext]_poolVars => [Abs!Next]_(Abs!vars)
  <2> SUFFICES ASSUME Inv, [PoolNext]_poolVars PROVE [Abs!Next]_(Abs!vars)
    OBVIOUS
  <2>1. ASSUME UNCHANGED <<client_l, conn_l>> PROVE UNCHANGED Abs!vars
    BY <2>1 DEF Abs!vars, LiveTunnels, Live
  <2>2. ASSUME NEW addr \in Addrs, Accept(addr) PROVE [Abs!Next]_(Abs!vars)
    <3>1. conn_l' = conn_l
      BY <2>2 DEF Accept, connVars
    <3>2. ASSUME NEW i \in Slots, NEW fd \in Fds, AddClient(fd, addr, i) PROVE Abs!Next
      <4> DEFINE r == [fd |-> fd, addr |-> addr, num_serv |-> 0]
      <4>1. client_l' = [client_l EXCEPT ![i] = r] /\ client_l[i] = NULL
        BY <3>2 DEF AddClient, FirstFree
      <4>2. r # NULL
        BY RecordsNotNull DEF ClientRec
      <4> HIDE DEF r
      <4>3. client_l'[i] = r /\ \A j \in Slots : j # i => client_l'[j] = client_l[j]
        BY <4>1 DEF Inv, TypeOK
      <4>4. i \notin Live(client_l) /\ Live(client_l') = Live(client_l) \cup {i}
        <5>1. client_l[i] = NULL /\ client_l'[i] # NULL
          BY <4>1, <4>2, <4>3
        <5> QED BY <5>1, <4>3 DEF Live
      <4>5. LiveTunnels' = LiveTunnels
        BY <3>1 DEF LiveTunnels, Live
      <4>6. Abs!Join(i)
        BY <4>4, <4>5 DEF Abs!Join
      <4> QED BY <4>6 DEF Abs!Next
    <3> QED BY <2>1, <2>2, <3>1, <3>2 DEF Accept, clientVars
  <2>3. ASSUME AcceptFails \/ UNCHANGED poolVars
               \/ \E c \in Slots, addr \in Addrs : Overrun(c, addr)
        PROVE  [Abs!Next]_(Abs!vars)
    <3>1. UNCHANGED <<client_l, conn_l>>
      BY <2>3 DEF AcceptFails, Overrun, poolVars, clientVars, connVars
    <3> QED BY <3>1, <2>1
  <2>4. ASSUME NEW c \in Slots, NEW addr \in Addrs,
               Connect(c, addr) \/ ConnectFails(c, addr) \/ SocketFails(c, addr)
        PROVE  Abs!Next
    <3>1. client_l[c] # NULL /\ \E fd : NewServer(fd, addr, c)
      BY <2>4 DEF Connect, ConnectFails, SocketFails, WantsServer
    <3> QED BY <3>1, NewServerDials
  <2>5. ASSUME NEW k \in Slots, CloseConn(k) PROVE Abs!Next
    BY <2>5, CloseConnHangsUp
  <2> QED BY <2>2, <2>3, <2>4, <2>5 DEF PoolNext
<1> QED BY <1>1, <1>2, PoolInv, PTL DEF PoolSpec, ImplementsSessions, Abs!Spec
=============================================================================
