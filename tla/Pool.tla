-------------------------------- MODULE Pool --------------------------------
(***************************************************************************)
(* The connection pool of the proxy (pool.c, connection.c): three tables   *)
(* of records, the descriptor set handed to select, and the counters that  *)
(* the event loop reads.  A client record is one browser socket, a server  *)
(* record one socket to a video server, and a conn record ties one client  *)
(* to one server.  num_serv and num_clit are reference counts: close_conn  *)
(* drops both and closes whichever socket reaches zero.                    *)
(*                                                                         *)
(* Each action is one complete run of the code between two returns to the  *)
(* event loop that touches the pool; module Proxy drives the same          *)
(* operators from the handlers.  The kernel's side is the set of open      *)
(* descriptors, handed out lowest first.                                   *)
(***************************************************************************)
EXTENDS Integers, FiniteSets

CONSTANTS FD_SETSIZE,  (* slots of each table                               *)
          Fds,         (* descriptors the kernel may hand to this process   *)
          ListenFd,    (* the listening socket                              *)
          AliasFd,     (* the bit FD_SET(-1, set) touches                   *)
          Addrs,       (* IPv4 addresses of clients and servers             *)
          NULL         (* an empty slot                                     *)

NoFd == -1
Slots == 0..(FD_SETSIZE - 1)
Indices == -1..(FD_SETSIZE - 1)

ClientRec == [fd : Fds, addr : Addrs, num_serv : Nat]
ServerRec == [fd : Fds \cup {NoFd}, addr : Addrs, num_clit : Nat]
ConnRec   == [clit_idx : Slots, serv_idx : Slots]

(***************************************************************************)
(* The shift in FD_SET makes descriptor -1 land on bit 63 of the first     *)
(* word; the process is assumed to stay below that many descriptors.       *)
(***************************************************************************)
ASSUME PoolAssumption ==
    /\ FD_SETSIZE \in Nat \ {0}
    /\ Fds \subseteq Nat
    /\ ListenFd \in Fds
    /\ AliasFd \in Nat \ Fds
    /\ NULL \notin ClientRec \cup ServerRec \cup ConnRec

VARIABLES
    client_l, server_l, conn_l,               \* the tables: slot -> record or NULL
    cur_client, cur_server, cur_conn,         \* live records of each table
    max_clit_idx, max_serv_idx, max_conn_idx, \* highest slot ever used, or -1
    read_nrdy,                                \* descriptors select watches
    maxfd,                                    \* highest descriptor ever watched
    open,                                     \* descriptors open in the kernel
    status       \* "serving", "deaf" (no listening socket), "overrun" (a table
                 \* was indexed with -1)

clientVars == <<client_l, cur_client, max_clit_idx>>
serverVars == <<server_l, cur_server, max_serv_idx>>
connVars   == <<conn_l, cur_conn, max_conn_idx>>
fdVars     == <<read_nrdy, maxfd, open>>
poolVars   == <<clientVars, serverVars, connVars, fdVars, status>>

-----------------------------------------------------------------------------
Live(tbl) == {i \in Slots : tbl[i] # NULL}

(* The slot the linear scans of add_client, add_server and add_conn stop at *)
FirstFree(tbl, i) == /\ tbl[i] = NULL
                     /\ \A j \in Slots : j < i => tbl[j] # NULL

Full(tbl) == \A i \in Slots : tbl[i] # NULL

(* Mutant: max_*_idx and maxfd follow the last record, not the highest.    *)
MutLarger(m, n) == m

Larger(m, n) == IF m > n THEN m ELSE n

(* The bit of an fd_set that FD_SET and FD_CLR touch for a descriptor *)
Bit(fd) == IF fd = NoFd THEN AliasFd ELSE fd

(* The kernel hands out the lowest descriptor that is not open *)
LowestFree(fd) == /\ fd \in Fds \ open
                  /\ \A g \in Fds \ open : fd <= g

ConnsOf(tbl, c)   == {k \in Slots : tbl[k] # NULL /\ tbl[k].clit_idx = c}
ConnsVia(tbl, s)  == {k \in Slots : tbl[k] # NULL /\ tbl[k].serv_idx = s}

(***************************************************************************)
(* client_get_conn(fd, addr): the lowest live connection between this      *)
(* client socket and a server of that address.                             *)
(***************************************************************************)
(* Mutant: any viewer's connection to that address will do. *)
MutJoins(k, fd, addr) == conn_l[k] # NULL /\ server_l[conn_l[k].serv_idx].addr = addr

Joins(k, fd, addr) == /\ conn_l[k] # NULL
                      /\ client_l[conn_l[k].clit_idx].fd = fd
                      /\ server_l[conn_l[k].serv_idx].addr = addr

ClientConn(fd, addr, k) ==
    /\ k \in 0..max_conn_idx
    /\ Joins(k, fd, addr)
    /\ \A j \in 0..max_conn_idx : j < k => ~Joins(j, fd, addr)

NoClientConn(fd, addr) == \A k \in 0..max_conn_idx : ~Joins(k, fd, addr)

(* server_get_conn(fd): the lowest live connection of this server socket *)
Carries(k, fd) == /\ conn_l[k] # NULL
                  /\ server_l[conn_l[k].serv_idx].fd = fd

ServerConn(fd, k) ==
    /\ k \in 0..max_conn_idx
    /\ Carries(k, fd)
    /\ \A j \in 0..max_conn_idx : j < k => ~Carries(j, fd)

-----------------------------------------------------------------------------
PoolInit ==
    /\ client_l = [i \in Slots |-> NULL]
    /\ server_l = [i \in Slots |-> NULL]
    /\ conn_l = [i \in Slots |-> NULL]
    /\ cur_client = 0 /\ cur_server = 0 /\ cur_conn = 0
    /\ max_clit_idx = -1 /\ max_serv_idx = -1 /\ max_conn_idx = -1
    /\ read_nrdy = {ListenFd}
    /\ maxfd = ListenFd
    /\ open = {ListenFd}
    /\ status = "serving"

(***************************************************************************)
(* The loop accepts a browser: a descriptor, then add_client, whose -1     *)
(* for a full table the loop ignores (the socket stays open, unknown).     *)
(***************************************************************************)
MutAddClient(fd, addr, i) == \* FD_SET forgotten
    /\ FirstFree(client_l, i)
    /\ client_l' = [client_l EXCEPT ![i] = [fd |-> fd, addr |-> addr, num_serv |-> 0]]
    /\ cur_client' = cur_client + 1
    /\ max_clit_idx' = Larger(i, max_clit_idx)
    /\ UNCHANGED <<read_nrdy, maxfd>>

AddClient(fd, addr, i) ==
    /\ FirstFree(client_l, i)
    /\ client_l' = [client_l EXCEPT ![i] = [fd |-> fd, addr |-> addr, num_serv |-> 0]]
    /\ cur_client' = cur_client + 1
    /\ max_clit_idx' = Larger(i, max_clit_idx)
    /\ read_nrdy' = read_nrdy \cup {fd}
    /\ maxfd' = Larger(fd, maxfd)

Accept(addr) ==
    /\ status = "serving"
    /\ cur_conn <= FD_SETSIZE
    /\ \E fd \in Fds :
          /\ LowestFree(fd)
          /\ open' = open \cup {fd}
          /\ \/ \E i \in Slots : AddClient(fd, addr, i)
             \/ Full(client_l) /\ UNCHANGED <<clientVars, read_nrdy, maxfd>>
    /\ UNCHANGED <<serverVars, connVars, status>>

(***************************************************************************)
(* accept fails (out of descriptors, or the peer is gone already): the     *)
(* loop closes the listening socket but leaves it in read_nrdy, so every   *)
(* later select and accept fails and nothing is ever served again.         *)
(***************************************************************************)
AcceptFails ==
    /\ status = "serving"
    /\ cur_conn <= FD_SETSIZE
    /\ open' = open \ {ListenFd}
    /\ status' = "deaf"
    /\ UNCHANGED <<clientVars, serverVars, connVars, read_nrdy, maxfd>>

(***************************************************************************)
(* add_server followed by add_conn, as client2server and ask_for_nolist    *)
(* call them: one new server record, one new conn to client c.  fd is what *)
(* open_server_socket returned, -1 included.                               *)
(***************************************************************************)
AddServer(fd, addr, i) ==
    /\ FirstFree(server_l, i)
    /\ server_l' = [server_l EXCEPT ![i] = [fd |-> fd, addr |-> addr, num_clit |-> 1]]
    /\ cur_server' = cur_server + 1
    /\ max_serv_idx' = Larger(i, max_serv_idx)
    /\ read_nrdy' = read_nrdy \cup {Bit(fd)}
    /\ maxfd' = Larger(fd, maxfd)

MutAddConn(c, s, k) == \* the client's count forgotten
    /\ FirstFree(conn_l, k)
    /\ conn_l' = [conn_l EXCEPT ![k] = [clit_idx |-> c, serv_idx |-> s]]
    /\ cur_conn' = cur_conn + 1
    /\ max_conn_idx' = Larger(k, max_conn_idx)
    /\ UNCHANGED client_l

MutMaxConn(c, s, k) == \* max_conn_idx counts the conns added
    /\ FirstFree(conn_l, k)
    /\ conn_l' = [conn_l EXCEPT ![k] = [clit_idx |-> c, serv_idx |-> s]]
    /\ client_l' = [client_l EXCEPT ![c].num_serv = @ + 1]
    /\ cur_conn' = cur_conn + 1
    /\ max_conn_idx' = max_conn_idx + 1

AddConn(c, s, k) ==
    /\ FirstFree(conn_l, k)
    /\ conn_l' = [conn_l EXCEPT ![k] = [clit_idx |-> c, serv_idx |-> s]]
    /\ client_l' = [client_l EXCEPT ![c].num_serv = @ + 1]
    /\ cur_conn' = cur_conn + 1
    /\ max_conn_idx' = Larger(k, max_conn_idx)

NewServer(fd, addr, c) ==
    /\ \E i, k \in Slots : AddServer(fd, addr, i) /\ AddConn(c, i, k)
    /\ UNCHANGED <<cur_client, max_clit_idx, status>>

(***************************************************************************)
(* When the handlers open a server socket for client c: a request finds no *)
(* connection to the resolved address, or the answer to a manifest request *)
(* came on a connection of c that is to be closed.                         *)
(***************************************************************************)
WantsServer(c, addr) ==
    /\ status = "serving"
    /\ client_l[c] # NULL
    /\ \/ NoClientConn(client_l[c].fd, addr)
       \/ ConnsOf(conn_l, c) # {}

Connect(c, addr) ==
    /\ WantsServer(c, addr)
    /\ \E fd \in Fds : /\ LowestFree(fd)
                       /\ open' = open \cup {fd}
                       /\ NewServer(fd, addr, c)

MutConnectFails(c, addr) == \* the socket closed, its descriptor kept
    /\ WantsServer(c, addr)
    /\ \E fd \in Fds : LowestFree(fd) /\ NewServer(fd, addr, c)
    /\ UNCHANGED open

(* bind or connect fails: -1 is returned and the socket is never closed *)
ConnectFails(c, addr) ==
    /\ WantsServer(c, addr)
    /\ \E fd \in Fds : LowestFree(fd) /\ open' = open \cup {fd}
    /\ NewServer(NoFd, addr, c)

(* socket fails, for want of descriptors *)
SocketFails(c, addr) ==
    /\ WantsServer(c, addr)
    /\ NewServer(NoFd, addr, c)
    /\ UNCHANGED open

(***************************************************************************)
(* add_server or add_conn finds no slot and returns -1, which the callers  *)
(* use as an index: what the process does from there is undefined.         *)
(***************************************************************************)
Overrun(c, addr) ==
    /\ WantsServer(c, addr)
    /\ Full(server_l) \/ Full(conn_l)
    /\ status' = "overrun"
    /\ UNCHANGED <<clientVars, serverVars, connVars, fdVars>>

(***************************************************************************)
(* close_conn(k), with close_serv and close_clit: the conn lets go of its  *)
(* server and its client, and a record let go of for the last time is      *)
(* closed.  Closing descriptor -1 fails without effect; FD_CLR(-1) clears  *)
(* the aliased bit.                                                        *)
(***************************************************************************)
Release(k, lastClit, lastServ) ==
    /\ LET c == conn_l[k].clit_idx
           s == conn_l[k].serv_idx
           closed == {fd \in Fds \cup {NoFd} : \/ lastClit /\ fd = server_l[s].fd
                                               \/ lastServ /\ fd = client_l[c].fd}
       IN /\ server_l' = IF lastClit THEN [server_l EXCEPT ![s] = NULL]
                                     ELSE [server_l EXCEPT ![s].num_clit = @ - 1]
          /\ client_l' = IF lastServ THEN [client_l EXCEPT ![c] = NULL]
                                     ELSE [client_l EXCEPT ![c].num_serv = @ - 1]
          /\ cur_server' = IF lastClit THEN cur_server - 1 ELSE cur_server
          /\ cur_client' = IF lastServ THEN cur_client - 1 ELSE cur_client
          /\ open' = open \ closed
          /\ read_nrdy' = read_nrdy \ {Bit(fd) : fd \in closed}
    /\ conn_l' = [conn_l EXCEPT ![k] = NULL]
    /\ cur_conn' = cur_conn - 1
    /\ UNCHANGED <<max_clit_idx, max_serv_idx, max_conn_idx, maxfd, status>>

(* Mutants of close_conn: the client goes with its first conn, or never.   *)
MutCloseClientToo(k) ==
    /\ status = "serving" /\ conn_l[k] # NULL
    /\ Release(k, server_l[conn_l[k].serv_idx].num_clit = 1, TRUE)

MutKeepClient(k) ==
    /\ status = "serving" /\ conn_l[k] # NULL
    /\ Release(k, server_l[conn_l[k].serv_idx].num_clit = 1, FALSE)

MutKeepServer(k) == \* the server's socket closed, its record kept
    /\ status = "serving" /\ conn_l[k] # NULL
    /\ open' = open \ {server_l[conn_l[k].serv_idx].fd}
    /\ read_nrdy' = read_nrdy \ {Bit(server_l[conn_l[k].serv_idx].fd)}
    /\ client_l' = [client_l EXCEPT ![conn_l[k].clit_idx].num_serv = @ - 1]
    /\ conn_l' = [conn_l EXCEPT ![k] = NULL]
    /\ cur_conn' = cur_conn - 1
    /\ UNCHANGED <<cur_client, serverVars, max_clit_idx, max_conn_idx, maxfd, status>>

CloseConn(k) ==
    /\ status = "serving"
    /\ conn_l[k] # NULL
    /\ Release(k, server_l[conn_l[k].serv_idx].num_clit = 1,
                  client_l[conn_l[k].clit_idx].num_serv = 1)

PoolNext ==
    \/ \E addr \in Addrs : Accept(addr)
    \/ AcceptFails
    \/ \E c \in Slots, addr \in Addrs :
          \/ Connect(c, addr)
          \/ ConnectFails(c, addr)
          \/ SocketFails(c, addr)
          \/ Overrun(c, addr)
    \/ \E k \in Slots : CloseConn(k)

PoolSpec == PoolInit /\ [][PoolNext]_poolVars

-----------------------------------------------------------------------------
(* Type correctness of the tables, the counters and the descriptor sets. *)
TypeOK ==
    /\ client_l \in [Slots -> ClientRec \cup {NULL}]
    /\ server_l \in [Slots -> ServerRec \cup {NULL}]
    /\ conn_l \in [Slots -> ConnRec \cup {NULL}]
    /\ cur_client \in Int /\ cur_server \in Int /\ cur_conn \in Int
    /\ max_clit_idx \in Indices
    /\ max_serv_idx \in Indices
    /\ max_conn_idx \in Indices
    /\ read_nrdy \subseteq Fds \cup {AliasFd}
    /\ maxfd \in Fds
    /\ open \subseteq Fds
    /\ status \in {"serving", "deaf", "overrun"}

(* A conn never names a freed client or server slot, and a live server is  *)
(* on exactly one conn: server_get_conn has one answer and its -1, which   *)
(* server2client would pass on to close_conn, cannot happen.               *)
ConnsWellFormed ==
    /\ \A k \in Live(conn_l) : /\ client_l[conn_l[k].clit_idx] # NULL
                               /\ server_l[conn_l[k].serv_idx] # NULL
    /\ \A s \in Live(server_l) : \E k \in Live(conn_l) : ConnsVia(conn_l, s) = {k}

(* The reference counts equal the number of conns that hold the record;    *)
(* the two assertions of close_conn follow.                                *)
RefCountsExact ==
    /\ \A c \in Live(client_l) : client_l[c].num_serv = Cardinality(ConnsOf(conn_l, c))
    /\ \A s \in Live(server_l) : server_l[s].num_clit = 1

(* The descriptors of live records *)
ClientFds == {client_l[c].fd : c \in Live(client_l)}
ServerFds == {server_l[s].fd : s \in Live(server_l)} \ {NoFd}

(* No two live records hold one descriptor, and every descriptor held is   *)
(* open: closing one connection never closes another's socket.             *)
SocketsOwned ==
    /\ \A c, d \in Live(client_l) : client_l[c].fd = client_l[d].fd => c = d
    /\ \A s, t \in Live(server_l) :
          server_l[s].fd = server_l[t].fd => s = t \/ server_l[s].fd = NoFd
    /\ ClientFds \cap ServerFds = {}
    /\ ListenFd \notin ClientFds \cup ServerFds
    /\ ClientFds \cup ServerFds \subseteq open

(* select watches the listening socket and exactly the sockets of live     *)
(* records, under maxfd, so while the process serves no closed descriptor  *)
(* reaches select, which would fail with EBADF for good.                   *)
SelectSetExact ==
    /\ read_nrdy \ {AliasFd} = {ListenFd} \cup ClientFds \cup ServerFds
    /\ \A fd \in read_nrdy \ {AliasFd} : fd <= maxfd
    /\ status = "serving" => read_nrdy \ {AliasFd} \subseteq open

(* The counters equal the live records, and the scans bounded by max_*_idx *)
(* reach every live record.                                                *)
CountersExact ==
    /\ cur_client = Cardinality(Live(client_l))
    /\ cur_server = Cardinality(Live(server_l))
    /\ cur_conn = Cardinality(Live(conn_l))
    /\ \A i \in Live(client_l) : i <= max_clit_idx
    /\ \A i \in Live(server_l) : i <= max_serv_idx
    /\ \A i \in Live(conn_l) : i <= max_conn_idx

(* The -1 of a full table is used as an index, and nothing but the number  *)
(* of sockets in use guards against it.  The process comes to it only with *)
(* more of them, those that never opened counted, than a table has slots:  *)
(* the slots of connections that are gone do not add up.                   *)
UnopenedServers == {s \in Live(server_l) : server_l[s].fd = NoFd}

OverrunOnlyWhenFull ==
    status = "overrun" =>
        Cardinality(ClientFds \cup ServerFds) + Cardinality(UnopenedServers) > FD_SETSIZE

(* The tables, seen as sessions: the viewers are the live client slots and *)
(* the tunnels the client and server slots of the live conns.              *)
LiveTunnels == {<<conn_l[k].clit_idx, conn_l[k].serv_idx>> : k \in Live(conn_l)}

Abs == INSTANCE Sessions WITH Viewers <- Slots, Servers <- Slots,
                              viewers <- Live(client_l), tunnels <- LiveTunnels

(* The pool implements Sessions: a client socket is closed in the step     *)
(* that closes its last connection, never while another is live, and no    *)
(* connection changes hands.                                               *)
ImplementsSessions == Abs!Spec
=============================================================================
