---------------------------- MODULE ProxyProofs ----------------------------
(***************************************************************************)
(* Proxy changes the tables through the operations of Pool alone, so the   *)
(* invariant of the pool holds in the proxy, for any number of viewers and *)
(* any tables.                                                             *)
(*                                                                         *)
(* From it, in the second half: no viewer is ever sent another's answer.   *)
(* What is asked on, or answered by, the server of a live conn is for the  *)
(* viewer behind that conn's client: descriptors are handed out again only *)
(* with empty queues, and a live server has one conn.                      *)
(***************************************************************************)
EXTENDS Proxy, PoolProofs, BasicLemmas

(* What a handler may rely on while it runs: the indices in its locals are *)
(* slots, and the conn whose body it reads is still live.                  *)
JobOK ==
    /\ pc = "route" => job.idx \in Slots /\ "conn" \in DOMAIN job
    /\ pc \in {"forward", "body", "dial"} => job.conn \in Slots
    /\ pc \in {"body", "dial"} => conn_l[job.conn] # NULL

LoopInv == Inv /\ JobOK

LEMMA AddrsOK == ServerAddrs \subseteq Addrs /\ ClientAddr \in Addrs
  BY ProxyAssumption DEF ProxyAssumption

(* Opening a server socket, in whatever way it ends, is a step of the pool. *)
LEMMA OpenServerSteps ==
    ASSUME NEW c \in Slots, NEW addr \in ServerAddrs, OpenServer(c, addr)
    PROVE  PoolNext
  BY AddrsOK DEF OpenServer, PoolNext

(* A line that is not a GET is refused, or repeats the last GET. *)
LEMMA OtherLine ==
    ASSUME NEW i, ReadOther(i)
    PROVE  \/ \E rest : Refused(i, rest)
           \/ RequestHeaders(i, lastGet, Tail(inq[client_l[i].fd]))
BY DEF ReadOther

(* The steps that leave the pool alone keep what the handlers rely on. *)
LEMMA ReadsKeepJob ==
    ASSUME LoopInv, NEW i \in Slots, ReadGet(i) \/ ReadOther(i) \/ ReadNothing(i)
    PROVE  UNCHANGED poolVars /\ JobOK'
<1>1. ASSUME NEW g, NEW ok, Parsed(i, g, ok) PROVE JobOK'
  BY <1>1 DEF Parsed, ReturnFrom, JobOK
<1>2. ASSUME NEW how \in {"hung"}, Stop(how) PROVE JobOK'
  BY <1>2 DEF Stop, JobOK
<1>3. ASSUME NEW g, NEW more, RequestHeaders(i, g, more) PROVE JobOK'
  BY <1>1, <1>2, <1>3 DEF RequestHeaders
<1>4. ASSUME ReturnFrom("clients", i) PROVE JobOK'
  BY <1>4 DEF ReturnFrom, JobOK
<1>5. CASE ReadGet(i)
  BY <1>3, <1>5 DEF ReadGet
<1>6. CASE ReadOther(i)
  BY <1>3, <1>4, <1>6, OtherLine DEF ReadOther, Refused
<1>7. CASE ReadNothing(i)
  BY <1>3, <1>4, <1>7 DEF ReadNothing
<1> QED BY <1>5, <1>6, <1>7

(* Closing the conn a handler works on, and returning. *)
LEMMA CloseSteps ==
    ASSUME NEW k \in Slots, CloseConn(k), pc' \in {"clients", "servers"}
    PROVE  PoolNext /\ JobOK'
  BY DEF PoolNext, JobOK

(* The client behind a live conn is a slot. *)
LEMMA ConnClient ==
    ASSUME LoopInv, pc = "dial"
    PROVE  conn_l[job.conn].clit_idx \in Slots
<1>1. job.conn \in Slots /\ conn_l[job.conn] # NULL
  BY DEF LoopInv, JobOK
<1>2. conn_l[job.conn] \in ConnRec
  BY <1>1 DEF LoopInv, Inv, TypeOK
<1> QED BY <1>2 DEF ConnRec

(* A thread that is stuck changes nothing but where it stands. *)
LEMMA StuckInPlace ==
    ASSUME SendSpins \/ ResolveHangs
    PROVE  /\ pc' = "hung"
           /\ UNCHANGED <<cursor, read_rdy, nready, job, globalVars, chanVars, viewerVars,
                          partyVars, markVars, answerVars, poolVars>>
BY DEF SendSpins, ResolveHangs, Stop

LEMMA ClientPhase ==
    ASSUME LoopInv,
           Route \/ TablesFull \/ DropRequest \/ ForwardRequest
    PROVE  (PoolNext \/ UNCHANGED poolVars) /\ JobOK'
<1>1. CASE Route
  <2>1. PICK addr \in ServerAddrs, k \in Slots :
            /\ UNCHANGED poolVars \/ OpenServer(job.idx, addr)
            /\ job' = [job EXCEPT !.conn = k]
    BY <1>1 DEF Route
  <2>2. pc = "route" /\ pc' = "forward" /\ job.idx \in Slots /\ "conn" \in DOMAIN job
    BY <1>1 DEF Route, LoopInv, JobOK
  <2>3. job'.conn = k
    BY <2>1, <2>2
  <2>4. PoolNext \/ UNCHANGED poolVars
    BY <2>1, <2>2, OpenServerSteps
  <2> QED BY <2>2, <2>3, <2>4 DEF JobOK
<1>2. CASE TablesFull
  <2>1. PICK addr \in ServerAddrs :
            \/ pc = "route" /\ Overrun(job.idx, addr)
            \/ pc = "dial" /\ Overrun(conn_l[job.conn].clit_idx, addr)
    BY <1>2 DEF TablesFull
  <2>2. pc = "route" => job.idx \in Slots
    BY DEF LoopInv, JobOK
  <2>3. PoolNext
    BY <2>1, <2>2, ConnClient, AddrsOK DEF PoolNext
  <2>4. JobOK'
    BY <1>2 DEF TablesFull, Stop, JobOK
  <2> QED BY <2>3, <2>4
<1>3. CASE DropRequest
  <2>1. pc = "forward" /\ CloseConn(job.conn) /\ pc' = "clients"
    BY <1>3 DEF DropRequest, Return
  <2>2. job.conn \in Slots
    BY <2>1 DEF LoopInv, JobOK
  <2> QED BY <2>1, <2>2, CloseSteps
<1>4. CASE ForwardRequest
  BY <1>4 DEF ForwardRequest, Return, JobOK
<1> QED BY <1>1, <1>2, <1>3, <1>4

LEMMA ServerPhase ==
    ASSUME LoopInv,
           ServerStep \/ ForwardBody \/ KeepList \/ DialForNolist \/ BodyLost
    PROVE  (PoolNext \/ UNCHANGED poolVars) /\ JobOK'
<1>1. ASSUME NEW i \in Slots, ReadHead(i)
      PROVE  (PoolNext \/ UNCHANGED poolVars) /\ JobOK'
  <2>1. PICK k \in Slots :
            /\ ServerConn(server_l[i].fd, k)
            /\ \/ CloseAndReturn(k, "servers", i)
               \/ /\ pc' = "body" /\ UNCHANGED poolVars
                  /\ job' = [idx |-> i, conn |-> k, head |-> inq[server_l[i].fd][1]]
    BY <1>1 DEF ReadHead
  <2>2. conn_l[k] # NULL
    BY <2>1 DEF ServerConn, Carries
  <2>3. CASE CloseAndReturn(k, "servers", i)
    BY <2>3, CloseSteps DEF CloseAndReturn, ReturnFrom
  <2>4. CASE /\ pc' = "body" /\ UNCHANGED poolVars
             /\ job' = [idx |-> i, conn |-> k, head |-> inq[server_l[i].fd][1]]
    BY <2>2, <2>4 DEF JobOK, poolVars, connVars
  <2> QED BY <2>1, <2>3, <2>4
<1>2. ASSUME NEW i \in Slots, ReadCutHead(i)
      PROVE  UNCHANGED poolVars /\ JobOK'
  BY <1>2 DEF ReadCutHead, Stop, JobOK
<1>3. ASSUME NEW i \in Slots, ReadNoHead(i)
      PROVE  (PoolNext \/ UNCHANGED poolVars) /\ JobOK'
  <2>1. CASE \E k \in Slots : CloseAndReturn(k, "servers", i)
    BY <2>1, CloseSteps DEF CloseAndReturn, ReturnFrom
  <2>2. CASE (\E how \in {"hung", "aborted"} : Stop(how)) /\ UNCHANGED poolVars
    BY <2>2 DEF Stop, JobOK
  <2> QED BY <1>3, <2>1, <2>2 DEF ReadNoHead
<1>4. ASSUME pc = "body", CloseBodyConn PROVE PoolNext /\ JobOK'
  <2>1. job.conn \in Slots
    BY <1>4 DEF LoopInv, JobOK
  <2> QED BY <1>4, <2>1, CloseSteps DEF CloseBodyConn, Return
<1>5. ASSUME NEW v, NEW film, Answer(v, film) PROVE UNCHANGED poolVars /\ JobOK'
  BY <1>5 DEF Answer, Return, JobOK
<1>6. CASE ForwardBody
  BY <1>4, <1>5, <1>6 DEF ForwardBody
<1>7. CASE KeepList
  <2>1. UNCHANGED poolVars /\ pc = "body"
    BY <1>7 DEF KeepList
  <2>2. pc' = "servers" \/ (pc' = "dial" /\ job' = job)
    BY <1>7 DEF KeepList, Return
  <2> QED BY <2>1, <2>2 DEF LoopInv, JobOK, poolVars, connVars
<1>8. CASE DialForNolist
  <2>1. PICK addr \in ServerAddrs : OpenServer(conn_l[job.conn].clit_idx, addr)
    BY <1>8 DEF DialForNolist, BodyConn
  <2>2. pc = "dial" /\ pc' = "servers"
    BY <1>8 DEF DialForNolist, Return
  <2> QED BY <2>1, <2>2, ConnClient, OpenServerSteps DEF JobOK
<1>9. CASE BodyLost
  <2>1. pc = "body" /\ (CloseBodyConn \/ Answer(BodyOwner, Garbage)
                        \/ (Stop("hung") /\ UNCHANGED poolVars))
    BY <1>9 DEF BodyLost
  <2>2. ASSUME Stop("hung") PROVE JobOK'
    BY <2>2 DEF Stop, JobOK
  <2> QED BY <2>1, <2>2, <1>4, <1>5
<1> QED BY <1>1, <1>2, <1>3, <1>6, <1>7, <1>8, <1>9 DEF ServerStep

(* Every step of the proxy is a step of the pool and keeps the invariant. *)
LEMMA StepDrivesPool == LoopInv /\ [Next]_vars => [PoolNext]_poolVars /\ JobOK'
<1> SUFFICES ASSUME LoopInv, [Next]_vars
             PROVE  (PoolNext \/ UNCHANGED poolVars) /\ JobOK'
  OBVIOUS
<1>1. CASE Select \/ EndScan
  BY <1>1 DEF Select, EndScan, JobOK
<1>2. CASE AcceptViewer
  BY <1>2, AddrsOK DEF AcceptViewer, PoolNext, JobOK
<1>3. CASE AcceptGivesUp
  BY <1>3 DEF AcceptGivesUp, Stop, PoolNext, JobOK
<1>4. CASE ClientStep
  BY <1>4, ReadsKeepJob DEF ClientStep
<1>5. CASE Route \/ TablesFull \/ DropRequest \/ ForwardRequest
  BY <1>5, ClientPhase
<1>6. CASE ServerStep \/ ForwardBody \/ KeepList \/ DialForNolist \/ BodyLost
  BY <1>6, ServerPhase
<1>7. CASE PeerStep
  <2>1. UNCHANGED <<loopVars, poolVars>>
    BY <1>7 DEF PeerStep, Knock, SendRequest, SendHeaders, Leave, ServerAnswers,
                ServerDies, ServerLeaves
  <2> QED BY <2>1 DEF LoopInv, JobOK, loopVars, poolVars, connVars
<1>8. CASE UNCHANGED vars
  BY <1>8 DEF LoopInv, JobOK, vars, loopVars, poolVars, connVars
<1>9. CASE SendSpins \/ ResolveHangs
  BY <1>9, StuckInPlace DEF JobOK
<1> QED BY <1>1, <1>2, <1>3, <1>4, <1>5, <1>6, <1>7, <1>8, <1>9 DEF Next, ProxyStep

(* Seen through the pool's variables the proxy is the pool. *)
LEMMA SeenAsPool == Spec => PoolSpec
<1>1. Init => PoolInit /\ LoopInv
  BY InitInv DEF Init, LoopInv, JobOK
<1>2. LoopInv /\ [Next]_vars => LoopInv' /\ [PoolNext]_poolVars
  BY StepDrivesPool, NextInv DEF LoopInv
<1> QED BY <1>1, <1>2, PTL DEF Spec, PoolSpec

(* Hence the invariant of the pool is one of the proxy: reference counts,  *)
(* ownership of descriptors, select's set and the counters stay exact      *)
(* whatever the handlers' interleavings.                                   *)
THEOREM ProxyInv == Spec => []Inv
  BY SeenAsPool, PoolInv, PTL

-----------------------------------------------------------------------------
Owner(k)  == Viewer(conn_l[k].clit_idx)
ServFd(k) == server_l[conn_l[k].serv_idx].fd

(* Requests a and responses i are all of viewer v. *)
Ours(a, i, v) ==
    /\ IsQueue(a) /\ IsQueue(i)
    /\ \A e \in ToSet(a) : "to" \in DOMAIN e /\ e.to = v
    /\ \A e \in ToSet(i) : e.part = "head" => e.to = v

Mail(k) ==
    ServFd(k) \in Fds =>
      peer[ServFd(k)] = NULL /\ Ours(asked[ServFd(k)], inq[ServFd(k)], Owner(k))

ChanInv ==
    /\ DOMAIN inq = Fds /\ DOMAIN asked = Fds /\ DOMAIN peer = Fds
    /\ status = "serving" =>
         \A fd \in Fds \ open : inq[fd] = <<>> /\ asked[fd] = <<>> /\ peer[fd] = NULL
    /\ \A k \in Live(conn_l) : Mail(k)

(* Whom the running handler works for. *)
JobFor ==
    /\ pc = "route" => "idx" \in DOMAIN job /\ client_l[job.idx] # NULL
    /\ pc = "forward" => conn_l[job.conn] # NULL /\ Owner(job.conn) = Viewer(job.idx)
    /\ pc \in {"body", "dial"} => job.head.to = Owner(job.conn)

GotInv == DOMAIN got = Viewers /\ Private

PrivInv == LoopInv /\ ChanInv /\ JobFor /\ GotInv /\ read_rdy \subseteq Fds

-----------------------------------------------------------------------------
(* The queues of one conn. *)
LEMMA OursNone == ASSUME NEW v PROVE Ours(<<>>, <<>>, v)
BY ShortQueues DEF Ours

LEMMA OursSend ==
    ASSUME NEW a, NEW i, NEW v, Ours(a, i, v), NEW kind, NEW film
    PROVE  Ours(Append(a, Request(v, kind, film)), i, v)
<1> DEFINE r == Request(v, kind, film)
<1>1. "to" \in DOMAIN r /\ r.to = v
  BY DEF Request
<1> HIDE DEF r
<1>2. IsQueue(Append(a, r)) /\ ToSet(Append(a, r)) \subseteq ToSet(a) \cup {r}
  BY Appended DEF Ours
<1> QED BY <1>1, <1>2 DEF Ours, r

LEMMA OursRead ==
    ASSUME NEW a, NEW i, NEW v, Ours(a, i, v), i # <<>>
    PROVE  Ours(a, Tail(i), v) /\ (i[1].part = "head" => i[1].to = v)
BY Taken DEF Ours

LEMMA OursAnswered ==
    ASSUME NEW a, NEW i, NEW v, Ours(a, i, v), a # <<>>
    PROVE  Ours(Tail(a), i, v) /\ "to" \in DOMAIN Head(a) /\ Head(a).to = v
BY Taken DEF Ours

LEMMA OursPut ==
    ASSUME NEW a, NEW i, NEW v, Ours(a, i, v), NEW p, IsQueue(p),
           \A e \in ToSet(p) : e.part = "head" => e.to = v
    PROVE  Ours(a, i \o p, v)
BY Joined DEF Ours

LEMMA OursForgotten ==
    ASSUME NEW a, NEW i, NEW v, Ours(a, i, v)
    PROVE  Ours(<<>>, i, v)
BY ShortQueues DEF Ours

(* The head has been sent, the body is still to come. *)
LEMMA OursHalf ==
    ASSUME NEW a, NEW i, NEW v, Ours(a, i, v), a # <<>>
    PROVE  Ours(<<[Head(a) EXCEPT !.kind = "body"]>> \o Tail(a), i, v)
<1> DEFINE r == [Head(a) EXCEPT !.kind = "body"]
<1>1. Ours(Tail(a), i, v) /\ "to" \in DOMAIN Head(a) /\ Head(a).to = v
  BY OursAnswered
<1>2. "to" \in DOMAIN r /\ r.to = v
  BY <1>1
<1> HIDE DEF r
<1>3. IsQueue(<<r>>) /\ ToSet(<<r>>) = {r}
  BY ShortQueues
<1>4. IsQueue(<<r>> \o Tail(a)) /\ ToSet(<<r>> \o Tail(a)) \subseteq {r} \cup ToSet(Tail(a))
  BY <1>1, <1>3, Joined DEF Ours
<1> QED BY <1>1, <1>2, <1>4 DEF Ours, r

-----------------------------------------------------------------------------
(* What the invariant of the pool says of conns and descriptors. *)
LEMMA LiveConn ==
    ASSUME Inv, NEW k \in Live(conn_l)
    PROVE  /\ k \in Slots /\ conn_l[k].clit_idx \in Slots /\ conn_l[k].serv_idx \in Slots
           /\ client_l[conn_l[k].clit_idx] # NULL /\ server_l[conn_l[k].serv_idx] # NULL
           /\ client_l[conn_l[k].clit_idx].fd \in open
           /\ ServFd(k) \in Fds => ServFd(k) \in open
           /\ ServFd(k) \in Fds \cup {NoFd}
<1> DEFINE c == conn_l[k].clit_idx
           s == conn_l[k].serv_idx
<1>1. k \in Slots /\ conn_l[k] \in ConnRec
  BY DEF Inv, TypeOK, Live
<1>2. c \in Slots /\ s \in Slots /\ client_l[c] # NULL /\ server_l[s] # NULL
  BY <1>1 DEF ConnRec, Inv, ConnsWellFormed
<1> HIDE DEF c, s
<1>3. client_l[c].fd \in open
  BY <1>2 DEF Inv, SocketsOwned, ClientFds, Live
<1>4. server_l[s].fd \in Fds \cup {NoFd}
  BY <1>2 DEF Inv, TypeOK, ServerRec
<1>5. server_l[s].fd \in Fds => server_l[s].fd \in open
  BY <1>2, PoolAssumption DEF Inv, SocketsOwned, ServerFds, Live, NoFd
<1> QED BY <1>1, <1>2, <1>3, <1>4, <1>5 DEF ServFd, c, s

LEMMA OneConn ==
    ASSUME Inv, NEW j \in Live(conn_l), NEW k \in Live(conn_l),
           ServFd(j) = ServFd(k), ServFd(k) \in Fds
    PROVE  j = k
<1> DEFINE s == conn_l[j].serv_idx
           t == conn_l[k].serv_idx
<1>1. s \in Live(server_l) /\ t \in Live(server_l) /\ j \in Slots /\ k \in Slots
  BY LiveConn DEF Live
<1>2. server_l[s].fd # NoFd
  BY PoolAssumption DEF ServFd, NoFd
<1>3. s = t
  <2> HIDE DEF s, t
  <2>1. server_l[s].fd = server_l[t].fd
    BY DEF ServFd, s, t
  <2> QED BY <1>1, <1>2, <2>1 DEF Inv, SocketsOwned
<1>4. PICK x \in Live(conn_l) : ConnsVia(conn_l, s) = {x}
  BY <1>1 DEF Inv, ConnsWellFormed
<1>5. j \in ConnsVia(conn_l, s) /\ k \in ConnsVia(conn_l, s)
  BY <1>1, <1>3 DEF ConnsVia, Live
<1> QED BY <1>4, <1>5

LEMMA ClientApart ==
    ASSUME Inv, NEW i \in Slots, client_l[i] # NULL
    PROVE  /\ client_l[i].fd \in Fds /\ client_l[i].fd \in open
           /\ \A k \in Live(conn_l) : ServFd(k) # client_l[i].fd
<1>1. client_l[i] \in ClientRec
  BY DEF Inv, TypeOK
<1>2. client_l[i].fd \in Fds /\ client_l[i].fd \in ClientFds
  BY <1>1 DEF ClientRec, ClientFds, Live
<1>3. client_l[i].fd \in open /\ client_l[i].fd \notin ServerFds
  BY <1>2 DEF Inv, SocketsOwned
<1>4. ASSUME NEW k \in Live(conn_l), ServFd(k) \in Fds PROVE ServFd(k) \in ServerFds
  BY <1>4, LiveConn, PoolAssumption DEF ServFd, ServerFds, Live, NoFd
<1> QED BY <1>2, <1>3, <1>4

-----------------------------------------------------------------------------
(* Steps that leave the queues and the tables alone. *)
LEMMA ChanSame ==
    ASSUME ChanInv, UNCHANGED <<client_l, server_l, conn_l, peer, inq, asked>>,
           status' = "serving" => status = "serving" /\ open' = open
    PROVE  ChanInv'
BY DEF ChanInv, Mail, Ours, ServFd, Owner, Viewer, Live

(* Steps that change the queues of one descriptor. *)
LEMMA ChanAt ==
    ASSUME ChanInv, UNCHANGED <<client_l, server_l, conn_l, peer, open, status>>, NEW fd,
           DOMAIN inq' = Fds, DOMAIN asked' = Fds,
           \A g \in Fds \ {fd} : inq'[g] = inq[g] /\ asked'[g] = asked[g],
           status = "serving" /\ fd \in Fds \ open => inq'[fd] = <<>> /\ asked'[fd] = <<>>,
           \A k \in Live(conn_l) :
              ServFd(k) = fd /\ fd \in Fds => Ours(asked'[fd], inq'[fd], Owner(k))
    PROVE  ChanInv'
<1>1. /\ DOMAIN peer' = Fds
      /\ status' = "serving" =>
           \A g \in Fds \ open' : inq'[g] = <<>> /\ asked'[g] = <<>> /\ peer'[g] = NULL
  BY DEF ChanInv
<1>2. ASSUME NEW k \in Live(conn_l) PROVE Mail(k)'
  <2>1. ServFd(k)' = ServFd(k) /\ Owner(k)' = Owner(k)
    BY DEF ServFd, Owner, Viewer
  <2>2. CASE ServFd(k) = fd
    BY <2>1, <2>2 DEF Mail, ChanInv, Ours
  <2>3. CASE ServFd(k) # fd
    BY <2>1, <2>3 DEF Mail, ChanInv, Ours
  <2> QED BY <2>2, <2>3
<1> QED BY <1>1, <1>2 DEF ChanInv, Live

(* A viewer's own socket is no server's. *)
LEMMA ChanClient ==
    ASSUME Inv, ChanInv, NEW i \in Slots, client_l[i] # NULL, NEW q,
           UNCHANGED <<client_l, server_l, conn_l, peer, open, status, asked>>,
           inq' = [inq EXCEPT ![client_l[i].fd] = q]
    PROVE  ChanInv'
<1> DEFINE fd == client_l[i].fd
<1>1. fd \in Fds /\ fd \in open /\ \A k \in Live(conn_l) : ServFd(k) # fd
  BY ClientApart
<1> HIDE DEF fd
<1>2. inq' = [inq EXCEPT ![fd] = q]
  BY DEF fd
<1>3. DOMAIN inq' = Fds /\ DOMAIN asked' = Fds
      /\ \A g \in Fds \ {fd} : inq'[g] = inq[g] /\ asked'[g] = asked[g]
  BY <1>2 DEF ChanInv
<1> QED BY <1>1, <1>3, ChanAt
-----------------------------------------------------------------------------
(* A conn opened for client c: what changes, slot by slot. *)
LEMMA NewServerShape ==
    ASSUME Inv, NEW c \in Slots, NEW fd, NEW addr, client_l[c] # NULL,
           NewServer(fd, addr, c), NEW k \in Slots, Opened(k)
    PROVE  \E i \in Slots :
             /\ server_l[i] = NULL /\ server_l'[i].fd = fd
             /\ \A s \in Slots : s # i => server_l'[s] = server_l[s]
             /\ conn_l[k] = NULL /\ conn_l'[k] # NULL
             /\ conn_l'[k].clit_idx = c /\ conn_l'[k].serv_idx = i
             /\ \A j \in Slots : j # k => conn_l'[j] = conn_l[j]
             /\ \A x \in Slots : client_l[x] # NULL => client_l'[x].fd = client_l[x].fd
             /\ status' = status
<1>1. PICK i \in Slots, m \in Slots : AddServer(fd, addr, i) /\ AddConn(c, i, m)
  BY DEF NewServer
<1> DEFINE srv == [fd |-> fd, addr |-> addr, num_clit |-> 1]
           cn  == [clit_idx |-> c, serv_idx |-> i]
<1>2. /\ server_l[i] = NULL /\ server_l' = [server_l EXCEPT ![i] = srv]
      /\ conn_l[m] = NULL /\ conn_l' = [conn_l EXCEPT ![m] = cn]
      /\ client_l' = [client_l EXCEPT ![c].num_serv = @ + 1]
  BY <1>1 DEF AddServer, AddConn, FirstFree
<1>3. /\ client_l \in [Slots -> ClientRec \cup {NULL}]
      /\ DOMAIN server_l = Slots /\ DOMAIN conn_l = Slots
  BY DEF Inv, TypeOK
<1>4. srv.fd = fd /\ cn.clit_idx = c /\ cn.serv_idx = i
  OBVIOUS
<1> HIDE DEF srv, cn
<1>5. server_l'[i] = srv /\ \A s \in Slots : s # i => server_l'[s] = server_l[s]
  BY <1>2, <1>3
<1>6. conn_l'[m] = cn /\ \A j \in Slots : j # m => conn_l'[j] = conn_l[j]
  BY <1>2, <1>3
<1>7. k = m /\ conn_l[k] = NULL /\ conn_l'[k] # NULL
  BY <1>6 DEF Opened
<1>8. ASSUME NEW x \in Slots, client_l[x] # NULL PROVE client_l'[x].fd = client_l[x].fd
  <2>1. client_l[x] \in ClientRec /\ client_l[c] \in ClientRec
    BY <1>3, <1>8
  <2>2. CASE x # c
    BY <1>2, <1>3, <2>2
  <2>3. CASE x = c
    <3>1. client_l'[c] = [client_l[c] EXCEPT !.num_serv = @ + 1]
      BY <1>2, <1>3
    <3>2. [client_l[c] EXCEPT !.num_serv = @ + 1].fd = client_l[c].fd
      BY <2>1 DEF ClientRec
    <3> QED BY <2>3, <3>1, <3>2
  <2> QED BY <2>2, <2>3
<1>9. status' = status
  BY DEF NewServer
<1> QED BY <1>2, <1>4, <1>5, <1>6, <1>7, <1>8, <1>9

(* The descriptor of the new server is fresh, or there is none. *)
LEMMA OpenServerShape ==
    ASSUME Inv, NEW c \in Slots, NEW addr \in ServerAddrs, OpenServer(c, addr)
    PROVE  /\ status = "serving" /\ client_l[c] # NULL
           /\ open \subseteq open'
           /\ \E fd \in Fds \cup {NoFd} :
                /\ fd = NoFd \/ (fd \notin open /\ fd \in open')
                /\ NewServer(fd, addr, c)
BY DEF OpenServer, Connect, ConnectFails, SocketFails, WantsServer, LowestFree

(* What the tables say after it: the conn opened is the client's, on a     *)
(* fresh descriptor or none, and the other conns keep theirs.              *)
LEMMA OpenLeaves ==
    ASSUME Inv, NEW c \in Slots, NEW addr \in ServerAddrs, OpenServer(c, addr),
           NEW k \in Slots, Opened(k), UNCHANGED peer
    PROVE  /\ status = "serving" /\ status' = status /\ open \subseteq open'
           /\ client_l[c] # NULL
           /\ conn_l'[k] # NULL /\ conn_l'[k].clit_idx = c
           /\ Live(conn_l') = Live(conn_l) \cup {k}
           /\ Viewer(c)' = Viewer(c) /\ Owner(k)' = Viewer(c)
           /\ ServFd(k)' = NoFd \/ ServFd(k)' \in (Fds \cap open') \ open
           /\ \A j \in Live(conn_l) :
                 j # k /\ ServFd(j)' = ServFd(j) /\ Owner(j)' = Owner(j)
<1>1. /\ status = "serving" /\ client_l[c] # NULL
      /\ open \subseteq open'
  BY OpenServerShape
<1>2. PICK fd \in Fds \cup {NoFd} :
           /\ fd = NoFd \/ (fd \notin open /\ fd \in open')
           /\ NewServer(fd, addr, c)
  BY OpenServerShape
<1>3. PICK i \in Slots :
             /\ server_l[i] = NULL /\ server_l'[i].fd = fd
             /\ \A s \in Slots : s # i => server_l'[s] = server_l[s]
             /\ conn_l[k] = NULL /\ conn_l'[k] # NULL
             /\ conn_l'[k].clit_idx = c /\ conn_l'[k].serv_idx = i
             /\ \A j \in Slots : j # k => conn_l'[j] = conn_l[j]
             /\ \A x \in Slots : client_l[x] # NULL => client_l'[x].fd = client_l[x].fd
             /\ status' = status
  BY <1>1, <1>2, NewServerShape
<1>4. Viewer(c)' = Viewer(c)
  BY <1>1, <1>3 DEF Viewer
<1>5. ServFd(k)' = fd /\ Owner(k)' = Viewer(c)
  BY <1>3, <1>4 DEF ServFd, Owner
<1>6. ASSUME NEW j \in Live(conn_l)
      PROVE  j # k /\ ServFd(j)' = ServFd(j) /\ Owner(j)' = Owner(j)
  <2>1. /\ j \in Slots /\ conn_l[j].clit_idx \in Slots /\ conn_l[j].serv_idx \in Slots
        /\ client_l[conn_l[j].clit_idx] # NULL /\ server_l[conn_l[j].serv_idx] # NULL
    BY LiveConn
  <2>2. j # k /\ conn_l'[j] = conn_l[j]
    BY <2>1, <1>3 DEF Live
  <2>3. server_l'[conn_l[j].serv_idx] = server_l[conn_l[j].serv_idx]
    BY <2>1, <1>3
  <2>4. client_l'[conn_l[j].clit_idx].fd = client_l[conn_l[j].clit_idx].fd
    BY <2>1, <1>3
  <2> QED BY <2>1, <2>2, <2>3, <2>4 DEF ServFd, Owner, Viewer
<1>7. Live(conn_l') = Live(conn_l) \cup {k}
  BY <1>3 DEF Live
<1> QED BY <1>1, <1>2, <1>3, <1>4, <1>5, <1>6, <1>7

(* Opening a conn, and asking on it at once or later. *)
LEMMA ChanOpen ==
    ASSUME Inv, ChanInv, NEW c \in Slots, NEW addr \in ServerAddrs, OpenServer(c, addr),
           NEW k \in Slots, Opened(k), UNCHANGED <<inq, peer>>,
           \/ UNCHANGED asked
           \/ \E kind, film :
                asked' = Send(asked, server_l'[conn_l'[k].serv_idx].fd,
                              Request(Viewer(c), kind, film))
    PROVE  /\ ChanInv' /\ conn_l'[k] # NULL /\ conn_l'[k].clit_idx = c
           /\ Viewer(c)' = Viewer(c)
<1>1. PICK fd : fd = ServFd(k)'
  OBVIOUS
<1>2. /\ status = "serving" /\ status' = status /\ open \subseteq open'
      /\ conn_l'[k] # NULL /\ conn_l'[k].clit_idx = c
      /\ Live(conn_l') = Live(conn_l) \cup {k}
      /\ Viewer(c)' = Viewer(c) /\ Owner(k)' = Viewer(c)
      /\ fd = NoFd \/ fd \in (Fds \cap open') \ open
  BY <1>1, OpenLeaves
<1>3. ASSUME NEW j \in Live(conn_l)
      PROVE  ServFd(j)' = ServFd(j) /\ Owner(j)' = Owner(j) /\ (ServFd(j) \in Fds => ServFd(j) \in open)
  BY LiveConn, OpenLeaves
<1>4. /\ DOMAIN asked' = Fds
      /\ \A g \in Fds \ {fd} : asked'[g] = asked[g]
      /\ fd \in Fds => Ours(asked'[fd], inq[fd], Viewer(c)) /\ peer[fd] = NULL
  <2>1. fd \in Fds => asked[fd] = <<>> /\ inq[fd] = <<>> /\ peer[fd] = NULL
    BY <1>2, PoolAssumption DEF ChanInv, NoFd
  <2>2. fd \in Fds => Ours(asked[fd], inq[fd], Viewer(c))
    BY <2>1, OursNone
  <2>3. CASE UNCHANGED asked
    BY <2>1, <2>2, <2>3 DEF ChanInv
  <2>4. ASSUME NEW kind, NEW film, asked' = Send(asked, fd, Request(Viewer(c), kind, film))
        PROVE  /\ DOMAIN asked' = Fds
               /\ \A g \in Fds \ {fd} : asked'[g] = asked[g]
               /\ fd \in Fds => Ours(asked'[fd], inq[fd], Viewer(c))
    <3> DEFINE r == Request(Viewer(c), kind, film)
    <3>1. fd \in Fds => Ours(Append(asked[fd], r), inq[fd], Viewer(c))
      BY <2>2, OursSend
    <3> HIDE DEF r
    <3>2. asked' = asked \/ (fd \in Fds /\ asked' = [asked EXCEPT ![fd] = Append(asked[fd], r)])
      BY <2>4 DEF Send, r
    <3> QED BY <2>2, <3>1, <3>2 DEF ChanInv
  <2>5. server_l'[conn_l'[k].serv_idx].fd = fd
    BY <1>1 DEF ServFd
  <2> QED BY <2>1, <2>3, <2>4, <2>5
<1>5. ASSUME NEW j \in Live(conn_l)' PROVE Mail(j)'
  <2>1. CASE j = k
    BY <1>1, <1>2, <1>4, <2>1 DEF Mail
  <2>2. CASE j # k
    <3>1. j \in Live(conn_l)
      BY <1>2, <1>5, <2>2
    <3>2. ServFd(j) \in Fds => ServFd(j) # fd
      BY <1>2, <1>3, <3>1, PoolAssumption DEF NoFd
    <3>3. Mail(j)
      BY <3>1 DEF ChanInv
    <3> QED BY <1>3, <1>4, <3>1, <3>2, <3>3 DEF Mail
  <2> QED BY <2>1, <2>2
<1>6. \A g \in Fds \ open' : inq'[g] = <<>> /\ asked'[g] = <<>> /\ peer'[g] = NULL
  BY <1>2, <1>4, PoolAssumption DEF ChanInv, NoFd
<1> QED BY <1>2, <1>4, <1>5, <1>6 DEF ChanInv

(* Closing a conn leaves the others their descriptors and owners; its own  *)
(* owner keeps another conn, or its socket is closed too.                  *)
LEMMA CloseLeaves ==
    ASSUME Inv, Inv', NEW k \in Slots, CloseConn(k), WithClosed
    PROVE  /\ status = "serving" /\ k \in Live(conn_l)
           /\ Live(conn_l') = Live(conn_l) \ {k} /\ conn_l'[k] = NULL
           /\ \A j \in Live(conn_l') :
                 /\ ServFd(j)' = ServFd(j) /\ Owner(j)' = Owner(j)
                 /\ ServFd(j) \in Fds => ServFd(j) \in open'
           /\ \/ \E j \in Live(conn_l') : Owner(j) = Owner(k)
              \/ \E fd \in open \ open' : peer[fd] = Owner(k)
<1> DEFINE c == conn_l[k].clit_idx
           s == conn_l[k].serv_idx
<1>1. /\ c \in Slots /\ s \in Slots /\ client_l[c] # NULL /\ server_l[s] # NULL
      /\ server_l' = [server_l EXCEPT ![s] = NULL]
      /\ conn_l' = [conn_l EXCEPT ![k] = NULL] /\ conn_l[k] # NULL
      /\ \/ client_l' = [client_l EXCEPT ![c] = NULL]
         \/ client_l' = [client_l EXCEPT ![c].num_serv = @ - 1]
      /\ ConnsOf(conn_l', c) = {} => client_l[c].num_serv = 1
  BY CloseConnShape
<1>2. /\ client_l \in [Slots -> ClientRec \cup {NULL}]
      /\ DOMAIN server_l = Slots /\ DOMAIN conn_l = Slots
  BY DEF Inv, TypeOK
<1>3. status = "serving"
  BY DEF CloseConn
<1>4. peer' = [fd \in Fds |-> IF fd \in open \ open' THEN NULL ELSE peer[fd]]
  BY DEF WithClosed
<1>5. client_l[c].fd \in Fds /\ client_l[c].fd \in open /\ Owner(k) = peer[client_l[c].fd]
  BY <1>1, ClientApart DEF Owner, Viewer
<1> HIDE DEF c, s
<1>6. /\ Live(conn_l') = Live(conn_l) \ {k} /\ conn_l'[k] = NULL
      /\ \A j \in Slots : j # k => conn_l'[j] = conn_l[j]
  BY <1>1, <1>2 DEF Live
<1>7. ASSUME NEW j \in Live(conn_l')
      PROVE  /\ ServFd(j)' = ServFd(j) /\ Owner(j)' = Owner(j)
             /\ ServFd(j) \in Fds => ServFd(j) \in open'
  <2>1. j \in Live(conn_l) /\ conn_l'[j] = conn_l[j]
    BY <1>6 DEF Live
  <2> DEFINE d == conn_l[j].clit_idx
             t == conn_l[j].serv_idx
  <2>2. d \in Slots /\ t \in Slots /\ client_l[d] # NULL /\ server_l[t] # NULL
    BY <2>1, LiveConn
  <2>3. client_l'[d] # NULL /\ server_l'[t] # NULL
        /\ client_l'[d].fd \in open' /\ (server_l'[t].fd \in Fds => server_l'[t].fd \in open')
    <3>1. client_l'[d] # NULL /\ server_l'[t] # NULL
      BY <1>7, <2>1 DEF Inv, ConnsWellFormed
    <3>2. client_l'[d].fd \in ClientFds'
      BY <2>2, <3>1 DEF ClientFds, Live
    <3>3. server_l'[t].fd \in Fds => server_l'[t].fd \in ServerFds'
      BY <2>2, <3>1, PoolAssumption DEF ServerFds, Live, NoFd
    <3>4. ClientFds' \cup ServerFds' \subseteq open'
      BY DEF Inv, SocketsOwned
    <3> QED BY <3>1, <3>2, <3>3, <3>4
  <2> HIDE DEF d, t
  <2>4. server_l'[t] = server_l[t]
    BY <1>1, <1>2, <2>2, <2>3
  <2>5. client_l'[d].fd = client_l[d].fd
    <3>1. CASE d # c
      BY <1>1, <1>2, <2>2, <3>1
    <3>2. CASE d = c
      <4>1. client_l'[c] = [client_l[c] EXCEPT !.num_serv = @ - 1]
        BY <1>1, <1>2, <2>3, <3>2
      <4>2. client_l[c] \in ClientRec
        BY <1>1, <1>2
      <4>3. [client_l[c] EXCEPT !.num_serv = @ - 1].fd = client_l[c].fd
        BY <4>2 DEF ClientRec
      <4> QED BY <3>2, <4>1, <4>3
    <3> QED BY <3>1, <3>2
  <2>6. ServFd(j)' = ServFd(j) /\ ServFd(j) = server_l[t].fd
    BY <2>1, <2>4 DEF ServFd, t
  <2>7. client_l[d].fd \in Fds
    BY <2>2, ClientApart
  <2>8. Owner(j)' = Owner(j)
    <3>1. Owner(j) = peer[client_l[d].fd] /\ Owner(j)' = peer'[client_l'[d].fd]
      BY <2>1 DEF Owner, Viewer, d
    <3> QED BY <1>4, <2>3, <2>5, <2>7, <3>1
  <2> QED BY <2>3, <2>4, <2>6, <2>8
<1>8. client_l[c].num_serv = 1 => \E fd \in open \ open' : peer[fd] = Owner(k)
  <2>1. client_l[c].num_serv = 1 => client_l[c].fd \notin open'
    BY <1>5 DEF CloseConn, Release, c
  <2> QED BY <1>5, <2>1
<1>9. ASSUME NEW j \in ConnsOf(conn_l', c) PROVE j \in Live(conn_l') /\ Owner(j) = Owner(k)
  BY <1>6, <1>9 DEF ConnsOf, Live, Owner, c
<1> QED BY <1>1, <1>3, <1>6, <1>7, <1>8, <1>9 DEF Live

(* What is left keeps its queues, what is closed loses them before its     *)
(* descriptor can be handed out again.                                     *)
LEMMA ChanClose ==
    ASSUME Inv, Inv', ChanInv, NEW k \in Slots, CloseConn(k), WithClosed
    PROVE  ChanInv'
<1> DEFINE shut == open \ open'
<1>1. /\ inq' = [fd \in Fds |-> IF fd \in shut THEN <<>> ELSE inq[fd]]
      /\ asked' = [fd \in Fds |-> IF fd \in shut THEN <<>> ELSE asked[fd]]
      /\ peer' = [fd \in Fds |-> IF fd \in shut THEN NULL ELSE peer[fd]]
  BY DEF WithClosed
<1>2. status = "serving" /\ Live(conn_l') \subseteq Live(conn_l)
  BY CloseLeaves
<1>3. \A fd \in Fds \ open' : inq'[fd] = <<>> /\ asked'[fd] = <<>> /\ peer'[fd] = NULL
  BY <1>1, <1>2 DEF ChanInv
<1>4. ASSUME NEW j \in Live(conn_l)' PROVE Mail(j)'
  <2>1. /\ ServFd(j)' = ServFd(j) /\ Owner(j)' = Owner(j)
        /\ ServFd(j) \in Fds => ServFd(j) \in open'
    BY <1>4, CloseLeaves
  <2>2. Mail(j)
    BY <1>2, <1>4 DEF ChanInv
  <2> QED BY <1>1, <2>1, <2>2 DEF Mail
<1>5. DOMAIN inq' = Fds /\ DOMAIN asked' = Fds /\ DOMAIN peer' = Fds
  BY <1>1
<1> QED BY <1>3, <1>4, <1>5 DEF ChanInv

(* A viewer is accepted on a fresh descriptor; no conn is touched. *)
LEMMA AcceptLeaves ==
    ASSUME Inv, AcceptViewer
    PROVE  /\ status = "serving" /\ open \subseteq open'
           /\ UNCHANGED <<server_l, conn_l, inq, asked, fin, status>>
           /\ peer' = [fd \in Fds |-> IF fd \in open' \ open THEN Head(knocking) ELSE peer[fd]]
           /\ \A j \in Live(conn_l) : ServFd(j)' = ServFd(j) /\ Owner(j)' = Owner(j)
<1>1. /\ status = "serving" /\ open \subseteq open'
      /\ UNCHANGED <<server_l, conn_l, inq, asked, fin, status>>
      /\ peer' = [fd \in Fds |-> IF fd \in open' \ open THEN Head(knocking) ELSE peer[fd]]
  BY DEF AcceptViewer, Accept, serverVars, connVars, chanVars
<1>2. ASSUME NEW x \in Slots, client_l[x] # NULL PROVE client_l'[x] = client_l[x]
  <2>1. CASE UNCHANGED client_l
    BY <2>1
  <2>2. ASSUME NEW fd, NEW i \in Slots, AddClient(fd, ClientAddr, i)
        PROVE  client_l'[x] = client_l[x]
    <3> DEFINE r == [fd |-> fd, addr |-> ClientAddr, num_serv |-> 0]
    <3>1. client_l' = [client_l EXCEPT ![i] = r] /\ client_l[i] = NULL
      BY <2>2 DEF AddClient, FirstFree
    <3> HIDE DEF r
    <3> QED BY <1>2, <3>1
  <2> QED BY <2>1, <2>2 DEF AcceptViewer, Accept, clientVars
<1>3. ASSUME NEW k \in Live(conn_l) PROVE ServFd(k)' = ServFd(k) /\ Owner(k)' = Owner(k)
  <2> DEFINE c == conn_l[k].clit_idx
  <2>1. c \in Slots /\ client_l[c] # NULL /\ client_l[c].fd \in open
    BY LiveConn
  <2>2. client_l'[c] = client_l[c] /\ client_l[c].fd \in Fds
    BY <1>2, <2>1, ClientApart
  <2>3. Owner(k) = peer[client_l[c].fd] /\ Owner(k)' = peer'[client_l'[c].fd]
    BY <1>1 DEF Owner, Viewer
  <2> HIDE DEF c
  <2>4. peer'[client_l[c].fd] = peer[client_l[c].fd]
    BY <1>1, <2>1, <2>2
  <2> QED BY <1>1, <2>2, <2>3, <2>4 DEF ServFd
<1> QED BY <1>1, <1>3

LEMMA ChanAccept ==
    ASSUME Inv, ChanInv, AcceptViewer
    PROVE  ChanInv'
<1>1. /\ status = "serving" /\ open \subseteq open'
      /\ UNCHANGED <<server_l, conn_l, inq, asked, status>>
      /\ peer' = [fd \in Fds |-> IF fd \in open' \ open THEN Head(knocking) ELSE peer[fd]]
  BY AcceptLeaves
<1>2. ASSUME NEW k \in Live(conn_l) PROVE Mail(k)'
  <2>1. Owner(k)' = Owner(k) /\ ServFd(k)' = ServFd(k)
    BY AcceptLeaves
  <2>2. Mail(k) /\ (ServFd(k) \in Fds => ServFd(k) \in open)
    BY LiveConn DEF ChanInv
  <2>3. ServFd(k) \in Fds => peer'[ServFd(k)] = peer[ServFd(k)]
    BY <1>1, <2>2
  <2> QED BY <1>1, <2>1, <2>2, <2>3 DEF Mail
<1>3. DOMAIN peer' = Fds
  BY <1>1
<1>4. \A fd \in Fds \ open' : peer'[fd] = NULL /\ inq'[fd] = <<>> /\ asked'[fd] = <<>>
  BY <1>1 DEF ChanInv
<1> QED BY <1>1, <1>2, <1>3, <1>4 DEF ChanInv, Live

-----------------------------------------------------------------------------
(* What a viewer has been given. *)
LEMMA GotSame == ASSUME GotInv, UNCHANGED got PROVE GotInv'
BY DEF GotInv, Private

LEMMA GotOwn ==
    ASSUME GotInv, NEW v, NEW type, NEW film, NEW to, to = v, Deliver(v, type, film, to)
    PROVE  GotInv'
<1> DEFINE a == [type |-> type, film |-> film, to |-> to]
<1>1. got' = [got EXCEPT ![v] = a] /\ a.to = v
  BY DEF Deliver
<1> HIDE DEF a
<1> QED BY <1>1 DEF GotInv, Private

LEMMA GotRefused ==
    ASSUME GotInv, NEW i, Refuse(i)
    PROVE  GotInv'
BY GotSame, GotOwn DEF Refuse, answerVars

(* Steps after which no handler runs, or the same one on the same tables.  *)
LEMMA NoJob == ASSUME pc' \notin {"route", "forward", "body", "dial"} PROVE JobFor'
BY DEF JobFor

LEMMA SameJob ==
    ASSUME JobFor, UNCHANGED <<pc, job, client_l, conn_l, peer>>
    PROVE  JobFor'
BY DEF JobFor, Owner, Viewer

Kept == ChanInv' /\ JobFor' /\ GotInv'

-----------------------------------------------------------------------------
(* client2server up to the routing of a request.                           *)
LEMMA RequestKept ==
    ASSUME PrivInv, NEW i \in Slots, client_l[i] # NULL, NEW g, NEW more,
           UNCHANGED <<poolVars, peer>>, RequestHeaders(i, g, more)
    PROVE  /\ JobFor' /\ GotInv'
           /\ \E q : inq' = [inq EXCEPT ![client_l[i].fd] = q]
<1>1. UNCHANGED <<client_l, conn_l>>
  BY DEF poolVars, clientVars, connVars
<1>2. ASSUME NEW ok, Parsed(i, g, ok) PROVE JobFor' /\ GotInv'
  <2>1. CASE Refuse(i) /\ ReturnFrom("clients", i)
    BY <2>1, GotRefused, NoJob DEF PrivInv, ReturnFrom
  <2>2. CASE /\ pc' = "route" /\ UNCHANGED answerVars
             /\ job' = [idx |-> i, kind |-> g.kind, film |-> g.film, ok |-> ok, conn |-> NULL]
    <3>1. job'.idx = i /\ "idx" \in DOMAIN job'
      BY <2>2
    <3>2. JobFor'
      BY <1>1, <2>2, <3>1 DEF JobFor
    <3> QED BY <2>2, <3>2, GotSame DEF PrivInv, answerVars
  <2> QED BY <1>2, <2>1, <2>2 DEF Parsed
<1>3. ASSUME Stop("hung"), UNCHANGED answerVars PROVE JobFor' /\ GotInv'
  BY <1>3, GotSame, NoJob DEF PrivInv, Stop, answerVars
<1>4. \E q : inq' = [inq EXCEPT ![client_l[i].fd] = q]
  BY DEF RequestHeaders
<1>5. (\E ok : Parsed(i, g, ok)) \/ (Stop("hung") /\ UNCHANGED answerVars)
  BY DEF RequestHeaders
<1> QED BY <1>2, <1>3, <1>4, <1>5

LEMMA ClientKept ==
    ASSUME PrivInv, NEW i \in Slots, ReadGet(i) \/ ReadOther(i) \/ ReadNothing(i)
    PROVE  Kept
<1>1. client_l[i] # NULL /\ pc = "clients"
  BY DEF ReadGet, ReadOther, ReadNothing, ClientTurn, ScanAt, Marked
<1>2. /\ UNCHANGED <<poolVars, peer, asked>>
      /\ UNCHANGED <<client_l, server_l, conn_l, open, status>>
  BY DEF ReadGet, ReadOther, ReadNothing, partyVars, poolVars, clientVars, serverVars,
         connVars, fdVars
<1>3. ASSUME NEW g, NEW more, RequestHeaders(i, g, more) PROVE Kept
  <2>1. JobFor' /\ GotInv'
    BY <1>1, <1>2, <1>3, RequestKept
  <2>2. PICK q : inq' = [inq EXCEPT ![client_l[i].fd] = q]
    BY <1>1, <1>2, <1>3, RequestKept
  <2>3. ChanInv'
    BY <1>1, <1>2, <2>2, ChanClient DEF PrivInv, LoopInv
  <2> QED BY <2>1, <2>3 DEF Kept
<1>4. ASSUME Refuse(i), ReturnFrom("clients", i), NEW q,
             inq' = [inq EXCEPT ![client_l[i].fd] = q]
      PROVE  Kept
  <2>1. ChanInv'
    BY <1>1, <1>2, <1>4, ChanClient DEF PrivInv, LoopInv
  <2> QED BY <1>4, <2>1, GotRefused, NoJob DEF Kept, PrivInv, ReturnFrom
<1>5. ASSUME ReturnFrom("clients", i), UNCHANGED <<inq, answerVars>> PROVE Kept
  BY <1>2, <1>5, ChanSame, GotSame, NoJob DEF Kept, PrivInv, ReturnFrom, answerVars
<1>6. CASE ReadGet(i)
  BY <1>3, <1>6 DEF ReadGet
<1>7. CASE ReadOther(i)
  BY <1>3, <1>4, <1>7, OtherLine DEF Refused
<1>8. CASE ReadNothing(i)
  BY <1>3, <1>5, <1>8 DEF ReadNothing
<1> QED BY <1>6, <1>7, <1>8

(* A handler that closes its conn and returns. *)
LEMMA CloseKept ==
    ASSUME PrivInv, Inv', NEW k \in Slots, CloseConn(k), WithClosed,
           pc' \in {"clients", "servers"}, UNCHANGED got
    PROVE  Kept
BY ChanClose, GotSame, NoJob DEF Kept, PrivInv, LoopInv

(* The connection found, or opened, is one of the client that asked. *)
LEMMA RouteKept ==
    ASSUME PrivInv, Inv', Route
    PROVE  Kept
<1>1. PICK addr \in ServerAddrs, k \in Slots :
          /\ \/ ClientConn(client_l[job.idx].fd, addr, k) /\ UNCHANGED poolVars
             \/ /\ OpenServer(job.idx, addr)
                /\ Opened(k)
          /\ job' = [job EXCEPT !.conn = k]
  BY DEF Route
<1>2. /\ pc = "route" /\ pc' = "forward"
      /\ UNCHANGED <<inq, asked, peer, got>>
  BY DEF Route, chanVars, partyVars, answerVars
<1>3. job.idx \in Slots /\ {"idx", "conn"} \subseteq DOMAIN job
  BY <1>2 DEF PrivInv, LoopInv, JobOK, JobFor
<1>4. job'.conn = k /\ job'.idx = job.idx
  BY <1>1, <1>3
<1>5. GotInv'
  BY <1>2, GotSame DEF PrivInv
<1>6. CASE ClientConn(client_l[job.idx].fd, addr, k) /\ UNCHANGED poolVars
  <2>1. UNCHANGED <<client_l, server_l, conn_l, open, status>>
    BY <1>6 DEF poolVars, clientVars, serverVars, connVars, fdVars
  <2>2. conn_l[k] # NULL /\ Owner(k) = Viewer(job.idx)
    BY <1>6 DEF ClientConn, Joins, Owner, Viewer
  <2>3. JobFor'
    BY <1>2, <1>4, <2>1, <2>2 DEF JobFor, Owner, Viewer
  <2>4. ChanInv'
    BY <1>2, <2>1, ChanSame DEF PrivInv
  <2> QED BY <1>5, <2>3, <2>4 DEF Kept
<1>7. CASE OpenServer(job.idx, addr) /\ Opened(k)
  <2>1. /\ ChanInv' /\ conn_l'[k] # NULL /\ conn_l'[k].clit_idx = job.idx
        /\ Viewer(job.idx)' = peer'[client_l'[job.idx].fd]
    BY <1>1, <1>2, <1>3, <1>7, ChanOpen DEF PrivInv, LoopInv, Viewer
  <2>2. JobFor'
    BY <1>2, <1>4, <2>1 DEF JobFor, Owner, Viewer
  <2> QED BY <1>5, <2>1, <2>2 DEF Kept
<1> QED BY <1>1, <1>6, <1>7
-----------------------------------------------------------------------------
(* A request goes out on the conn of the viewer that made it. *)
LEMMA SendKept ==
    ASSUME Inv, ChanInv, NEW k \in Live(conn_l), NEW kind, NEW film,
           UNCHANGED <<client_l, server_l, conn_l, peer, open, status>>,
           UNCHANGED asked \/ asked' = Send(asked, ServFd(k), Request(Owner(k), kind, film)),
           DOMAIN inq' = Fds, \A g \in Fds \ {ServFd(k)} : inq'[g] = inq[g],
           ServFd(k) \in Fds =>
              Ours(asked[ServFd(k)], inq'[ServFd(k)], Owner(k))
    PROVE  ChanInv'
<1> DEFINE fd == ServFd(k)
           r  == Request(Owner(k), kind, film)
<1>1. fd \in Fds => fd \in open
  BY LiveConn
<1>2. fd \in Fds => Ours(Append(asked[fd], r), inq'[fd], Owner(k))
  BY OursSend
<1>3. fd \in Fds => Ours(asked[fd], inq'[fd], Owner(k))
  OBVIOUS
<1>4. asked' = asked \/ (fd \in Fds /\ asked' = [asked EXCEPT ![fd] = Append(asked[fd], r)])
  BY DEF Send
<1>5. \A j \in Live(conn_l) : ServFd(j) = fd /\ fd \in Fds => j = k
  BY OneConn
<1> HIDE DEF fd, r
<1>6. DOMAIN asked' = Fds /\ \A g \in Fds \ {fd} : asked'[g] = asked[g]
  BY <1>4 DEF ChanInv
<1>7. fd \in Fds => Ours(asked'[fd], inq'[fd], Owner(k))
  BY <1>2, <1>3, <1>4 DEF ChanInv
<1>8. \A j \in Live(conn_l) : ServFd(j) = fd /\ fd \in Fds => Ours(asked'[fd], inq'[fd], Owner(j))
  BY <1>5, <1>7
<1>9. \A g \in Fds \ {fd} : inq'[g] = inq[g] /\ asked'[g] = asked[g]
  BY <1>6 DEF fd
<1> QED BY <1>1, <1>6, <1>8, <1>9, ChanAt

LEMMA ForwardKept ==
    ASSUME PrivInv, ForwardRequest
    PROVE  Kept
<1>1. /\ pc = "forward" /\ pc' = "clients"
      /\ asked' = Send(asked, ServFd(job.conn), Request(Viewer(job.idx), job.kind, job.film))
      /\ UNCHANGED <<inq, peer, got, poolVars>>
  BY DEF ForwardRequest, ServFd, Return, partyVars, answerVars
<1>2. UNCHANGED <<client_l, server_l, conn_l, open, status>>
  BY <1>1 DEF poolVars, clientVars, serverVars, connVars, fdVars
<1>3. job.conn \in Live(conn_l) /\ Owner(job.conn) = Viewer(job.idx)
  BY <1>1 DEF PrivInv, LoopInv, JobOK, JobFor, Live
<1>4. Mail(job.conn)
  BY <1>3 DEF PrivInv, ChanInv
<1>5. ChanInv'
  <2>1. ServFd(job.conn) \in Fds =>
          Ours(asked[ServFd(job.conn)], inq'[ServFd(job.conn)], Owner(job.conn))
    BY <1>1, <1>4 DEF Mail
  <2>2. DOMAIN inq' = Fds /\ \A g \in Fds : inq'[g] = inq[g]
    BY <1>1 DEF PrivInv, ChanInv
  <2> QED BY <1>1, <1>2, <1>3, <2>1, <2>2, SendKept DEF PrivInv, LoopInv
<1> QED BY <1>1, <1>5, NoJob, GotSame DEF Kept, PrivInv

-----------------------------------------------------------------------------
(* server2client: a head is taken for the viewer behind the server's conn. *)
LEMMA HeadKept ==
    ASSUME PrivInv, Inv', NEW i \in Slots, ReadHead(i)
    PROVE  Kept
<1> DEFINE fd == server_l[i].fd
<1>1. PICK k \in Slots :
         /\ ServerTurn(i) /\ ServerConn(fd, k)
         /\ inq[fd] # <<>> /\ inq[fd][1].part = "head"
         /\ \/ CloseAndReturn(k, "servers", i)
            \/ /\ pc' = "body"
               /\ job' = [idx |-> i, conn |-> k, head |-> inq[fd][1]]
               /\ inq' = [inq EXCEPT ![fd] = Tail(inq[fd])]
               /\ UNCHANGED <<asked, peer, got, poolVars>>
  BY DEF ReadHead, Starts, partyVars, answerVars
<1>2. CASE CloseAndReturn(k, "servers", i)
  BY <1>2, CloseKept DEF CloseAndReturn, ReturnFrom
<1>3. CASE /\ pc' = "body"
           /\ job' = [idx |-> i, conn |-> k, head |-> inq[fd][1]]
           /\ inq' = [inq EXCEPT ![fd] = Tail(inq[fd])]
           /\ UNCHANGED <<asked, peer, got, poolVars>>
  <2>1. k \in Live(conn_l) /\ ServFd(k) = fd /\ fd \in Fds
    BY <1>1 DEF ServerConn, Carries, ServFd, Live, ServerTurn, ScanAt, Marked, PrivInv
  <2>2. UNCHANGED <<client_l, server_l, conn_l, open, status>>
    BY <1>3 DEF poolVars, clientVars, serverVars, connVars, fdVars
  <2>3. Ours(asked[fd], inq[fd], Owner(k))
    BY <2>1 DEF PrivInv, ChanInv, Mail
  <2>4. Ours(asked[fd], Tail(inq[fd]), Owner(k)) /\ inq[fd][1].to = Owner(k)
    BY <1>1, <2>3, OursRead
  <2> HIDE DEF fd
  <2>5. /\ DOMAIN inq' = Fds /\ inq'[fd] = Tail(inq[fd])
        /\ \A g \in Fds \ {fd} : inq'[g] = inq[g]
    BY <1>3, <2>1 DEF PrivInv, ChanInv
  <2>6. ChanInv'
    <3>1. \A g \in Fds \ {ServFd(k)} : inq'[g] = inq[g]
      BY <2>1, <2>5
    <3>2. ServFd(k) \in Fds => Ours(asked[ServFd(k)], inq'[ServFd(k)], Owner(k))
      BY <2>1, <2>4, <2>5
    <3>3. UNCHANGED <<client_l, server_l, conn_l, peer, open, status, asked>>
      BY <1>3, <2>2
    <3> QED BY <2>1, <2>5, <3>1, <3>2, <3>3, SendKept DEF PrivInv, LoopInv
  <2>7. JobFor'
    <3>1. job'.head = inq[fd][1] /\ job'.conn = k
      BY <1>3
    <3>2. Owner(k)' = Owner(k)
      BY <1>3, <2>2 DEF Owner, Viewer
    <3> QED BY <1>3, <2>4, <3>1, <3>2 DEF JobFor, Owner
  <2>8. GotInv'
    BY <1>3, GotSame DEF PrivInv
  <2> QED BY <2>6, <2>7, <2>8 DEF Kept
<1> QED BY <1>1, <1>2, <1>3

LEMMA NoHeadKept ==
    ASSUME PrivInv, Inv', NEW i \in Slots, ReadCutHead(i) \/ ReadNoHead(i)
    PROVE  Kept
<1>1. \/ \E k \in Slots : CloseAndReturn(k, "servers", i)
      \/ /\ \E how \in {"hung", "aborted"} : Stop(how)
         /\ UNCHANGED <<inq, asked, peer, got, poolVars>>
  BY DEF ReadCutHead, ReadNoHead, chanVars, partyVars, answerVars
<1>2. ASSUME NEW k \in Slots, CloseAndReturn(k, "servers", i) PROVE Kept
  BY <1>2, CloseKept DEF CloseAndReturn, ReturnFrom
<1>3. CASE /\ \E how \in {"hung", "aborted"} : Stop(how)
           /\ UNCHANGED <<inq, asked, peer, got, poolVars>>
  <2>1. UNCHANGED <<client_l, server_l, conn_l, open, status>>
    BY <1>3 DEF poolVars, clientVars, serverVars, connVars, fdVars
  <2> QED BY <1>3, <2>1, ChanSame, GotSame, NoJob DEF Kept, PrivInv, Stop
<1> QED BY <1>1, <1>2, <1>3
-----------------------------------------------------------------------------
(* The conn whose body is being read, and whose answer it is. *)
LEMMA BodyFor ==
    ASSUME PrivInv, pc \in {"body", "dial"}
    PROVE  /\ job.conn \in Live(conn_l) /\ job.conn \in Slots
           /\ BodyFd = ServFd(job.conn) /\ BodyOwner = Owner(job.conn)
           /\ job.head.to = BodyOwner
           /\ BodyFd \in Fds => Ours(asked[BodyFd], inq[BodyFd], BodyOwner)
<1>1. job.conn \in Live(conn_l) /\ job.conn \in Slots /\ job.head.to = Owner(job.conn)
  BY DEF PrivInv, LoopInv, JobOK, JobFor, Live
<1>2. BodyFd = ServFd(job.conn) /\ BodyOwner = Owner(job.conn)
  BY DEF BodyFd, BodyConn, BodyOwner, ServFd, Owner
<1>3. Mail(job.conn)
  BY <1>1 DEF PrivInv, ChanInv
<1> QED BY <1>1, <1>2, <1>3 DEF Mail

(* The body is taken from the socket. *)
LEMMA TakeBody ==
    ASSUME PrivInv, pc = "body", inq[BodyFd] # <<>>,
           inq' = [inq EXCEPT ![BodyFd] = Tail(inq[BodyFd])],
           UNCHANGED <<client_l, server_l, conn_l, peer, open, status>>,
           \/ UNCHANGED asked
           \/ \E kind, film : asked' = Send(asked, BodyFd, Request(job.head.to, kind, film))
    PROVE  ChanInv'
<1> DEFINE k == job.conn
<1>1. /\ k \in Live(conn_l) /\ BodyFd = ServFd(k) /\ job.head.to = Owner(k)
      /\ BodyFd \in Fds => Ours(asked[BodyFd], inq[BodyFd], Owner(k))
  BY BodyFor
<1> HIDE DEF k
<1>2. DOMAIN inq' = Fds /\ \A g \in Fds \ {ServFd(k)} : inq'[g] = inq[g]
  BY <1>1 DEF PrivInv, ChanInv
<1>3. ServFd(k) \in Fds => inq'[ServFd(k)] = Tail(inq[ServFd(k)])
  BY <1>1 DEF PrivInv, ChanInv
<1>4. ServFd(k) \in Fds => Ours(asked[ServFd(k)], inq'[ServFd(k)], Owner(k))
  BY <1>1, <1>3, OursRead
<1> QED BY <1>1, <1>2, <1>4, SendKept DEF PrivInv, LoopInv

LEMMA AnswerKept ==
    ASSUME PrivInv, pc = "body", NEW film, Answer(BodyOwner, film)
    PROVE  GotInv' /\ JobFor' /\ UNCHANGED <<asked, peer, poolVars>>
<1>1. job.head.to = BodyOwner
  BY BodyFor
<1>2. UNCHANGED got \/ Deliver(BodyOwner, job.head.type, film, job.head.to)
  BY DEF Answer, answerVars
<1>3. GotInv'
  BY <1>1, <1>2, GotSame, GotOwn DEF PrivInv
<1>4. pc' = "servers" /\ UNCHANGED <<asked, peer, poolVars>>
  BY DEF Answer, Return, partyVars
<1> QED BY <1>3, <1>4, NoJob

LEMMA CloseBodyKept ==
    ASSUME PrivInv, Inv', pc = "body", CloseBodyConn
    PROVE  Kept
<1>1. job.conn \in Slots
  BY DEF PrivInv, LoopInv, JobOK
<1> QED BY <1>1, CloseKept DEF CloseBodyConn, Return

LEMMA BodyKept ==
    ASSUME PrivInv, Inv', ForwardBody \/ KeepList \/ BodyLost
    PROVE  Kept
<1>1. pc = "body"
  BY DEF ForwardBody, KeepList, BodyLost
<1>2. ASSUME UNCHANGED poolVars
      PROVE  UNCHANGED <<client_l, server_l, conn_l, open, status>>
  BY <1>2 DEF poolVars, clientVars, serverVars, connVars, fdVars
<1>3. CASE ForwardBody
  <2>1. CASE Answer(BodyOwner, job.head.film) /\ inq' = [inq EXCEPT ![BodyFd] = Tail(inq[BodyFd])]
    <3>1. inq[BodyFd] # <<>>
      BY <1>3 DEF ForwardBody, Starts
    <3> QED BY <1>1, <1>2, <2>1, <3>1, AnswerKept, TakeBody DEF Kept
  <2> QED BY <1>1, <1>3, <2>1, CloseBodyKept DEF ForwardBody
<1>4. CASE KeepList
  <2>1. /\ inq[BodyFd] # <<>>
        /\ inq' = [inq EXCEPT ![BodyFd] = Tail(inq[BodyFd])]
        /\ UNCHANGED <<peer, got, poolVars>>
        /\ \/ asked' = Send(asked, BodyFd, Request(job.head.to, "nolist", nolist_buf))
              /\ pc' = "servers"
           \/ UNCHANGED <<asked, job>> /\ pc' = "dial"
    BY <1>4 DEF KeepList, Starts, Return, partyVars, answerVars
  <2>2. ChanInv'
    BY <1>1, <1>2, <2>1, TakeBody
  <2>3. JobFor'
    <3>1. CASE pc' = "servers"
      BY <3>1, NoJob
    <3>2. CASE job' = job /\ pc' = "dial"
      BY <1>1, <1>2, <2>1, <3>2 DEF JobFor, PrivInv, Owner, Viewer
    <3> QED BY <2>1, <3>1, <3>2
  <2> QED BY <2>1, <2>2, <2>3, GotSame DEF Kept, PrivInv
<1>5. CASE BodyLost
  <2>1. CASE Stop("hung") /\ UNCHANGED <<chanVars, partyVars, answerVars, poolVars>>
    <3>1. UNCHANGED <<inq, asked, peer, got>>
      BY <2>1 DEF chanVars, partyVars, answerVars
    <3> QED BY <1>2, <2>1, <3>1, ChanSame, GotSame, NoJob DEF Kept, PrivInv, Stop
  <2>2. CASE Answer(BodyOwner, Garbage) /\ UNCHANGED inq
    BY <1>1, <1>2, <2>2, AnswerKept, ChanSame DEF Kept, PrivInv
  <2> QED BY <1>1, <1>5, <2>1, <2>2, CloseBodyKept DEF BodyLost
<1> QED BY <1>3, <1>4, <1>5

(* ask_for_nolist on a new connection of the same client. *)
LEMMA DialKept ==
    ASSUME PrivInv, Inv', DialForNolist
    PROVE  Kept
<1> DEFINE c == conn_l[job.conn].clit_idx
<1>1. PICK addr \in ServerAddrs, k \in Slots :
          /\ OpenServer(c, addr) /\ Opened(k)
          /\ asked' = Send(asked, server_l'[conn_l'[k].serv_idx].fd,
                           Request(job.head.to, "nolist", nolist_buf))
  BY DEF DialForNolist, BodyConn
<1>2. pc = "dial" /\ pc' = "servers" /\ UNCHANGED <<inq, peer, got>>
  BY DEF DialForNolist, Return, partyVars, answerVars
<1>3. c \in Slots
  BY <1>2, ConnClient DEF PrivInv
<1>4. job.head.to = Viewer(c)
  BY <1>2, BodyFor DEF Owner
<1> HIDE DEF c
<1>5. ChanInv'
  BY <1>1, <1>2, <1>3, <1>4, ChanOpen DEF PrivInv, LoopInv
<1> QED BY <1>2, <1>5, NoJob, GotSame DEF Kept, PrivInv

-----------------------------------------------------------------------------
(* Viewers write to their own sockets only; servers answer what they were  *)
(* asked, in order.                                                        *)
LEMMA ViewerKept ==
    ASSUME PrivInv, NEW v \in Viewers,
           Knock(v) \/ SendRequest(v) \/ SendHeaders(v) \/ Leave(v)
    PROVE  Kept
<1>1. /\ UNCHANGED <<pc, job, peer, asked, got, poolVars>>
      /\ UNCHANGED inq \/ \E fd \in Fds : \E p : peer[fd] = v /\ inq' = [inq EXCEPT ![fd] = inq[fd] \o p]
  BY DEF Knock, SendRequest, SendHeaders, Leave, FdOf, Enqueue, loopVars, chanVars, partyVars,
         answerVars
<1>2. UNCHANGED <<client_l, server_l, conn_l, open, status>>
  BY <1>1 DEF poolVars, clientVars, serverVars, connVars, fdVars
<1>3. JobFor' /\ GotInv'
  BY <1>1, <1>2, SameJob, GotSame DEF PrivInv
<1>4. CASE UNCHANGED inq
  BY <1>1, <1>2, <1>3, <1>4, ChanSame DEF Kept, PrivInv
<1>5. ASSUME NEW fd \in Fds, NEW p, peer[fd] = v, inq' = [inq EXCEPT ![fd] = inq[fd] \o p]
      PROVE  ChanInv'
  <2>1. peer[fd] # NULL
    BY <1>5, ProxyAssumption
  <2>2. \A k \in Live(conn_l) : ServFd(k) # fd
    BY <1>5, <2>1 DEF PrivInv, ChanInv, Mail
  <2>3. ~(status = "serving" /\ fd \in Fds \ open)
    BY <2>1 DEF PrivInv, ChanInv
  <2>4. /\ DOMAIN inq' = Fds /\ DOMAIN asked' = Fds
        /\ \A g \in Fds \ {fd} : inq'[g] = inq[g] /\ asked'[g] = asked[g]
    BY <1>1, <1>5 DEF PrivInv, ChanInv
  <2> QED BY <1>1, <1>2, <2>2, <2>3, <2>4, ChanAt DEF PrivInv
<1> QED BY <1>1, <1>3, <1>4, <1>5 DEF Kept

(* What a server sends is for the viewer whose request it answers. *)
LEMMA ServerSends ==
    ASSUME PrivInv, NEW fd \in Fds, UNCHANGED <<pc, job, peer, got, poolVars>>,
           NEW p, IsQueue(p), NEW a,
           DOMAIN inq' = Fds, DOMAIN asked' = Fds,
           inq'[fd] = inq[fd] \o p \/ UNCHANGED inq, asked'[fd] = a,
           \A g \in Fds \ {fd} : inq'[g] = inq[g] /\ asked'[g] = asked[g],
           asked[fd] = <<>> => UNCHANGED inq /\ a = <<>>,
           \A k \in Live(conn_l) : ServFd(k) = fd =>
              /\ Ours(a, inq[fd], Owner(k))
              /\ \A e \in ToSet(p) : e.part = "head" => e.to = Owner(k)
    PROVE  Kept
<1>1. UNCHANGED <<client_l, server_l, conn_l, open, status>>
  BY DEF poolVars, clientVars, serverVars, connVars, fdVars
<1>2. JobFor' /\ GotInv'
  BY <1>1, SameJob, GotSame DEF PrivInv
<1>3. ASSUME NEW k \in Live(conn_l), ServFd(k) = fd PROVE Ours(asked'[fd], inq'[fd], Owner(k))
  <2>1. CASE inq'[fd] = inq[fd] \o p
    <3>1. Ours(a, inq[fd] \o p, Owner(k))
      BY <1>3, OursPut
    <3> QED BY <2>1, <3>1
  <2>2. CASE UNCHANGED inq
    BY <1>3, <2>2
  <2> QED BY <2>1, <2>2
<1>4. status = "serving" /\ fd \in Fds \ open => inq'[fd] = <<>> /\ asked'[fd] = <<>>
  BY DEF PrivInv, ChanInv
<1>5. ChanInv'
  BY <1>1, <1>3, <1>4, ChanAt DEF PrivInv
<1> QED BY <1>2, <1>5 DEF Kept
LEMMA ServerKept ==
    ASSUME PrivInv, NEW fd \in Fds, ServerAnswers(fd) \/ ServerDies(fd) \/ ServerLeaves(fd)
    PROVE  Kept
<1>1. UNCHANGED <<pc, job, peer, got, poolVars>>
  BY DEF ServerAnswers, ServerDies, ServerLeaves, loopVars, partyVars, answerVars
<1>2. DOMAIN inq = Fds /\ DOMAIN asked = Fds
  BY DEF PrivInv, ChanInv
<1>3. ASSUME NEW k \in Live(conn_l), ServFd(k) = fd PROVE Ours(asked[fd], inq[fd], Owner(k))
  BY <1>3 DEF PrivInv, ChanInv, Mail
<1> DEFINE r == Head(asked[fd])
(* A head is for the viewer of the request it answers. *)
<1>4. ASSUME NEW k \in Live(conn_l), ServFd(k) = fd, asked[fd] # <<>>,
             NEW type, NEW close, NEW cut
      PROVE  /\ ResponseHead(r, type, close, cut).to = Owner(k)
             /\ Body.part # "head"
  <2>1. r.to = Owner(k)
    BY <1>3, <1>4, OursAnswered
  <2> QED BY <2>1 DEF ResponseHead, Body
<1>5. CASE ServerAnswers(fd)
  <2>1. asked[fd] # <<>>
    BY <1>5 DEF ServerAnswers
  <2>2. PICK type, close :
          LET h == ResponseHead(r, type, close, "no")
          IN \/ inq' = [inq EXCEPT ![fd] = inq[fd] \o <<Body>>]
                /\ asked' = [asked EXCEPT ![fd] = Tail(asked[fd])]
             \/ inq' = [inq EXCEPT ![fd] = inq[fd] \o <<h, Body>>]
                /\ asked' = [asked EXCEPT ![fd] = Tail(asked[fd])]
             \/ inq' = [inq EXCEPT ![fd] = inq[fd] \o <<h>>]
                /\ asked' = [asked EXCEPT ![fd] = <<[r EXCEPT !.kind = "body"]>> \o Tail(asked[fd])]
    BY <1>5 DEF ServerAnswers, Enqueue
  <2> DEFINE h == ResponseHead(r, type, close, "no")
             half == <<[r EXCEPT !.kind = "body"]>> \o Tail(asked[fd])
  <2>3. \A k \in Live(conn_l) : ServFd(k) = fd =>
            /\ Ours(Tail(asked[fd]), inq[fd], Owner(k)) /\ Ours(half, inq[fd], Owner(k))
            /\ h.to = Owner(k) /\ Body.part # "head"
    BY <1>3, <1>4, <2>1, OursAnswered, OursHalf
  <2> HIDE DEF h, half
  <2>4. PICK p, a :
          /\ IsQueue(p) /\ ToSet(p) \subseteq {h, Body}
          /\ inq' = [inq EXCEPT ![fd] = inq[fd] \o p]
          /\ asked' = [asked EXCEPT ![fd] = a]
          /\ a \in {Tail(asked[fd]), half}
    <3>1. /\ IsQueue(<<Body>>) /\ ToSet(<<Body>>) \subseteq {h, Body}
          /\ IsQueue(<<h>>) /\ ToSet(<<h>>) \subseteq {h, Body}
          /\ IsQueue(<<h, Body>>) /\ ToSet(<<h, Body>>) \subseteq {h, Body}
      BY ShortQueues
    <3>2. \/ inq' = [inq EXCEPT ![fd] = inq[fd] \o <<Body>>]
             /\ asked' = [asked EXCEPT ![fd] = Tail(asked[fd])]
          \/ inq' = [inq EXCEPT ![fd] = inq[fd] \o <<h, Body>>]
             /\ asked' = [asked EXCEPT ![fd] = Tail(asked[fd])]
          \/ inq' = [inq EXCEPT ![fd] = inq[fd] \o <<h>>]
             /\ asked' = [asked EXCEPT ![fd] = half]
      BY <2>2 DEF h, half
    <3> QED BY <3>1, <3>2
  <2>5. /\ DOMAIN inq' = Fds /\ DOMAIN asked' = Fds
        /\ inq'[fd] = inq[fd] \o p /\ asked'[fd] = a
        /\ \A g \in Fds \ {fd} : inq'[g] = inq[g] /\ asked'[g] = asked[g]
    BY <1>2, <2>4
  <2>6. \A k \in Live(conn_l) : ServFd(k) = fd =>
              /\ Ours(a, inq[fd], Owner(k))
              /\ \A e \in ToSet(p) : e.part = "head" => e.to = Owner(k)
    BY <2>3, <2>4
  <2> QED BY <1>1, <2>1, <2>4, <2>5, <2>6, ServerSends
<1>6. CASE ServerDies(fd)
  <2>1. asked[fd] # <<>>
    BY <1>6 DEF ServerDies
  <2>2. PICK type, cut :
          /\ \/ UNCHANGED inq
             \/ inq' = [inq EXCEPT ![fd] = inq[fd] \o <<ResponseHead(r, type, "keep", cut)>>]
          /\ asked' = [asked EXCEPT ![fd] = <<>>]
    BY <1>6 DEF ServerDies, Enqueue
  <2> DEFINE h == ResponseHead(r, type, "keep", cut)
  <2>3. \A k \in Live(conn_l) : ServFd(k) = fd =>
            Ours(<<>>, inq[fd], Owner(k)) /\ h.to = Owner(k)
    BY <1>3, <1>4, <2>1, OursForgotten
  <2> HIDE DEF h
  <2>4. IsQueue(<<h>>) /\ ToSet(<<h>>) = {h}
    BY ShortQueues
  <2>5. /\ DOMAIN inq' = Fds /\ DOMAIN asked' = Fds
        /\ inq'[fd] = inq[fd] \o <<h>> \/ UNCHANGED inq
        /\ asked'[fd] = <<>>
        /\ \A g \in Fds \ {fd} : inq'[g] = inq[g] /\ asked'[g] = asked[g]
    BY <1>2, <2>2 DEF h
  <2>6. \A k \in Live(conn_l) : ServFd(k) = fd =>
              /\ Ours(<<>>, inq[fd], Owner(k))
              /\ \A e \in ToSet(<<h>>) : e.part = "head" => e.to = Owner(k)
    BY <2>3, <2>4
  <2> QED BY <1>1, <2>1, <2>4, <2>5, <2>6, ServerSends
<1>7. CASE ServerLeaves(fd)
  <2>1. UNCHANGED inq /\ asked' = [asked EXCEPT ![fd] = <<>>]
    BY <1>7 DEF ServerLeaves
  <2>2. /\ DOMAIN inq' = Fds /\ DOMAIN asked' = Fds /\ asked'[fd] = <<>>
        /\ \A g \in Fds \ {fd} : inq'[g] = inq[g] /\ asked'[g] = asked[g]
    BY <1>2, <2>1
  <2>3. \A k \in Live(conn_l) : ServFd(k) = fd => Ours(<<>>, inq[fd], Owner(k))
    BY <1>3, OursForgotten
  <2> QED BY <1>1, <2>1, <2>2, <2>3, ShortQueues, ServerSends
<1> QED BY <1>5, <1>6, <1>7

-----------------------------------------------------------------------------
LEMMA PrivInit == Init => PrivInv
<1> SUFFICES ASSUME Init PROVE PrivInv
  OBVIOUS
<1>1. LoopInv
  BY InitInv DEF Init, LoopInv, JobOK
<1>2. Live(conn_l) = {}
  BY DEF Init, PoolInit, Live
<1>3. ChanInv
  BY <1>2 DEF Init, ChanInv
<1>4. JobFor /\ GotInv /\ read_rdy \subseteq Fds
  BY DEF Init, JobFor, GotInv, Private
<1> QED BY <1>1, <1>3, <1>4 DEF PrivInv

(* select names only descriptors of this process. *)
LEMMA ReadyKept == PrivInv /\ [Next]_vars => read_rdy' \subseteq Fds
<1> SUFFICES ASSUME PrivInv, [Next]_vars PROVE read_rdy' \subseteq Fds
  OBVIOUS
<1>1. read_rdy \subseteq Fds /\ open \subseteq Fds
  BY DEF PrivInv, LoopInv, Inv, TypeOK
<1>2. CASE Select
  BY <1>1, <1>2 DEF Select
<1>3. CASE EndScan
  BY <1>1, <1>3 DEF EndScan
<1>4. CASE AcceptViewer \/ AcceptGivesUp \/ Route \/ TablesFull \/ DropRequest \/ ForwardRequest
  BY <1>1, <1>4 DEF AcceptViewer, AcceptGivesUp, Route, TablesFull, DropRequest, ForwardRequest,
                    Stop, Return
<1>5. CASE ClientStep
  <2>1. ASSUME NEW i, NEW g, NEW more, RequestHeaders(i, g, more) PROVE UNCHANGED read_rdy
    BY <2>1 DEF RequestHeaders, Parsed, ReturnFrom, Stop
  <2>2. ASSUME NEW i, NEW rest, Refused(i, rest) PROVE UNCHANGED read_rdy
    BY <2>2 DEF Refused, ReturnFrom
  <2>3. ASSUME NEW i \in Slots, ReadGet(i) \/ ReadOther(i) \/ ReadNothing(i)
        PROVE  UNCHANGED read_rdy
    BY <2>1, <2>2, <2>3, OtherLine DEF ReadGet, ReadNothing, ReturnFrom
  <2> QED BY <1>1, <1>5, <2>3 DEF ClientStep
<1>6. CASE ServerStep
  BY <1>1, <1>6 DEF ServerStep, ReadHead, ReadCutHead, ReadNoHead, CloseAndReturn, ReturnFrom, Stop
<1>7. CASE ForwardBody \/ KeepList \/ DialForNolist \/ BodyLost
  BY <1>1, <1>7 DEF ForwardBody, KeepList, DialForNolist, BodyLost, Answer, CloseBodyConn,
                    Return, Stop
<1>8. CASE PeerStep
  <2>1. UNCHANGED loopVars
    BY <1>8 DEF PeerStep, Knock, SendRequest, SendHeaders, Leave, ServerAnswers,
                ServerDies, ServerLeaves
  <2> QED BY <1>1, <2>1 DEF loopVars
<1>9. CASE UNCHANGED vars
  BY <1>1, <1>9 DEF vars, loopVars
<1>10. CASE SendSpins \/ ResolveHangs
  BY <1>1, <1>10, StuckInPlace
<1> QED BY <1>2, <1>3, <1>4, <1>5, <1>6, <1>7, <1>8, <1>9, <1>10 DEF Next, ProxyStep

LEMMA StepKept == PrivInv /\ Inv' /\ [Next]_vars => Kept
<1> SUFFICES ASSUME PrivInv, Inv', [Next]_vars PROVE Kept
  OBVIOUS
<1>1. ASSUME UNCHANGED poolVars
      PROVE  UNCHANGED <<client_l, server_l, conn_l, open, status>>
  BY <1>1 DEF poolVars, clientVars, serverVars, connVars, fdVars
<1>2. CASE Select \/ EndScan
  <2>1. /\ UNCHANGED <<inq, asked, peer, got, poolVars>>
        /\ pc' \in {"accept", "clients", "servers", "select"}
    BY <1>2 DEF Select, EndScan, chanVars, partyVars, answerVars
  <2> QED BY <1>1, <2>1, ChanSame, GotSame, NoJob DEF Kept, PrivInv
<1>3. CASE AcceptViewer
  <2>1. pc' = "clients" /\ UNCHANGED got
    BY <1>3 DEF AcceptViewer, answerVars
  <2> QED BY <1>3, <2>1, ChanAccept, GotSame, NoJob DEF Kept, PrivInv, LoopInv
<1>4. CASE AcceptGivesUp
  <2>1. /\ UNCHANGED <<client_l, server_l, conn_l, peer, inq, asked, got>>
        /\ status' = "deaf" /\ pc' = "deaf"
    BY <1>4 DEF AcceptGivesUp, AcceptFails, Stop, clientVars, serverVars, connVars, chanVars,
                partyVars, answerVars
  <2> QED BY <2>1, ChanSame, GotSame, NoJob DEF Kept, PrivInv
<1>5. CASE TablesFull
  <2>1. /\ UNCHANGED <<client_l, server_l, conn_l, peer, inq, asked, got>>
        /\ status' = "overrun" /\ pc' = "overrun"
    BY <1>5 DEF TablesFull, Overrun, Stop, clientVars, serverVars, connVars, chanVars,
                partyVars, answerVars
  <2> QED BY <2>1, ChanSame, GotSame, NoJob DEF Kept, PrivInv
<1>6. CASE DropRequest
  <2>1. job.conn \in Slots
    BY <1>6 DEF DropRequest, PrivInv, LoopInv, JobOK
  <2> QED BY <1>6, <2>1, CloseKept DEF DropRequest, Return
<1>7. CASE ClientStep
  BY <1>7, ClientKept DEF ClientStep
<1>8. CASE ServerStep
  BY <1>8, HeadKept, NoHeadKept DEF ServerStep
<1>9. CASE PeerStep
  BY <1>9, ViewerKept, ServerKept DEF PeerStep
<1>10. CASE UNCHANGED vars
  <2>1. UNCHANGED <<pc, job, inq, asked, peer, got, poolVars>>
    BY <1>10 DEF vars, loopVars, chanVars, partyVars, answerVars
  <2> QED BY <1>1, <2>1, ChanSame, GotSame, SameJob DEF Kept, PrivInv
<1>11. CASE SendSpins \/ ResolveHangs
  <2>1. UNCHANGED <<inq, asked, peer, got, poolVars>> /\ pc' = "hung"
    BY <1>11, StuckInPlace DEF chanVars, partyVars, answerVars
  <2> QED BY <1>1, <2>1, ChanSame, GotSame, NoJob DEF Kept, PrivInv
<1> QED BY <1>11, <1>2, <1>3, <1>4, <1>5, <1>6, <1>7, <1>8, <1>9, <1>10, RouteKept, ForwardKept,
           BodyKept, DialKept DEF Next, ProxyStep

LEMMA PrivStep == PrivInv /\ [Next]_vars => PrivInv'
<1> SUFFICES ASSUME PrivInv, [Next]_vars PROVE PrivInv'
  OBVIOUS
<1>1. LoopInv'
  BY StepDrivesPool, NextInv DEF PrivInv, LoopInv
<1> QED BY <1>1, StepKept, ReadyKept DEF PrivInv, LoopInv, Kept

(***************************************************************************)
(* Privacy: whatever is closed and reopened while requests and answers are *)
(* under way, and whatever peers and kernel do, a viewer receives only     *)
(* answers to requests that were forwarded for that viewer.                *)
(***************************************************************************)
THEOREM AnswersPrivate == Spec => []Private
<1>1. PrivInv => Private
  BY DEF PrivInv, GotInv
<1> QED BY <1>1, PrivInit, PrivStep, PTL DEF Spec
=============================================================================
