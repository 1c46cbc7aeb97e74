------------------------------- MODULE Proxy -------------------------------
(***************************************************************************)
(* The event loop of proxy.c with its two handlers, over the pool.  One    *)
(* thread: select, accept at most one viewer, serve every ready client,    *)
(* then every ready server.  A handler runs to its end before the next     *)
(* descriptor is looked at, and it polls its socket in place, so pc names  *)
(* where the thread stands and every step of a viewer or a video server    *)
(* may fall between two of its steps.                                      *)
(*                                                                         *)
(* A socket's unread input is a sequence of pieces: a request is a line    *)
(* and the header block after it, a response a head and a body.  What a    *)
(* path says is reduced to its kind and the film it belongs to.            *)
(***************************************************************************)
EXTENDS Pool, SequencesExt

CONSTANTS Viewers,     (* browser sockets that may connect                  *)
          FilmOf,      (* the film each viewer watches                      *)
          Plans,       (* the kinds of request each viewer will send        *)
          ServerAddrs, (* what www_ip, or the resolver, yields              *)
          ClientAddr,  (* the address recorded for viewers                  *)
          Faults,      (* which misbehaviours of peers and kernel may occur *)
          Unset,       (* what a line buffer nothing was read into may hold *)
          MaxAsked     (* bound on a socket's queues when stale requests  *)
                       (* can be repeated without end                       *)

NoFilm  == "none"      \* nolist_buf before the first manifest request
Garbage == "garbage"   \* bytes that were never written

Films == {FilmOf[v] : v \in Viewers}

ASSUME ProxyAssumption ==
    /\ Plans \in [Viewers -> Seq({"list", "video", "page", "bad", "post"})]
    /\ ServerAddrs \subseteq Addrs /\ ClientAddr \in Addrs
    /\ Faults \subseteq {"noHost", "slow", "leave", "cut", "refuse", "noSocket", "accept", "misc",
                         "close", "slowBody", "die", "rst", "serverLeaves", "stall", "silent"}
    /\ Unset \subseteq {"empty", "junk", "stale"} /\ Unset # {}
    /\ NULL \notin Viewers /\ Films \cap {NoFilm, Garbage} = {}

VARIABLES
    pc,          \* where the thread stands
    cursor,      \* next index of the scan in serve_clients or serve_servers
    read_rdy,    \* select's answer, not touched until the next select
    nready,      \* descriptors select counted, less those handled
    job,         \* locals of the running handler
    lastGet,     \* the request line the unset buffers may still hold, or NULL
    nolist_buf,  \* film of the manifest request kept for ask_for_nolist
    bitrates,    \* film whose bitrate list is in force
    knocking,    \* viewers in the listen backlog
    peer,        \* viewer at the other end of a client descriptor, or NULL
    inq,         \* unread pieces of each descriptor
    fin,         \* "no", "eof" or "rst": whether the peer has closed
    asked,       \* requests forwarded on a server descriptor, unanswered
    plan,        \* the kinds each viewer has still to send
    place,       \* where each viewer is: "out", "in", "left" or "dropped"
    owed,        \* viewers that sent a line whose headers are still to come
    waiting,     \* viewers whose last request is unanswered
    got,         \* the last answer each viewer has received, or NULL
    lister,      \* film of the manifest request in flight for each viewer
    crossed,     \* viewers whose manifest request another's has followed
    stranded     \* viewers that waited when one of their connections went
                 \* and another stayed

loopVars   == <<pc, cursor, read_rdy, nready, job>>
globalVars == <<lastGet, nolist_buf, bitrates>>
chanVars   == <<inq, fin, asked>>
viewerVars == <<plan, owed>>
partyVars  == <<knocking, peer, place>>
histVars   == <<crossed, stranded>>
markVars   == <<lister, histVars>>
answerVars == <<waiting, got>>
vars == <<loopVars, globalVars, chanVars, viewerVars, partyVars, markVars, answerVars, poolVars>>

-----------------------------------------------------------------------------
GetLine(kind, film) == [part |-> "get", kind |-> kind, film |-> film]
PostLine            == [part |-> "post"]
Headers(host)       == [part |-> "hdrs", host |-> host]
CutHeaders          == [part |-> "cut"]
Body                == [part |-> "body"]
Request(v, kind, film) == [to |-> v, kind |-> kind, film |-> film]

(* A response head answering r.  cut tells where a dying server stopped:   *)
(* after the Content-Type line, after another line, or not at all ("no").  *)
ResponseHead(r, type, close, cut) ==
    [part |-> "head", to |-> r.to, film |-> r.film, type |-> type,
     close |-> close, cut |-> cut]

Readable(fd)    == inq[fd] # <<>> \/ fin[fd] # "no"
Drained(fd)     == inq[fd] = <<>> /\ fin[fd] # "no"
Starts(q, part) == q # <<>> /\ q[1].part = part

Viewer(c) == peer[client_l[c].fd]

(* Closing descriptors throws away what was queued on them and drops the   *)
(* viewers at their other end.                                             *)
WithClosed ==
    LET shut == open \ open'
        blank(q, b) == [fd \in Fds |-> IF fd \in shut THEN b ELSE q[fd]]
        dropped == {peer[fd] : fd \in shut} \ {NULL}
        parted == {Viewer(conn_l[k].clit_idx) : k \in {j \in Live(conn_l) : conn_l'[j] = NULL}}
    IN /\ inq' = blank(inq, <<>>)
       /\ fin' = blank(fin, "no")
       /\ asked' = blank(asked, <<>>)
       /\ peer' = blank(peer, NULL)
       /\ place' = [v \in Viewers |-> IF v \in dropped /\ place[v] = "in"
                                      THEN "dropped" ELSE place[v]]
       /\ waiting' = waiting \ dropped
       /\ owed' = owed \ dropped
       /\ stranded' = stranded \cup ((parted \cap waiting) \ dropped)
       /\ lister' = [v \in Viewers |-> IF v \in dropped THEN NoFilm ELSE lister[v]]

(* io_sendn to viewer v of an answer, when it ends (see SendSpins). *)
Deliver(v, type, film, to) ==
    /\ got' = [got EXCEPT ![v] = [type |-> type, film |-> film, to |-> to]]
    /\ waiting' = waiting \ {v}

(* Mutant: the scan steps over the next record. *)
MutReturn(phase) ==
    /\ pc' = phase
    /\ cursor' = job.idx + 2
    /\ nready' = nready - 1
    /\ job' = NULL
    /\ UNCHANGED read_rdy

(* The handler returns: the scan that called it goes on. *)
Return(phase) ==
    /\ pc' = phase
    /\ cursor' = job.idx + 1
    /\ nready' = nready - 1
    /\ job' = NULL
    /\ UNCHANGED read_rdy

ReturnFrom(phase, i) ==
    /\ pc' = phase
    /\ cursor' = i + 1
    /\ nready' = nready - 1
    /\ UNCHANGED <<read_rdy, job>>

Stop(how) == pc' = how /\ UNCHANGED <<cursor, read_rdy, nready, job>>

-----------------------------------------------------------------------------
Init ==
    /\ PoolInit
    /\ pc = "select" /\ cursor = 0 /\ read_rdy = {} /\ nready = 0 /\ job = NULL
    /\ lastGet = NULL /\ nolist_buf = NoFilm /\ bitrates = NoFilm
    /\ knocking = <<>>
    /\ peer = [fd \in Fds |-> NULL]
    /\ inq = [fd \in Fds |-> <<>>]
    /\ fin = [fd \in Fds |-> "no"]
    /\ asked = [fd \in Fds |-> <<>>]
    /\ plan = Plans
    /\ place = [v \in Viewers |-> "out"]
    /\ owed = {} /\ waiting = {} /\ crossed = {} /\ stranded = {}
    /\ got = [v \in Viewers |-> NULL]
    /\ lister = [v \in Viewers |-> NoFilm]

(***************************************************************************)
(* select.  Every connected socket is in write_nrdy too, so the call       *)
(* returns at once and may count any of them as writable; a round in which *)
(* nothing is readable changes nothing and is left out.                    *)
(***************************************************************************)
Select ==
    /\ pc = "select"
    /\ LET ready == {fd \in read_nrdy \cap open :
                        IF fd = ListenFd THEN knocking # <<>> ELSE Readable(fd)}
       IN /\ ready # {}
          /\ read_rdy' = ready
          /\ \E writable \in {0, Cardinality(read_nrdy) - 1} :
                nready' = Cardinality(ready) + writable
          /\ pc' = IF ListenFd \in ready THEN "accept" ELSE "clients"
    /\ cursor' = 0
    /\ UNCHANGED <<job, globalVars, chanVars, viewerVars, partyVars, markVars, answerVars, poolVars>>

AcceptViewer ==
    /\ pc = "accept"
    /\ Accept(ClientAddr)
    /\ peer' = [fd \in Fds |-> IF fd \in open' \ open THEN Head(knocking) ELSE peer[fd]]
    /\ place' = [place EXCEPT ![Head(knocking)] = "in"]
    /\ knocking' = Tail(knocking)
    /\ nready' = nready - 1
    /\ pc' = "clients"
    /\ UNCHANGED <<cursor, read_rdy, job, globalVars, chanVars, viewerVars, markVars, answerVars>>

(* The loop closes its listening socket and from then on only spins. *)
AcceptGivesUp ==
    /\ pc = "accept"
    /\ "accept" \in Faults \/ Fds \subseteq open
    /\ AcceptFails
    /\ Stop("deaf")
    /\ UNCHANGED <<globalVars, chanVars, viewerVars, partyVars, markVars, answerVars>>

-----------------------------------------------------------------------------
(* serve_clients and serve_servers: the scan stops at the next live record *)
(* whose descriptor is set in read_rdy, as long as nready lasts.           *)
Marked(tbl, i)  == tbl[i] # NULL /\ tbl[i].fd \in read_rdy

ScanAt(tbl, max, i) ==
    /\ nready > 0
    /\ i \in cursor..max
    /\ Marked(tbl, i)
    /\ \A j \in cursor..(i - 1) : ~Marked(tbl, j)

ClientTurn(i) == pc = "clients" /\ ScanAt(client_l, max_clit_idx, i)
ServerTurn(i) == pc = "servers" /\ ScanAt(server_l, max_serv_idx, i)

(* Mutant: as long as nready lasts the clients are scanned again. *)
MutEndScan ==
    /\ \A i \in Slots : ~ClientTurn(i) /\ ~ServerTurn(i)
    /\ \/ pc = "clients" /\ pc' = "servers" /\ UNCHANGED <<read_rdy, nready>>
       \/ pc = "servers" /\ nready > 0 /\ pc' = "clients" /\ UNCHANGED <<read_rdy, nready>>
       \/ pc = "servers" /\ nready <= 0 /\ pc' = "select" /\ read_rdy' = {} /\ nready' = 0
    /\ cursor' = 0
    /\ UNCHANGED <<job, globalVars, chanVars, viewerVars, partyVars, markVars, answerVars, poolVars>>

(* read_rdy and nready are dead once both scans are over: they are cleared *)
(* here so that the states of the next round meet.                         *)
EndScan ==
    /\ \A i \in Slots : ~ClientTurn(i) /\ ~ServerTurn(i)
    /\ \/ /\ pc = "clients"
          /\ pc' = "servers"
          /\ cursor' = 0
          /\ UNCHANGED <<read_rdy, nready>>
       \/ /\ pc = "servers"
          /\ pc' = "select"
          /\ cursor' = 0 /\ read_rdy' = {} /\ nready' = 0
    /\ UNCHANGED <<job, globalVars, chanVars, viewerVars, partyVars, markVars, answerVars, poolVars>>

-----------------------------------------------------------------------------
(* client2server.  clienterror answers on the spot and leaves the header   *)
(* block of the refused request in the socket.                             *)
Refuse(i) ==
    LET v == Viewer(i)
    IN IF place[v] = "in" THEN Deliver(v, "error", FilmOf[v], v) ELSE UNCHANGED answerVars

(* After read_requesthdrs: ok is FALSE where it returned -1. *)
Parsed(i, g, ok) ==
    \/ /\ g.kind = "bad"
       /\ Refuse(i)
       /\ ReturnFrom("clients", i)
    \/ /\ g.kind # "bad"
       /\ pc' = "route"
       /\ job' = [idx |-> i, kind |-> g.kind, film |-> g.film, ok |-> ok, conn |-> NULL]
       /\ UNCHANGED <<cursor, read_rdy, nready, answerVars>>

(* read_requesthdrs on what follows the line g: the block is there, it is  *)
(* late (the polls run out and 1 is returned), or the viewer is gone.  A   *)
(* viewer gone after some header line leaves the loop re-reading that line *)
(* for ever; one gone before leaves it an unset buffer.  A request line    *)
(* met here, of whatever method, passes for a header.                      *)
RequestHeaders(i, g, more) ==
    LET fd == client_l[i].fd
        rest == IF Starts(more, "get") \/ Starts(more, "post") THEN Tail(more) ELSE more
        keep(q) == inq' = [inq EXCEPT ![fd] = q]
    IN \/ Starts(rest, "hdrs") /\ Parsed(i, g, rest[1].host) /\ keep(Tail(rest))
       \/ Starts(rest, "cut") /\ Stop("hung") /\ keep(Tail(rest)) /\ UNCHANGED answerVars
       \/ /\ rest = <<>>
          /\ fin[fd] = "no" \/ "empty" \in Unset
          /\ Parsed(i, g, TRUE) /\ keep(<<>>)
       \/ /\ rest = <<>> /\ fin[fd] # "no"
          /\ Unset \cap {"junk", "stale"} # {}
          /\ Parsed(i, g, FALSE) /\ keep(<<>>)
       \/ /\ rest = <<>> /\ fin[fd] # "no" /\ "stale" \in Unset
          /\ Stop("hung") /\ keep(<<>>) /\ UNCHANGED answerVars

ReadGet(i) ==
    LET q == inq[client_l[i].fd]
    IN /\ ClientTurn(i)
       /\ Starts(q, "get")
       /\ RequestHeaders(i, q[1], Tail(q))
       /\ lastGet' = q[1]
       /\ UNCHANGED <<nolist_buf, bitrates, fin, asked, viewerVars, partyVars, markVars, poolVars>>

(* A line that is not a GET is answered 501.  A header block left behind   *)
(* comes a line at a time, and each line that is left of it, the Host line *)
(* (if it still has it) and others, gets its own.  The blank line, the     *)
(* last, sets no method: the test then reads the method before it, so the  *)
(* last GET may be acted on again.                                         *)
Refused(i, rest) ==
    /\ Refuse(i)
    /\ ReturnFrom("clients", i)
    /\ inq' = [inq EXCEPT ![client_l[i].fd] = rest]

ReadOther(i) ==
    LET q == inq[client_l[i].fd]
    IN /\ ClientTurn(i)
       /\ \/ Starts(q, "post") /\ Refused(i, Tail(q))
          \/ Starts(q, "hdrs") /\ Refused(i, q)
          \/ Starts(q, "hdrs") /\ q[1].host /\ Refused(i, <<Headers(FALSE)>> \o Tail(q))
          \/ /\ Starts(q, "hdrs") /\ ~q[1].host
             /\ \/ Refused(i, Tail(q))
                \/ /\ "stale" \in Unset /\ lastGet # NULL
                   /\ RequestHeaders(i, lastGet, Tail(q))
       /\ UNCHANGED <<globalVars, fin, asked, viewerVars, partyVars, markVars, poolVars>>

(* Nothing was read: the polls ran out, or the viewer is gone and the line *)
(* buffer is what it was.  An empty buffer, or one with no GET in it,      *)
(* changes nothing; a GET left in it is acted on as if it had come again.  *)
ReadNothing(i) ==
    LET fd == client_l[i].fd
    IN /\ ClientTurn(i)
       /\ inq[fd] = <<>>
       /\ \/ /\ fin[fd] = "no" \/ Unset \cap {"empty", "junk"} # {}
             /\ ReturnFrom("clients", i)
             /\ UNCHANGED <<inq, answerVars>>
          \/ /\ fin[fd] # "no" /\ "stale" \in Unset /\ lastGet # NULL
             /\ \A f \in Fds : Len(asked[f]) + Len(inq[f]) < MaxAsked
             /\ RequestHeaders(i, lastGet, <<>>)
       /\ UNCHANGED <<globalVars, fin, asked, viewerVars, partyVars, markVars, poolVars>>

(* The connection of this client to the resolved address, found or opened. *)
Opened(k) == conn_l[k] = NULL /\ conn_l'[k] # NULL

OpenServer(c, addr) ==
    \/ Connect(c, addr)
    \/ "refuse" \in Faults /\ ConnectFails(c, addr)
    \/ /\ "noSocket" \in Faults \/ Fds \subseteq open
       /\ SocketFails(c, addr)

Route ==
    /\ pc = "route"
    /\ \E addr \in ServerAddrs, k \in Slots :
          /\ \/ ClientConn(client_l[job.idx].fd, addr, k) /\ UNCHANGED poolVars
             \/ /\ NoClientConn(client_l[job.idx].fd, addr)
                /\ OpenServer(job.idx, addr)
                /\ Opened(k)
          /\ job' = [job EXCEPT !.conn = k]
    /\ pc' = "forward"
    /\ UNCHANGED <<cursor, read_rdy, nready, globalVars, chanVars, viewerVars, partyVars, markVars, answerVars>>

(* The tables are full: -1 is used as an index (see Pool). *)
TablesFull ==
    /\ \E addr \in ServerAddrs :
          \/ /\ pc = "route"
             /\ NoClientConn(client_l[job.idx].fd, addr)
             /\ Overrun(job.idx, addr)
          \/ pc = "dial" /\ Overrun(conn_l[job.conn].clit_idx, addr)
    /\ Stop("overrun")
    /\ UNCHANGED <<globalVars, chanVars, viewerVars, partyVars, markVars, answerVars>>

(* The headers were bad: the connection goes, and with it the server. *)
DropRequest ==
    /\ pc = "forward" /\ ~job.ok
    /\ CloseConn(job.conn)
    /\ WithClosed
    /\ Return("clients")
    /\ UNCHANGED <<globalVars, plan, knocking, crossed, got>>

(* Bytes sent to a server that is gone, or on no descriptor, are lost. *)
Send(q, fd, r) ==
    IF fd \in Fds /\ fin[fd] = "no" THEN [q EXCEPT ![fd] = Append(@, r)] ELSE q

(* Mutant: nolist_buf is written once and kept. *)
MutForwardRequest ==
    LET v == Viewer(job.idx)
        list == job.kind = "list"
    IN /\ pc = "forward" /\ job.ok
       /\ asked' = Send(asked, server_l[conn_l[job.conn].serv_idx].fd,
                        Request(v, job.kind, job.film))
       /\ nolist_buf' = IF list /\ nolist_buf = NoFilm THEN job.film ELSE nolist_buf
       /\ crossed' = IF list THEN crossed \cup {u \in Viewers \ {v} : lister[u] # NoFilm}
                             ELSE crossed
       /\ lister' = IF list THEN [lister EXCEPT ![v] = job.film] ELSE lister
       /\ Return("clients")
       /\ UNCHANGED <<lastGet, bitrates, inq, fin, viewerVars, partyVars, stranded, answerVars, poolVars>>

(* flag is set only for a manifest request: left over from another call it *)
(* makes nolist_buf be written again, from a path that may be unset.       *)
ForwardRequest ==
    LET v == Viewer(job.idx)
        list == job.kind = "list"
    IN /\ pc = "forward" /\ job.ok
       /\ asked' = Send(asked, server_l[conn_l[job.conn].serv_idx].fd,
                        Request(v, job.kind, job.film))
       /\ nolist_buf' \in IF list THEN {job.film}
                          ELSE {nolist_buf} \cup {g \in {Garbage} : "junk" \in Unset}
       /\ crossed' = IF list THEN crossed \cup {u \in Viewers \ {v} : lister[u] # NoFilm}
                             ELSE crossed
       /\ lister' = IF list THEN [lister EXCEPT ![v] = job.film] ELSE lister
       /\ Return("clients")
       /\ UNCHANGED <<lastGet, bitrates, inq, fin, viewerVars, partyVars, stranded, answerVars, poolVars>>

-----------------------------------------------------------------------------
(* server2client.  server_get_conn always finds the connection, since a    *)
(* live server is on exactly one (theorem PoolConns).                      *)
CloseAndReturn(k, phase, i) ==
    /\ CloseConn(k)
    /\ WithClosed
    /\ ReturnFrom(phase, i)
    /\ UNCHANGED <<globalVars, plan, knocking, crossed, got>>

(* Sending to viewer v may fail once the viewer has closed. *)
SendMayFail(v) == place[v] # "in"

(* A complete head.  Any type but text/xml and video/f4f closes the        *)
(* connection; an f4f head is forwarded before its body is read.           *)
ReadHead(i) ==
    \E k \in Slots :
        LET fd == server_l[i].fd
            h == inq[fd][1]
        IN /\ ServerTurn(i)
           /\ ServerConn(fd, k)
           /\ Starts(inq[fd], "head") /\ h.cut = "no"
           /\ \/ /\ \/ h.type = "misc"
                    \/ h.type = "f4f" /\ SendMayFail(Viewer(conn_l[k].clit_idx))
                 /\ CloseAndReturn(k, "servers", i)
              \/ /\ h.type # "misc"
                 /\ pc' = "body"
                 /\ job' = [idx |-> i, conn |-> k, head |-> h]
                 /\ inq' = [inq EXCEPT ![fd] = Tail(@)]
                 /\ UNCHANGED <<cursor, read_rdy, nready, globalVars, fin, asked, viewerVars,
                                partyVars, markVars, answerVars, poolVars>>

(* The server closed in the middle of its head: the line read last stays   *)
(* in the buffer and is parsed for ever, unless it was a Content-Type the  *)
(* proxy knows, when the assertion that no type is known yet fails.        *)
ReadCutHead(i) ==
    LET q == inq[server_l[i].fd]
    IN /\ ServerTurn(i)
       /\ Starts(q, "head") /\ q[1].cut # "no"
       /\ Stop(IF q[1].cut = "type" /\ q[1].type # "misc" THEN "aborted" ELSE "hung")
       /\ UNCHANGED <<globalVars, chanVars, viewerVars, partyVars, markVars, answerVars, poolVars>>

(* Mutant: an empty head is passed over, the connection kept. *)
MutReadNoHead(i) ==
    /\ ServerTurn(i)
    /\ inq[server_l[i].fd] = <<>>
    /\ ReturnFrom("servers", i)
    /\ UNCHANGED <<globalVars, chanVars, viewerVars, partyVars, markVars, answerVars, poolVars>>

(* Nothing to read.  While the server lives, the polls run out and the     *)
(* length is 0: the connection is closed.  When it is gone the buffer is   *)
(* unset: the same, or what it held from before is parsed as a head.       *)
ReadNoHead(i) ==
    LET fd == server_l[i].fd
    IN /\ ServerTurn(i)
       /\ inq[fd] = <<>>
       /\ \/ \E k \in Slots : ServerConn(fd, k) /\ CloseAndReturn(k, "servers", i)
          \/ /\ fin[fd] # "no" /\ "stale" \in Unset
             /\ \E how \in {"hung", "aborted"} : Stop(how)
             /\ UNCHANGED <<globalVars, chanVars, viewerVars, partyVars, markVars, answerVars, poolVars>>

BodyConn  == conn_l[job.conn]
BodyFd    == server_l[BodyConn.serv_idx].fd
BodyOwner == Viewer(BodyConn.clit_idx)

(* The rest of a handler that has answered viewer v, or failed to. *)
Answer(v, film) ==
    \/ /\ IF place[v] = "in" THEN Deliver(v, job.head.type, film, job.head.to)
                             ELSE UNCHANGED answerVars
       /\ Return("servers")
       /\ UNCHANGED <<globalVars, asked, viewerVars, partyVars, markVars, poolVars>>

CloseBodyConn ==
    /\ CloseConn(job.conn)
    /\ WithClosed
    /\ Return("servers")
    /\ UNCHANGED <<globalVars, plan, knocking, crossed, got>>

(* io_recvn_block has the whole body: forward it. *)
ForwardBody ==
    /\ pc = "body" /\ job.head.type # "xmlList"
    /\ Starts(inq[BodyFd], "body")
    /\ \/ /\ Answer(BodyOwner, job.head.film)
          /\ inq' = [inq EXCEPT ![BodyFd] = Tail(@)]
          /\ UNCHANGED fin
       \/ SendMayFail(BodyOwner) /\ CloseBodyConn

(* Mutant: asked for on the same socket, then on a new one as well. *)
MutKeepList ==
    /\ pc = "body" /\ job.head.type = "xmlList"
    /\ Starts(inq[BodyFd], "body")
    /\ bitrates' = job.head.film
    /\ inq' = [inq EXCEPT ![BodyFd] = Tail(@)]
    /\ asked' = IF job.head.close = "close" THEN asked
                ELSE Send(asked, BodyFd, Request(job.head.to, "nolist", nolist_buf))
    /\ pc' = "dial"
    /\ UNCHANGED <<lister, cursor, read_rdy, nready, job>>
    /\ UNCHANGED <<lastGet, nolist_buf, fin, viewerVars, partyVars, histVars, answerVars, poolVars>>

(* The manifest with the bitrates is kept from the viewer: the list goes   *)
(* into the global, and the manifest without it is asked for, on the same  *)
(* socket unless res.close is set.  Without a Connection line it is unset. *)
KeepList ==
    /\ pc = "body" /\ job.head.type = "xmlList"
    /\ Starts(inq[BodyFd], "body")
    /\ bitrates' = job.head.film
    /\ inq' = [inq EXCEPT ![BodyFd] = Tail(@)]
    /\ \/ /\ job.head.close # "close"
          /\ asked' = Send(asked, BodyFd, Request(job.head.to, "nolist", nolist_buf))
          /\ lister' = [lister EXCEPT ![BodyOwner] = NoFilm]
          /\ Return("servers")
       \/ /\ job.head.close # "keep"
          /\ pc' = "dial"
          /\ UNCHANGED <<asked, lister, cursor, read_rdy, nready, job>>
    /\ UNCHANGED <<lastGet, nolist_buf, fin, viewerVars, partyVars, histVars, answerVars, poolVars>>

(* ask_for_nolist on a new connection; the old one is left to its fate. *)
DialForNolist ==
    LET c == BodyConn.clit_idx
    IN /\ pc = "dial"
       /\ \E addr \in ServerAddrs, k \in Slots :
             /\ OpenServer(c, addr) /\ Opened(k)
             /\ asked' = Send(asked, server_l'[conn_l'[k].serv_idx].fd,
                              Request(job.head.to, "nolist", nolist_buf))
       /\ lister' = [lister EXCEPT ![Viewer(c)] = NoFilm]
       /\ Return("servers")
       /\ UNCHANGED <<globalVars, inq, fin, viewerVars, partyVars, histVars, answerVars>>

(* The server closes before its body is complete: recv returns 0 for ever  *)
(* and the loop never ends.  Reset instead of closed, the XML handler sees *)
(* the error, the f4f handler forwards what the buffer held.               *)
BodyLost ==
    /\ pc = "body"
    /\ Drained(BodyFd)
    /\ \/ /\ fin[BodyFd] = "eof"
          /\ Stop("hung")
          /\ UNCHANGED <<globalVars, chanVars, viewerVars, partyVars, markVars, answerVars, poolVars>>
       \/ /\ fin[BodyFd] = "rst"
          /\ \/ job.head.type \in {"xmlList", "xml"}
             \/ SendMayFail(BodyOwner)
          /\ CloseBodyConn
       \/ /\ fin[BodyFd] = "rst" /\ job.head.type = "f4f"
          /\ Answer(BodyOwner, Garbage)
          /\ fin' = [fin EXCEPT ![BodyFd] = "eof"]
          /\ UNCHANGED inq

-----------------------------------------------------------------------------
(* Where the thread is about to call io_sendn: a refusal or an answer for  *)
(* a viewer, a request for a server.                                       *)
SendsToViewer(v) ==
    \/ \E i \in Slots :
          LET q == inq[client_l[i].fd]
          IN /\ ClientTurn(i) /\ Viewer(i) = v
             /\ \/ Starts(q, "post") \/ Starts(q, "hdrs")
                \/ Starts(q, "get") /\ q[1].kind = "bad"
    \/ \E i, k \in Slots :
          LET q == inq[server_l[i].fd]
          IN /\ ServerTurn(i) /\ ServerConn(server_l[i].fd, k)
             /\ Starts(q, "head") /\ q[1].cut = "no" /\ q[1].type = "f4f"
             /\ Viewer(conn_l[k].clit_idx) = v
    \/ /\ pc = "body" /\ BodyOwner = v
       /\ \/ Starts(inq[BodyFd], "body") /\ job.head.type # "xmlList"
          \/ Drained(BodyFd) /\ fin[BodyFd] = "rst" /\ job.head.type = "f4f"

SendsToServer(fd) ==
    \/ pc = "forward" /\ job.ok /\ fd = server_l[conn_l[job.conn].serv_idx].fd
    \/ /\ pc = "body" /\ fd = BodyFd
       /\ Starts(inq[fd], "body") /\ job.head.type = "xmlList" /\ job.head.close # "close"

(* io_sendn tries again on EAGAIN and on nothing else: a peer that neither *)
(* reads nor closes holds the thread for good.  What the handler had read  *)
(* by then is left in the queues, since nobody looks at them again.        *)
SendSpins ==
    /\ "stall" \in Faults
    /\ \/ \E v \in Viewers : place[v] = "in" /\ SendsToViewer(v)
       \/ \E fd \in Fds : fin[fd] = "no" /\ SendsToServer(fd)
    /\ Stop("hung")
    /\ UNCHANGED <<globalVars, chanVars, viewerVars, partyVars, markVars, answerVars, poolVars>>

(* resolve, for want of a www_ip, blocks in recvfrom: its query or the     *)
(* reply to it was lost, or the name server is gone (see Dns).             *)
ResolveHangs ==
    /\ "silent" \in Faults
    /\ pc \in {"route", "dial"}
    /\ Stop("hung")
    /\ UNCHANGED <<globalVars, chanVars, viewerVars, partyVars, markVars, answerVars, poolVars>>

-----------------------------------------------------------------------------
(* Viewers and video servers.  They are not part of src/handin: a viewer   *)
(* asks for one thing at a time, a server answers in order on a socket.    *)
FdOf(v, fd) == peer[fd] = v /\ place[v] = "in"

Knock(v) ==
    /\ place[v] = "out" /\ ~Contains(knocking, v)
    /\ knocking' = Append(knocking, v)
    /\ UNCHANGED <<loopVars, globalVars, chanVars, viewerVars, peer, place, markVars, answerVars, poolVars>>

Enqueue(fd, pieces) == inq' = [inq EXCEPT ![fd] = @ \o pieces]

SendRequest(v) ==
    /\ plan[v] # <<>> /\ v \notin waiting \cup owed
    /\ LET kind == Head(plan[v])
           line == IF kind = "post" THEN PostLine ELSE GetLine(kind, FilmOf[v])
       IN \E fd \in Fds :
             /\ FdOf(v, fd)
             /\ \/ /\ \E host \in {TRUE} \cup {b \in {FALSE} : "noHost" \in Faults} :
                         Enqueue(fd, <<line, Headers(host)>>)
                   /\ UNCHANGED owed
                \/ /\ "slow" \in Faults
                   /\ Enqueue(fd, <<line>>)
                   /\ owed' = owed \cup {v}
    /\ plan' = [plan EXCEPT ![v] = Tail(@)]
    /\ waiting' = waiting \cup {v}
    /\ stranded' = stranded \ {v}
    /\ UNCHANGED <<loopVars, globalVars, fin, asked, partyVars, lister, crossed, got, poolVars>>

SendHeaders(v) ==
    /\ v \in owed
    /\ \E fd \in Fds : FdOf(v, fd) /\ Enqueue(fd, <<Headers(TRUE)>>)
    /\ owed' = owed \ {v}
    /\ UNCHANGED <<loopVars, globalVars, fin, asked, plan, partyVars, markVars, answerVars, poolVars>>

(* A viewer closes, between requests or in the middle of its headers. *)
Leave(v) ==
    /\ \E fd \in Fds :
          /\ FdOf(v, fd)
          /\ fin' = [fin EXCEPT ![fd] = "eof"]
          /\ \/ "leave" \in Faults /\ UNCHANGED inq
             \/ /\ "cut" \in Faults
                /\ v \notin waiting \cup owed
                /\ Enqueue(fd, <<GetLine("page", FilmOf[v]), CutHeaders>>)
    /\ place' = [place EXCEPT ![v] = "left"]
    /\ waiting' = waiting \ {v}
    /\ owed' = owed \ {v}
    /\ UNCHANGED <<loopVars, globalVars, asked, plan, knocking, peer, markVars, got, poolVars>>

(* What a server holds for a request. *)
TypeFor(r) == CASE r.kind = "list" -> "xmlList"
                [] r.kind = "video" -> "f4f"
                [] r.kind = "nolist" /\ r.film \in Films -> "xml"
                [] OTHER -> "misc"

(* A whole answer: head and body, or the head and the body later. *)
ServerAnswers(fd) ==
    /\ asked[fd] # <<>> /\ fin[fd] = "no"
    /\ LET r == Head(asked[fd])
       IN \/ /\ r.kind = "body"
             /\ Enqueue(fd, <<Body>>)
             /\ asked' = [asked EXCEPT ![fd] = Tail(@)]
             /\ UNCHANGED fin
          \/ /\ r.kind # "body"
             /\ \E type \in {TypeFor(r)} \cup ({"misc"} \cap Faults),
                  close \in {"keep"} \cup {c \in {"close", "absent"} : "close" \in Faults} :
                LET h == ResponseHead(r, type, close, "no")
                IN \/ /\ Enqueue(fd, <<h, Body>>)
                      /\ asked' = [asked EXCEPT ![fd] = Tail(@)]
                      /\ fin' = IF close = "close" THEN [fin EXCEPT ![fd] = "eof"] ELSE fin
                   \/ /\ "slowBody" \in Faults
                      /\ Enqueue(fd, <<h>>)
                      /\ asked' = [asked EXCEPT ![fd] = <<[r EXCEPT !.kind = "body"]>> \o Tail(@)]
                      /\ UNCHANGED fin
    /\ UNCHANGED <<loopVars, globalVars, viewerVars, partyVars, markVars, answerVars, poolVars>>

(* A server dies: in its head, or after it, or it resets the connection. *)
ServerDies(fd) ==
    /\ asked[fd] # <<>> /\ fin[fd] = "no"
    /\ LET r == Head(asked[fd])
           h(cut) == ResponseHead(r, TypeFor(r), "keep", cut)
       IN \/ /\ "die" \in Faults /\ r.kind # "body"
             /\ \E cut \in {"no", "type", "line"} : Enqueue(fd, <<h(cut)>>)
             /\ fin' = [fin EXCEPT ![fd] = "eof"]
          \/ /\ "rst" \in Faults
             /\ IF r.kind = "body" THEN UNCHANGED inq ELSE Enqueue(fd, <<h("no")>>)
             /\ fin' = [fin EXCEPT ![fd] = "rst"]
    /\ asked' = [asked EXCEPT ![fd] = <<>>]
    /\ UNCHANGED <<loopVars, globalVars, viewerVars, partyVars, markVars, answerVars, poolVars>>

(* A server closes between answers, whatever it has been asked since. *)
ServerLeaves(fd) ==
    /\ "serverLeaves" \in Faults
    /\ fd \in ServerFds /\ fin[fd] = "no"
    /\ fin' = [fin EXCEPT ![fd] = "eof"]
    /\ asked' = [asked EXCEPT ![fd] = <<>>]
    /\ UNCHANGED <<loopVars, globalVars, inq, viewerVars, partyVars, markVars, answerVars, poolVars>>

-----------------------------------------------------------------------------
ClientStep == \E i \in Slots : ReadGet(i) \/ ReadOther(i) \/ ReadNothing(i)
ServerStep == \E i \in Slots : ReadHead(i) \/ ReadCutHead(i) \/ ReadNoHead(i)

ProxyStep ==
    \/ Select \/ AcceptViewer \/ AcceptGivesUp \/ EndScan
    \/ ClientStep \/ Route \/ TablesFull \/ DropRequest \/ ForwardRequest
    \/ ServerStep \/ ForwardBody \/ KeepList \/ DialForNolist \/ BodyLost
    \/ SendSpins \/ ResolveHangs

PeerStep ==
    \/ \E v \in Viewers : Knock(v) \/ SendRequest(v) \/ SendHeaders(v) \/ Leave(v)
    \/ \E fd \in Fds : ServerAnswers(fd) \/ ServerDies(fd) \/ ServerLeaves(fd)

Next == ProxyStep \/ PeerStep

Spec == Init /\ [][Next]_vars

(* The loop never sleeps while a socket is readable, and a server answers  *)
(* what it is asked; a viewer that started a request finishes it.          *)
FairSpec ==
    /\ Spec
    /\ WF_vars(ProxyStep)
    /\ \A fd \in Fds : WF_vars(ServerAnswers(fd))
    /\ \A v \in Viewers : WF_vars(SendHeaders(v))

-----------------------------------------------------------------------------
(* Type correctness of what the pool does not already type. *)
ProxyTypeOK ==
    /\ pc \in {"select", "accept", "clients", "servers", "route", "forward",
               "body", "dial", "deaf", "overrun", "hung", "aborted"}
    /\ cursor \in 0..FD_SETSIZE
    /\ read_rdy \subseteq Fds
    /\ nready \in Int
    /\ peer \in [Fds -> Viewers \cup {NULL}]
    /\ fin \in [Fds -> {"no", "eof", "rst"}]
    /\ \A fd \in Fds \ open : inq[fd] = <<>> /\ asked[fd] = <<>> /\ peer[fd] = NULL
    /\ waiting \cup owed \cup crossed \cup stranded \subseteq Viewers
    /\ lister \in [Viewers -> Films \cup {NoFilm}]
    /\ place \in [Viewers -> {"out", "in", "left", "dropped"}]
    /\ {nolist_buf, bitrates} \subseteq Films \cup {NoFilm, Garbage}

(* Whatever closes and reopens descriptors, a viewer receives only answers *)
(* to requests that were forwarded for that viewer.                        *)
Private == \A v \in Viewers : got[v] # NULL => got[v].to = v

(* serve_clients only handles a client whose socket is readable: the bits  *)
(* of read_rdy are still true when that scan uses them.                    *)
ClientsServedWhenReadable ==
    \A i \in Slots : ClientTurn(i) => Readable(client_l[i].fd)

(* "fd_set read_rdy; /* ready to recv */" (pool.h): serve_servers, too,    *)
(* only handles a server whose socket is readable.                         *)
ServersServedWhenReadable ==
    \A i \in Slots : ServerTurn(i) => Readable(server_l[i].fd)

(* "assert(res->type == TYPE_MSC)" (proxy.c, read_responeshdrs): a head    *)
(* never yields a second Content-Type.                                     *)
OneContentType == pc # "aborted"

(* An answer is the one to the request it follows: with a viewer asking    *)
(* for one thing at a time, nothing shifts the answers by one.  It takes   *)
(* no header block left unread (no 501, no late headers) to hold.          *)
LastSent(v) == Plans[v][Len(Plans[v]) - Len(plan[v])]

AnswerFits ==
    \A v \in Viewers :
        got[v] # NULL /\ place[v] = "in" /\ v \notin waiting =>
            got[v].type = CASE LastSent(v) = "list" -> "xml"
                            [] LastSent(v) = "video" -> "f4f"
                            [] OTHER -> "error"

(* There is one nolist_buf and there are many viewers.  The manifest a     *)
(* viewer is given is still the one of its own film, unless another        *)
(* viewer asked for a manifest while its own request was in flight.        *)
ManifestOwn ==
    \A v \in Viewers :
        got[v] # NULL /\ got[v].type = "xml" => got[v].film = FilmOf[v] \/ v \in crossed

(* A request is never lost without a trace.  While its viewer waits, it is *)
(* still to be read, in a handler, or at a server, the answer is on its    *)
(* way, or a socket that carried it has ended and will be seen to have.    *)
(* Only two failures leave a viewer open with nothing under way: its       *)
(* connection is on a socket that never opened, and is found again, or it  *)
(* has several, to the addresses of a rotation or because a second one was *)
(* dialed for its manifest, and one of them goes while it waits.           *)
OnItsWay(v, k) ==
    LET fd == server_l[conn_l[k].serv_idx].fd
    IN /\ client_l[conn_l[k].clit_idx].fd \in {g \in Fds : peer[g] = v}
       /\ fd # NoFd
       /\ \/ fin[fd] # "no"
          \/ \E n \in DOMAIN asked[fd] : asked[fd][n].to = v
          \/ \E n \in DOMAIN inq[fd] : inq[fd][n].part = "head" /\ inq[fd][n].to = v

Links(v)    == {k \in Live(conn_l) : Viewer(conn_l[k].clit_idx) = v}
Unopened(k) == server_l[conn_l[k].serv_idx].fd = NoFd

Astray(v) ==
    \/ \E k \in Links(v) : Unopened(k)
    \/ v \in stranded /\ Links(v) # {}

NeverForgotten ==
    \A v \in waiting :
        \/ \E fd \in Fds : peer[fd] = v /\ inq[fd] # <<>>
        \/ pc \in {"route", "forward"} /\ Viewer(job.idx) = v
        \/ pc \in {"body", "dial"} /\ job.head.to = v
        \/ pc \in {"hung", "aborted", "overrun"}
        \/ \E k \in Live(conn_l) : OnItsWay(v, k)
        \/ Astray(v)

(* Under fair scheduling a viewer that asked is answered or its socket is  *)
(* closed, with unknown types, slow bodies and absent viewers, unless the  *)
(* one thread all viewers share is stuck: on a server that closes too      *)
(* early, on a peer that stops reading, or on a resolver without a reply.  *)
Answered ==
    \A v \in Viewers : v \in waiting ~> v \notin waiting \/ pc \in {"hung", "aborted"} \/ Astray(v)
=============================================================================
