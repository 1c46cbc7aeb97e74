# A verification project for the bitrate-adapting proxy and its name server

The program under `src/handin/src` is two processes. `proxy` sits between browsers and video
servers: it accepts viewers, resolves one name to a video server address, forwards manifest and
fragment requests, keeps the manifest with the bitrates for itself, asks for the one without, and
puts a bitrate it chose into every fragment request. `nameserver` answers the proxies' DNS queries,
in rotation or with the nearest server of a network map read from link state announcements.

The modules here model both processes and what lies between them, TLC checks them on small
instances and TLAPS proves the central results for every size of the tables. Every definition is
written from the C code; `PROJECT.json` ("map") names the lines each one stands for.

## 1. Inventory

Paths are relative to `src/handin/src` unless they start with `src/`.

| part | state | operations | what makes it correct |
|---|---|---|---|
| connection pool (`pool.c`, `connection.c`) | `client_l`, `server_l`, `conn_l`, the counters `cur_*`, `max_*_idx`, `read_nrdy`, `maxfd` | `init_pool`, `add_client`, `open_server_socket`, `add_server`, `add_conn`, `close_conn` (with `close_clit`, `close_serv`, `close_socket`), `client_get_conn`, `server_get_conn` | reference counts are exact; a descriptor has one owner; select watches exactly the live sockets; a socket is closed with its last connection and not before |
| event loop (`proxy.c: main`, `serve_clients`, `serve_servers`) | `read_rdy`, `nready`, the scan's index | select, accept one viewer, scan clients, scan servers | only readable sockets are handled; every ready viewer is served |
| request handler (`client2server`, `read_requesthdrs`, `parse_uri`, `clienterror`) | locals, `nolist_buf`, an unset `flag` and line buffers | read a request, find or open a connection, forward | a request is forwarded once, or its viewer is told or closed |
| response handler (`server2client`, `read_responeshdrs`, `ask_for_nolist`) | `bitrates`, `nolist_buf` | read head and body, forward, or keep the list and ask for the other manifest | answers reach the viewer that asked, in its order; the thread leaves the handler |
| socket input and output (`sock.c`) | the counts of a running loop, the kernel's buffers | `io_recvline_block`, `io_recvn_block`, `io_sendn` | ends; returns exactly the next line or body; sends each byte once |
| bitrate adaptation (`connection.c: update_thruput, get_thru_by_addrs, add_thru`, the loop at `proxy.c:313-368`) | `thru_l`, `bitrates`, `cur_bitrate` | look up or add an estimate, choose a rate, smooth a sample in | one estimate per address pair; the best carried rate is asked for |
| resolver (`mydns.c`) | the socket's queue | `resolve`, `parse_res` | an answer is taken for the query it answers |
| name server (`nameserver.c`, `ospf.c: route`) | `query_count`, the routing table | start: bind, then `OSPF_init`; `serve`: refuse, rotate, look up | fair rotation; a client is given a nearest server; it crashes only over a client without a way |
| routing table (`ospf.c: OSPF_init`, `parse_servs`, `parse_LSA`, `calc_sp`) | nodes with neighbours and sequence numbers, `servs`, `clits`, marks, queue | parse a line, search from each client | newest announcement wins; the nearest server is entered; each client has one entry |
| manifest parser (`xml_parser.c`) | none | `parse_xml`, `getBitrate` | the bitrates of the elements that have one, in document order; none when there are none |
| path rewriting (`media.c`), logging (`log.c`), header text | none | string functions | not a matter of state |
| LSA generator (`src/lsa/genlsa.py`) | none | writes the announcements, loses some | input of the routing table |
| simulator, setup, graders, plots, the copy under `src/SAVEMEPLZ`, drivers | - | scripts and unbuilt code | not modelled |

**How they interact.** One thread runs the whole proxy: the loop calls a handler, the handler polls
its socket in place (non-blocking, at most `MAXLINE` tries, or without end in a body), calls into the
pool, and returns. The handlers share `nolist_buf`, `bitrates`, the tables and `read_rdy`. The
resolver is called from `client2server` and blocks the thread in `recvfrom`. The name server is a
second process reached over UDP; it binds its socket before it reads its files, so queries may wait there while
the routing table is computed, once, before the first answer.

**What is hard.** Viewers and servers act between any two polls of a handler. A handler that closes
descriptors changes what the rest of the scan finds, and the kernel hands the same numbers out again
in the same round. A peer that closes leaves the line buffers as they were; one that stops reading, or a resolver
without a reply, keeps the only thread. Two globals serve all
viewers. One protocol step (the manifest without the list) happens behind the viewer's back. On the
UDP side datagrams are lost, copied and late, with a query id that changes once a second, and the name server gives
`select` a set that was never zeroed. The hazards, each at its line and with the properties aimed at it, are listed in `PROJECT.json`.

## 2. Modules

| module | role | extends / instantiates |
|---|---|---|
| `Sessions` | abstract: viewers, tunnels, a viewer leaves with its last tunnel | - |
| `Pool` | the three tables, the descriptor set, the kernel's descriptors | `INSTANCE Sessions` (refinement mapping) |
| `PoolProofs` | invariants and refinement of `Pool`, proved | `Pool` |
| `Proxy` | loop and handlers over the pool's own operators, viewers, video servers | `Pool` (its actions are called, not copied) |
| `ProxyProofs` | the pool's invariants in the proxy, and that no viewer is sent another's answer, proved | `Proxy`, `PoolProofs`, `BasicLemmas` |
| `LoopProofs` | when the scan reads a client, that no waiting viewer is forgotten, that answers fit requests, types, proved | `ProxyProofs` |
| `Pipe` | abstract: each viewer receives its server's bytes, once and in order | - |
| `Relay` | the response path byte by byte over the loops of `sock.c`, several connections on one thread | `INSTANCE Pipe` (refinement mapping) |
| `RelayProofs` | framing kept, overruns explained, refinement of `Pipe`, proved | `Relay`, `BasicLemmas` |
| `Adapt` | throughput table and rate choice | - |
| `AdaptProofs` | one estimate per pair of addresses, no overshoot, the best rate asked, proved | `Adapt`, `BasicLemmas` |
| `Ospf` | reading announcements, the searches | - |
| `OspfProofs` | newest announcement kept, one entry per client and that of a nearest server, proved | `Ospf`, `BasicLemmas` |
| `Dns` | resolvers, network and the name server's `serve`, over a routing table that is given | - |
| `NameServer` | the whole process: bind, build the table, answer | `Dns`; `INSTANCE Ospf` |
| `NameServerProofs` | answers are fresh and nearest, when resolves fail and the server crashes, fair rotation, proved | `NameServer`, `BasicLemmas`; `INSTANCE OspfProofs` |
| `BasicLemmas` | what appending, joining and taking do to the contents of a sequence; induction over the naturals; unfolding of recursive functions and folds; proved | - |
| `MC*` | constants of the TLC runs | `Pool`, `Proxy`, `Relay`, `Ospf`, `NameServer`, `Adapt` |

A definition whose name starts with `Mut` is a plausible error in the definition it is named after.
No specification uses it: TLC is run with it in that definition's place to see that a property
notices the difference.

### Pool

`client_l`, `server_l` and `conn_l` are functions from `Slots` to a record or `NULL`; the fields are
those of the C structs that anything here depends on. `open` is the kernel's set of open
descriptors, `LowestFree` its rule for handing them out. Each action is one complete run of code
between two returns to the loop that touches the pool:

* `Accept` is `accept` plus `add_client`, with its `-1` on a full table ignored as in `main`
  (`proxy.c:128-146`); `AcceptFails` closes the listening socket and leaves its bit in `read_nrdy`.
* `Connect`, `ConnectFails` and `SocketFails` are `open_server_socket` with its three outcomes
  followed by `add_server` and `add_conn`. A failed connect leaks the socket and records `-1` as a
  live server; `FD_SET(-1)` sets the bit `AliasFd`.
* `Overrun` is a `-1` from `add_server` or `add_conn` used as an index; what follows is undefined and
  the model stops there (`status = "overrun"`).
* `CloseConn` is `close_conn` with `close_serv` and `close_clit` inside it.

`get_client`, `get_server` and the `update_*` functions are never called and have no action.

### Proxy

`pc` names where the thread stands: in `select`, at `accept`, in one of the two scans, after the
request was read (`route`), before it is sent (`forward`), in `io_recvn_block` (`body`), opening a
second connection in `ask_for_nolist` (`dial`), or nowhere any more (`deaf`, `overrun`, `hung`,
`aborted`). `job` holds the running handler's locals, among them indices into the tables that are
used after other steps have happened.

Input that is not read yet is a sequence of pieces per descriptor: `get` or `post` line, `hdrs`
block, response `head`, `body`, and `cut` for a block the sender never finished. A block is read
whole when it is there; when it is late `read_requesthdrs` gives up and reports success, and the
block is later read as if it were requests, a line in each round: `ReadOther` answers each line with a 501, the Host line
if the block has one and others. A request line that follows before the blank line passes for a header, whatever its
method. `Unset` says what a line buffer may hold that nothing was
read into: nothing (`empty`), bytes of no meaning (`junk`), or what it held from the call before
(`stale`); `lastGet` is what a stale buffer can contain. The `flag` that `client2server` reads unset
is covered the same way in `ForwardRequest`.

`Faults` selects, per run, what peers and kernel may do: send a block without Host (`noHost`), send it
late (`slow`), leave (`leave`), leave inside the headers (`cut`), refuse connects (`refuse`), run out
of sockets (`noSocket`), fail accept (`accept`), answer with another type (`misc`), answer with
Connection: close or without that header (`close`), send head and body apart (`slowBody`), die in a
head or body (`die`), reset (`rst`), close between answers (`serverLeaves`), stop reading (`stall`), leave a query of the resolver without a reply (`silent`).

`Deliver`, `Send` and `ForwardRequest` are sends that end. `io_sendn` tries again on EAGAIN without end, so for a peer that
neither reads nor closes there is `SendSpins`, wherever a handler is about to send (`SendsToViewer`, `SendsToServer`); and
`ResolveHangs` is the `recvfrom` of `resolve` that nothing answers. In both the thread stays where it is (`hung`).

`SendRequest`, `SendHeaders`, `Leave`, `Knock`, `ServerAnswers`, `ServerDies` and `ServerLeaves` are
the environment: browsers that ask for one thing at a time and servers that answer in order.

Two kinds of history are kept for the properties only: `crossed`, who had a manifest request forwarded
while another's was in flight, and `stranded`, who waited when one of its connections was closed and another stayed.

### Relay

`Proxy` takes a head and a body as one piece each. `Relay` opens these pieces up: a byte is its position in the
server's stream, a response is its type and the position of its last byte, a head is two lines, and the single thread runs `read_responeshdrs`, `io_recvn_block` and
`io_sendn` for one connection at a time. Each action is one turn of one of those loops: `RecvChar` and
`Poll` are a try of `io_recvline_block` that finds a byte or nothing, `LineEnded` its return at the end of a
stream, which leaves the buffer without a NUL and so with what an earlier line left in it; `RecvBody` is one
`recv` of `io_recvn_block`, which always asks for the whole length; `Send` is one `send` into a buffer of `Cap`
bytes, and a `send` that would block is no step at all. The line buffer has `MaxLine` bytes, at least two: a line stops one short of it, for its NUL. `Faults` gives the peers of each connection
their liberties: segments of any size (`parts`), requests ahead of the answers (`ahead`), a server that closes or resets
(`die`), a viewer that stops reading (`stall`) or goes (`leave`).

Undefined behaviour is a choice of outcomes: when `read_responeshdrs` gives up it leaves `hdr_buf` and its length as the
stack had them, so the head sent on is nothing, bytes of no meaning, or an address `send` refuses.

### Adapt, Ospf, Dns, NameServer

`Adapt` keeps throughput as an exact fraction until the code stores it in an int, where it is
truncated; the rounding of `float` is not modelled. A sample taken in zero milliseconds is an
infinite quotient, and one taken in a few may be more than an int holds: both are converted (`Cast`) to the constant
`Indefinite`. `IntMax` is the largest int. Its `Request` has the lookup and
the choice in one action, as the code has them in one handler. `ParseXml` is `parse_xml`, a fold of `Keep` over the
children of a manifest's root element, some of them text and some without a bitrate; `Scan` is the loop over the rates, a fold of `Step`. A manifest that yields no list leaves the one in
force, of whatever film that is. `latest`, the film of that list, is history.

`Ospf` reads any announcements in any order, repetitions included, then runs the searches as the
code does: marks cleared per search, neighbours in list order, the first server met is entered, the
queue abandoned there. The two loops over a neighbour list are folds (`AppendAllNew`, `Unreached`). `heard` is the only history variable. An
announcement is a whole line as `genlsa.py` writes it: shorter than `BUFSIZE`, with its three fields.

`Dns` treats a datagram as the fields the code compares: `parse_res` compares the header byte for byte
with the one it expects, so an error reply never passes. `Ask` and `Receive` are the two halves of
`resolve` around `recvfrom`. The query id is the first `rand()` after `srand(time(NULL))`, a function of
the second. The server's `parse` compares as many bytes as a whole query has, however few came, so a short query
(`short`, of a stranger) is refused or passes, by what the stack held (`Matches`). `tally`, `given`, `copied`, `lost` and `cut` are history.

The set the name server gives to `select` is never zeroed. `stray` is what it may hold below the socket: nothing, a
descriptor that is closed, or one that is always readable, as the log file is. With the first the server serves a
query that came, with the second `select` fails and the process exits (`SelectFails`), with the third `nready` is 1 while no query is there, so
`serve` waits in `recvfrom` and answers, and 2 as soon as one is there before `select`, and then nothing is served any
more (`Spins`). An error of `recvfrom` ends the process (`RecvFails`). `fate` says what has become of it.

`NameServer` composes the two. `Failing` are the three ends of the loop just named. `Ospf`'s variables `nodes` and `routing_table` are the ones `Dns` reads, so an answer
is looked up in the table the searches left. Lines are read and searches run while proxies already
send; `Answering` waits for `OSPF_init`. `NoServer` (the `assert(0)` of a search that
finds nothing) takes the whole process down (`fate = "crashed"`), and so does a query of a client without an entry.

## 3. What the runs check

All configurations set `CHECK_DEADLOCK FALSE`: viewers stop asking, files end, and in the states
`overrun`, `deaf`, `hung` and `aborted` the program itself goes no further.

| run | instance | states | properties |
|---|---|---|---|
| `pool` | 3 slots, 5 descriptors, 1 address | 196k | types; conns name live records; exact reference counts; one owner per descriptor; select set; counters; tables overrun only when in use; implements `Sessions` |
| `proxy_viewers` | 2 viewers, 2 films, 3 slots, Connection: close, bad headers, resets, failing connects, sockets, accepts | 1.5M | types; answers private and in step; each its own manifest; no request lost but behind an unopened socket or with one of several connections; clients served only when readable |
| `proxy_readers` | 1 viewer, 2 addresses in rotation; refused, late, cut and stale requests, unknown types, peers that stop reading, a silent resolver | 2.3M | no request lost but with one of several connections |
| `proxy_servers` | 2 viewers; slow, dying, leaving, refusing servers, unknown types; leaving viewers | 686k | a request is never lost without a trace; under fairness each is answered or closed |
| `proxy_stale_bit` | 2 viewers, bad headers | violation | finding, see below |
| `proxy_assert` | 1 viewer, dying server | violation | finding |
| `ospf` | 7 nodes, 10 announcements of two rounds, up to 7 read | 74k | newest wins; nearest server; one entry per client; assertion only when cut off; terminates |
| `ospf_lost` | a line of 4 nodes | violation | finding |
| `dns` | 2 proxies, 1 stranger, 1 router, 2 servers, 3 announcements of which any are lost or repeated, 3 queries, 2 seconds, short queries, stray bits, failing `recvfrom` | 554k | accepted answers are fresh; failures only after a copy; balanced rotation; the server dialed is a nearest one; the process crashes only over a host without a route; resolves return |
| `dns_error` | the same without faults | violation | finding |
| `relay` | 2 connections: a chunk and a manifest with every fault, a chunk with none | 360k | framing kept between handlers; a body overrun only when asked ahead; implements `Pipe`; answers delivered in full |
| `adapt` | 4 connections, 3 pairs, a table of 2, 3 manifests, 4 clock steps, 4 samples | 173k | one estimate per pair; the best carried rate is asked for; no sample overshot |

**What the central properties say.**

* *RefCountsExact, SocketsOwned, SelectSetExact* (`pool`): after any sequence of accepts, connects,
  failed connects and closes, `num_serv` and `num_clit` equal the live conns, no two records hold one
  descriptor, and what select watches is what is live. A failed connect leaks a socket but breaks none
  of this, because the alias bit of `-1` is kept apart (`AliasFd`).
* *ImplementsSessions*: seen from outside, a viewer's socket closes in the very step that takes its last
  connection down. This is what `close_conn` promises and what a count dropped twice would break.
* *Private, AnswerFits* (`proxy_viewers`): answers reach the viewer whose request they answer, in order,
  although the descriptors behind them are closed and reused, and although one answer in the middle (the list)
  is kept back. `AnswerFits` is not claimed with requests refused before their headers are read: `clienterror` leaves the block in the
  socket, its lines are read as requests and answered with a 501 each, and the answers are then out of step.
  Nothing in the repository promises otherwise, and the run says so by leaving them out.
* *ManifestOwn*: with one `nolist_buf` for all, a viewer gets another film's manifest exactly in the case
  the invariant excepts: another viewer's manifest request was forwarded while its own was in flight.
* *NeverForgotten* (`proxy_servers`, `proxy_viewers`, `proxy_readers`): for every viewer that waits there is something that will move:
  unread input, a handler at work, a server that has been asked, an answer under way, or a socket that has ended and
  will be read. Two situations break it, and the property names them (`Astray`): a connect that was refused, whose conn is
  found again by `client_get_conn` and swallows every later request; and a viewer with several connections, to the addresses
  of a rotation or because `ask_for_nolist` opened a second one, of which one is closed while it waits: `close_conn` closes
  a client only with its last connection. These two are what the code does; the property does not excuse a third. `proxy_viewers`
  has both, `proxy_readers` the second, `proxy_servers` the first.
* *Answered* (`proxy_servers`): with a fair loop the wait ends, unless a server that closed inside a head or body keeps the one thread,
  or the request went one of the two ways `Astray` names.
* *OverrunOnlyWhenFull* (`pool`): a table whose slots are not given back would be overrun, with its `-1` used as an index, after
  enough connections however few are open; the process comes to that only with more sockets in use than slots.
* *FramesKept, ImplementsPipe, OverrunOnlyWhenAhead* (`relay`): `io_recvn_block` never reduces the room it asks for, and
  yet a viewer that waits for each answer before it asks again receives exactly its server's bytes, however they
  are cut up, and the next head starts where the last body ended. Only a request sent ahead, whose answer lies behind the
  body, makes the loop read past the end of the buffer it was given.
* *Delivered* (`relay`): what was asked for arrives in full, unless the connection is itself in trouble or the thread
  is held (`Held`): for ever at the end of a stream, over a stale line, or while a viewer that stopped
  reading has a full buffer. The second connection has no faults of its own; only the first one's can stop it.
* *NearestDialed* (`dns`): through files, searches, queries and the network, the address a proxy goes on with is a server none
  is nearer than, counted over the newest announcements (`Hops`), also for queries that came before the table was there.
* *CrashesOnlyUnrouted* (`dns`): the assertion and the read through NULL are reached only over a client without a way to a
  server, or over a query of a host that never announced itself or bears the name of a router or server: a proxy, or one
  whose query was too short to tell. It says nothing of the server's two `exit(-1)`, which need no host at all.
* *ResolveReturns* (`dns`): a resolve that lost no datagram returns. The exceptions are what the server itself may come to,
  each with its cause: crashed; exited, with the bit of a closed descriptor in its set or after an error of `recvfrom`; spinning, with
  the bit of a readable one.
* *RoutesNearest, AssertOnlyWhenCutOff*: compared with `Within`, a definition of reachability by hops that
  shares nothing with the search.
* *PulledTowardsSample* (`adapt`): an estimate moves towards a sample and not past it, truncations included, and from an
  indefinite one too. A sample that is itself indefinite has no such bound: it is stored as the code stores it.
* *BestRateAsked*: the rate asked for is the best one carried among those of the film whose manifest came in last with
  any: one list serves all viewers, and a request is at another film's rate exactly when that film's manifest
  arrived since its own. Compared with `IsBestRate` and `Offered`, which speak of sets and know no loop. The floor of 100
  at `proxy.c:332` is part of it: with no rate that low the proxy asks for one that is not offered.

**Bounds.** Two viewers are the least that can be confused with one another, and three slots let a
connection be replaced while both are connected and still reach the overrun; in `Pool` five descriptors
are one too few for two viewers with a connection each and a leaked socket, so exhaustion occurs.
The lowest descriptors are handed out first, so reuse within a round is
frequent. `MaxAsked` in `Proxy` bounds only the requests repeated from a stale buffer. In `Dns` three
queries let a proxy ask again after a copied datagram while the other has one in flight; the two values
of the clock give equal and different ids; `CountRange = 2` makes `query_count` wrap
after two answers, with a number of servers that divides it. One of the two proxies has an unreliable network (`Unreliable`): its losses
and copies must not touch the other. In `Ospf` seven lines let every client and
router be heard, and leave any three announcements lost; the ring has cycles, and one server moves between
the rounds. In `Relay` bodies have two bytes and
one, heads five and a send buffer three, so that heads and bodies are cut both by arrival and by a full buffer; `MaxLine = 5`
is longer than any line and short enough for the tries to run out inside one. Two responses on the first connection are the
least that can be run into one another. In `NameServer` three lines let the router move its link from one server to the
other, and lose any of them. `Adapt` has two connections on one pair and one on each of two
others, with a table of two entries to overrun; the largest int is 1999, so that 800 kilobits in a millisecond are more; four samples (`MaxSamples`) smooth one estimate three times.

**Fairness.** `Proxy!FairSpec` has weak fairness on the loop and its handlers (the program never blocks in
`select`: every socket is in `write_nrdy`, so the call returns at once), on each server's answers and on a
viewer's late headers (both external). Servers are under no obligation to outlive a request, and nothing is assumed of
`Leave`, `ServerDies` or `ServerLeaves`. `NameServer!FairSpec` has weak fairness on a host that has a datagram to read and on
the network and name server together, and on the building of the table and a `select` that fails at once; losses are not excluded by it, which is why `ResolveReturns`
excepts the hosts that lost one. `Relay!FairSpec` has weak fairness on the thread, on the arrival
of what a server was asked for and on the reading of a viewer that reads; a viewer may stop reading at any time.
`Ospf!FairSpec` has weak fairness on the steps of one sequential function.

**Findings.** Each is a run that ends in a counterexample to something the repository says.

1. `proxy_stale_bit`. `read_rdy` keeps the bit of a descriptor closed earlier in the round. If the same
   number is handed to a new server socket before the scan of the servers, the socket is read before its server has
   said anything, the empty head is taken for an unknown type and the connection is closed, and with it the viewer's.
2. `proxy_assert`. A server that closes right after its Content-Type line leaves the line in the buffer, it is
   parsed twice, and `assert(res->type == TYPE_MSC)` ends the proxy.
3. `ospf_lost`. With announcements lost (in the trace three of the four lines, so that the client's own is the only one read) a client has no way to a
   server and the search ends in `assert(0)` under the comment "should never reach here".
4. `dns_error`. `res_err` stores `htonl(3)` in a field of four bits: the reply carries rcode 0.

## 4. What is proved

TLAPS checks `PoolProofs`, `ProxyProofs`, `LoopProofs`, `RelayProofs`, `AdaptProofs`, `OspfProofs`, `NameServerProofs` and the
lemmas of `BasicLemmas`. The assumptions are those the specifications name:

* `PoolAssumption`: at least one slot, descriptors are naturals, the listening socket is one of them, the alias bit
  of -1 is none, `NULL` is no record. `ProxyAssumption`: plans, addresses and faults are of their kinds, `NULL` is no viewer, no film has the name of an empty or unwritten buffer.
* `RelayAssumption`: at least two bytes of line buffer and one of send buffer; a response ends after its head and at least one byte of body.
* `AdaptAssumption`: alpha is a fraction in [0, 1], sizes are naturals, `Indefinite` is an int, a manifest is a sequence of children.
* `OspfAssumption`: a line is a name, a number and a non-empty list of names; there are finitely many names.
* `DnsAssumption` and `NameServerAssumption`: the hosts are two disjoint sets, none is the name server, the counter has a
  range; the servers file names at least one server and none twice; a node announces one list of neighbours under one number, as
  `genlsa.py` does.

* `PoolInv == PoolSpec => []Inv` for every number of slots, descriptors and addresses. `Inv` is the
  conjunction of the six invariants the run checks, and it is inductive as it stands. The parts need each other:
  `close_conn` keeps a record or frees it by its count, so conns keep naming live
  records only while the counts are exact; counts stay exact only while each live server is on one conn; the select
  set stays exact only while no two records share a descriptor. From it follow `PoolTypeCorrect`,
  `PoolConns`, `PoolRefCounts`, `PoolSockets`, `PoolSelectSet`, `PoolCounters`, and
  `AcceptGuardVacuous`: `cur_conn <= FD_SETSIZE` holds always, so `main`'s guard on accept limits nothing.
  Lemmas about a table that gains, loses or changes one record (`FillSlot`, `EmptySlot`, `UpdateSlot`) carry the
  counting; each action is then one lemma.
* `PoolImplementsSessions`: the refinement, step by step: accept maps to `Join` or a stutter, a connect to
  `Dial`, `close_conn` to `HangUp`.
* `PoolOverrun == PoolSpec => []OverrunOnlyWhenFull`: a full table of conns takes as many servers (`FullOfServers`), open sockets and records
  that hold one are as many (`SocketCount`), and the client the request came from is one more (`Stuffed`).
* `ProxyInv == Spec => []Inv`: the pool's invariants hold in the proxy, for any number of viewers, any plans and any
  faults. `JobOK` is what carries it: the index of the client and of the conn that a handler read before polling
  still name live records when it uses them afterwards. (`SeenAsPool`, that the loop and handlers change the tables through the
  pool's operations alone, is by construction of `Proxy` and only a lemma.)
* `AdaptOneEstimate == Spec => []OneEstimate`: for any number of connections, pairs and samples. `OneEstimate` is not
  inductive without the shape of the table (`Inv` adds it): a smoothed sample must again be an integer
  (`SmoothedInt`: `Cast` sees to that), and an entry is only ever added at the end, for a pair that has none (`LookUpKeeps`).
* `AdaptNoOvershoot == Spec => PulledTowardsSample`, an action property. The two truncations, of the sample and of the smoothed
  value, are the difficulty: `TruncOrder` and `TruncScales` say that truncation towards zero respects order, also between fractions over
  different denominators, and `SmoothedBetween` that a weighted mean truncated stays between what was truncated.
* `AdaptAsksBest == Spec => BestRateAsked` and `AdaptTypes`. `ParsedIs` and `ScanIs` say what the two folds compute, by
  induction on the elements taken (`KeepTurns`, `ScanTurns`): the list holds the bitrates of the media elements that have one, no others,
  and the scan ends with the largest that fits and the least of all. `RateInv` says that the list in force is the one parsed from
  the film `latest`, which is what ties the choice to a film.

* `AnswersPrivate == Spec => []Private`. The invariant `PrivInv` says where an answer can be before it is sent: the
  queues of the server of a live conn hold only requests of, and answers for, the viewer behind that conn (`ChanInv`), and
  the running handler works for the owner of its conn (`JobFor`). The pool's `Inv` carries it through the reuse of
  descriptors: a number that is handed out again is of a socket that was closed, so its queues are empty, and a live server
  is on one conn only, so nobody else's requests can be behind it.
* `ClientsReady == Spec => []ClientsServedWhenReadable`. `Pending` is the strengthening: the clients the scan has not come to
  still hold what `select` saw. A handler reads its own client's socket only; closing leaves the sockets of other
  clients alone; a descriptor opened in this round is a server's, or a client's whose bit is not in `read_rdy`; and peers
  only add. For servers the same is false, which is the finding `proxy_stale_bit`.
* `ProxyTypes == Spec => []ProxyTypeOK`. Three invariants stand behind it. `TextInv`: a film named in a line, a request, a head or
  `nolist_buf` is a film some viewer watches, nothing, or bytes never written. `QuietInv`: a descriptor that is not open, and the
  listening one, has nothing queued, asked or at its other end. `TypesInv` has the rest, and that the viewers marked are viewers.
* `NoneForgotten == Spec => []NeverForgotten`, for any number of viewers, slots and servers and under all faults. The property is
  not inductive: that a request stays "at a server" until it is answered needs `HalfInv`, that a server which owes a body has
  sent its head, and that this head is the last piece unread or the handler that reads the body has it; the body alone
  would be nobody's. `WaitInv` says that those who wait are connected, so an answer that is sent ends the wait. Each step then
  leaves a conn as it was but for requests added (`Steady`), and `Frame` asks of a step only what it takes away: a line read is in the
  handler (`ReadOutcome`), a request forwarded is with the server of a conn of the viewer (`ForwardSteady`), a head read is the
  handler's (`HeadSteady`), the second manifest request is on the same conn or on a new one (`BodyAlone`, `DialSteady`), and a conn closed drops its
  viewer or leaves it stranded (`CloseLeaves`, `RememberClosed`).
* `AnswersFit == Spec => []AnswerFits` and `ManifestsOwn == Spec => []ManifestOwn` under the hypothesis `Orderly`, for
  any number of viewers, slots and servers, any films and plans and all other faults. `Orderly` says that no plan has
  a request the proxy refuses before its headers are read (`"post"`) and no viewer is late with its headers
  (`"slow"`); either leaves a header block in the socket, and `AnswerFits` is then false. (TLC shows either in a few
  steps.) `FitInv` is the strengthening. It lists the places a viewer's request can be (`Stages`): its socket, the
  handler of a request, the server of each slot of the conn table, the handler of a body. `Lone` says that of all
  these at most one is `Busy`, that the viewer then waits, and that what is there fits the last request sent (`Fits`,
  `Good`): on the socket a whole request, on a server one request or one head (`Carried`), besides bodies. A step
  moves the request from one place to the next (`LoneMoves`) or ends its way (`LoneEnds`), and leaves the other places
  be (`AllRest`). `Lone` and `QuietInv` give that a conn found or opened for it, or a second one dialed for the
  manifest, carries nothing yet. `PeersInv` (one socket for each viewer) and `PlansInv` tie the last request sent to
  the plan.
* `RelayTypes`: with `RoomInv`, a line being read has a place left in its buffer for the next byte and the NUL behind it.
* `Frames`, `OverrunAhead` and `RelayImplementsPipe`, for any number of connections, any responses, any segments
  and any sizes of line and send buffer. None of the properties is inductive. `BasicInv` adds to the types what each loop
  holds of its locals (`LoopInv`) and that the bytes taken are bytes that arrived, which are bytes that were asked for (`StreamInv`).
  `FrameInv` says that an idle connection stands at the end of a response; to carry it through a handler, `PlaceInv` says for
  every value of `pc` where in response j the handler is: in the head line, in the blank line behind the stale cells the
  head line left, at a returned line, with so much of the body read. `OutInv` says the bytes in the viewer and in its send buffer are
  the first ones of the stream, in order, and `Sending` that the buffer being sent continues them. A head cut short, an
  answer asked for ahead and a server that closed are the three ways out, and the invariant names each where it occurs. The refinement
  then maps a `recv` of the viewer to `Receive`, arrival to `Write`, a close or a cut to `Break`.
* `NewestKept` (`LinesInv`) and `TableHasAll`. For the second `TableInv` ties the list of clients to what was heard: it names each
  client once, and the entries made so far are those of its first clients, in its order.
* `OspfTypes`, `Nearness` and `AssertMeansCutOff`: the search is a breadth-first search in spite of marks and queue being shared by all
  of them. `SearchInv` says that what is marked and off the queue has all its neighbours marked, that no server is marked, and
  that the queue is in order of distance: some nodes within d hops, then nodes d + 1 hops away, with everything within d hops
  marked (`Levels`). So the first server met is at distance d + 1 and no server is within d; and when the queue runs dry, what is marked
  is closed under neighbours and has no server, so none is within any number of hops. The distances are the recursive function
  `Within`; what it computes is derived by induction on the number of hops.
* `ResolveFresh == Spec => []AnswersFresh`. Every answer on the wire (`WireVouched`) or in a socket
  (`SocketsVouched`) is one the name server gave to the host it is addressed to. Losses and copies keep that, whatever the
  routing table holds.
* `DialsNearest == Spec => []NearestDialed`. `NameServerProofs` instantiates `OspfProofs` (`Names <- Addresses`), and `MapInv`
  carries its invariants through the composed process: what was proved of the files and the searches holds of the table that
  answers. `GivenInv` adds that an answer given to a proxy is what the finished table has for it; with `FreshInv` the address dialed is one.
* `DownJustified == Spec => []CrashesOnlyUnrouted`, whatever `select`, `recvfrom` and the network do. What crashes the process is a search that
  ran dry (`AssertMeansCutOff`) or a query of a host without an entry (`TableHasAll` says who has one). That a proxy among these still
  waits needs `TrafficInv`: a query of its own under way means that it waits or was answered before, and one without an entry
  never was. A query too short to tell is a stranger's that sent one (`CutInv`).
* `FailsNotAlone == Spec => []FailsOnlyAfterCopy`. For a proxy none of whose datagrams was copied, at most one exists, on the wire
  or in its socket, and carries the id the proxy asks with (`OneFlight`). So a late answer never meets a newer query, whatever time
  does in between.
* `NameServerTypes == Spec => []TypeOK`: addresses dialed are addresses because every answer is, so the type invariant needs `HostTypes` over the
  traffic as well.
* `RotationFair == Spec => []RotationBalanced` under the hypothesis that the number of servers divides the range of the counter (2^32 in the
  program). Without it the property is false: at the wrap the rotation starts again from the first server. `RotationInv` counts:
  the servers up to the counter were named once more than the rest.

`BasicLemmas` holds the facts about the members of a sequence after one step, and the induction the proofs need: `LeastNat` is the least element
of a set of naturals (from the library's well-foundedness theorem, which speaks of sets), `Induction` follows, and `HopsExist` and
`FoldExists` give the recursive function `Within` and `FoldLeft` the solution their recursion describes, so that they can be unfolded one
turn at a time.

**Only model-checked**: everything under fairness, because liveness and `ENABLED` are outside this prover.

## 5. What is not modelled, and why

* Requests that arrive in parts of a line. `Proxy` has a block late or cut, `Relay` opens up responses only; a request
  line takes the same loop (`io_recvline_block`) as the lines of a head.
* In `Relay`: the list manifest, which is kept and not relayed; line feeds within a body, which matter only after
  the framing is lost; a viewer that leaves is noticed by `send` alone, its own descriptor is `Proxy`'s matter.
* `io_recvn` and `io_recvlineb`, which nothing calls.
* `media.c`, `log.c` and the text of URIs and headers: string functions. `parse_uri` is its outcome.
* libxml2, the kernel and libc; browsers and video servers, which are the environment actions of `Proxy`.
* `genlsa.py` beyond its output, netsim, the setup scripts, the graders, the plots, the unbuilt copy in
  `src/SAVEMEPLZ`.
* An error of `recvfrom` in the proxy's `resolve`, which ends it with -1 as a reply that does not fit does. Of the resolver `Proxy` has
  that it may never return (`ResolveHangs`); what it returns is in `Dns`, and `Route` takes the address as given.
* Announcements longer than `BUFSIZE` or short of a field, which `genlsa.py` does not write for the networks here.
* Stray bits above the name server's socket, which `select` does not look at, and of descriptors that are open but not readable, which count for nothing.
* The uneven step of the rotation when 2^32 is not a multiple of the servers: `RotationFair` has it as a hypothesis.

## 6. Plan

Order: what decides whose bytes reach whom comes first. Done: `Sessions`, `Pool`, `PoolProofs`, `Proxy`,
`ProxyProofs`, `LoopProofs`, `Ospf`, `OspfProofs`, `Dns`, `NameServer`, `NameServerProofs`, `Pipe`, `Relay`,
`RelayProofs`, `Adapt`, `AdaptProofs`, `BasicLemmas`. Next:

1. The rewriting of a path as an operator on its parts.
