-------------------------------- MODULE Dns --------------------------------
(***************************************************************************)
(* The proxies' resolver (mydns.c) and the name server (nameserver.c) over *)
(* UDP.  resolve() sends one query and blocks in recvfrom until any        *)
(* datagram comes, with no timeout and no retry; its caller in proxy.c     *)
(* ignores the return code and uses the address either way.  The name      *)
(* server answers a query at a time, by rotation over `nodes` or from      *)
(* `routing_table`, both of which module NameServer builds with Ospf.      *)
(* Datagrams may be lost, duplicated and reordered.  The set the server    *)
(* gives to select is never zeroed: what else it holds decides whether the *)
(* server serves, spins or exits.                                          *)
(***************************************************************************)
EXTENDS Integers, Sequences, FiniteSets, Bags, SequencesExt

CONSTANTS Proxies,     (* hosts that resolve, each with one socket           *)
          Strangers,   (* hosts that ask for another name                    *)
          Addresses,   (* the names of hosts, as the files write them        *)
          CountRange,  (* query_count wraps at this                          *)
          Faults,      (* what may go wrong: "lose", "dup", "short" queries, *)
                       (* "recvError" in the name server                     *)
          Unreliable,  (* hosts whose datagrams may be lost or copied        *)
          Strays,      (* what read_nrdy may hold besides the socket         *)
          MaxAsked,    (* bound on the queries                               *)
          MaxClock,    (* bound on the seconds                               *)
          Unset,       (* what malloc left in an address nothing was put in  *)
          NULL

Hosts == Proxies \cup Strangers

ASSUME DnsAssumption ==
    /\ Proxies \cap Strangers = {} /\ "ns" \notin Hosts
    /\ Proxies \subseteq Addresses
    /\ CountRange \in Nat \ {0} /\ MaxAsked \in Nat /\ MaxClock \in Nat
    /\ Faults \subseteq {"lose", "dup", "short", "recvError"}
    /\ Unreliable \subseteq Hosts
    /\ Strays \subseteq {"none", "ready", "closed"}
    /\ Unset \notin Addresses \cup {NULL}

VARIABLES clock,       \* time(NULL)
          waiting,     \* hosts blocked in recvfrom
          id,          \* of the query each host sent last
          rc, dialed,  \* what resolve returned, the address then connected to
          socket,      \* datagrams that reached a host and were not read
          wire,        \* datagrams under way, a bag
          query_count,
          nodes, routing_table, \* what OSPF_init has left
          rr_flag,     \* how the name server was started: in rotation or not
          stray,       \* a bit of read_nrdy nobody set, below the socket's
          fate,        \* "up", "spinning" without serving, "exited", "crashed"
          asked,       \* queries sent so far
          tally,       \* answers each server was named in: history
          given,       \* answers given to each host, with their ids: history
          copied,      \* hosts to which or from which the network copied, and
          lost,        \* lost, a datagram: history
          cut          \* strangers that have sent too short a query: history

hostVars == <<waiting, id, rc, dialed>>
histVars == <<tally, given>>
netVars  == <<copied, lost, cut>>
dnsVars == <<clock, hostVars, socket, wire, query_count, rr_flag, stray, fate, asked, histVars, netVars>>

-----------------------------------------------------------------------------
(* The id is the first rand() after srand(time(NULL)): one per second.     *)
Query(h, short) ==
    [to |-> "ns", from |-> h, id |-> clock, ours |-> h \in Proxies, short |-> short]

(* htonl of a byte, stored in a four-bit field *)
Htonl(x) == x * 2^24
RcodeField(x) == x % 16

MutAnswer(q, addr) == \* stamped with the id of the moment, not the query's
    [to |-> q.from, id |-> clock, qr |-> 1, rcode |-> 0, ours |-> TRUE, addr |-> addr]

Answer(q, addr) == [to |-> q.from, id |-> q.id, qr |-> 1, rcode |-> 0, ours |-> TRUE, addr |-> addr]

(* res_err: the query itself goes back, with the code put in its header.   *)
ErrorFor(q) == [to |-> q.from, id |-> q.id, qr |-> 0, rcode |-> RcodeField(Htonl(3)),
                ours |-> q.ours, addr |-> NULL]

Without(d) == wire (-) SetToBag({d})
With(d)    == wire (+) SetToBag({d})

DnsInit ==
    /\ clock = 0 /\ asked = 0
    /\ waiting = {}
    /\ id = [h \in Hosts |-> 0]
    /\ rc = [h \in Hosts |-> 0]
    /\ dialed = [h \in Hosts |-> NULL]
    /\ socket = [h \in Hosts |-> <<>>]
    /\ wire = EmptyBag
    /\ query_count = 0 /\ rr_flag \in BOOLEAN
    /\ stray \in Strays /\ fate = "up"
    /\ tally = [s \in Addresses |-> 0]
    /\ given = [h \in Hosts |-> {}]
    /\ copied = {} /\ lost = {} /\ cut = {}

(* resolve up to recvfrom; a stranger may send less than a whole query. *)
Ask(h) ==
    /\ h \notin waiting /\ asked < MaxAsked
    /\ \/ wire' = With(Query(h, FALSE)) /\ UNCHANGED cut
       \/ /\ "short" \in Faults /\ h \in Strangers
          /\ wire' = With(Query(h, TRUE))
          /\ cut' = cut \cup {h}
    /\ id' = [id EXCEPT ![h] = clock]
    /\ waiting' = waiting \cup {h}
    /\ asked' = asked + 1
    /\ UNCHANGED <<clock, rc, dialed, socket, query_count, rr_flag, stray, fate, histVars,
                   copied, lost>>

(* Mutant: the id is not compared. *)
MutRepeats(d, h) == d.qr = 1 /\ d.rcode = 0 /\ d.ours

(* resolve from recvfrom on: the oldest datagram is the answer if it       *)
(* repeats the query.  An error reply, its qr bit clear, never does.       *)
Repeats(d, h) == d.qr = 1 /\ d.rcode = 0 /\ d.id = id[h] /\ d.ours

MutReceive(h) == \* the address is copied out before the reply is checked
    /\ h \in waiting /\ socket[h] # <<>>
    /\ LET d == Head(socket[h])
       IN /\ rc' = [rc EXCEPT ![h] = IF Repeats(d, h) THEN 0 ELSE -1]
          /\ dialed' = [dialed EXCEPT ![h] = d.addr]
    /\ socket' = [socket EXCEPT ![h] = Tail(@)]
    /\ waiting' = waiting \ {h}
    /\ UNCHANGED <<clock, id, wire, query_count, rr_flag, stray, fate, asked, histVars, netVars>>

Receive(h) ==
    /\ h \in waiting /\ socket[h] # <<>>
    /\ LET d == Head(socket[h])
           ok == Repeats(d, h)
       IN /\ rc' = [rc EXCEPT ![h] = IF ok THEN 0 ELSE -1]
          /\ dialed' = [dialed EXCEPT ![h] = IF ok THEN d.addr ELSE Unset]
    /\ socket' = [socket EXCEPT ![h] = Tail(@)]
    /\ waiting' = waiting \ {h}
    /\ UNCHANGED <<clock, id, wire, query_count, rr_flag, stray, fate, asked, histVars, netVars>>

(* serve: a query that is not byte for byte the reference query, its id    *)
(* apart, is refused.  The length received is not looked at: what a short  *)
(* one lacks is read from what the stack held, and may match.              *)
Matches(q) == q.ours \/ q.short

Reply(q, d) == wire' = Without(q) (+) SetToBag({d})

Named(q, addr) ==
    /\ Reply(q, Answer(q, addr))
    /\ tally' = [tally EXCEPT ![addr] = @ + 1]
    /\ given' = [given EXCEPT ![q.from] = @ \cup {[id |-> q.id, addr |-> addr]}]

MutRefuseQuery(q) == \* a refused query turns the rotation on
    /\ ~q.ours
    /\ Reply(q, ErrorFor(q))
    /\ query_count' = (query_count + 1) % CountRange
    /\ UNCHANGED <<fate, histVars>>

RefuseQuery(q) ==
    /\ ~q.ours
    /\ Reply(q, ErrorFor(q))
    /\ UNCHANGED <<query_count, fate, histVars>>

(* route() *)
NextServer == nodes[(query_count % Len(nodes)) + 1]
Entry(h) == SelectInSeq(routing_table, LAMBDA e : e.clit = h)
Best(h)  == routing_table[Entry(h)].serv

RouteByRotation(q) ==
    /\ Matches(q) /\ rr_flag
    /\ Named(q, NextServer)
    /\ query_count' = (query_count + 1) % CountRange
    /\ UNCHANGED fate

(* Mutant: an id is answered once.                                         *)
MutRouteOnce(q) ==
    /\ Matches(q) /\ ~rr_flag /\ Entry(q.from) # 0
    /\ \/ q.id \notin {g.id : g \in given[q.from]} /\ Named(q, Best(q.from))
       \/ q.id \in {g.id : g \in given[q.from]} /\ wire' = Without(q) /\ UNCHANGED histVars
    /\ UNCHANGED <<query_count, fate>>

RouteByTable(q) ==
    /\ Matches(q) /\ ~rr_flag /\ Entry(q.from) # 0
    /\ Named(q, Best(q.from))
    /\ UNCHANGED <<query_count, fate>>

(* route() reads through the NULL it gets for a client without an entry.   *)
RouteUnknown(q) ==
    /\ Matches(q) /\ ~rr_flag /\ Entry(q.from) = 0
    /\ fate' = "crashed"
    /\ wire' = Without(q)
    /\ UNCHANGED <<query_count, histVars>>

Serve(q) ==
    /\ fate = "up" /\ stray # "closed" /\ q.to = "ns"
    /\ RefuseQuery(q) \/ RouteByRotation(q) \/ RouteByTable(q) \/ RouteUnknown(q)
    /\ UNCHANGED <<clock, hostVars, socket, rr_flag, stray, asked, netVars>>

(***************************************************************************)
(* The ways the main loop comes to serve no more.  A bit of a closed       *)
(* descriptor makes select fail, and the process exits.  The bit of one    *)
(* that is always readable, as the log file is, is counted by select: with *)
(* no query there serve waits for one in recvfrom, but from the first that *)
(* is there before select nready is 2 for ever and nothing is served.  An  *)
(* error of recvfrom ends the process too.                                 *)
(***************************************************************************)
Queued == \E q \in BagToSet(wire) : q.to = "ns"

Stops(how) ==
    /\ fate = "up" /\ fate' = how
    /\ UNCHANGED <<clock, hostVars, socket, wire, query_count, rr_flag, stray, asked, histVars, netVars>>

SelectFails == stray = "closed" /\ Stops("exited")
Spins       == stray = "ready" /\ Queued /\ Stops("spinning")
RecvFails   == /\ "recvError" \in Faults
               /\ stray = "ready" \/ (stray = "none" /\ Queued)
               /\ Stops("exited")

(* The network. *)
Deliver(d) ==
    /\ d.to # "ns"
    /\ socket' = [socket EXCEPT ![d.to] = Append(@, d)]
    /\ wire' = Without(d)
    /\ UNCHANGED <<clock, hostVars, query_count, rr_flag, stray, fate, asked, histVars, netVars>>

Host(d) == IF d.to = "ns" THEN d.from ELSE d.to

Lose(d) ==
    /\ "lose" \in Faults /\ Host(d) \in Unreliable
    /\ wire' = Without(d)
    /\ lost' = lost \cup {Host(d)}
    /\ UNCHANGED <<clock, hostVars, socket, query_count, rr_flag, stray, fate, asked, histVars, copied, cut>>

Duplicate(d) ==
    /\ "dup" \in Faults /\ Host(d) \in Unreliable \ copied
    /\ wire' = With(d)
    /\ copied' = copied \cup {Host(d)}
    /\ UNCHANGED <<clock, hostVars, socket, query_count, rr_flag, stray, fate, asked, histVars, lost, cut>>

Tick ==
    /\ clock < MaxClock
    /\ clock' = clock + 1
    /\ UNCHANGED <<hostVars, socket, wire, query_count, rr_flag, stray, fate, asked, histVars, netVars>>

HostStep    == \E h \in Hosts : Ask(h) \/ Receive(h)
ServerStep  == \E q \in BagToSet(wire) : Serve(q)
Delivery    == \E d \in BagToSet(wire) : Deliver(d)
NetworkStep == Delivery \/ \E d \in BagToSet(wire) : Lose(d) \/ Duplicate(d)

-----------------------------------------------------------------------------
(* Type correctness, and resolve puts an address in where it returns 0 and *)
(* nowhere else: its callers ignore what it returns.                       *)
DnsTypeOK ==
    /\ clock \in 0..MaxClock /\ asked \in 0..MaxAsked
    /\ waiting \subseteq Hosts
    /\ id \in [Hosts -> 0..MaxClock]
    /\ rc \in [Hosts -> {0, -1}]
    /\ dialed \in [Hosts -> Addresses \cup {NULL, Unset}]
    /\ \A h \in Hosts : rc[h] = -1 <=> dialed[h] = Unset
    /\ query_count \in 0..(CountRange - 1)
    /\ IsABag(wire)
    /\ rr_flag \in BOOLEAN /\ stray \in Strays
    /\ fate \in {"up", "spinning", "exited", "crashed"}

(* A resolve that succeeds yields an address the name server gave this     *)
(* very host within the second the query was made in, whatever was lost,   *)
(* copied or late.                                                         *)
AnswersFresh ==
    \A h \in Hosts \ waiting :
        rc[h] = 0 /\ dialed[h] # NULL => [id |-> id[h], addr |-> dialed[h]] \in given[h]

(* Loss, reordering, other hosts and queries for other names never make a  *)
(* proxy's resolve fail: only a copied datagram does.                      *)
FailsOnlyAfterCopy == \A p \in Proxies : rc[p] = -1 => p \in copied

(* In rotation no server is named twice more than another, over all        *)
(* proxies and over the wrap of query_count when the number of servers     *)
(* divides its range.                                                      *)
RotationBalanced ==
    rr_flag => \A s, t \in ToSet(nodes) : tally[s] - tally[t] <= 1

(* A resolve whose datagrams are not lost returns, unless the name server  *)
(* crashed, exited on an error, or holds the bit of a readable descriptor: *)
(* losses of other hosts, copies, refusals and short queries block nobody. *)
ResolveReturns ==
    \A p \in Proxies : p \in waiting ~>
      \/ p \notin waiting \/ p \in lost
      \/ fate = "crashed"
      \/ fate = "exited" /\ (stray = "closed" \/ "recvError" \in Faults)
      \/ fate = "spinning" /\ stray = "ready"

(* "Rcode - 0 for no error, 3 for name error" (mydns.h). *)
NameErrorSaid ==
    \A h \in Strangers : \A n \in DOMAIN socket[h] : socket[h][n].rcode = 3
=============================================================================
