----------------------------- MODULE LoopProofs -----------------------------
(***************************************************************************)
(* The one thread and those who wait for it, for any number of viewers and *)
(* slots and all faults.  serve_clients never blocks on a socket with      *)
(* nothing to read, because nothing it does before it reaches a client     *)
(* takes that client's readiness away.  What the loop, the viewers and the *)
(* servers keep has its types.  And no viewer that waits is forgotten:     *)
(* wherever its request is, something will come of it, or one of the two   *)
(* failures of pooled connections is there to be seen, unless the thread   *)
(* is stuck.  Where viewers send whole requests and only GETs, that        *)
(* request is in one place at a time, and what comes of it fits it.        *)
(***************************************************************************)
EXTENDS ProxyProofs

PartsInv ==
    /\ DOMAIN inq = Fds /\ DOMAIN fin = Fds
    /\ \A fd \in Fds : IsQueue(inq[fd])

(* Viewers in the backlog, each there once, are not connected yet. *)
PlaceInv ==
    /\ DOMAIN place = Viewers
    /\ IsQueue(knocking)
    /\ \A v \in ToSet(knocking) : v \in Viewers /\ place[v] = "out"
    /\ \A m, n \in DOMAIN knocking : knocking[m] = knocking[n] => m = n
    /\ pc = "accept" => knocking # <<>>

(* The clients the scan has not come to yet still have what select saw. *)
Pending(n) ==
    \A i \in Slots : i >= n /\ client_l[i] # NULL /\ client_l[i].fd \in read_rdy
                       => Readable(client_l[i].fd)

ReadyInv ==
    /\ cursor \in Int
    /\ pc \in {"route", "forward", "body", "dial"} => job.idx \in Slots
    /\ pc = "accept" => read_rdy \subseteq open
    /\ pc \in {"accept", "clients"} => Pending(cursor)
    /\ pc \in {"route", "forward"} => Pending(job.idx + 1)

(* A body is awaited on a descriptor. *)
StopInv == pc = "body" => ServFd(job.conn) \in Fds

SchedInv == PrivInv /\ PartsInv /\ PlaceInv /\ ReadyInv /\ StopInv

-----------------------------------------------------------------------------
LEMMA SlotsInt == Slots \subseteq Int
BY SlotsAreIntegers

LEMMA SchedInit == Init => SchedInv
<1> SUFFICES ASSUME Init PROVE SchedInv
  OBVIOUS
<1>1. PartsInv /\ PlaceInv
  BY ShortQueues DEF Init, PartsInv, PlaceInv
<1>2. ReadyInv /\ StopInv
  BY DEF Init, ReadyInv, StopInv
<1> QED BY <1>1, <1>2, PrivInit DEF SchedInv

-----------------------------------------------------------------------------
(* What the thread does to the queues: it only takes from them, a line of  *)
(* a header block at the least, and where it closes it empties them.       *)
Shrinks ==
    /\ DOMAIN inq' = Fds /\ DOMAIN fin' = Fds
    /\ \A fd \in Fds : /\ IsQueue(inq'[fd])
                       /\ ToSet(inq'[fd]) \subseteq ToSet(inq[fd]) \cup {Headers(FALSE)}
                       /\ inq[fd] = <<>> => inq'[fd] = <<>>
                       /\ fin'[fd] = "no" => fin[fd] = "no" \/ inq'[fd] = <<>>

LEMMA EmptyQueue == ASSUME NEW q, IsQueue(q), ToSet(q) = {} PROVE q = <<>>
<1>1. PICK S : q \in Seq(S)
  BY DEF IsQueue
<1>2. q # <<>> => 1 \in DOMAIN q
  BY <1>1
<1> QED BY <1>2 DEF ToSet

LEMMA SameShrinks == ASSUME PartsInv, UNCHANGED <<inq, fin>> PROVE Shrinks
BY DEF PartsInv, Shrinks

LEMMA ClosedShrinks == ASSUME PartsInv, WithClosed PROVE Shrinks
<1> DEFINE shut == open \ open'
<1>1. /\ inq' = [fd \in Fds |-> IF fd \in shut THEN <<>> ELSE inq[fd]]
      /\ fin' = [fd \in Fds |-> IF fd \in shut THEN "no" ELSE fin[fd]]
  BY DEF WithClosed
<1> HIDE DEF shut
<1> QED BY <1>1, ShortQueues DEF PartsInv, Shrinks

LEMMA AtShrinks ==
    ASSUME PartsInv, NEW fd, NEW q, inq' = [inq EXCEPT ![fd] = q],
           fd \in Fds => IsQueue(q) /\ ToSet(q) \subseteq ToSet(inq[fd]) \cup {Headers(FALSE)},
           inq[fd] = <<>> => q = <<>>, UNCHANGED fin
    PROVE  Shrinks
BY DEF PartsInv, Shrinks

LEMMA TailShrinks ==
    ASSUME PartsInv, NEW fd, inq' = [inq EXCEPT ![fd] = Tail(inq[fd])],
           inq[fd] # <<>>, UNCHANGED fin
    PROVE  Shrinks
<1>1. fd \in Fds => IsQueue(Tail(inq[fd])) /\ ToSet(Tail(inq[fd])) \subseteq ToSet(inq[fd])
  BY Taken DEF PartsInv
<1> QED BY <1>1, AtShrinks

(* Headers are read from what is there. *)
LEMMA HeadersShrink ==
    ASSUME PartsInv, NEW i, NEW g, NEW more, IsQueue(more),
           RequestHeaders(i, g, more)
    PROVE  \E q : /\ inq' = [inq EXCEPT ![client_l[i].fd] = q]
                  /\ IsQueue(q) /\ ToSet(q) \subseteq ToSet(more)
<1> DEFINE rest == IF Starts(more, "get") \/ Starts(more, "post") THEN Tail(more) ELSE more
<1>1. IsQueue(rest) /\ ToSet(rest) \subseteq ToSet(more)
  BY Taken DEF Starts
<1>2. rest # <<>> => IsQueue(Tail(rest)) /\ ToSet(Tail(rest)) \subseteq ToSet(more)
  BY <1>1, Taken
<1>3. \/ rest # <<>> /\ inq' = [inq EXCEPT ![client_l[i].fd] = Tail(rest)]
      \/ inq' = [inq EXCEPT ![client_l[i].fd] = <<>>]
  BY DEF RequestHeaders, Starts
<1>4. IsQueue(<<>>) /\ ToSet(<<>>) \subseteq ToSet(more)
  BY ShortQueues
<1> HIDE DEF rest
<1> QED BY <1>2, <1>3, <1>4

LEMMA ClientShrinks ==
    ASSUME SchedInv, NEW i \in Slots, ReadGet(i) \/ ReadOther(i) \/ ReadNothing(i)
    PROVE  Shrinks /\ \E q : inq' = [inq EXCEPT ![client_l[i].fd] = q] \/ UNCHANGED inq
<1> DEFINE fd == client_l[i].fd
<1>1. fd \in Fds
  <2>1. client_l[i] # NULL
    BY DEF ReadGet, ReadOther, ReadNothing, ClientTurn, ScanAt, Marked
  <2> QED BY <2>1, ClientApart DEF SchedInv, PrivInv, LoopInv
<1>2. IsQueue(inq[fd]) /\ PartsInv
  BY <1>1 DEF SchedInv, PartsInv
<1>3. UNCHANGED fin
  BY DEF ReadGet, ReadOther, ReadNothing, chanVars
<1>4. ASSUME inq[fd] # <<>>
      PROVE  IsQueue(Tail(inq[fd])) /\ ToSet(Tail(inq[fd])) \subseteq ToSet(inq[fd])
  BY <1>2, <1>4, Taken
<1>5. ASSUME NEW g, NEW more, IsQueue(more), ToSet(more) \subseteq ToSet(inq[fd]),
             RequestHeaders(i, g, more)
      PROVE  \E q : /\ inq' = [inq EXCEPT ![fd] = q]
                    /\ IsQueue(q) /\ ToSet(q) \subseteq ToSet(inq[fd])
  BY <1>2, <1>5, HeadersShrink
<1>6. \/ UNCHANGED inq
      \/ \E q : /\ inq' = [inq EXCEPT ![fd] = q]
                /\ IsQueue(q) /\ ToSet(q) \subseteq ToSet(inq[fd]) \cup {Headers(FALSE)}
                /\ inq[fd] = <<>> => q = <<>>
  <2>1. CASE ReadGet(i)
    <3>1. inq[fd] # <<>> /\ RequestHeaders(i, inq[fd][1], Tail(inq[fd]))
      BY <2>1 DEF ReadGet, Starts
    <3> QED BY <3>1, <1>4, <1>5
  <2>2. CASE ReadOther(i)
    <3> DEFINE h == <<Headers(FALSE)>>
    <3>1. /\ inq[fd] # <<>>
          /\ \/ \E q \in {inq[fd], Tail(inq[fd]), h \o Tail(inq[fd])} :
                  inq' = [inq EXCEPT ![fd] = q]
             \/ RequestHeaders(i, lastGet, Tail(inq[fd]))
      BY <2>2 DEF ReadOther, Refused, Starts
    <3>2. IsQueue(h) /\ ToSet(h) = {Headers(FALSE)}
      BY ShortQueues
    <3> HIDE DEF h
    <3>3. /\ IsQueue(h \o Tail(inq[fd]))
          /\ ToSet(h \o Tail(inq[fd])) \subseteq ToSet(inq[fd]) \cup {Headers(FALSE)}
      BY <1>4, <3>1, <3>2, Joined
    <3> QED BY <3>1, <3>3, <1>2, <1>4, <1>5
  <2>3. CASE ReadNothing(i)
    <3>1. UNCHANGED inq \/ RequestHeaders(i, lastGet, <<>>)
      BY <2>3 DEF ReadNothing
    <3>2. IsQueue(<<>>) /\ ToSet(<<>>) = {}
      BY ShortQueues
    <3>3. UNCHANGED inq \/ \E q : /\ inq' = [inq EXCEPT ![fd] = q]
                                 /\ IsQueue(q) /\ ToSet(q) \subseteq ToSet(inq[fd])
      BY <3>1, <3>2, <1>5
    <3>4. inq[fd] = <<>>
      BY <2>3 DEF ReadNothing
    <3> QED BY <3>2, <3>3, <3>4, EmptyQueue
  <2> QED BY <2>1, <2>2, <2>3
<1> HIDE DEF fd
<1>7. CASE UNCHANGED inq
  BY <1>2, <1>3, <1>7, SameShrinks
<1>8. ASSUME NEW q, inq' = [inq EXCEPT ![fd] = q], IsQueue(q),
             ToSet(q) \subseteq ToSet(inq[fd]) \cup {Headers(FALSE)},
             inq[fd] = <<>> => q = <<>>
      PROVE  Shrinks
  BY <1>2, <1>3, <1>8, AtShrinks
<1> QED BY <1>6, <1>7, <1>8 DEF fd

LEMMA ProxyShrinks == SchedInv /\ ProxyStep => Shrinks
<1> SUFFICES ASSUME SchedInv, ProxyStep PROVE Shrinks
  OBVIOUS
<1> PartsInv
  BY DEF SchedInv
<1>1. CASE Select \/ AcceptViewer \/ AcceptGivesUp \/ EndScan \/ Route \/ TablesFull
           \/ ForwardRequest \/ DialForNolist
  BY <1>1, SameShrinks DEF Select, AcceptViewer, AcceptGivesUp, EndScan, Route, TablesFull,
                           ForwardRequest, DialForNolist, chanVars
<1>2. CASE DropRequest
  BY <1>2, ClosedShrinks DEF DropRequest
<1>3. CASE ClientStep
  BY <1>3, ClientShrinks DEF ClientStep
<1>4. ASSUME NEW i \in Slots, ReadHead(i) PROVE Shrinks
  <2> DEFINE fd == server_l[i].fd
  <2>1. \/ WithClosed
        \/ inq[fd] # <<>> /\ inq' = [inq EXCEPT ![fd] = Tail(inq[fd])] /\ UNCHANGED fin
    BY <1>4 DEF ReadHead, CloseAndReturn, Starts
  <2> HIDE DEF fd
  <2> QED BY <2>1, ClosedShrinks, TailShrinks
<1>5. ASSUME NEW i \in Slots, ReadCutHead(i) \/ ReadNoHead(i) PROVE Shrinks
  <2>1. WithClosed \/ UNCHANGED <<inq, fin>>
    BY <1>5 DEF ReadCutHead, ReadNoHead, CloseAndReturn, chanVars
  <2> QED BY <2>1, ClosedShrinks, SameShrinks
<1>6. CASE ForwardBody \/ KeepList
  <2>1. \/ WithClosed
        \/ inq[BodyFd] # <<>> /\ inq' = [inq EXCEPT ![BodyFd] = Tail(inq[BodyFd])] /\ UNCHANGED fin
    BY <1>6 DEF ForwardBody, KeepList, CloseBodyConn, Starts
  <2> QED BY <2>1, ClosedShrinks, TailShrinks
<1>7. CASE BodyLost
  <2>1. \/ UNCHANGED <<inq, fin>>
        \/ WithClosed
        \/ UNCHANGED inq /\ fin' = [fin EXCEPT ![BodyFd] = "eof"]
    BY <1>7 DEF BodyLost, CloseBodyConn, chanVars
  <2>2. CASE UNCHANGED inq /\ fin' = [fin EXCEPT ![BodyFd] = "eof"]
    BY <2>2 DEF PartsInv, Shrinks
  <2> QED BY <2>1, <2>2, ClosedShrinks, SameShrinks
<1>8. CASE SendSpins \/ ResolveHangs
  BY <1>8, StuckInPlace, SameShrinks DEF chanVars
<1> QED BY <1>1, <1>2, <1>3, <1>4, <1>5, <1>6, <1>7, <1>8 DEF ProxyStep, ServerStep

-----------------------------------------------------------------------------
(* Where a client's handler leaves the thread, and what it leaves alone. *)
LEMMA ClientQuiet ==
    ASSUME NEW i, ReadGet(i) \/ ReadOther(i) \/ ReadNothing(i)
    PROVE  /\ pc' \in {"clients", "route", "hung"}
           /\ UNCHANGED <<read_rdy, fin, knocking, place, poolVars>>
<1>1. ASSUME NEW g, NEW more, RequestHeaders(i, g, more)
      PROVE  pc' \in {"clients", "route", "hung"} /\ UNCHANGED read_rdy
  BY <1>1 DEF RequestHeaders, Parsed, ReturnFrom, Stop
<1>2. ASSUME NEW rest, Refused(i, rest)
      PROVE  pc' = "clients" /\ UNCHANGED read_rdy
  BY <1>2 DEF Refused, ReturnFrom
<1>3. /\ UNCHANGED <<fin, knocking, place, poolVars>>
      /\ \/ \E g, more : RequestHeaders(i, g, more)
         \/ \E rest : Refused(i, rest)
         \/ ReturnFrom("clients", i)
  <2>1. CASE ReadGet(i)
    BY <2>1 DEF ReadGet, partyVars
  <2>2. CASE ReadOther(i)
    BY <2>2, OtherLine DEF ReadOther, partyVars
  <2>3. CASE ReadNothing(i)
    BY <2>3 DEF ReadNothing, partyVars
  <2> QED BY <2>1, <2>2, <2>3
<1> QED BY <1>1, <1>2, <1>3 DEF ReturnFrom

(* Where the viewers are. *)
LEMMA PlaceSame ==
    ASSUME PlaceInv, UNCHANGED <<knocking, place>>, pc' # "accept" \/ pc' = pc
    PROVE  PlaceInv'
BY DEF PlaceInv

LEMMA PlaceClosed ==
    ASSUME PlaceInv, WithClosed, UNCHANGED knocking, pc' # "accept"
    PROVE  PlaceInv'
<1>1. /\ DOMAIN place' = Viewers
      /\ \A v \in Viewers : place[v] # "in" => place'[v] = place[v]
  BY DEF WithClosed
<1>2. \A v \in ToSet(knocking) : place'[v] = "out"
  <2>1. SUFFICES ASSUME NEW v \in ToSet(knocking) PROVE place'[v] = "out"
    OBVIOUS
  <2>2. place[v] = "out"
    BY DEF PlaceInv
  <2>3. v \in Viewers
    BY DEF PlaceInv
  <2> QED BY <1>1, <2>2, <2>3
<1> QED BY <1>1, <1>2 DEF PlaceInv

(* The viewer accepted is the first of the backlog, and was there once. *)
LEMMA PlaceAccepted ==
    ASSUME PlaceInv, AcceptViewer
    PROVE  PlaceInv'
<1> DEFINE u == Head(knocking)
<1>1. /\ place' = [place EXCEPT ![u] = "in"] /\ knocking' = Tail(knocking)
      /\ pc' = "clients" /\ knocking # <<>>
  BY DEF AcceptViewer, PlaceInv
<1>2. PICK S : knocking \in Seq(S)
  BY DEF PlaceInv, IsQueue
<1>3. /\ u = knocking[1] /\ 1 \in DOMAIN knocking
      /\ \A n \in DOMAIN Tail(knocking) : n + 1 \in DOMAIN knocking /\ n + 1 # 1
                                          /\ Tail(knocking)[n] = knocking[n + 1]
  BY <1>1, <1>2
<1>4. IsQueue(Tail(knocking))
  BY <1>1, Taken DEF PlaceInv
<1> HIDE DEF u
<1>6. DOMAIN place' = Viewers /\ \A v \in Viewers : v # u => place'[v] = place[v]
  BY <1>1 DEF PlaceInv
<1>7. ASSUME NEW n \in DOMAIN Tail(knocking)
      PROVE  LET v == Tail(knocking)[n] IN v \in Viewers /\ place'[v] = "out"
  <2>1. n + 1 \in DOMAIN knocking /\ n + 1 # 1 /\ Tail(knocking)[n] = knocking[n + 1]
    BY <1>3
  <2>2. knocking[n + 1] # u
    BY <1>3, <2>1 DEF PlaceInv
  <2>3. knocking[n + 1] \in Viewers /\ place[knocking[n + 1]] = "out"
    BY <2>1 DEF PlaceInv, ToSet
  <2> QED BY <1>6, <2>1, <2>2, <2>3
<1>8. ASSUME NEW m \in DOMAIN Tail(knocking), NEW n \in DOMAIN Tail(knocking),
             Tail(knocking)[m] = Tail(knocking)[n]
      PROVE  m = n
  <2>1. m \in Int /\ n \in Int
    BY <1>1, <1>2
  <2>2. m + 1 = n + 1
    BY <1>3, <1>8 DEF PlaceInv
  <2> QED BY <2>1, <2>2
<1> QED BY <1>1, <1>4, <1>6, <1>7, <1>8 DEF PlaceInv, ToSet

LEMMA PlaceKnocked ==
    ASSUME PlaceInv, NEW v \in Viewers, Knock(v)
    PROVE  PlaceInv'
<1>1. /\ place[v] = "out" /\ ~Contains(knocking, v)
      /\ knocking' = Append(knocking, v) /\ UNCHANGED <<place, pc>>
  BY DEF Knock, loopVars
<1>2. PICK S : knocking \in Seq(S)
  BY DEF PlaceInv, IsQueue
<1>3. knocking \in Seq(S \cup {v})
  BY <1>2
<1> DEFINE q == Append(knocking, v)
<1>4. /\ q # <<>> /\ q[Len(knocking) + 1] = v
      /\ \A n \in DOMAIN q : n = Len(knocking) + 1 \/ (n \in DOMAIN knocking /\ q[n] = knocking[n])
  BY <1>3
<1>5. IsQueue(q) /\ ToSet(q) \subseteq ToSet(knocking) \cup {v}
  BY Appended DEF PlaceInv
<1>6. \A n \in DOMAIN knocking : knocking[n] # v
  <2>1. DOMAIN knocking = 1..Len(knocking)
    BY <1>2
  <2> QED BY <1>1, <2>1 DEF Contains
<1> HIDE DEF q
<1>7. \A m, n \in DOMAIN q : q[m] = q[n] => m = n
  BY <1>4, <1>6 DEF PlaceInv
<1>8. knocking' = q
  BY <1>1 DEF q
<1> QED BY <1>1, <1>4, <1>5, <1>7, <1>8 DEF PlaceInv

(* A viewer that closes was connected, so it is not in the backlog. *)
LEMMA PlaceLeft ==
    ASSUME PlaceInv, NEW v \in Viewers, Leave(v)
    PROVE  PlaceInv'
<1>1. /\ place[v] = "in" /\ place' = [place EXCEPT ![v] = "left"]
      /\ UNCHANGED <<knocking, pc>>
  BY DEF Leave, FdOf, loopVars
<1>2. place'[v] = "left" /\ \A u \in Viewers : u # v => place'[u] = place[u]
  BY <1>1 DEF PlaceInv
<1> QED BY <1>1, <1>2 DEF PlaceInv

LEMMA PlaceKept == PrivInv /\ PlaceInv /\ [Next]_vars => PlaceInv'
<1> SUFFICES ASSUME PrivInv, PlaceInv, [Next]_vars PROVE PlaceInv'
  OBVIOUS
<1>1. CASE Select
  <2>1. UNCHANGED <<knocking, place>> /\ (pc' = "accept" => knocking # <<>>)
    BY <1>1 DEF Select, partyVars
  <2> QED BY <2>1 DEF PlaceInv
<1>2. CASE AcceptGivesUp \/ EndScan \/ Route \/ TablesFull \/ ForwardRequest \/ DialForNolist
  <2>1. UNCHANGED <<knocking, place>> /\ pc' # "accept"
    BY <1>2 DEF AcceptGivesUp, EndScan, Route, TablesFull, ForwardRequest, DialForNolist,
                partyVars, Stop, Return
  <2> QED BY <2>1, PlaceSame
<1>3. CASE ClientStep
  <2>1. UNCHANGED <<knocking, place>> /\ pc' # "accept"
    BY <1>3, ClientQuiet DEF ClientStep
  <2> QED BY <2>1, PlaceSame
<1>4. CASE DropRequest
  <2>1. WithClosed /\ UNCHANGED knocking /\ pc' # "accept"
    BY <1>4 DEF DropRequest, Return
  <2> QED BY <2>1, PlaceClosed
<1>5. CASE ServerStep
  <2>1. /\ pc' # "accept"
        /\ UNCHANGED <<knocking, place>> \/ (WithClosed /\ UNCHANGED knocking)
    BY <1>5 DEF ServerStep, ReadHead, ReadCutHead, ReadNoHead, CloseAndReturn, ReturnFrom,
                Stop, partyVars
  <2> QED BY <2>1, PlaceSame, PlaceClosed
<1>6. CASE ForwardBody \/ KeepList \/ BodyLost
  <2>1. /\ pc' # "accept"
        /\ UNCHANGED <<knocking, place>> \/ (WithClosed /\ UNCHANGED knocking)
    BY <1>6 DEF ForwardBody, KeepList, BodyLost, Answer, CloseBodyConn, Return, Stop, partyVars
  <2> QED BY <2>1, PlaceSame, PlaceClosed
<1>7. CASE PeerStep
  <2>1. ASSUME NEW v \in Viewers, SendRequest(v) \/ SendHeaders(v) PROVE PlaceInv'
    <3>1. UNCHANGED <<knocking, place, pc>>
      BY <2>1 DEF SendRequest, SendHeaders, partyVars, loopVars
    <3> QED BY <3>1, PlaceSame
  <2>2. ASSUME NEW fd \in Fds, ServerAnswers(fd) \/ ServerDies(fd) \/ ServerLeaves(fd)
        PROVE  PlaceInv'
    <3>1. UNCHANGED <<knocking, place, pc>>
      BY <2>2 DEF ServerAnswers, ServerDies, ServerLeaves, partyVars, loopVars
    <3> QED BY <3>1, PlaceSame
  <2> QED BY <1>7, <2>1, <2>2, PlaceKnocked, PlaceLeft DEF PeerStep
<1>8. CASE UNCHANGED vars
  <2>1. UNCHANGED <<knocking, place, pc>>
    BY <1>8 DEF vars, partyVars, loopVars
  <2> QED BY <2>1, PlaceSame
<1>9. CASE SendSpins \/ ResolveHangs
  <2>1. UNCHANGED <<knocking, place>> /\ pc' # "accept"
    BY <1>9, StuckInPlace DEF partyVars
  <2> QED BY <2>1, PlaceSame
<1> QED BY <1>1, <1>2, <1>3, <1>4, <1>5, <1>6, <1>7, <1>8, <1>9, PlaceAccepted DEF Next, ProxyStep

-----------------------------------------------------------------------------
(* What peers put into the queues.  What they added before stays: a socket *)
(* never empties, nor opens again, by a peer's doing.                      *)
Grows == /\ DOMAIN inq' = Fds /\ DOMAIN fin' = Fds
         /\ \A fd \in Fds : /\ inq[fd] # <<>> => inq'[fd] # <<>>
                            /\ fin[fd] # "no" => fin'[fd] # "no"

LEMMA PartsPut ==
    ASSUME PartsInv, NEW fd \in Fds, NEW p, IsQueue(p),
           UNCHANGED inq \/ inq' = [inq EXCEPT ![fd] = inq[fd] \o p],
           UNCHANGED fin \/ \E how \in {"eof", "rst"} : fin' = [fin EXCEPT ![fd] = how]
    PROVE  PartsInv' /\ Grows
<1>1. /\ DOMAIN inq' = Fds /\ DOMAIN fin' = Fds
      /\ \A g \in Fds : fin[g] # "no" => fin'[g] # "no"
  BY DEF PartsInv
<1> DEFINE longer == inq[fd] \o p
<1>2. IsQueue(longer) /\ (inq[fd] # <<>> => longer # <<>>)
  BY Joined, Longer DEF PartsInv
<1>3. UNCHANGED inq \/ inq' = [inq EXCEPT ![fd] = longer]
  OBVIOUS
<1> HIDE DEF longer
<1> QED BY <1>1, <1>2, <1>3 DEF PartsInv, Grows

LEMMA ViewerGrows ==
    ASSUME PartsInv, NEW v \in Viewers,
           Knock(v) \/ SendRequest(v) \/ SendHeaders(v) \/ Leave(v)
    PROVE  PartsInv' /\ Grows
<1>1. (\A x : IsQueue(<<x>>)) /\ \A x, y : IsQueue(<<x, y>>)
  BY ShortQueues
<1>2. CASE Knock(v)
  BY <1>2 DEF Knock, chanVars, Grows, PartsInv
<1>3. CASE SendRequest(v)
  <2>1. PICK fd \in Fds :
          /\ \/ \E line, h : inq' = [inq EXCEPT ![fd] = inq[fd] \o <<line, h>>]
             \/ \E line : inq' = [inq EXCEPT ![fd] = inq[fd] \o <<line>>]
          /\ UNCHANGED fin
    BY <1>3 DEF SendRequest, Enqueue
  <2> QED BY <1>1, <2>1, PartsPut
<1>4. CASE SendHeaders(v)
  <2>1. PICK fd \in Fds : inq' = [inq EXCEPT ![fd] = inq[fd] \o <<Headers(TRUE)>>] /\ UNCHANGED fin
    BY <1>4 DEF SendHeaders, Enqueue
  <2> QED BY <1>1, <2>1, PartsPut
<1>5. CASE Leave(v)
  <2>1. PICK fd \in Fds :
          /\ UNCHANGED inq \/ \E x, y : inq' = [inq EXCEPT ![fd] = inq[fd] \o <<x, y>>]
          /\ fin' = [fin EXCEPT ![fd] = "eof"]
    BY <1>5 DEF Leave, Enqueue
  <2> QED BY <1>1, <2>1, PartsPut
<1> QED BY <1>2, <1>3, <1>4, <1>5

LEMMA ServerGrows ==
    ASSUME PartsInv, NEW fd \in Fds,
           ServerAnswers(fd) \/ ServerDies(fd) \/ ServerLeaves(fd)
    PROVE  PartsInv' /\ Grows
<1>1. IsQueue(<<>>) /\ (\A x : IsQueue(<<x>>)) /\ \A x, y : IsQueue(<<x, y>>)
  BY ShortQueues
<1>2. \/ UNCHANGED inq
      \/ \E x : inq' = [inq EXCEPT ![fd] = inq[fd] \o <<x>>]
      \/ \E x, y : inq' = [inq EXCEPT ![fd] = inq[fd] \o <<x, y>>]
  BY DEF ServerAnswers, ServerDies, ServerLeaves, Enqueue
<1>3. UNCHANGED fin \/ \E how \in {"eof", "rst"} : fin' = [fin EXCEPT ![fd] = how]
  BY DEF ServerAnswers, ServerDies, ServerLeaves
<1> QED BY <1>1, <1>2, <1>3, PartsPut

LEMMA PartsKept ==
    SchedInv /\ [Next]_vars => PartsInv' /\ (PeerStep => Grows)
<1> SUFFICES ASSUME SchedInv, [Next]_vars PROVE PartsInv' /\ (PeerStep => Grows)
  OBVIOUS
<1>1. PartsInv
  BY DEF SchedInv
<1>2. CASE PeerStep
  BY <1>1, <1>2, ViewerGrows, ServerGrows DEF PeerStep
<1>3. CASE ~PeerStep /\ ProxyStep
  BY <1>3, ProxyShrinks DEF Shrinks, PartsInv
<1>4. CASE ~PeerStep /\ UNCHANGED vars
  BY <1>1, <1>4 DEF vars, chanVars, PartsInv
<1> QED BY <1>2, <1>3, <1>4 DEF Next

-----------------------------------------------------------------------------
(* The clients still to come keep what select saw in them, as long as they *)
(* keep their descriptors and nobody reads from these.                     *)
LEMMA PendingKept ==
    ASSUME NEW m \in Int, NEW n \in Int, m <= n, Pending(m), UNCHANGED read_rdy,
           \A x \in Slots : x >= n /\ client_l'[x] # NULL /\ client_l'[x].fd \in read_rdy =>
               /\ client_l[x] # NULL /\ client_l'[x].fd = client_l[x].fd
               /\ Readable(client_l[x].fd) => Readable(client_l[x].fd)'
    PROVE  \A x \in Slots : x >= n /\ client_l'[x] # NULL /\ client_l'[x].fd \in read_rdy'
                               => inq'[client_l'[x].fd] # <<>> \/ fin'[client_l'[x].fd] # "no"
<1>1. SUFFICES ASSUME NEW x \in Slots, x >= n, client_l'[x] # NULL,
                      client_l'[x].fd \in read_rdy
               PROVE  inq'[client_l'[x].fd] # <<>> \/ fin'[client_l'[x].fd] # "no"
  OBVIOUS
<1>2. x >= m
  BY <1>1, SlotsInt
<1>3. client_l[x] # NULL /\ client_l'[x].fd = client_l[x].fd
  BY <1>1
<1>4. Readable(client_l[x].fd)
  BY <1>1, <1>2, <1>3 DEF Pending
<1>5. inq'[client_l[x].fd] # <<>> \/ fin'[client_l[x].fd] # "no"
  BY <1>1, <1>4 DEF Readable
<1> QED BY <1>3, <1>5

(* Opening a server, or closing a conn, takes no other client's place. *)
LEMMA OpenKeepsClients ==
    ASSUME Inv, NEW c \in Slots, NEW addr \in ServerAddrs, OpenServer(c, addr),
           NEW x \in Slots, client_l'[x] # NULL
    PROVE  client_l[x] # NULL /\ client_l'[x].fd = client_l[x].fd
<1>1. client_l[c] # NULL /\ client_l' = [client_l EXCEPT ![c].num_serv = @ + 1]
  BY OpenServerShape DEF NewServer, AddConn
<1>2. client_l \in [Slots -> ClientRec \cup {NULL}]
  BY DEF Inv, TypeOK
<1>3. CASE x # c
  BY <1>1, <1>2, <1>3
<1>4. CASE x = c
  <2>1. client_l'[c] = [client_l[c] EXCEPT !.num_serv = @ + 1] /\ client_l[c] \in ClientRec
    BY <1>1, <1>2
  <2>2. [client_l[c] EXCEPT !.num_serv = @ + 1].fd = client_l[c].fd
    BY <2>1 DEF ClientRec
  <2> QED BY <1>1, <1>4, <2>1, <2>2
<1> QED BY <1>3, <1>4

LEMMA CloseKeepsClients ==
    ASSUME Inv, NEW k \in Slots, CloseConn(k), NEW x \in Slots, client_l'[x] # NULL
    PROVE  client_l[x] # NULL /\ client_l'[x].fd = client_l[x].fd
<1> DEFINE c == conn_l[k].clit_idx
<1>1. /\ c \in Slots /\ client_l[c] # NULL
      /\ \/ client_l' = [client_l EXCEPT ![c] = NULL]
         \/ client_l' = [client_l EXCEPT ![c].num_serv = @ - 1]
  BY CloseConnShape
<1>2. client_l \in [Slots -> ClientRec \cup {NULL}]
  BY DEF Inv, TypeOK
<1> HIDE DEF c
<1>3. CASE x # c
  BY <1>1, <1>2, <1>3
<1>4. CASE x = c
  <2>1. client_l'[c] = [client_l[c] EXCEPT !.num_serv = @ - 1] /\ client_l[c] \in ClientRec
    BY <1>1, <1>2, <1>4
  <2>2. [client_l[c] EXCEPT !.num_serv = @ - 1].fd = client_l[c].fd
    BY <2>1 DEF ClientRec
  <2> QED BY <1>1, <1>4, <2>1, <2>2
<1> QED BY <1>3, <1>4

LEMMA AcceptKeepsClients ==
    ASSUME Inv, AcceptViewer, NEW x \in Slots, client_l'[x] # NULL, client_l'[x].fd \in open
    PROVE  client_l[x] # NULL /\ client_l'[x].fd = client_l[x].fd
<1>1. CASE UNCHANGED client_l
  BY <1>1
<1>2. ASSUME NEW fd, fd \notin open, NEW i \in Slots, AddClient(fd, ClientAddr, i)
      PROVE  client_l[x] # NULL /\ client_l'[x].fd = client_l[x].fd
  <2> DEFINE r == [fd |-> fd, addr |-> ClientAddr, num_serv |-> 0]
  <2>1. client_l' = [client_l EXCEPT ![i] = r] /\ r.fd = fd
    BY <1>2 DEF AddClient
  <2> HIDE DEF r
  <2>2. DOMAIN client_l = Slots
    BY DEF Inv, TypeOK
  <2> QED BY <1>2, <2>1, <2>2
<1> QED BY <1>1, <1>2 DEF AcceptViewer, Accept, LowestFree, clientVars

-----------------------------------------------------------------------------
(* What ReadyInv becomes where a client's handler returns. *)
ReadyAfter(n) ==
    \A x \in Slots : x >= n /\ client_l'[x] # NULL /\ client_l'[x].fd \in read_rdy'
                        => inq'[client_l'[x].fd] # <<>> \/ fin'[client_l'[x].fd] # "no"

LEMMA ReadyElsewhere ==
    ASSUME cursor' \in Int, pc' \notin {"route", "forward", "accept", "clients"},
           pc' \in {"body", "dial"} => job'.idx \in Slots
    PROVE  ReadyInv'
BY DEF ReadyInv

LEMMA ReadyNext ==
    ASSUME cursor' \in Int, pc' = "clients", ReadyAfter(cursor')
    PROVE  ReadyInv'
BY DEF ReadyInv, ReadyAfter, Pending, Readable

LEMMA ReadyHandler ==
    ASSUME cursor' \in Int, pc' \in {"route", "forward"}, job'.idx \in Slots,
           ReadyAfter(job'.idx + 1)
    PROVE  ReadyInv'
BY DEF ReadyInv, ReadyAfter, Pending, Readable

(* A handler reads from its own client only. *)
LEMMA ClientReady ==
    ASSUME SchedInv, NEW i \in Slots, ReadGet(i) \/ ReadOther(i) \/ ReadNothing(i)
    PROVE  ReadyInv'
<1>1. /\ ClientTurn(i) /\ UNCHANGED <<read_rdy, client_l, fin>>
      /\ \/ ReturnFrom("clients", i)
         \/ pc' = "route" /\ UNCHANGED cursor /\ job'.idx = i
         \/ Stop("hung")
  <2>1. ASSUME NEW g, NEW ok, Parsed(i, g, ok)
        PROVE  \/ ReturnFrom("clients", i) /\ UNCHANGED read_rdy
               \/ pc' = "route" /\ UNCHANGED <<cursor, read_rdy>> /\ job'.idx = i
    BY <2>1 DEF Parsed, ReturnFrom
  <2>2. ASSUME NEW g, NEW more, RequestHeaders(i, g, more)
        PROVE  (\E ok : Parsed(i, g, ok)) \/ Stop("hung")
    BY <2>2 DEF RequestHeaders
  <2>3. /\ ClientTurn(i) /\ UNCHANGED <<client_l, fin>>
        /\ ReturnFrom("clients", i) \/ \E g, more : RequestHeaders(i, g, more)
    BY OtherLine DEF ReadGet, ReadOther, ReadNothing, Refused, poolVars, clientVars
  <2> QED BY <2>1, <2>2, <2>3 DEF ReturnFrom, Stop
<1>2. /\ pc = "clients" /\ client_l[i] # NULL /\ cursor \in Int /\ i \in Int /\ cursor <= i
      /\ Pending(cursor)
  <2>1. pc = "clients" /\ client_l[i] # NULL /\ i \in cursor..max_clit_idx
    BY <1>1 DEF ClientTurn, ScanAt, Marked
  <2>2. cursor \in Int /\ Pending(cursor)
    BY <2>1 DEF SchedInv, ReadyInv
  <2> QED BY <2>1, <2>2, SlotsInt
<1>3. UNCHANGED inq \/ \E q : inq' = [inq EXCEPT ![client_l[i].fd] = q]
  BY ClientShrinks
<1>4. ASSUME NEW x \in Slots, x >= i + 1, client_l'[x] # NULL
      PROVE  /\ client_l[x] # NULL /\ client_l'[x].fd = client_l[x].fd
             /\ Readable(client_l[x].fd) => Readable(client_l[x].fd)'
  <2>1. x # i /\ client_l[x] # NULL
    BY <1>1, <1>2, <1>4, SlotsInt
  <2>2. client_l[x].fd # client_l[i].fd
    BY <1>2, <2>1 DEF SchedInv, PrivInv, LoopInv, Inv, SocketsOwned, Live
  <2>3. client_l[x].fd \in Fds
    BY <2>1, ClientApart DEF SchedInv, PrivInv, LoopInv
  <2>4. inq'[client_l[x].fd] = inq[client_l[x].fd]
    BY <1>3, <2>2, <2>3 DEF SchedInv, PartsInv
  <2> QED BY <1>1, <2>1, <2>4 DEF Readable
<1>5. ReadyAfter(i + 1)
  <2>1. cursor <= i + 1 /\ i + 1 \in Int
    BY <1>2
  <2> QED BY <1>1, <1>2, <1>4, <2>1, PendingKept DEF ReadyAfter
<1>6. CASE ReturnFrom("clients", i)
  <2>1. pc' = "clients" /\ cursor' = i + 1
    BY <1>6 DEF ReturnFrom
  <2>2. ReadyAfter(cursor')
    BY <1>5, <2>1
  <2> QED BY <1>2, <2>1, <2>2, ReadyNext
<1>7. CASE pc' = "route" /\ UNCHANGED cursor /\ job'.idx = i
  <2>1. ReadyAfter(job'.idx + 1)
    BY <1>5, <1>7
  <2> QED BY <1>2, <1>7, <2>1, ReadyHandler
<1>8. CASE Stop("hung")
  BY <1>2, <1>8, ReadyElsewhere DEF Stop
<1> QED BY <1>1, <1>6, <1>7, <1>8

(* Finding or opening the connection, sending on it, or closing it. *)
LEMMA RouteReady ==
    ASSUME SchedInv, Inv', Route \/ ForwardRequest \/ DropRequest
    PROVE  ReadyInv'
<1>1. /\ pc \in {"route", "forward"} /\ UNCHANGED read_rdy
      /\ Route \/ ForwardRequest \/ DropRequest
      /\ \/ Route /\ pc' = "forward" /\ UNCHANGED cursor
         \/ pc' = "clients" /\ cursor' = job.idx + 1
  BY DEF Route, ForwardRequest, DropRequest, Return
<1>2. cursor \in Int /\ job.idx \in Slots /\ job.idx + 1 \in Int /\ Pending(job.idx + 1)
  <2>1. cursor \in Int /\ job.idx \in Slots /\ Pending(job.idx + 1)
    BY <1>1 DEF SchedInv, ReadyInv
  <2>2. job.idx \in Int
    BY <2>1, SlotsInt
  <2>3. job.idx + 1 \in Int
    BY <2>2
  <2> QED BY <2>1, <2>3
<1>3. ASSUME NEW x \in Slots, client_l'[x] # NULL
      PROVE  client_l[x] # NULL /\ client_l'[x].fd = client_l[x].fd
  <2>1. CASE UNCHANGED client_l
    BY <1>3, <2>1
  <2>2. ASSUME NEW addr \in ServerAddrs, OpenServer(job.idx, addr)
        PROVE  client_l[x] # NULL /\ client_l'[x].fd = client_l[x].fd
    BY <1>2, <1>3, <2>2, OpenKeepsClients DEF SchedInv, PrivInv, LoopInv
  <2>3. CASE DropRequest
    <3>1. job.conn \in Slots /\ CloseConn(job.conn)
      BY <2>3 DEF DropRequest, SchedInv, PrivInv, LoopInv, JobOK
    <3> QED BY <1>3, <3>1, CloseKeepsClients DEF SchedInv, PrivInv, LoopInv
  <2> QED BY <2>1, <2>2, <2>3 DEF Route, ForwardRequest, poolVars, clientVars
<1>4. ASSUME NEW x \in Slots, client_l'[x] # NULL
      PROVE  Readable(client_l[x].fd) => Readable(client_l[x].fd)'
  <2>1. CASE Route \/ ForwardRequest
    BY <1>3, <1>4, <2>1 DEF Route, ForwardRequest, chanVars, Readable
  <2>2. CASE DropRequest
    <3>1. client_l'[x].fd \in open' /\ client_l'[x].fd \in Fds
      <4>1. client_l'[x].fd \in ClientFds'
        BY <1>4 DEF ClientFds, Live
      <4>2. ClientFds' \subseteq open' /\ open' \subseteq Fds
        BY DEF Inv, SocketsOwned, TypeOK
      <4> QED BY <4>1, <4>2
    <3>2. client_l[x].fd \in open' /\ client_l[x].fd \in Fds
      BY <1>3, <1>4, <3>1
    <3> DEFINE fd == client_l[x].fd
    <3> HIDE DEF fd
    <3>3. inq'[fd] = inq[fd] /\ fin'[fd] = fin[fd]
      BY <2>2, <3>2 DEF fd, DropRequest, WithClosed
    <3>4. fd = client_l'[x].fd
      BY <1>3, <1>4 DEF fd
    <3> QED BY <3>3, <3>4 DEF fd, Readable
  <2> QED BY <1>1, <2>1, <2>2
<1>5. ReadyAfter(job.idx + 1)
  <2> DEFINE n == job.idx + 1
  <2>1. n \in Int /\ Pending(n)
    BY <1>2
  <2> HIDE DEF n
  <2>2. n <= n
    BY <2>1
  <2>3. \A x \in Slots : x >= n /\ client_l'[x] # NULL /\ client_l'[x].fd \in read_rdy =>
               /\ client_l[x] # NULL /\ client_l'[x].fd = client_l[x].fd
               /\ Readable(client_l[x].fd) => Readable(client_l[x].fd)'
    BY <1>3, <1>4
  <2>4. ReadyAfter(n)
    BY <1>1, <2>1, <2>2, <2>3, PendingKept DEF ReadyAfter
  <2> QED BY <2>4 DEF n
<1>6. CASE Route /\ pc' = "forward" /\ UNCHANGED cursor
  <2>1. "idx" \in DOMAIN job /\ \E k \in Slots : job' = [job EXCEPT !.conn = k]
    BY <1>6 DEF Route, SchedInv, PrivInv, JobFor
  <2>2. job'.idx = job.idx
    BY <2>1
  <2>3. ReadyAfter(job'.idx + 1)
    BY <1>5, <2>2
  <2> QED BY <1>2, <1>6, <2>2, <2>3, ReadyHandler
<1>7. CASE pc' = "clients" /\ cursor' = job.idx + 1
  <2>1. ReadyAfter(cursor')
    BY <1>5, <1>7
  <2> QED BY <1>2, <1>7, <2>1, ReadyNext
<1> QED BY <1>1, <1>6, <1>7

(* select starts the scan with what it saw; a viewer accepted has a        *)
(* descriptor select cannot have seen.                                     *)
LEMMA SelectReady ==
    ASSUME SchedInv, Select
    PROVE  ReadyInv'
<1>1. /\ cursor' = 0 /\ pc' \in {"accept", "clients"} /\ read_rdy' \subseteq open
      /\ \A fd \in read_rdy' : fd # ListenFd => Readable(fd)
      /\ UNCHANGED <<client_l, open, inq, fin>>
  BY DEF Select, chanVars, poolVars, clientVars, fdVars
<1>2. ASSUME NEW x \in Slots, client_l[x] # NULL, client_l[x].fd \in read_rdy'
      PROVE  Readable(client_l[x].fd)
  <2>1. client_l[x].fd # ListenFd
    BY <1>2 DEF SchedInv, PrivInv, LoopInv, Inv, SocketsOwned, ClientFds, Live
  <2> QED BY <1>1, <1>2, <2>1
<1> QED BY <1>1, <1>2 DEF ReadyInv, Pending, Readable

LEMMA AcceptReady ==
    ASSUME SchedInv, AcceptViewer
    PROVE  ReadyInv'
<1>1. /\ pc = "accept" /\ pc' = "clients"
      /\ UNCHANGED <<cursor, read_rdy, inq, fin>>
  BY DEF AcceptViewer, chanVars
<1>2. cursor \in Int /\ Pending(cursor) /\ read_rdy \subseteq open
  BY <1>1 DEF SchedInv, ReadyInv
<1>3. ASSUME NEW x \in Slots, client_l'[x] # NULL, client_l'[x].fd \in read_rdy
      PROVE  /\ client_l[x] # NULL /\ client_l'[x].fd = client_l[x].fd
             /\ Readable(client_l[x].fd) => Readable(client_l[x].fd)'
  <2>1. client_l[x] # NULL /\ client_l'[x].fd = client_l[x].fd
    BY <1>2, <1>3, AcceptKeepsClients DEF SchedInv, PrivInv, LoopInv
  <2> QED BY <1>1, <2>1 DEF Readable
<1>4. cursor <= cursor
  BY <1>2
<1>5. ReadyAfter(cursor)
  BY <1>1, <1>2, <1>3, <1>4, PendingKept DEF ReadyAfter
<1>6. ReadyAfter(cursor') /\ cursor' \in Int
  BY <1>1, <1>2, <1>5
<1> QED BY <1>1, <1>6, ReadyNext

(* Peers only add. *)
LEMMA PeersReady ==
    ASSUME SchedInv, Grows, UNCHANGED <<loopVars, poolVars>>
    PROVE  ReadyInv'
<1>1. UNCHANGED <<pc, cursor, read_rdy, job, client_l, open>>
  BY DEF loopVars, poolVars, clientVars, fdVars
<1>2. ASSUME NEW n, Pending(n) PROVE Pending(n)'
  <2>1. ASSUME NEW i \in Slots, client_l[i] # NULL, Readable(client_l[i].fd)
        PROVE  inq'[client_l[i].fd] # <<>> \/ fin'[client_l[i].fd] # "no"
    <3>1. client_l[i].fd \in Fds
      BY <2>1, ClientApart DEF SchedInv, PrivInv, LoopInv
    <3> QED BY <2>1, <3>1 DEF Grows, Readable
  <2> QED BY <1>1, <1>2, <2>1 DEF Pending, Readable
<1>3. ReadyInv
  BY DEF SchedInv
<1>4. /\ cursor' \in Int
      /\ pc' \in {"route", "forward", "body", "dial"} => job'.idx \in Slots
      /\ pc' = "accept" => read_rdy' \subseteq open'
  BY <1>1, <1>3 DEF ReadyInv
<1>5. pc' \in {"accept", "clients"} => Pending(cursor)'
  <2>1. ASSUME pc \in {"accept", "clients"} PROVE Pending(cursor)
    BY <1>3, <2>1 DEF ReadyInv
  <2>2. ASSUME Pending(cursor) PROVE Pending(cursor)'
    BY <1>1, <1>2, <2>2
  <2> QED BY <1>1, <2>1, <2>2
<1>6. pc' \in {"route", "forward"} => Pending(job.idx + 1)'
  <2>1. ASSUME pc \in {"route", "forward"} PROVE Pending(job.idx + 1)
    BY <1>3, <2>1 DEF ReadyInv
  <2>2. ASSUME Pending(job.idx + 1) PROVE Pending(job.idx + 1)'
    BY <1>1, <1>2, <2>2
  <2> QED BY <1>1, <2>1, <2>2
<1> QED BY <1>4, <1>5, <1>6 DEF ReadyInv

LEMMA AfterSlot == \A i \in Slots : i + 1 \in Int
BY SlotsInt

LEMMA ServersReady ==
    ASSUME SchedInv, ServerStep \/ ForwardBody \/ KeepList \/ DialForNolist \/ BodyLost
    PROVE  ReadyInv'
<1>1. cursor \in Int
  BY DEF SchedInv, ReadyInv
<1>2. ASSUME NEW i \in Slots, ReadHead(i) \/ ReadCutHead(i) \/ ReadNoHead(i)
      PROVE  ReadyInv'
  <2>1. \/ pc' = "servers" /\ cursor' = i + 1
        \/ pc' = "body" /\ UNCHANGED cursor /\ job'.idx = i
        \/ pc' \in {"hung", "aborted"} /\ UNCHANGED cursor
    BY <1>2 DEF ReadHead, ReadCutHead, ReadNoHead, CloseAndReturn, ReturnFrom, Stop
  <2> QED BY <1>1, <2>1, AfterSlot, ReadyElsewhere
<1>3. ASSUME ForwardBody \/ KeepList \/ DialForNolist \/ BodyLost PROVE ReadyInv'
  <2>1. /\ pc \in {"body", "dial"}
        /\ \/ pc' = "servers" /\ cursor' = job.idx + 1
           \/ pc' = "dial" /\ UNCHANGED <<cursor, job>>
           \/ pc' = "hung" /\ UNCHANGED cursor
    BY <1>3 DEF ForwardBody, KeepList, DialForNolist, BodyLost, Answer, CloseBodyConn, Return, Stop
  <2>2. job.idx \in Slots
    BY <2>1 DEF SchedInv, ReadyInv
  <2>3. job.idx + 1 \in Int
    BY <2>2, AfterSlot
  <2> QED BY <1>1, <2>1, <2>2, <2>3, ReadyElsewhere
<1> QED BY <1>2, <1>3 DEF ServerStep

LEMMA WatchKept == SchedInv /\ Inv' /\ [Next]_vars => ReadyInv'
<1> SUFFICES ASSUME SchedInv, Inv', [Next]_vars PROVE ReadyInv'
  OBVIOUS
<1>1. CASE AcceptGivesUp \/ EndScan \/ TablesFull
  <2>1. cursor \in Int
    BY DEF SchedInv, ReadyInv
  <2>2. /\ cursor' = cursor \/ cursor' = 0
        /\ pc' \in {"deaf", "servers", "select", "overrun"}
    BY <1>1 DEF AcceptGivesUp, EndScan, TablesFull, Stop
  <2> QED BY <2>1, <2>2, ReadyElsewhere
<1>2. CASE ClientStep
  BY <1>2, ClientReady DEF ClientStep
<1>3. CASE PeerStep
  <2>1. UNCHANGED <<loopVars, poolVars>>
    BY <1>3 DEF PeerStep, Knock, SendRequest, SendHeaders, Leave, ServerAnswers,
                ServerDies, ServerLeaves
  <2> QED BY <1>3, <2>1, PartsKept, PeersReady
<1>4. CASE UNCHANGED vars
  <2>1. UNCHANGED <<loopVars, poolVars, inq, fin>>
    BY <1>4 DEF vars, chanVars
  <2>2. Grows
    BY <2>1 DEF Grows, SchedInv, PartsInv
  <2> QED BY <2>1, <2>2, PeersReady
<1>5. CASE SendSpins \/ ResolveHangs
  BY <1>5, StuckInPlace, ReadyElsewhere DEF SchedInv, ReadyInv
<1> QED BY <1>1, <1>2, <1>3, <1>4, <1>5, SelectReady, AcceptReady, RouteReady, ServersReady
        DEF Next, ProxyStep

-----------------------------------------------------------------------------
(* The descriptor whose body is awaited is one that select saw. *)
LEMMA NoBody == ASSUME pc' # "body" PROVE StopInv'
BY DEF StopInv

LEMMA StopSame ==
    ASSUME StopInv, UNCHANGED <<loopVars, poolVars>>
    PROVE  StopInv'
BY DEF StopInv, ServFd, loopVars, poolVars, serverVars, connVars

LEMMA StopKept == SchedInv /\ [Next]_vars => StopInv'
<1> SUFFICES ASSUME SchedInv, [Next]_vars PROVE StopInv'
  OBVIOUS
<1>1. CASE Select \/ AcceptViewer \/ AcceptGivesUp \/ EndScan \/ Route \/ TablesFull
           \/ DropRequest \/ ForwardRequest \/ ForwardBody \/ KeepList \/ DialForNolist
  <2>1. pc' # "body"
    BY <1>1 DEF Select, AcceptViewer, AcceptGivesUp, EndScan, Route, TablesFull, DropRequest,
                ForwardRequest, ForwardBody, KeepList, DialForNolist, Answer, CloseBodyConn,
                Return, Stop
  <2> QED BY <2>1, NoBody
<1>2. CASE ClientStep
  BY <1>2, ClientQuiet, NoBody DEF ClientStep
<1>3. CASE SendSpins \/ ResolveHangs
  BY <1>3, StuckInPlace, NoBody
<1>4. ASSUME NEW i \in Slots, ReadCutHead(i) \/ ReadNoHead(i) PROVE StopInv'
  <2>1. pc' # "body"
    BY <1>4 DEF ReadCutHead, ReadNoHead, CloseAndReturn, ReturnFrom, Stop
  <2> QED BY <2>1, NoBody
<1>5. CASE BodyLost
  <2>1. pc' # "body"
    BY <1>5 DEF BodyLost, Answer, CloseBodyConn, Return, Stop
  <2> QED BY <2>1, NoBody
<1>6. ASSUME NEW i \in Slots, ReadHead(i) PROVE StopInv'
  <2>1. PICK k \in Slots :
          /\ ServerTurn(i) /\ ServerConn(server_l[i].fd, k)
          /\ \/ pc' = "servers"
             \/ /\ pc' = "body" /\ UNCHANGED <<server_l, conn_l>>
                /\ job' = [idx |-> i, conn |-> k, head |-> inq[server_l[i].fd][1]]
    BY <1>6 DEF ReadHead, CloseAndReturn, ReturnFrom, poolVars, serverVars, connVars
  <2>2. CASE pc' = "servers"
    BY <2>2, NoBody
  <2>3. CASE /\ pc' = "body" /\ UNCHANGED <<server_l, conn_l>>
             /\ job' = [idx |-> i, conn |-> k, head |-> inq[server_l[i].fd][1]]
    <3>1. ServFd(k) = server_l[i].fd /\ server_l[i].fd \in Fds
      BY <2>1 DEF ServerConn, Carries, ServFd, ServerTurn, ScanAt, Marked, SchedInv, PrivInv
    <3>2. job'.conn = k
      BY <2>3
    <3>3. ServFd(job.conn)' \in Fds
      BY <2>3, <3>1, <3>2 DEF ServFd
    <3> QED BY <3>3 DEF StopInv
  <2> QED BY <2>1, <2>2, <2>3
<1>7. CASE PeerStep
  <2>1. UNCHANGED <<loopVars, poolVars>>
    BY <1>7 DEF PeerStep, Knock, SendRequest, SendHeaders, Leave, ServerAnswers,
                ServerDies, ServerLeaves
  <2> QED BY <2>1, StopSame DEF SchedInv
<1>8. CASE UNCHANGED vars
  BY <1>8, StopSame DEF SchedInv, vars
<1> QED BY <1>1, <1>2, <1>3, <1>4, <1>5, <1>6, <1>7, <1>8 DEF Next, ProxyStep, ServerStep

-----------------------------------------------------------------------------
LEMMA SchedStep == SchedInv /\ [Next]_vars => SchedInv'
<1> SUFFICES ASSUME SchedInv, [Next]_vars PROVE SchedInv'
  OBVIOUS
<1>1. PrivInv' /\ Inv'
  BY PrivStep DEF SchedInv, PrivInv, LoopInv
<1> QED BY <1>1, PlaceKept, PartsKept, WatchKept, StopKept DEF SchedInv

(***************************************************************************)
(* serve_clients never blocks on a client with nothing to read: for any    *)
(* number of clients ready at once, whatever is accepted, opened, closed   *)
(* and sent while the scan runs, the bit select set is still true when the *)
(* scan comes to it.                                                       *)
(***************************************************************************)
THEOREM ClientsReady == Spec => []ClientsServedWhenReadable
<1>1. SchedInv => ClientsServedWhenReadable
  <2> SUFFICES ASSUME SchedInv, NEW i \in Slots, ClientTurn(i)
               PROVE  Readable(client_l[i].fd)
    BY DEF ClientsServedWhenReadable
  <2>1. /\ pc = "clients" /\ i \in cursor..max_clit_idx
        /\ client_l[i] # NULL /\ client_l[i].fd \in read_rdy
    BY DEF ClientTurn, ScanAt, Marked
  <2>2. Pending(cursor)
    BY <2>1 DEF SchedInv, ReadyInv
  <2>3. i >= cursor
    BY <2>1, SlotsInt DEF SchedInv, ReadyInv
  <2> QED BY <2>1, <2>2, <2>3 DEF Pending
<1> QED BY <1>1, SchedInit, SchedStep, PTL DEF Spec

-----------------------------------------------------------------------------
(* What lines, requests and heads may say.  Of what a server is asked only *)
(* the first may be half answered.                                         *)
Kinds    == {"list", "video", "page", "bad"}
Buffered == Films \cup {NoFilm, Garbage}

Named(g)   == g.kind \in Kinds /\ g.film \in Films
PieceOK(e) == /\ e.part = "get" => Named(e)
              /\ e.part = "head" => e.film \in Buffered
AskOK(r)   == {"kind", "film"} \subseteq DOMAIN r /\ r.film \in Buffered
AsksOK(a)  == /\ IsQueue(a)
              /\ \A n \in DOMAIN a : AskOK(a[n]) /\ (a[n].kind = "body" => n = 1)

PiecesInv == \A fd \in Fds : \A e \in ToSet(inq[fd]) : PieceOK(e)
AsksInv   == DOMAIN asked = Fds /\ \A fd \in Fds : AsksOK(asked[fd])

SaidInv ==
    /\ plan \in [Viewers -> Seq(Kinds \cup {"post"})]
    /\ lastGet # NULL => Named(lastGet)
    /\ pc = "route" => {"kind", "film"} \subseteq DOMAIN job
    /\ pc \in {"route", "forward"} => Named(job)
    /\ pc \in {"body", "dial"} => job.head.film \in Buffered
    /\ {nolist_buf, bitrates} \subseteq Buffered

TextInv == PiecesInv /\ AsksInv /\ SaidInv

LEMMA AsksNone == AsksOK(<<>>)
BY ShortQueues DEF AsksOK

LEMMA AsksSend ==
    ASSUME NEW a, AsksOK(a), NEW r, AskOK(r), r.kind # "body"
    PROVE  AsksOK(Append(a, r))
<1>1. PICK S : a \in Seq(S)
  BY DEF AsksOK, IsQueue
<1>2. a \in Seq(S \cup {r})
  BY <1>1
<1>3. PICK q : q = Append(a, r)
  OBVIOUS
<1>4. /\ IsQueue(q)
      /\ \A n \in DOMAIN q : q[n] = r \/ (n \in DOMAIN a /\ q[n] = a[n])
  BY <1>2, <1>3, Appended DEF IsQueue
<1>5. AsksOK(q)
  BY <1>4 DEF AsksOK
<1> QED BY <1>3, <1>5

LEMMA AsksTail ==
    ASSUME NEW a, AsksOK(a), a # <<>>
    PROVE  /\ AskOK(Head(a)) /\ AsksOK(Tail(a))
           /\ \A n \in DOMAIN Tail(a) : Tail(a)[n].kind # "body"
<1>1. PICK S : a \in Seq(S)
  BY DEF AsksOK, IsQueue
<1>2. /\ Head(a) = a[1] /\ 1 \in DOMAIN a
      /\ \A n \in DOMAIN Tail(a) : n + 1 \in DOMAIN a /\ n + 1 # 1 /\ Tail(a)[n] = a[n + 1]
  BY <1>1
<1>3. IsQueue(Tail(a))
  BY Taken DEF AsksOK
<1> QED BY <1>2, <1>3 DEF AsksOK

LEMMA AsksHalf ==
    ASSUME NEW a, AsksOK(a), a # <<>>
    PROVE  AsksOK(<<[Head(a) EXCEPT !.kind = "body"]>> \o Tail(a))
<1>1. PICK r, t : r = [Head(a) EXCEPT !.kind = "body"] /\ t = Tail(a)
  OBVIOUS
<1>2. AskOK(Head(a)) /\ AsksOK(t) /\ \A n \in DOMAIN t : t[n].kind # "body"
  BY <1>1, AsksTail
<1>3. AskOK(r)
  BY <1>1, <1>2 DEF AskOK
<1>4. PICK S : t \in Seq(S)
  BY <1>2 DEF AsksOK, IsQueue
<1>5. t \in Seq(S \cup {r}) /\ <<r>> \in Seq(S \cup {r}) /\ Len(<<r>>) = 1 /\ <<r>>[1] = r
  BY <1>4
<1>6. PICK h : h = <<r>>
  OBVIOUS
<1>7. PICK q : q = h \o t
  OBVIOUS
<1>8. /\ q \in Seq(S \cup {r}) /\ Len(q) = 1 + Len(t)
      /\ q[1] = r /\ \A n \in 1..Len(t) : q[1 + n] = t[n]
  BY <1>5, <1>6, <1>7, JoinIs
<1>9. \A n \in DOMAIN q : n = 1 \/ (n - 1 \in DOMAIN t /\ q[n] = t[n - 1])
  BY <1>4, <1>8
<1>10. AsksOK(q)
  BY <1>2, <1>3, <1>8, <1>9 DEF AsksOK, IsQueue
<1> QED BY <1>1, <1>6, <1>7, <1>10

(* A request is added to one queue, or lost. *)
LEMMA AsksSent ==
    ASSUME AsksInv, NEW fd, NEW v, NEW kind, NEW film,
           asked' = Send(asked, fd, Request(v, kind, film)),
           kind # "body", film \in Buffered
    PROVE  AsksInv'
<1>1. PICK r : r = Request(v, kind, film)
  OBVIOUS
<1>2. AskOK(r) /\ r.kind # "body"
  BY <1>1 DEF AskOK, Request
<1>3. asked' = asked \/ (fd \in Fds /\ asked' = [asked EXCEPT ![fd] = Append(asked[fd], r)])
  BY <1>1 DEF Send
<1>4. fd \in Fds => AsksOK(Append(asked[fd], r))
  BY <1>2, AsksSend DEF AsksInv
<1> QED BY <1>3, <1>4 DEF AsksInv

LEMMA AsksClosed == ASSUME AsksInv, WithClosed PROVE AsksInv'
<1> DEFINE shut == open \ open'
<1>1. asked' = [fd \in Fds |-> IF fd \in shut THEN <<>> ELSE asked[fd]]
  BY DEF WithClosed
<1> HIDE DEF shut
<1> QED BY <1>1, AsksNone DEF AsksInv

LEMMA TextInit == Init => TextInv
<1> SUFFICES ASSUME Init PROVE TextInv
  OBVIOUS
<1>1. PiecesInv /\ AsksInv
  BY ShortQueues, AsksNone DEF Init, PiecesInv, AsksInv
<1>2. SaidInv
  BY ProxyAssumption DEF Init, SaidInv, ProxyAssumption, Kinds, Buffered
<1> QED BY <1>1, <1>2 DEF TextInv

(* What viewers write names their own films, what servers write the films  *)
(* they were asked for.                                                    *)
LEMMA PiecesPut ==
    ASSUME PartsInv, PiecesInv, NEW fd \in Fds, NEW p, IsQueue(p),
           UNCHANGED inq \/ inq' = [inq EXCEPT ![fd] = inq[fd] \o p],
           \A e \in ToSet(p) : PieceOK(e)
    PROVE  PiecesInv'
<1>1. ToSet(inq[fd] \o p) \subseteq ToSet(inq[fd]) \cup ToSet(p)
  BY Joined DEF PartsInv
<1>2. PICK longer : longer = inq[fd] \o p
  OBVIOUS
<1>3. \A g \in Fds : inq'[g] = inq[g] \/ (g = fd /\ inq'[g] = longer)
  BY <1>2 DEF PartsInv
<1> QED BY <1>1, <1>2, <1>3 DEF PiecesInv

LEMMA ViewerSays ==
    ASSUME PartsInv, TextInv, NEW v \in Viewers,
           Knock(v) \/ SendRequest(v) \/ SendHeaders(v) \/ Leave(v)
    PROVE  PiecesInv'
<1> PiecesInv /\ SaidInv
  BY DEF TextInv
<1>1. FilmOf[v] \in Films
  BY DEF Films
<1>2. CASE Knock(v)
  BY <1>2 DEF Knock, chanVars, PiecesInv
<1>3. CASE SendRequest(v)
  <2>1. PICK fd, host, kind, line :
          /\ fd \in Fds /\ host \in BOOLEAN
          /\ kind = Head(plan[v]) /\ plan[v] # <<>>
          /\ line = IF kind = "post" THEN PostLine ELSE GetLine(kind, FilmOf[v])
          /\ \/ inq' = [inq EXCEPT ![fd] = inq[fd] \o <<line, Headers(host)>>]
             \/ inq' = [inq EXCEPT ![fd] = inq[fd] \o <<line>>]
    BY <1>3 DEF SendRequest, Enqueue
  <2>2. kind \in Kinds \cup {"post"}
    <3>1. plan[v] \in Seq(Kinds \cup {"post"})
      BY DEF SaidInv
    <3> QED BY <2>1, <3>1
  <2>3. PieceOK(line)
    BY <1>1, <2>1, <2>2 DEF PieceOK, Named, PostLine, GetLine, Kinds
  <2>4. PICK h : h = Headers(host)
    OBVIOUS
  <2>5. PieceOK(h)
    BY <2>4 DEF PieceOK, Headers
  <2>6. /\ IsQueue(<<line>>) /\ ToSet(<<line>>) = {line}
        /\ IsQueue(<<line, h>>) /\ ToSet(<<line, h>>) = {line, h}
    BY ShortQueues
  <2>7. PICK p : /\ IsQueue(p) /\ ToSet(p) \subseteq {line, h}
                 /\ inq' = [inq EXCEPT ![fd] = inq[fd] \o p]
    BY <2>1, <2>4, <2>6
  <2> QED BY <2>1, <2>3, <2>5, <2>7, PiecesPut
<1>4. CASE SendHeaders(v)
  <2>1. PICK fd, h :
          /\ fd \in Fds
          /\ h = Headers(TRUE) /\ inq' = [inq EXCEPT ![fd] = inq[fd] \o <<h>>]
    BY <1>4 DEF SendHeaders, Enqueue
  <2>2. PieceOK(h)
    BY <2>1 DEF PieceOK, Headers
  <2>3. IsQueue(<<h>>) /\ ToSet(<<h>>) = {h}
    BY ShortQueues
  <2> QED BY <2>1, <2>2, <2>3, PiecesPut
<1>5. CASE Leave(v)
  <2>1. PICK fd, g, h :
          /\ fd \in Fds
          /\ g = GetLine("page", FilmOf[v]) /\ h = CutHeaders
          /\ UNCHANGED inq \/ inq' = [inq EXCEPT ![fd] = inq[fd] \o <<g, h>>]
    BY <1>5 DEF Leave, Enqueue
  <2>2. PieceOK(g) /\ PieceOK(h)
    BY <1>1, <2>1 DEF PieceOK, Named, GetLine, CutHeaders, Kinds
  <2>3. IsQueue(<<g, h>>) /\ ToSet(<<g, h>>) = {g, h}
    BY ShortQueues
  <2> QED BY <2>1, <2>2, <2>3, PiecesPut
<1> QED BY <1>2, <1>3, <1>4, <1>5

LEMMA ServerSays ==
    ASSUME PartsInv, TextInv, NEW fd \in Fds,
           ServerAnswers(fd) \/ ServerDies(fd) \/ ServerLeaves(fd)
    PROVE  PiecesInv' /\ AsksInv'
<1> PiecesInv /\ AsksInv
  BY DEF TextInv
<1>1. PICK a, r : a = asked[fd] /\ r = Head(a)
  OBVIOUS
<1>2. AsksOK(a) /\ DOMAIN asked = Fds
  BY <1>1 DEF AsksInv
<1>3. ASSUME a # <<>>
      PROVE  /\ AskOK(r) /\ AsksOK(Tail(a))
             /\ AsksOK(<<[r EXCEPT !.kind = "body"]>> \o Tail(a))
  BY <1>1, <1>2, <1>3, AsksTail, AsksHalf
<1>4. ASSUME NEW q, AsksOK(q), asked' = [asked EXCEPT ![fd] = q] PROVE AsksInv'
  BY <1>2, <1>4 DEF AsksInv
<1>5. ASSUME NEW h, NEW b, h.part = "head" => h.film \in Buffered, h.part = "head", b.part = "body",
             \/ UNCHANGED inq
             \/ inq' = [inq EXCEPT ![fd] = inq[fd] \o <<b>>]
             \/ inq' = [inq EXCEPT ![fd] = inq[fd] \o <<h, b>>]
             \/ inq' = [inq EXCEPT ![fd] = inq[fd] \o <<h>>]
      PROVE  PiecesInv'
  <2>1. PieceOK(h) /\ PieceOK(b)
    BY <1>5 DEF PieceOK
  <2>2. /\ IsQueue(<<h>>) /\ ToSet(<<h>>) = {h}
        /\ IsQueue(<<b>>) /\ ToSet(<<b>>) = {b}
        /\ IsQueue(<<h, b>>) /\ ToSet(<<h, b>>) = {h, b}
    BY ShortQueues
  <2>3. PICK p : /\ IsQueue(p) /\ ToSet(p) \subseteq {h, b}
                 /\ UNCHANGED inq \/ inq' = [inq EXCEPT ![fd] = inq[fd] \o p]
    BY <1>5, <2>2
  <2> QED BY <2>1, <2>3, PiecesPut
<1>6. CASE ServerAnswers(fd)
  <2>0. /\ a # <<>>
        /\ \/ /\ inq' = [inq EXCEPT ![fd] = inq[fd] \o <<Body>>]
              /\ asked' = [asked EXCEPT ![fd] = Tail(a)]
           \/ \E type, close :
                 LET h == ResponseHead(r, type, close, "no")
                 IN \/ /\ inq' = [inq EXCEPT ![fd] = inq[fd] \o <<h, Body>>]
                       /\ asked' = [asked EXCEPT ![fd] = Tail(a)]
                    \/ /\ inq' = [inq EXCEPT ![fd] = inq[fd] \o <<h>>]
                       /\ asked' = [asked EXCEPT ![fd] = <<[r EXCEPT !.kind = "body"]>> \o Tail(a)]
    BY <1>1, <1>6 DEF ServerAnswers, Enqueue
  <2> PICK b : b = Body
    OBVIOUS
  <2>1. PICK h :
          /\ h.part = "head" /\ h.film = r.film
          /\ \/ /\ inq' = [inq EXCEPT ![fd] = inq[fd] \o <<b>>]
                /\ asked' = [asked EXCEPT ![fd] = Tail(a)]
             \/ /\ inq' = [inq EXCEPT ![fd] = inq[fd] \o <<h, b>>]
                /\ asked' = [asked EXCEPT ![fd] = Tail(a)]
             \/ /\ inq' = [inq EXCEPT ![fd] = inq[fd] \o <<h>>]
                /\ asked' = [asked EXCEPT ![fd] = <<[r EXCEPT !.kind = "body"]>> \o Tail(a)]
    <3>1. \A type, close : LET h == ResponseHead(r, type, close, "no")
                           IN h.part = "head" /\ h.film = r.film
      BY DEF ResponseHead
    <3>2. CASE /\ inq' = [inq EXCEPT ![fd] = inq[fd] \o <<Body>>]
               /\ asked' = [asked EXCEPT ![fd] = Tail(a)]
      <4>1. PICK h : h = ResponseHead(r, "misc", "keep", "no")
        OBVIOUS
      <4>2. h.part = "head" /\ h.film = r.film
        BY <3>1, <4>1
      <4> QED BY <3>2, <4>2
    <3>3. CASE \E type, close :
                 LET h == ResponseHead(r, type, close, "no")
                 IN \/ /\ inq' = [inq EXCEPT ![fd] = inq[fd] \o <<h, Body>>]
                       /\ asked' = [asked EXCEPT ![fd] = Tail(a)]
                    \/ /\ inq' = [inq EXCEPT ![fd] = inq[fd] \o <<h>>]
                       /\ asked' = [asked EXCEPT ![fd] = <<[r EXCEPT !.kind = "body"]>> \o Tail(a)]
      BY <3>1, <3>3
    <3> QED BY <2>0, <3>2, <3>3
  <2>2. h.part = "head" /\ h.film = r.film /\ b.part = "body" /\ a # <<>>
    BY <2>0, <2>1 DEF Body
  <2>3. h.film \in Buffered
    BY <1>3, <2>2 DEF AskOK
  <2>4. PiecesInv'
    <3>1. \/ inq' = [inq EXCEPT ![fd] = inq[fd] \o <<b>>]
          \/ inq' = [inq EXCEPT ![fd] = inq[fd] \o <<h, b>>]
          \/ inq' = [inq EXCEPT ![fd] = inq[fd] \o <<h>>]
      BY <2>1
    <3> QED BY <1>5, <2>2, <2>3, <3>1
  <2> QED BY <1>3, <1>4, <2>1, <2>2, <2>4
<1>7. CASE ServerDies(fd)
  <2>1. PICK type, cut, h :
          /\ a # <<>> /\ h = ResponseHead(r, type, "keep", cut)
          /\ UNCHANGED inq \/ inq' = [inq EXCEPT ![fd] = inq[fd] \o <<h>>]
          /\ asked' = [asked EXCEPT ![fd] = <<>>]
    BY <1>1, <1>7 DEF ServerDies, Enqueue
  <2>2. h.part = "head" /\ h.film = r.film /\ Body.part = "body"
    BY <2>1 DEF ResponseHead, Body
  <2>3. h.film \in Buffered
    BY <1>3, <2>1, <2>2 DEF AskOK
  <2>4. PiecesInv'
    BY <1>5, <2>1, <2>2, <2>3
  <2> QED BY <1>4, <2>1, <2>4, AsksNone
<1>8. CASE ServerLeaves(fd)
  <2>1. UNCHANGED inq /\ asked' = [asked EXCEPT ![fd] = <<>>]
    BY <1>8 DEF ServerLeaves
  <2> QED BY <1>4, <2>1, AsksNone DEF PiecesInv
<1> QED BY <1>6, <1>7, <1>8

LEMMA AsksKept == ASSUME SchedInv, TextInv, ProxyStep PROVE AsksInv'
<1> AsksInv /\ SaidInv
  BY DEF TextInv
<1>1. CASE UNCHANGED asked
  BY <1>1 DEF AsksInv
<1>2. CASE WithClosed
  BY <1>2, AsksClosed
<1>3. CASE ForwardRequest
  <2>1. pc = "forward" /\ job.kind \in Kinds /\ job.film \in Films
    BY <1>3 DEF ForwardRequest, SaidInv, Named
  <2>2. job.kind # "body" /\ job.film \in Buffered
    BY <2>1 DEF Kinds, Buffered
  <2> QED BY <1>3, <2>2, AsksSent DEF ForwardRequest
<1>4. CASE KeepList \/ DialForNolist
  <2>1. \/ UNCHANGED asked
        \/ \E fd, v : asked' = Send(asked, fd, Request(v, "nolist", nolist_buf))
    BY <1>4 DEF KeepList, DialForNolist
  <2>2. nolist_buf \in Buffered
    BY DEF SaidInv
  <2> QED BY <1>1, <2>1, <2>2, AsksSent
<1>5. CASE \/ Select \/ AcceptViewer \/ AcceptGivesUp \/ EndScan \/ ClientStep \/ Route
           \/ TablesFull \/ SendSpins \/ ResolveHangs
  BY <1>1, <1>5, StuckInPlace DEF Select, AcceptViewer, AcceptGivesUp, EndScan, ClientStep,
                    ReadGet, ReadOther, ReadNothing, Route, TablesFull, chanVars
<1>6. CASE DropRequest \/ ServerStep
  BY <1>1, <1>2, <1>6 DEF DropRequest, ServerStep, ReadHead, ReadCutHead, ReadNoHead,
                          CloseAndReturn, chanVars
<1>7. CASE ForwardBody \/ BodyLost
  BY <1>1, <1>2, <1>7 DEF ForwardBody, BodyLost, CloseBodyConn, Answer, chanVars
<1> QED BY <1>3, <1>4, <1>5, <1>6, <1>7 DEF ProxyStep

(* What the thread remembers of it. *)
LEMMA SaidSame ==
    ASSUME SaidInv, UNCHANGED <<plan, lastGet, nolist_buf, bitrates>>,
           \/ pc' \notin {"route", "forward", "body", "dial"}
           \/ UNCHANGED <<pc, job>>
    PROVE  SaidInv'
BY DEF SaidInv

LEMMA SaidParsed ==
    ASSUME SaidInv, NEW i, NEW g, Named(g), NEW more, RequestHeaders(i, g, more),
           UNCHANGED <<plan, nolist_buf, bitrates>>, lastGet' = lastGet \/ lastGet' = g
    PROVE  SaidInv'
<1>1. lastGet' # NULL => Named(lastGet')
  BY DEF SaidInv
<1>2. \/ pc' \in {"clients", "hung"}
      \/ /\ pc' = "route"
         /\ \E ok : job' = [idx |-> i, kind |-> g.kind, film |-> g.film, ok |-> ok, conn |-> NULL]
  BY DEF RequestHeaders, Parsed, ReturnFrom, Stop
<1>3. pc' = "route" => {"kind", "film"} \subseteq DOMAIN job' /\ Named(job')
  BY <1>2 DEF Named
<1> QED BY <1>1, <1>2, <1>3 DEF SaidInv, Named

LEMMA ClientSaid ==
    ASSUME SchedInv, TextInv, NEW i \in Slots, ReadGet(i) \/ ReadOther(i) \/ ReadNothing(i)
    PROVE  SaidInv'
<1> SaidInv /\ PiecesInv
  BY DEF TextInv
<1> DEFINE q == inq[client_l[i].fd]
<1>1. CASE ReadGet(i)
  <2>1. /\ q # <<>> /\ q[1].part = "get" /\ client_l[i] # NULL
        /\ RequestHeaders(i, q[1], Tail(q)) /\ lastGet' = q[1]
        /\ UNCHANGED <<plan, nolist_buf, bitrates>>
    BY <1>1 DEF ReadGet, Starts, ClientTurn, ScanAt, Marked, viewerVars
  <2>2. client_l[i].fd \in Fds
    BY <2>1, ClientApart DEF SchedInv, PrivInv, LoopInv
  <2>3. q[1] \in ToSet(q)
    BY <2>1, <2>2, Taken DEF SchedInv, PartsInv
  <2>4. Named(q[1])
    BY <2>1, <2>2, <2>3 DEF PiecesInv, PieceOK
  <2> QED BY <2>1, <2>4, SaidParsed
<1>2. CASE ReadOther(i) \/ ReadNothing(i)
  <2>1. /\ UNCHANGED <<plan, lastGet, nolist_buf, bitrates>>
        /\ \/ pc' = "clients"
           \/ lastGet # NULL /\ \E more : RequestHeaders(i, lastGet, more)
    <3>1. CASE ReadOther(i)
      <4>1. \/ \E rest : Refused(i, rest)
            \/ lastGet # NULL /\ \E more : RequestHeaders(i, lastGet, more)
        BY <3>1 DEF ReadOther
      <4> QED BY <3>1, <4>1 DEF ReadOther, Refused, ReturnFrom, globalVars, viewerVars
    <3>2. CASE ReadNothing(i)
      BY <3>2 DEF ReadNothing, ReturnFrom, globalVars, viewerVars
    <3> QED BY <1>2, <3>1, <3>2
  <2>2. CASE pc' = "clients"
    BY <2>1, <2>2, SaidSame
  <2>3. CASE lastGet # NULL /\ \E more : RequestHeaders(i, lastGet, more)
    <3>1. Named(lastGet)
      BY <2>3 DEF SaidInv
    <3> QED BY <2>1, <2>3, <3>1, SaidParsed
  <2> QED BY <2>1, <2>2, <2>3
<1> QED BY <1>1, <1>2

LEMMA SaidKept == ASSUME SchedInv, TextInv, [Next]_vars PROVE SaidInv'
<1> SaidInv /\ PiecesInv
  BY DEF TextInv
<1>1. CASE Select \/ AcceptViewer \/ AcceptGivesUp \/ EndScan \/ TablesFull \/ DropRequest
  <2>1. /\ UNCHANGED <<plan, lastGet, nolist_buf, bitrates>>
        /\ pc' \notin {"route", "forward", "body", "dial"}
    BY <1>1 DEF Select, AcceptViewer, AcceptGivesUp, EndScan, TablesFull, DropRequest, Stop,
                Return, globalVars, viewerVars
  <2> QED BY <2>1, SaidSame
<1>2. CASE ClientStep
  BY <1>2, ClientSaid DEF ClientStep
<1>3. CASE Route
  <2>1. PICK k : job' = [job EXCEPT !.conn = k]
    BY <1>3 DEF Route
  <2>2. pc = "route" /\ pc' = "forward" /\ UNCHANGED <<plan, lastGet, nolist_buf, bitrates>>
    BY <1>3 DEF Route, globalVars, viewerVars
  <2>3. job'.kind = job.kind /\ job'.film = job.film
    BY <2>1, <2>2 DEF SaidInv
  <2> QED BY <2>2, <2>3 DEF SaidInv, Named
<1>4. CASE ForwardRequest
  <2>1. pc = "forward" /\ pc' = "clients" /\ UNCHANGED <<plan, lastGet, bitrates>>
    BY <1>4 DEF ForwardRequest, Return, viewerVars
  <2>2. nolist_buf' \in {job.film, nolist_buf, Garbage}
    BY <1>4 DEF ForwardRequest
  <2>3. nolist_buf' \in Buffered
    BY <2>1, <2>2 DEF SaidInv, Named, Buffered
  <2> QED BY <2>1, <2>3 DEF SaidInv
<1>5. ASSUME NEW i \in Slots, ReadHead(i) PROVE SaidInv'
  <2> DEFINE fd == server_l[i].fd
  <2>1. UNCHANGED <<plan, lastGet, nolist_buf, bitrates>>
    BY <1>5 DEF ReadHead, CloseAndReturn, globalVars, viewerVars
  <2>2. PICK k : /\ server_l[i] # NULL /\ fd \in read_rdy
                 /\ inq[fd] # <<>> /\ inq[fd][1].part = "head"
                 /\ \/ pc' = "servers"
                    \/ pc' = "body" /\ job' = [idx |-> i, conn |-> k, head |-> inq[fd][1]]
    BY <1>5 DEF ReadHead, Starts, CloseAndReturn, ReturnFrom, ServerTurn, ScanAt, Marked
  <2>3. fd \in Fds
    BY <2>2 DEF SchedInv, PrivInv
  <2>4. inq[fd][1] \in ToSet(inq[fd])
    BY <2>2, <2>3, Taken DEF SchedInv, PartsInv
  <2>5. inq[fd][1].film \in Buffered
    BY <2>2, <2>3, <2>4 DEF PiecesInv, PieceOK
  <2>6. pc' = "body" => job'.head.film \in Buffered
    BY <2>2, <2>5
  <2> QED BY <2>1, <2>2, <2>6 DEF SaidInv
<1>6. ASSUME NEW i \in Slots, ReadCutHead(i) \/ ReadNoHead(i) PROVE SaidInv'
  <2>1. /\ UNCHANGED <<plan, lastGet, nolist_buf, bitrates>>
        /\ pc' \in {"servers", "hung", "aborted"}
    BY <1>6 DEF ReadCutHead, ReadNoHead, CloseAndReturn, ReturnFrom, Stop, globalVars, viewerVars
  <2> QED BY <2>1, SaidSame
<1>7. CASE ForwardBody \/ DialForNolist \/ BodyLost
  <2>1. /\ UNCHANGED <<plan, lastGet, nolist_buf, bitrates>>
        /\ pc' \in {"servers", "hung"}
    BY <1>7 DEF ForwardBody, DialForNolist, BodyLost, CloseBodyConn, Answer, Return, Stop,
                globalVars, viewerVars
  <2> QED BY <2>1, SaidSame
<1>8. CASE KeepList
  <2>1. /\ pc = "body" /\ bitrates' = job.head.film /\ UNCHANGED <<plan, lastGet, nolist_buf>>
        /\ pc' = "servers" \/ (pc' = "dial" /\ UNCHANGED job)
    BY <1>8 DEF KeepList, Return, viewerVars
  <2> QED BY <2>1 DEF SaidInv
<1>9. ASSUME NEW v \in Viewers, SendRequest(v) PROVE SaidInv'
  <2>1. /\ plan[v] # <<>> /\ plan' = [plan EXCEPT ![v] = Tail(plan[v])]
        /\ UNCHANGED <<pc, job, lastGet, nolist_buf, bitrates>>
    BY <1>9 DEF SendRequest, loopVars, globalVars
  <2>2. plan \in [Viewers -> Seq(Kinds \cup {"post"})]
    BY DEF SaidInv
  <2>3. Tail(plan[v]) \in Seq(Kinds \cup {"post"})
    BY <2>1, <2>2
  <2>4. plan' \in [Viewers -> Seq(Kinds \cup {"post"})]
    BY <2>1, <2>2, <2>3
  <2> QED BY <2>1, <2>4 DEF SaidInv, Named
<1>10. CASE PeerStep /\ UNCHANGED plan
  <2>1. UNCHANGED <<pc, job, lastGet, nolist_buf, bitrates>>
    BY <1>10 DEF PeerStep, Knock, SendRequest, SendHeaders, Leave, ServerAnswers,
                 ServerDies, ServerLeaves, loopVars, globalVars
  <2> QED BY <1>10, <2>1, SaidSame
<1>11. CASE PeerStep /\ plan' # plan
  <2>1. \E v \in Viewers : SendRequest(v)
    BY <1>11 DEF PeerStep, Knock, SendHeaders, Leave, ServerAnswers, ServerDies, ServerLeaves,
                 viewerVars
  <2> QED BY <1>9, <2>1
<1>12. CASE UNCHANGED vars
  BY <1>12, SaidSame DEF vars, loopVars, globalVars, viewerVars
<1>13. CASE SendSpins \/ ResolveHangs
  BY <1>13, StuckInPlace, SaidSame DEF globalVars, viewerVars
<1> QED BY <1>1, <1>2, <1>3, <1>4, <1>5, <1>6, <1>7, <1>8, <1>10, <1>11, <1>12, <1>13
        DEF Next, ProxyStep, ServerStep

LEMMA TextKept == SchedInv /\ TextInv /\ [Next]_vars => TextInv'
<1> SUFFICES ASSUME SchedInv, TextInv, [Next]_vars PROVE TextInv'
  OBVIOUS
<1> PartsInv
  BY DEF SchedInv
<1>1. CASE ProxyStep
  <2>1. PieceOK(Headers(FALSE))
    BY DEF PieceOK, Headers
  <2>2. PiecesInv'
    BY <1>1, <2>1, ProxyShrinks DEF Shrinks, TextInv, PiecesInv
  <2> QED BY <1>1, <2>2, AsksKept, SaidKept DEF TextInv
<1>2. ASSUME NEW v \in Viewers, Knock(v) \/ SendRequest(v) \/ SendHeaders(v) \/ Leave(v)
      PROVE  PiecesInv' /\ AsksInv'
  <2>1. UNCHANGED asked
    BY <1>2 DEF Knock, SendRequest, SendHeaders, Leave, chanVars
  <2>2. AsksInv'
    BY <2>1 DEF TextInv, AsksInv
  <2> QED BY <1>2, <2>2, ViewerSays
<1>3. CASE PeerStep
  <2>1. PiecesInv' /\ AsksInv'
    BY <1>2, <1>3, ServerSays DEF PeerStep
  <2> QED BY <2>1, SaidKept DEF TextInv
<1>4. CASE UNCHANGED vars
  <2>1. PiecesInv' /\ AsksInv'
    BY <1>4 DEF vars, chanVars, TextInv, PiecesInv, AsksInv
  <2> QED BY <2>1, SaidKept DEF TextInv
<1> QED BY <1>1, <1>3, <1>4 DEF Next

-----------------------------------------------------------------------------
(* Descriptors that carry nothing: closed ones, and the one that listens.  *)
Quiet(fd) == inq[fd] = <<>> /\ asked[fd] = <<>> /\ peer[fd] = NULL
QuietInv  == \A fd \in Fds : fd \notin open \/ fd = ListenFd => Quiet(fd)

(* No record holds such a descriptor. *)
LEMMA Unheld ==
    ASSUME Inv, NEW fd \in Fds, fd \notin open \/ fd = ListenFd
    PROVE  /\ \A i \in Slots : client_l[i] # NULL => client_l[i].fd # fd
           /\ \A k \in Live(conn_l) : ServFd(k) # fd
<1>1. fd \notin ClientFds \cup ServerFds
  BY DEF Inv, SocketsOwned
<1>2. ASSUME NEW k \in Live(conn_l) PROVE ServFd(k) # fd
  <2>1. conn_l[k].serv_idx \in Slots /\ server_l[conn_l[k].serv_idx] # NULL
    BY LiveConn
  <2> QED BY <1>1, <2>1, PoolAssumption DEF ServFd, ServerFds, Live, NoFd
<1> QED BY <1>1, <1>2 DEF ClientFds, Live

LEMMA ListenOpen == ASSUME Inv, status = "serving" PROVE ListenFd \in open
BY PoolAssumption DEF Inv, SelectSetExact

(* The thread only takes pieces out; what it asks, it asks on the server   *)
(* of a live conn.                                                         *)
LEMMA ThreadQuiet ==
    ASSUME SchedInv, QuietInv, ProxyStep, NEW fd \in Fds, fd \notin open' \/ fd = ListenFd
    PROVE  Quiet(fd)'
<1> Inv
  BY DEF SchedInv, PrivInv, LoopInv
<1>1. ASSUME Quiet(fd) PROVE inq'[fd] = <<>>
  BY <1>1, ProxyShrinks DEF Shrinks, Quiet
<1>2. ASSUME fd \notin open \/ fd = ListenFd, UNCHANGED <<asked, peer>> PROVE Quiet(fd)'
  BY <1>1, <1>2 DEF QuietInv, Quiet
<1>3. ASSUME WithClosed PROVE Quiet(fd)'
  <2>1. PICK shut : shut = open \ open'
    OBVIOUS
  <2>2. /\ asked' = [g \in Fds |-> IF g \in shut THEN <<>> ELSE asked[g]]
        /\ peer' = [g \in Fds |-> IF g \in shut THEN NULL ELSE peer[g]]
        /\ inq' = [g \in Fds |-> IF g \in shut THEN <<>> ELSE inq[g]]
    BY <1>3, <2>1 DEF WithClosed
  <2>3. CASE fd \in shut
    BY <2>2, <2>3 DEF Quiet
  <2>4. CASE fd \notin shut
    <3>1. Quiet(fd)
      BY <2>1, <2>4 DEF QuietInv
    <3> QED BY <2>2, <2>4, <3>1 DEF Quiet
  <2> QED BY <2>3, <2>4
<1>4. ASSUME NEW g, NEW r, asked' = Send(asked, g, r), UNCHANGED peer,
             fd \notin open \/ fd = ListenFd, g # fd
      PROVE  Quiet(fd)'
  <2>1. Quiet(fd)
    BY <1>4 DEF QuietInv
  <2>2. asked'[fd] = asked[fd]
    BY <1>4 DEF Send, SchedInv, PrivInv, ChanInv
  <2> QED BY <1>1, <1>4, <2>1, <2>2 DEF Quiet
<1>5. CASE Select \/ EndScan \/ ClientStep \/ TablesFull \/ SendSpins \/ ResolveHangs
  BY <1>2, <1>5, StuckInPlace DEF Select, EndScan, ClientStep, ReadGet, ReadOther, ReadNothing, TablesFull,
                    Overrun, chanVars, partyVars, poolVars, fdVars
<1>6. CASE AcceptViewer
  <2>1. /\ status = "serving" /\ open \subseteq open' /\ UNCHANGED asked
        /\ peer' = [g \in Fds |-> IF g \in open' \ open THEN Head(knocking) ELSE peer[g]]
    BY <1>6, AcceptLeaves
  <2>2. fd \notin open' \ open /\ (fd \notin open \/ fd = ListenFd)
    BY <2>1, ListenOpen
  <2> QED BY <1>1, <2>1, <2>2 DEF QuietInv, Quiet
<1>7. CASE AcceptGivesUp
  <2>1. open' = open \ {ListenFd} /\ UNCHANGED <<asked, peer>>
    BY <1>7 DEF AcceptGivesUp, AcceptFails, chanVars, partyVars
  <2> QED BY <1>2, <2>1
<1>8. CASE Route
  <2>1. UNCHANGED <<asked, peer>> /\ (UNCHANGED poolVars \/ \E addr \in ServerAddrs : OpenServer(job.idx, addr))
    BY <1>8 DEF Route, chanVars, partyVars
  <2>2. job.idx \in Slots
    BY <1>8 DEF Route, SchedInv, PrivInv, LoopInv, JobOK
  <2>3. open \subseteq open'
    BY <2>1, <2>2, OpenServerShape DEF poolVars, fdVars
  <2> QED BY <1>2, <2>1, <2>3
<1>9. CASE ForwardRequest
  <2>1. PICK r : /\ pc = "forward" /\ UNCHANGED <<open, peer>>
                 /\ asked' = Send(asked, ServFd(job.conn), r)
    BY <1>9 DEF ForwardRequest, ServFd, partyVars, poolVars, fdVars
  <2>2. job.conn \in Live(conn_l)
    BY <2>1 DEF SchedInv, PrivInv, LoopInv, JobOK, JobFor, Live
  <2> QED BY <1>4, <2>1, <2>2, Unheld
<1>10. CASE DropRequest \/ ServerStep
  BY <1>2, <1>3, <1>10 DEF DropRequest, ServerStep, ReadHead, ReadCutHead, ReadNoHead,
                           CloseAndReturn, chanVars, partyVars, poolVars, fdVars
<1>11. CASE ForwardBody \/ BodyLost
  BY <1>2, <1>3, <1>11 DEF ForwardBody, BodyLost, CloseBodyConn, Answer, chanVars,
                           partyVars, poolVars, fdVars
<1>12. CASE KeepList
  <2>1. /\ pc = "body" /\ UNCHANGED <<open, peer>>
        /\ \/ UNCHANGED asked
           \/ \E r : asked' = Send(asked, BodyFd, r)
    BY <1>12 DEF KeepList, partyVars, poolVars, fdVars
  <2>2. job.conn \in Live(conn_l) /\ BodyFd = ServFd(job.conn)
    BY <2>1, BodyFor DEF SchedInv
  <2> QED BY <1>2, <1>4, <2>1, <2>2, Unheld
<1>13. CASE DialForNolist
  <2>1. PICK addr, k, r :
          /\ addr \in ServerAddrs /\ k \in Slots
          /\ pc = "dial" /\ UNCHANGED peer
          /\ OpenServer(conn_l[job.conn].clit_idx, addr) /\ Opened(k)
          /\ asked' = Send(asked, ServFd(k)', r)
    BY <1>13 DEF DialForNolist, BodyConn, ServFd, partyVars
  <2>2. conn_l[job.conn].clit_idx \in Slots
    BY <2>1, ConnClient DEF SchedInv, PrivInv
  <2>3. /\ status = "serving" /\ open \subseteq open'
        /\ ServFd(k)' = NoFd \/ ServFd(k)' \in (Fds \cap open') \ open
    BY <2>1, <2>2, OpenLeaves
  <2>4. fd # ServFd(k)' /\ (fd \notin open \/ fd = ListenFd)
    BY <2>3, ListenOpen, PoolAssumption DEF NoFd
  <2> QED BY <1>4, <2>1, <2>4
<1> QED BY <1>5, <1>6, <1>7, <1>8, <1>9, <1>10, <1>11, <1>12, <1>13 DEF ProxyStep

(* Peers write only where one of them is connected, or has been asked. *)
LEMMA PeersQuiet ==
    ASSUME SchedInv, QuietInv, PeerStep
    PROVE  QuietInv'
<1>1. DOMAIN inq = Fds /\ DOMAIN asked = Fds
  BY DEF SchedInv, PrivInv, ChanInv
<1>2. ASSUME UNCHANGED <<open, peer>>, NEW g, peer[g] # NULL \/ asked[g] # <<>>,
             \A fd \in Fds \ {g} : inq'[fd] = inq[fd] /\ asked'[fd] = asked[fd]
      PROVE  QuietInv'
  BY <1>2 DEF QuietInv, Quiet
<1>3. ASSUME NEW v \in Viewers, Knock(v) PROVE QuietInv'
  BY <1>3 DEF Knock, chanVars, poolVars, fdVars, QuietInv, Quiet
<1>4. ASSUME NEW v \in Viewers, SendRequest(v) \/ SendHeaders(v) \/ Leave(v) PROVE QuietInv'
  <2>1. UNCHANGED <<open, peer, asked>>
    BY <1>4 DEF SendRequest, SendHeaders, Leave, partyVars, poolVars, fdVars
  <2>2. PICK g, q :
          /\ g \in Fds
          /\ peer[g] = v /\ (UNCHANGED inq \/ inq' = [inq EXCEPT ![g] = q])
    BY <1>4 DEF SendRequest, SendHeaders, Leave, Enqueue, FdOf
  <2>3. peer[g] # NULL
    BY <2>2, ProxyAssumption DEF ProxyAssumption
  <2> QED BY <1>1, <1>2, <2>1, <2>2, <2>3
<1>5. ASSUME NEW g \in Fds, ServerAnswers(g) \/ ServerDies(g) PROVE QuietInv'
  <2>1. UNCHANGED <<open, peer>> /\ asked[g] # <<>>
    BY <1>5 DEF ServerAnswers, ServerDies, partyVars, poolVars, fdVars
  <2>2. PICK q, a : /\ UNCHANGED inq \/ inq' = [inq EXCEPT ![g] = q]
                    /\ asked' = [asked EXCEPT ![g] = a]
    BY <1>5 DEF ServerAnswers, ServerDies, Enqueue
  <2> QED BY <1>1, <1>2, <2>1, <2>2
<1>6. ASSUME NEW g \in Fds, ServerLeaves(g) PROVE QuietInv'
  <2>1. UNCHANGED <<open, peer, inq>> /\ asked' = [asked EXCEPT ![g] = <<>>]
    BY <1>6 DEF ServerLeaves, partyVars, poolVars, fdVars
  <2> QED BY <1>1, <2>1 DEF QuietInv, Quiet
<1> QED BY <1>3, <1>4, <1>5, <1>6 DEF PeerStep

LEMMA QuietInit == Init => QuietInv
BY DEF Init, QuietInv, Quiet

LEMMA QuietKept == SchedInv /\ QuietInv /\ [Next]_vars => QuietInv'
<1> SUFFICES ASSUME SchedInv, QuietInv, [Next]_vars PROVE QuietInv'
  OBVIOUS
<1>1. CASE ProxyStep
  BY <1>1, ThreadQuiet DEF QuietInv
<1>2. CASE UNCHANGED vars
  BY <1>2 DEF vars, chanVars, partyVars, poolVars, fdVars, QuietInv, Quiet
<1> QED BY <1>1, <1>2, PeersQuiet DEF Next

-----------------------------------------------------------------------------
(* Type correctness: where the thread stands, and what its peers do. *)
LoopTypes ==
    /\ pc \in {"select", "accept", "clients", "servers", "route", "forward",
               "body", "dial", "deaf", "overrun", "hung", "aborted"}
    /\ cursor \in 0..FD_SETSIZE
    /\ nready \in Int

PartyTypes ==
    /\ peer \in [Fds -> Viewers \cup {NULL}]
    /\ fin \in [Fds -> {"no", "eof", "rst"}]
    /\ place \in [Viewers -> {"out", "in", "left", "dropped"}]

MarkTypes ==
    /\ waiting \cup owed \cup crossed \cup stranded \subseteq Viewers
    /\ lister \in [Viewers -> Films \cup {NoFilm}]

TypesInv == LoopTypes /\ PartyTypes /\ MarkTypes

LEMMA TypesInit == Init => TypesInv
BY PoolAssumption, ProxyAssumption
   DEF Init, TypesInv, LoopTypes, PartyTypes, MarkTypes, ProxyAssumption

(* select's count is finite even where Fds is not: maxfd bounds the set. *)
LEMMA WatchedFinite ==
    ASSUME Inv, NEW S \in SUBSET read_nrdy
    PROVE  IsFiniteSet(S) /\ Cardinality(S) \in Nat
<1> DEFINE T == read_nrdy \ {AliasFd}
<1>1. /\ T \in SUBSET Nat /\ maxfd \in Nat /\ \A s \in T : s <= maxfd
      /\ read_nrdy \subseteq T \cup {AliasFd}
  BY PoolAssumption DEF Inv, TypeOK, SelectSetExact
<1> HIDE DEF T
<1>2. IsFiniteSet(T)
  BY <1>1, FS_BoundedSetOfNaturals
<1>3. IsFiniteSet(T \cup {AliasFd})
  BY <1>2, FS_AddElement
<1>4. IsFiniteSet(S)
  BY <1>1, <1>3, FS_Subset
<1> QED BY <1>4, FS_CardinalityType

LEMMA NextSlot == \A i \in Slots : i + 1 \in 0..FD_SETSIZE
BY PoolAssumption DEF Slots

LEMMA LoopTypesKept == ASSUME SchedInv, LoopTypes, [Next]_vars PROVE LoopTypes'
<1> Inv
  BY DEF SchedInv, PrivInv, LoopInv
<1> 0 \in 0..FD_SETSIZE
  BY PoolAssumption
<1>1. CASE Select
  <2>1. PICK ready, writable :
          /\ writable \in {0, Cardinality(read_nrdy) - 1} /\ ready \subseteq read_nrdy
          /\ nready' = Cardinality(ready) + writable
          /\ cursor' = 0 /\ pc' \in {"accept", "clients"}
    BY <1>1 DEF Select
  <2>2. Cardinality(ready) \in Nat /\ Cardinality(read_nrdy) \in Nat
    BY <2>1, WatchedFinite
  <2> QED BY <2>1, <2>2 DEF LoopTypes
<1>2. CASE AcceptViewer \/ AcceptGivesUp \/ EndScan \/ TablesFull \/ Route
  BY <1>2 DEF AcceptViewer, AcceptGivesUp, EndScan, TablesFull, Route, Stop, LoopTypes
<1>3. ASSUME NEW i \in Slots,
             \/ ReadGet(i) \/ ReadOther(i) \/ ReadNothing(i)
             \/ ReadHead(i) \/ ReadCutHead(i) \/ ReadNoHead(i)
      PROVE  LoopTypes'
  <2>1. \/ pc' \in {"clients", "servers"} /\ cursor' = i + 1 /\ nready' = nready - 1
        \/ pc' \in {"route", "body", "hung", "aborted"} /\ UNCHANGED <<cursor, nready>>
    <3>1. ASSUME NEW g, NEW more, RequestHeaders(i, g, more)
          PROVE  \/ ReturnFrom("clients", i)
                 \/ pc' = "route" /\ UNCHANGED <<cursor, nready>>
                 \/ Stop("hung")
      BY <3>1 DEF RequestHeaders, Parsed
    <3>2. CASE ReadGet(i) \/ ReadOther(i) \/ ReadNothing(i)
      BY <3>1, <3>2, OtherLine DEF ReadGet, Refused, ReadNothing, ReturnFrom, Stop
    <3>3. CASE ReadHead(i) \/ ReadCutHead(i) \/ ReadNoHead(i)
      BY <3>3 DEF ReadHead, ReadCutHead, ReadNoHead, CloseAndReturn, ReturnFrom, Stop
    <3> QED BY <1>3, <3>2, <3>3
  <2> QED BY <2>1, NextSlot DEF LoopTypes
<1>4. CASE DropRequest \/ ForwardRequest \/ ForwardBody \/ KeepList \/ DialForNolist \/ BodyLost
  <2>1. /\ pc \in {"forward", "body", "dial"}
        /\ \/ Return("clients") \/ Return("servers")
           \/ pc' \in {"dial", "hung"} /\ UNCHANGED <<cursor, nready>>
    BY <1>4 DEF DropRequest, ForwardRequest, ForwardBody, KeepList, DialForNolist, BodyLost,
                Answer, CloseBodyConn, Stop
  <2>2. job.idx \in Slots
    BY <2>1 DEF SchedInv, ReadyInv
  <2> QED BY <2>1, <2>2, NextSlot DEF Return, LoopTypes
<1>5. CASE PeerStep
  <2>1. UNCHANGED loopVars
    BY <1>5 DEF PeerStep, Knock, SendRequest, SendHeaders, Leave, ServerAnswers,
                ServerDies, ServerLeaves
  <2> QED BY <2>1 DEF loopVars, LoopTypes
<1>6. CASE UNCHANGED vars
  BY <1>6 DEF vars, loopVars, LoopTypes
<1>7. CASE SendSpins \/ ResolveHangs
  BY <1>7, StuckInPlace DEF LoopTypes
<1> QED BY <1>1, <1>2, <1>3, <1>4, <1>5, <1>6, <1>7 DEF Next, ProxyStep, ClientStep, ServerStep

LEMMA PartyTypesKept == ASSUME SchedInv, PartyTypes, [Next]_vars PROVE PartyTypes'
<1>1. ASSUME WithClosed PROVE PartyTypes'
  <2>1. PICK shut, dropped :
          /\ peer' = [fd \in Fds |-> IF fd \in shut THEN NULL ELSE peer[fd]]
          /\ fin' = [fd \in Fds |-> IF fd \in shut THEN "no" ELSE fin[fd]]
          /\ place' = [v \in Viewers |-> IF v \in dropped /\ place[v] = "in"
                                         THEN "dropped" ELSE place[v]]
    BY <1>1 DEF WithClosed
  <2> QED BY <2>1 DEF PartyTypes
<1>2. ASSUME UNCHANGED <<peer, place>>,
             UNCHANGED fin \/ \E fd : \E how \in {"eof", "rst"} : fin' = [fin EXCEPT ![fd] = how]
      PROVE  PartyTypes'
  BY <1>2 DEF PartyTypes
<1>3. CASE Select \/ AcceptGivesUp \/ EndScan \/ ClientStep \/ Route \/ TablesFull
           \/ ForwardRequest \/ KeepList \/ DialForNolist
  BY <1>2, <1>3 DEF Select, AcceptGivesUp, EndScan, ClientStep, ReadGet, ReadOther, ReadNothing,
                    Route, TablesFull, ForwardRequest, KeepList, DialForNolist,
                    chanVars, partyVars
<1>4. CASE AcceptViewer
  <2>1. knocking # <<>>
    BY <1>4 DEF AcceptViewer, SchedInv, PlaceInv
  <2>2. Head(knocking) \in ToSet(knocking)
    BY <2>1, Taken DEF SchedInv, PlaceInv
  <2>3. PICK u \in Viewers : u = Head(knocking)
    BY <2>2 DEF SchedInv, PlaceInv
  <2>4. /\ peer' = [fd \in Fds |-> IF fd \in open' \ open THEN u ELSE peer[fd]]
        /\ place' = [place EXCEPT ![u] = "in"] /\ UNCHANGED fin
    BY <1>4, <2>3 DEF AcceptViewer, chanVars
  <2> QED BY <2>4 DEF PartyTypes
<1>5. CASE DropRequest \/ ServerStep
  BY <1>1, <1>2, <1>5 DEF DropRequest, ServerStep, ReadHead, ReadCutHead, ReadNoHead,
                          CloseAndReturn, chanVars, partyVars
<1>6. CASE ForwardBody \/ BodyLost
  BY <1>1, <1>2, <1>6 DEF ForwardBody, BodyLost, CloseBodyConn, Answer, chanVars, partyVars
<1>7. ASSUME NEW v \in Viewers, Knock(v) \/ SendRequest(v) \/ SendHeaders(v) PROVE PartyTypes'
  BY <1>2, <1>7 DEF Knock, SendRequest, SendHeaders, chanVars, partyVars
<1>8. ASSUME NEW v \in Viewers, Leave(v) PROVE PartyTypes'
  BY <1>8 DEF Leave, PartyTypes
<1>9. ASSUME NEW fd \in Fds, ServerAnswers(fd) \/ ServerDies(fd) \/ ServerLeaves(fd)
      PROVE  PartyTypes'
  BY <1>2, <1>9 DEF ServerAnswers, ServerDies, ServerLeaves, partyVars
<1>10. CASE UNCHANGED vars
  BY <1>2, <1>10 DEF vars, chanVars, partyVars
<1>11. CASE SendSpins \/ ResolveHangs
  BY <1>11, StuckInPlace, <1>2 DEF chanVars, partyVars
<1> QED BY <1>3, <1>4, <1>5, <1>6, <1>7, <1>8, <1>9, <1>10, <1>11 DEF Next, ProxyStep, PeerStep

LEMMA MarkTypesKept == ASSUME SchedInv, TextInv, MarkTypes, [Next]_vars PROVE MarkTypes'
<1>1. ASSUME WithClosed, UNCHANGED crossed PROVE MarkTypes'
  <2>1. PICK dropped, parted :
          /\ waiting' = waiting \ dropped /\ owed' = owed \ dropped
          /\ stranded' = stranded \cup ((parted \cap waiting) \ dropped)
          /\ lister' = [v \in Viewers |-> IF v \in dropped THEN NoFilm ELSE lister[v]]
    BY <1>1 DEF WithClosed
  <2> QED BY <1>1, <2>1 DEF MarkTypes
<1>2. ASSUME waiting' \subseteq waiting, UNCHANGED <<owed, crossed, stranded>>,
             UNCHANGED lister \/ \E v : lister' = [lister EXCEPT ![v] = NoFilm]
      PROVE  MarkTypes'
  BY <1>2 DEF MarkTypes
<1>3. CASE Select \/ AcceptViewer \/ AcceptGivesUp \/ EndScan \/ Route \/ TablesFull
           \/ KeepList \/ DialForNolist
  BY <1>2, <1>3 DEF Select, AcceptViewer, AcceptGivesUp, EndScan, Route, TablesFull, KeepList,
                    DialForNolist, viewerVars, markVars, histVars, answerVars
<1>4. ASSUME NEW i, ReadGet(i) \/ ReadOther(i) \/ ReadNothing(i) PROVE MarkTypes'
  <2>1. UNCHANGED <<owed, crossed, stranded, lister>>
    BY <1>4 DEF ReadGet, ReadOther, ReadNothing, viewerVars, markVars, histVars
  <2>2. ASSUME Refuse(i) PROVE waiting' \subseteq waiting
    BY <2>2 DEF Refuse, Deliver, answerVars
  <2>3. ASSUME NEW g, NEW more, RequestHeaders(i, g, more) PROVE waiting' \subseteq waiting
    BY <2>2, <2>3 DEF RequestHeaders, Parsed, answerVars
  <2>4. waiting' \subseteq waiting
    BY <1>4, <2>2, <2>3, OtherLine DEF ReadGet, Refused, ReadNothing, answerVars
  <2> QED BY <1>2, <2>1, <2>4
<1>5. CASE ForwardRequest
  <2>1. pc = "forward" /\ UNCHANGED <<waiting, owed, stranded>>
    BY <1>5 DEF ForwardRequest, viewerVars, answerVars
  <2>2. job.film \in Films
    BY <2>1 DEF TextInv, SaidInv, Named
  <2>3. crossed' = crossed \/ \E S : crossed' = crossed \cup {u \in Viewers \ S : lister[u] # NoFilm}
    BY <1>5 DEF ForwardRequest
  <2>4. crossed' \subseteq crossed \cup Viewers
    BY <2>3
  <2>5. lister' = lister \/ \E v : lister' = [lister EXCEPT ![v] = job.film]
    BY <1>5 DEF ForwardRequest
  <2> QED BY <2>1, <2>2, <2>4, <2>5 DEF MarkTypes
<1>6. CASE DropRequest \/ ServerStep
  BY <1>1, <1>2, <1>6 DEF DropRequest, ServerStep, ReadHead, ReadCutHead, ReadNoHead,
                          CloseAndReturn, viewerVars, markVars, histVars, answerVars
<1>7. CASE ForwardBody \/ BodyLost
  BY <1>1, <1>2, <1>7 DEF ForwardBody, BodyLost, CloseBodyConn, Answer, Deliver, viewerVars,
                          markVars, histVars, answerVars
<1>8. ASSUME NEW v \in Viewers, SendRequest(v) PROVE MarkTypes'
  <2>1. /\ waiting' = waiting \cup {v} /\ owed' \subseteq owed \cup {v}
        /\ stranded' = stranded \ {v} /\ UNCHANGED <<crossed, lister>>
    BY <1>8 DEF SendRequest
  <2> QED BY <2>1 DEF MarkTypes
<1>9. ASSUME NEW v \in Viewers, SendHeaders(v) \/ Leave(v) PROVE MarkTypes'
  <2>1. /\ waiting' \subseteq waiting /\ owed' \subseteq owed
        /\ UNCHANGED <<crossed, stranded, lister>>
    BY <1>9 DEF SendHeaders, Leave, markVars, histVars, answerVars
  <2> QED BY <2>1 DEF MarkTypes
<1>10. ASSUME NEW v \in Viewers, Knock(v) PROVE MarkTypes'
  BY <1>2, <1>10 DEF Knock, viewerVars, markVars, histVars, answerVars
<1>11. ASSUME NEW fd \in Fds, ServerAnswers(fd) \/ ServerDies(fd) \/ ServerLeaves(fd)
       PROVE  MarkTypes'
  BY <1>2, <1>11 DEF ServerAnswers, ServerDies, ServerLeaves, viewerVars, markVars, histVars,
                     answerVars
<1>12. CASE UNCHANGED vars
  BY <1>2, <1>12 DEF vars, viewerVars, markVars, histVars, answerVars
<1>13. CASE SendSpins \/ ResolveHangs
  BY <1>13, StuckInPlace, <1>2 DEF viewerVars, markVars, histVars, answerVars
<1> QED BY <1>3, <1>4, <1>5, <1>6, <1>7, <1>8, <1>9, <1>10, <1>11, <1>12, <1>13
        DEF Next, ProxyStep, PeerStep, ClientStep

(***************************************************************************)
(* Type correctness of the loop, the peers and the buffers, for any number *)
(* of viewers, slots and descriptors and all faults.  Its conjunct on      *)
(* closed descriptors is no matter of types: a descriptor that accept or   *)
(* socket hands out anew never has a stale request, answer or viewer.      *)
(***************************************************************************)
THEOREM ProxyTypes == Spec => []ProxyTypeOK
<1> DEFINE TInv == SchedInv /\ TextInv /\ QuietInv /\ TypesInv
<1>1. Init => TInv
  BY SchedInit, TextInit, QuietInit, TypesInit
<1>2. TInv /\ [Next]_vars => TInv'
  <2> SUFFICES ASSUME TInv, [Next]_vars PROVE TInv'
    OBVIOUS
  <2>1. SchedInv' /\ TextInv' /\ QuietInv'
    BY SchedStep, TextKept, QuietKept
  <2>2. LoopTypes' /\ PartyTypes' /\ MarkTypes'
    BY LoopTypesKept, PartyTypesKept, MarkTypesKept DEF TypesInv
  <2> QED BY <2>1, <2>2 DEF TypesInv
<1>3. TInv => ProxyTypeOK
  BY DEF SchedInv, PrivInv, TextInv, SaidInv, Buffered, QuietInv, Quiet, TypesInv, LoopTypes,
         PartyTypes, MarkTypes, ProxyTypeOK
<1> QED BY <1>1, <1>2, <1>3, PTL DEF Spec

-----------------------------------------------------------------------------
(* The server of conn k has sent a head and not yet the body: the head is  *)
(* the last piece unread, or the handler has it and waits for the body.    *)
HeadLast(q)  == \E n \in DOMAIN q : n + 1 \notin DOMAIN q /\ q[n].part = "head"
HalfAsked(a) == a # <<>> /\ Head(a).kind = "body"

Half(k) ==
    LET fd == ServFd(k)
    IN fd \in Fds /\ HalfAsked(asked[fd]) /\ fin[fd] = "no" =>
         HeadLast(inq[fd]) \/ (inq[fd] = <<>> /\ pc = "body" /\ job.conn = k)

(* Something will come of conn k, or nothing can. *)
Moving(k) ==
    LET fd == ServFd(k)
    IN \/ fd = NoFd
       \/ fin[fd] # "no" \/ asked[fd] # <<>>
       \/ \E e \in ToSet(inq[fd]) : e.part = "head"

(* The viewers that wait are connected, and none of them is forgotten. *)
WaitInv == \A v \in waiting : v \in Viewers /\ place[v] = "in"

Served(v) ==
    \/ pc \in {"route", "forward"} /\ Viewer(job.idx) = v
    \/ pc \in {"body", "dial"} /\ job.head.to = v
    \/ pc \in {"hung", "aborted", "overrun"}
Unread(v) == \E fd \in Fds : peer[fd] = v /\ inq[fd] # <<>>
Linked(v) == \E k \in Live(conn_l) : Owner(k) = v /\ (Moving(k) \/ v \in stranded)

Remembered(v) == Unread(v) \/ Served(v) \/ Linked(v)

HalfInv     == \A k \in Live(conn_l) : Half(k)
WaitersInv  == \A v \in waiting : Remembered(v)
NetInv      == SchedInv /\ TextInv /\ QuietInv
RememberInv == NetInv /\ WaitInv /\ HalfInv /\ WaitersInv

(* A step that leaves conn k to itself, but for requests added to it. *)
Calm(fd) == /\ inq'[fd] = inq[fd] /\ fin'[fd] = fin[fd]
            /\ asked[fd] # <<>> => asked'[fd] # <<>>
            /\ HalfAsked(asked'[fd]) => HalfAsked(asked[fd])

Steady(k) == /\ ServFd(k)' = ServFd(k) /\ Owner(k)' = Owner(k)
             /\ ServFd(k) \in Fds => Calm(ServFd(k))

LEMMA SteadyMoving ==
    ASSUME Inv, NEW k \in Live(conn_l), Steady(k), Moving(k)
    PROVE  Moving(k)'
<1>1. ServFd(k) \in Fds \cup {NoFd}
  BY LiveConn
<1> QED BY <1>1 DEF Steady, Calm, Moving

LEMMA SteadyHalf ==
    ASSUME NEW k, Steady(k), Half(k),
           pc = "body" /\ job.conn = k => UNCHANGED <<pc, job>>
    PROVE  Half(k)'
BY DEF Steady, Calm, Half

(* Requests sent: they are never half answered. *)
LEMMA SentCalm ==
    ASSUME AsksInv, NEW g, NEW r, r.kind # "body", asked' = Send(asked, g, r)
    PROVE  /\ \A fd \in Fds : /\ asked[fd] # <<>> => asked'[fd] # <<>>
                              /\ HalfAsked(asked'[fd]) => HalfAsked(asked[fd])
           /\ g \in Fds => fin[g] # "no" \/ asked'[g] # <<>>
<1>1. ASSUME NEW fd \in Fds
      PROVE  Append(asked[fd], r) # <<>> /\ Head(Append(asked[fd], r)) \in {r, Head(asked[fd])}
             /\ (asked[fd] = <<>> => Head(Append(asked[fd], r)) = r)
  <2>1. PICK a : a = asked[fd]
    OBVIOUS
  <2>2. PICK S : a \in Seq(S)
    BY <2>1 DEF AsksInv, AsksOK, IsQueue
  <2>3. a \in Seq(S \cup {r})
    BY <2>2
  <2>4. PICK q : q = Append(a, r)
    OBVIOUS
  <2>5. /\ q # <<>> /\ Head(q) = q[1] /\ (a = <<>> => q[1] = r)
        /\ a # <<>> => q[1] = a[1] /\ Head(a) = a[1]
    BY <2>3, <2>4
  <2>6. q # <<>> /\ Head(q) \in {r, Head(a)} /\ (a = <<>> => Head(q) = r)
    BY <2>5
  <2> QED BY <2>1, <2>4, <2>6
<1>2. DOMAIN asked = Fds
  BY DEF AsksInv
<1>3. ASSUME NEW fd \in Fds, asked'[fd] = Append(asked[fd], r)
      PROVE  asked'[fd] # <<>> /\ (HalfAsked(asked'[fd]) => HalfAsked(asked[fd]))
  BY <1>1, <1>3 DEF HalfAsked
<1>4. ASSUME NEW fd \in Fds
      PROVE  asked'[fd] = asked[fd] \/ asked'[fd] = Append(asked[fd], r)
  BY <1>2 DEF Send
<1>5. g \in Fds /\ fin[g] = "no" => asked'[g] = Append(asked[g], r)
  BY <1>2 DEF Send
<1> QED BY <1>3, <1>4, <1>5

(* Steps that leave the tables alone, and most queues. *)
LEMMA SteadySame ==
    ASSUME NEW k, UNCHANGED <<client_l, server_l, conn_l, peer>>,
           ServFd(k) \in Fds => Calm(ServFd(k))
    PROVE  Steady(k) /\ Live(conn_l') = Live(conn_l)
BY DEF Steady, ServFd, Owner, Viewer, Live

LEMMA SteadyOpen ==
    ASSUME Inv, NEW c \in Slots, NEW addr \in ServerAddrs, OpenServer(c, addr),
           NEW k \in Slots, Opened(k), UNCHANGED peer,
           \A fd \in Fds : Calm(fd)
    PROVE  \A j \in Live(conn_l) : j \in Live(conn_l') /\ j # k /\ Steady(j)
BY OpenLeaves DEF Steady

LEMMA SteadyClose ==
    ASSUME Inv, Inv', NEW k \in Slots, CloseConn(k), WithClosed
    PROVE  /\ Live(conn_l') = Live(conn_l) \ {k} /\ k \in Live(conn_l)
           /\ \A j \in Live(conn_l') : Steady(j)
<1>1. ASSUME NEW j \in Live(conn_l') PROVE Steady(j)
  <2>1. /\ ServFd(j)' = ServFd(j) /\ Owner(j)' = Owner(j)
        /\ ServFd(j) \in Fds => ServFd(j) \in open'
    BY CloseLeaves
  <2>2. PICK fd : fd = ServFd(j)
    OBVIOUS
  <2>3. fd \in Fds => inq'[fd] = inq[fd] /\ fin'[fd] = fin[fd] /\ asked'[fd] = asked[fd]
    BY <2>1, <2>2 DEF WithClosed
  <2> QED BY <2>1, <2>2, <2>3 DEF Steady, Calm
<1> QED BY <1>1, CloseLeaves

LEMMA SteadyAccept ==
    ASSUME Inv, AcceptViewer, NEW k \in Live(conn_l)
    PROVE  Steady(k) /\ Live(conn_l') = Live(conn_l)
BY AcceptLeaves DEF Steady, Calm, Live

(* A step of one viewer, or a handler reading from one. *)
LEMMA SteadyViewer ==
    ASSUME SchedInv, NEW k \in Live(conn_l), NEW fd, NEW q,
           UNCHANGED <<client_l, server_l, conn_l, peer, asked>>, ServFd(k) # fd,
           UNCHANGED inq \/ inq' = [inq EXCEPT ![fd] = q],
           UNCHANGED fin \/ fin' = [fin EXCEPT ![fd] = "eof"]
    PROVE  Steady(k) /\ Live(conn_l') = Live(conn_l)
<1>1. ServFd(k) \in Fds => inq'[ServFd(k)] = inq[ServFd(k)] /\ fin'[ServFd(k)] = fin[ServFd(k)]
  BY DEF SchedInv, PartsInv
<1> QED BY <1>1, SteadySame DEF Calm

LEMMA HalfInit == Init => HalfInv /\ WaitInv /\ WaitersInv
BY DEF Init, PoolInit, HalfInv, WaitInv, WaitersInv, Live

LEMMA WaitKept == ASSUME SchedInv, WaitInv, [Next]_vars PROVE WaitInv'
<1>1. ASSUME UNCHANGED place, waiting' \subseteq waiting PROVE WaitInv'
  BY <1>1 DEF WaitInv
<1>2. ASSUME WithClosed PROVE WaitInv'
  <2>1. PICK dropped :
          /\ waiting' = waiting \ dropped
          /\ place' = [v \in Viewers |-> IF v \in dropped /\ place[v] = "in"
                                         THEN "dropped" ELSE place[v]]
    BY <1>2 DEF WithClosed
  <2> QED BY <2>1 DEF WaitInv
<1>3. CASE Select \/ AcceptGivesUp \/ EndScan \/ Route \/ TablesFull \/ ForwardRequest
           \/ KeepList \/ DialForNolist
  BY <1>1, <1>3 DEF Select, AcceptGivesUp, EndScan, Route, TablesFull, ForwardRequest, KeepList,
                    DialForNolist, partyVars, answerVars
<1>4. CASE AcceptViewer
  <2>1. UNCHANGED waiting /\ place' = [place EXCEPT ![Head(knocking)] = "in"]
    BY <1>4 DEF AcceptViewer, answerVars
  <2> QED BY <2>1 DEF WaitInv, SchedInv, PlaceInv
<1>5. ASSUME NEW i, ReadGet(i) \/ ReadOther(i) \/ ReadNothing(i) PROVE WaitInv'
  <2>1. UNCHANGED place
    BY <1>5 DEF ReadGet, ReadOther, ReadNothing, partyVars
  <2>2. ASSUME Refuse(i) PROVE waiting' \subseteq waiting
    BY <2>2 DEF Refuse, Deliver, answerVars
  <2>3. ASSUME NEW g, NEW more, RequestHeaders(i, g, more) PROVE waiting' \subseteq waiting
    BY <2>2, <2>3 DEF RequestHeaders, Parsed, answerVars
  <2>4. waiting' \subseteq waiting
    BY <1>5, <2>2, <2>3, OtherLine DEF ReadGet, Refused, ReadNothing, answerVars
  <2> QED BY <1>1, <2>1, <2>4
<1>6. CASE DropRequest \/ ServerStep
  BY <1>1, <1>2, <1>6 DEF DropRequest, ServerStep, ReadHead, ReadCutHead, ReadNoHead,
                          CloseAndReturn, partyVars, answerVars
<1>7. CASE ForwardBody \/ BodyLost
  BY <1>1, <1>2, <1>7 DEF ForwardBody, BodyLost, CloseBodyConn, Answer, Deliver, partyVars,
                          answerVars
<1>8. ASSUME NEW v \in Viewers, SendRequest(v) PROVE WaitInv'
  <2>1. waiting' = waiting \cup {v} /\ UNCHANGED place /\ place[v] = "in"
    BY <1>8 DEF SendRequest, FdOf, partyVars
  <2> QED BY <2>1 DEF WaitInv
<1>9. ASSUME NEW v \in Viewers, Leave(v) PROVE WaitInv'
  <2>1. waiting' = waiting \ {v} /\ place' = [place EXCEPT ![v] = "left"]
    BY <1>9 DEF Leave
  <2> QED BY <2>1 DEF WaitInv
<1>10. ASSUME NEW v \in Viewers, Knock(v) \/ SendHeaders(v) PROVE WaitInv'
  BY <1>1, <1>10 DEF Knock, SendHeaders, partyVars, answerVars
<1>11. ASSUME NEW fd \in Fds, ServerAnswers(fd) \/ ServerDies(fd) \/ ServerLeaves(fd)
       PROVE  WaitInv'
  BY <1>1, <1>11 DEF ServerAnswers, ServerDies, ServerLeaves, partyVars, answerVars
<1>12. CASE UNCHANGED vars
  BY <1>1, <1>12 DEF vars, partyVars, answerVars
<1>13. CASE SendSpins \/ ResolveHangs
  BY <1>13, StuckInPlace, <1>1 DEF partyVars, answerVars
<1> QED BY <1>3, <1>4, <1>5, <1>6, <1>7, <1>8, <1>9, <1>10, <1>11, <1>12, <1>13
        DEF Next, ProxyStep, PeerStep, ClientStep

-----------------------------------------------------------------------------
(* What each step leaves to the other conns. *)
LEMMA HeadStaysLast ==
    ASSUME NEW q, IsQueue(q), q # <<>>, HeadLast(q)
    PROVE  HeadLast(Tail(q)) \/ (Tail(q) = <<>> /\ q[1].part = "head")
<1>1. PICK S : q \in Seq(S)
  BY DEF IsQueue
<1>2. PICK n \in DOMAIN q : n + 1 \notin DOMAIN q /\ q[n].part = "head"
  BY DEF HeadLast
<1>3. PICK m \in Nat : m = Len(q) /\ DOMAIN q = 1..m /\ m # 0
  BY <1>1
<1>4. n = m
  BY <1>2, <1>3
<1>5. PICK t : t = Tail(q)
  OBVIOUS
<1>6. t \in Seq(S) /\ DOMAIN t = 1..(m - 1) /\ \A j \in 1..(m - 1) : t[j] = q[j + 1]
  BY <1>1, <1>3, <1>5
<1>7. CASE m = 1
  <2>1. t = <<>>
    BY <1>6, <1>7
  <2> QED BY <1>2, <1>4, <1>5, <1>7, <2>1
<1>8. CASE m # 1
  <2>1. m - 1 \in DOMAIN t /\ (m - 1) + 1 \notin DOMAIN t /\ t[m - 1] = q[m]
    BY <1>3, <1>6, <1>8
  <2>2. HeadLast(t)
    BY <1>2, <1>4, <2>1 DEF HeadLast
  <2> QED BY <1>5, <2>2
<1> QED BY <1>7, <1>8

LEMMA HeadPutLast ==
    ASSUME NEW q, IsQueue(q), NEW h, h.part = "head"
    PROVE  HeadLast(q \o <<h>>) /\ h \in ToSet(q \o <<h>>)
<1>1. PICK S : q \in Seq(S)
  BY DEF IsQueue
<1>2. PICK m \in Nat : m = Len(q)
  BY <1>1
<1>3. q \in Seq(S \cup {h}) /\ <<h>> \in Seq(S \cup {h}) /\ Len(<<h>>) = 1 /\ <<h>>[1] = h
  BY <1>1
<1>4. PICK s : s = <<h>>
  OBVIOUS
<1>5. PICK j : j = q \o s
  OBVIOUS
<1>6. j \in Seq(S \cup {h}) /\ Len(j) = m + 1 /\ j[m + 1] = h
  BY <1>2, <1>3, <1>4, <1>5, JoinIs
<1>7. DOMAIN j = 1..(m + 1)
  BY <1>6
<1>8. m + 1 \in DOMAIN j /\ (m + 1) + 1 \notin DOMAIN j /\ j[m + 1] = h
  BY <1>6, <1>7
<1>9. HeadLast(j) /\ h \in ToSet(j)
  BY <1>8 DEF HeadLast, ToSet
<1> QED BY <1>4, <1>5, <1>9

LEMMA HeadIn ==
    ASSUME NEW q, HeadLast(q)
    PROVE  \E e \in ToSet(q) : e.part = "head"
BY DEF HeadLast, ToSet

(* Steps of the loop itself, and of the handlers that read from a client. *)
LEMMA LoopSteady ==
    ASSUME SchedInv, Select \/ AcceptViewer \/ AcceptGivesUp \/ EndScan \/ TablesFull
    PROVE  Live(conn_l') = Live(conn_l) /\ \A k \in Live(conn_l) : Steady(k)
<1>1. CASE AcceptViewer
  BY <1>1, SteadyAccept, AcceptLeaves DEF SchedInv, PrivInv, LoopInv, Live
<1>2. CASE Select \/ AcceptGivesUp \/ EndScan \/ TablesFull
  <2>1. UNCHANGED <<client_l, server_l, conn_l, peer, inq, fin, asked>>
    BY <1>2 DEF Select, AcceptGivesUp, AcceptFails, EndScan, TablesFull, Overrun, chanVars,
                partyVars, poolVars, clientVars, serverVars, connVars
  <2>2. \A fd : Calm(fd)
    BY <2>1 DEF Calm
  <2> QED BY <2>1, <2>2, SteadySame DEF Live
<1> QED BY <1>1, <1>2

LEMMA StuckSteady ==
    ASSUME SendSpins \/ ResolveHangs
    PROVE  Live(conn_l') = Live(conn_l) /\ \A k \in Live(conn_l) : Steady(k)
<1>1. UNCHANGED <<client_l, server_l, conn_l, peer, inq, fin, asked>>
  BY StuckInPlace DEF chanVars, partyVars, poolVars, clientVars, serverVars, connVars
<1>2. \A fd : Calm(fd)
  BY <1>1 DEF Calm
<1> QED BY <1>1, <1>2, SteadySame DEF Live

LEMMA ClientSteady ==
    ASSUME SchedInv, NEW i \in Slots, ReadGet(i) \/ ReadOther(i) \/ ReadNothing(i)
    PROVE  Live(conn_l') = Live(conn_l) /\ \A k \in Live(conn_l) : Steady(k)
<1>1. client_l[i] # NULL
  BY DEF ReadGet, ReadOther, ReadNothing, ClientTurn, ScanAt, Marked
<1>2. \A k \in Live(conn_l) : ServFd(k) # client_l[i].fd
  BY <1>1, ClientApart DEF SchedInv, PrivInv, LoopInv
<1>3. /\ UNCHANGED <<client_l, server_l, conn_l, peer, asked, fin>>
  BY DEF ReadGet, ReadOther, ReadNothing, partyVars, poolVars, clientVars, serverVars, connVars
<1>4. UNCHANGED inq \/ \E q : inq' = [inq EXCEPT ![client_l[i].fd] = q]
  BY ClientShrinks
<1> QED BY <1>2, <1>3, <1>4, SteadyViewer DEF Live

LEMMA RouteSteady ==
    ASSUME SchedInv, Route
    PROVE  \A k \in Live(conn_l) : k \in Live(conn_l') /\ Steady(k)
<1>1. UNCHANGED <<peer, inq, fin, asked>>
  BY DEF Route, chanVars, partyVars
<1>2. \A fd : Calm(fd)
  BY <1>1 DEF Calm
<1>3. job.idx \in Slots
  BY DEF Route, SchedInv, PrivInv, LoopInv, JobOK
<1>4. CASE UNCHANGED poolVars
  BY <1>1, <1>2, <1>4, SteadySame DEF poolVars, clientVars, serverVars, connVars
<1>5. ASSUME NEW addr \in ServerAddrs, NEW k \in Slots, OpenServer(job.idx, addr), Opened(k)
      PROVE  \A j \in Live(conn_l) : j \in Live(conn_l') /\ Steady(j)
  BY <1>1, <1>2, <1>3, <1>5, SteadyOpen DEF SchedInv, PrivInv, LoopInv
<1> QED BY <1>4, <1>5 DEF Route

(* The request goes to the server of the handler's conn, or is lost with   *)
(* that server's end already noted.                                        *)
LEMMA ForwardSteady ==
    ASSUME SchedInv, TextInv, ForwardRequest
    PROVE  /\ Live(conn_l') = Live(conn_l) /\ \A k \in Live(conn_l) : Steady(k)
           /\ \E k \in Live(conn_l) : Owner(k) = Viewer(job.idx) /\ Moving(k)'
<1>1. PICK fd, r :
        /\ pc = "forward" /\ fd = ServFd(job.conn) /\ r = Request(Viewer(job.idx), job.kind, job.film)
        /\ asked' = Send(asked, fd, r)
        /\ UNCHANGED <<client_l, server_l, conn_l, peer, inq, fin>>
  BY DEF ForwardRequest, ServFd, partyVars, poolVars, clientVars, serverVars, connVars
<1>2. r.kind # "body"
  BY <1>1 DEF TextInv, SaidInv, Named, Kinds, Request
<1>3. \A g \in Fds : Calm(g)
  BY <1>1, <1>2, SentCalm DEF TextInv, Calm
<1>4. \A k \in Live(conn_l) : Steady(k) /\ Live(conn_l') = Live(conn_l)
  BY <1>1, <1>3, SteadySame
<1>5. job.conn \in Live(conn_l) /\ Owner(job.conn) = Viewer(job.idx)
  BY <1>1 DEF SchedInv, PrivInv, LoopInv, JobOK, JobFor, Live
<1>6. ServFd(job.conn) \in Fds \cup {NoFd}
  BY <1>5, LiveConn DEF SchedInv, PrivInv, LoopInv
<1>7. fd \in Fds => fin[fd] # "no" \/ asked'[fd] # <<>>
  BY <1>1, <1>2, SentCalm DEF TextInv
<1>8. PICK k : k = job.conn
  OBVIOUS
<1>9. ServFd(k)' = fd
  BY <1>1, <1>4, <1>5, <1>8 DEF Steady
<1>10. Moving(k)'
  BY <1>1, <1>6, <1>7, <1>8, <1>9 DEF Moving
<1> QED BY <1>1, <1>4, <1>5, <1>8, <1>10 DEF Live

(* A head is taken for the conn of its server. *)
LEMMA HeadSteady ==
    ASSUME SchedInv, NEW i \in Slots, ReadHead(i), pc' = "body"
    PROVE  /\ Live(conn_l') = Live(conn_l) /\ UNCHANGED <<peer, fin, asked>>
           /\ \E k \in Live(conn_l) : \E q :
                /\ ServFd(k) \in Fds /\ q = inq[ServFd(k)] /\ q # <<>> /\ q[1].part = "head"
                /\ inq' = [inq EXCEPT ![ServFd(k)] = Tail(q)]
                /\ ServFd(k)' = ServFd(k) /\ job'.conn = k /\ job'.head.to = Owner(k)
                /\ \A j \in Live(conn_l) : j # k => Steady(j)
<1> Inv
  BY DEF SchedInv, PrivInv, LoopInv
<1> DEFINE fd == server_l[i].fd
<1>1. PICK k \in Slots :
        /\ fd \in read_rdy /\ ServerConn(fd, k)
        /\ inq[fd] # <<>> /\ inq[fd][1].part = "head"
        /\ job' = [idx |-> i, conn |-> k, head |-> inq[fd][1]]
        /\ inq' = [inq EXCEPT ![fd] = Tail(inq[fd])]
        /\ UNCHANGED <<client_l, server_l, conn_l, peer, fin, asked>>
  BY DEF ReadHead, CloseAndReturn, ReturnFrom, ServerTurn, ScanAt, Marked, Starts,
         partyVars, poolVars, clientVars, serverVars, connVars
<1>2. k \in Live(conn_l) /\ ServFd(k) = fd /\ fd \in Fds
  BY <1>1 DEF ServerConn, Carries, Live, ServFd, SchedInv, PrivInv
<1>3. PICK q : q = inq[fd]
  OBVIOUS
<1> HIDE DEF fd
<1>4. IsQueue(q)
  BY <1>2, <1>3 DEF SchedInv, PartsInv
<1>5. q[1] \in ToSet(q)
  BY <1>1, <1>3, <1>4, Taken
<1>6. q[1].to = Owner(k)
  BY <1>1, <1>2, <1>3, <1>5 DEF SchedInv, PrivInv, ChanInv, Mail, Ours
<1>7. job'.conn = k /\ job'.head.to = Owner(k)
  BY <1>1, <1>3, <1>6
<1>8. ASSUME NEW j \in Live(conn_l), j # k PROVE Steady(j)
  <2>1. ServFd(j) # fd
    BY <1>2, <1>8, OneConn
  <2>2. ServFd(j) \in Fds => inq'[ServFd(j)] = inq[ServFd(j)]
    BY <1>1, <2>1 DEF SchedInv, PartsInv
  <2> QED BY <1>1, <2>2, SteadySame DEF Calm
<1>9. ServFd(k)' = ServFd(k) /\ Live(conn_l') = Live(conn_l)
  BY <1>1 DEF ServFd, Live
<1> QED BY <1>1, <1>2, <1>3, <1>7, <1>8, <1>9

(* The handler that reads a body touches the queues of its own conn only.  *)
LEMMA BodySteady ==
    ASSUME SchedInv, TextInv, pc = "body",
           UNCHANGED inq \/ (inq[BodyFd] # <<>> /\ inq' = [inq EXCEPT ![BodyFd] = Tail(inq[BodyFd])]),
           UNCHANGED fin \/ fin' = [fin EXCEPT ![BodyFd] = "eof"],
           \/ UNCHANGED asked
           \/ \E r : r.kind # "body" /\ asked' = Send(asked, BodyFd, r),
           UNCHANGED <<client_l, server_l, conn_l, peer>>
    PROVE  \E k \in Live(conn_l) :
              /\ k = job.conn /\ Owner(k) = job.head.to /\ Owner(k) = BodyOwner
              /\ ServFd(k) = BodyFd /\ BodyFd \in Fds /\ ServFd(k)' = ServFd(k)
              /\ Owner(k)' = Owner(k) /\ Live(conn_l') = Live(conn_l)
              /\ \A j \in Live(conn_l) : j # k => Steady(j)
              /\ HalfAsked(asked'[BodyFd]) => HalfAsked(asked[BodyFd])
<1> Inv
  BY DEF SchedInv, PrivInv, LoopInv
<1>1. PICK k, fd : k = job.conn /\ fd = BodyFd
  OBVIOUS
<1>2. k \in Live(conn_l) /\ ServFd(k) = fd /\ Owner(k) = job.head.to /\ Owner(k) = BodyOwner
  BY <1>1, BodyFor DEF SchedInv
<1>3. fd \in Fds
  BY <1>1, <1>2 DEF SchedInv, StopInv
<1>4. \A g \in Fds : /\ asked[g] # <<>> => asked'[g] # <<>>
                     /\ HalfAsked(asked'[g]) => HalfAsked(asked[g])
  BY SentCalm DEF TextInv
<1>5. \A g \in Fds : g # fd => inq'[g] = inq[g] /\ fin'[g] = fin[g]
  BY <1>1 DEF SchedInv, PartsInv
<1>6. ASSUME NEW j \in Live(conn_l), j # k PROVE Steady(j)
  <2>1. ServFd(j) # fd
    BY <1>2, <1>3, <1>6, OneConn
  <2>2. ServFd(j) \in Fds => Calm(ServFd(j))
    BY <1>4, <1>5, <2>1 DEF Calm
  <2> QED BY <2>2, SteadySame
<1>7. ServFd(k)' = ServFd(k) /\ Owner(k)' = Owner(k) /\ Live(conn_l') = Live(conn_l)
  BY DEF ServFd, Owner, Viewer, Live
<1> QED BY <1>1, <1>2, <1>3, <1>4, <1>6, <1>7

(* The manifest is asked for on a new conn of the same viewer. *)
LEMMA DialSteady ==
    ASSUME SchedInv, TextInv, QuietInv, DialForNolist
    PROVE  \E k \in Slots :
              /\ Live(conn_l') = Live(conn_l) \cup {k}
              /\ \A j \in Live(conn_l) : j # k /\ Steady(j)
              /\ Owner(k)' = job.head.to /\ Moving(k)' /\ Half(k)'
<1> Inv
  BY DEF SchedInv, PrivInv, LoopInv
<1>1. PICK addr, k, c, r :
        /\ addr \in ServerAddrs /\ k \in Slots
        /\ pc = "dial" /\ UNCHANGED <<peer, inq, fin>>
        /\ c = conn_l[job.conn].clit_idx /\ OpenServer(c, addr) /\ Opened(k)
        /\ r = Request(job.head.to, "nolist", nolist_buf)
        /\ asked' = Send(asked, ServFd(k)', r)
  BY DEF DialForNolist, BodyConn, ServFd, partyVars
<1>2. r.kind # "body"
  BY <1>1 DEF Request
<1>3. /\ \A g \in Fds : Calm(g)
      /\ ServFd(k)' \in Fds => fin[ServFd(k)'] # "no" \/ asked'[ServFd(k)'] # <<>>
  <2>1. PICK g : g = ServFd(k)'
    OBVIOUS
  <2> QED BY <1>1, <1>2, <2>1, SentCalm DEF TextInv, Calm
<1>4. c \in Slots
  BY <1>1, ConnClient DEF SchedInv, PrivInv
<1>5. \A j \in Live(conn_l) : j # k /\ Steady(j)
  BY <1>1, <1>3, <1>4, SteadyOpen
<1>6. /\ Live(conn_l') = Live(conn_l) \cup {k} /\ Owner(k)' = Viewer(c)
      /\ ServFd(k)' = NoFd \/ ServFd(k)' \in (Fds \cap open') \ open
  BY <1>1, <1>4, OpenLeaves
<1>7. Owner(k)' = job.head.to
  <2>1. BodyOwner = job.head.to /\ BodyOwner = Viewer(c)
    BY <1>1, BodyFor DEF SchedInv, BodyOwner, BodyConn
  <2> QED BY <1>6, <2>1
<1>8. PICK fd : fd = ServFd(k)'
  OBVIOUS
<1>9. Moving(k)'
  BY <1>1, <1>3, <1>6, <1>8 DEF Moving
<1>10. Half(k)'
  <2>1. fd \in Fds => fd \notin open
    BY <1>6, <1>8, PoolAssumption DEF NoFd
  <2>2. fd \in Fds => asked[fd] = <<>>
    BY <2>1 DEF QuietInv, Quiet
  <2>3. fd \in Fds => ~HalfAsked(asked'[fd])
    BY <1>3, <2>2 DEF Calm, HalfAsked
  <2> QED BY <1>8, <2>3 DEF Half
<1> QED BY <1>1, <1>5, <1>6, <1>7, <1>9, <1>10

(* Peers: a viewer writes to its own socket, a server to its own. *)
LEMMA ViewerSteady ==
    ASSUME SchedInv, NEW v \in Viewers, Knock(v) \/ SendRequest(v) \/ SendHeaders(v) \/ Leave(v)
    PROVE  /\ Live(conn_l') = Live(conn_l) /\ \A k \in Live(conn_l) : Steady(k)
           /\ UNCHANGED <<pc, job, client_l, peer>>
<1>1. UNCHANGED <<client_l, server_l, conn_l, peer, asked, pc, job>>
  BY DEF Knock, SendRequest, SendHeaders, Leave, partyVars, chanVars, loopVars,
         poolVars, clientVars, serverVars, connVars
<1>2. PICK fd, q :
        /\ (fd \in Fds /\ peer[fd] = v) \/ UNCHANGED <<inq, fin>>
        /\ UNCHANGED inq \/ inq' = [inq EXCEPT ![fd] = q]
        /\ UNCHANGED fin \/ fin' = [fin EXCEPT ![fd] = "eof"]
  BY DEF Knock, SendRequest, SendHeaders, Leave, Enqueue, FdOf, chanVars
<1>3. ASSUME NEW k \in Live(conn_l) PROVE Steady(k)
  <2>1. CASE UNCHANGED <<inq, fin>>
    BY <1>1, <2>1, SteadySame DEF Calm
  <2>2. CASE fd \in Fds /\ peer[fd] = v
    <3>1. peer[fd] # NULL
      BY <2>2, ProxyAssumption DEF ProxyAssumption
    <3>2. ServFd(k) # fd
      BY <2>2, <3>1 DEF SchedInv, PrivInv, ChanInv, Mail
    <3> QED BY <1>1, <1>2, <3>2, SteadyViewer
  <2> QED BY <1>2, <2>1, <2>2
<1>4. Live(conn_l') = Live(conn_l)
  BY <1>1 DEF Live
<1> QED BY <1>1, <1>3, <1>4

(* An answer, whole or half, or an end: the server's conn keeps moving, or *)
(* the handler that waits for the body has it.                             *)
LEMMA ServerSteady ==
    ASSUME SchedInv, TextInv, NEW fd \in Fds,
           ServerAnswers(fd) \/ ServerDies(fd) \/ ServerLeaves(fd)
    PROVE  /\ Live(conn_l') = Live(conn_l) /\ UNCHANGED <<pc, job, client_l, conn_l, server_l, peer>>
           /\ \A k \in Live(conn_l) : ServFd(k) # fd => Steady(k)
           /\ \A k \in Live(conn_l) : ServFd(k)' = ServFd(k) /\ Owner(k)' = Owner(k)
           /\ fin'[fd] # "no" \/ ~HalfAsked(asked'[fd]) \/ HeadLast(inq'[fd])
           /\ \/ fin'[fd] # "no"
              \/ \E e \in ToSet(inq'[fd]) : e.part = "head"
              \/ HalfAsked(asked[fd]) /\ fin[fd] = "no" /\ UNCHANGED fin
                 /\ inq' = [inq EXCEPT ![fd] = inq[fd] \o <<Body>>]
<1>1. /\ UNCHANGED <<pc, job, client_l, server_l, conn_l, peer>>
      /\ \A g \in Fds : g # fd => inq'[g] = inq[g] /\ fin'[g] = fin[g] /\ asked'[g] = asked[g]
  <2>1. UNCHANGED <<pc, job, client_l, server_l, conn_l, peer>>
    BY DEF ServerAnswers, ServerDies, ServerLeaves, partyVars, loopVars, poolVars, clientVars,
           serverVars, connVars
  <2>2. /\ UNCHANGED inq \/ \E q : inq' = [inq EXCEPT ![fd] = q]
        /\ UNCHANGED fin \/ \E how : fin' = [fin EXCEPT ![fd] = how]
        /\ \E a : asked' = [asked EXCEPT ![fd] = a]
    BY DEF ServerAnswers, ServerDies, ServerLeaves, Enqueue
  <2>3. DOMAIN inq = Fds /\ DOMAIN fin = Fds /\ DOMAIN asked = Fds
    BY DEF SchedInv, PartsInv, TextInv, AsksInv
  <2> QED BY <2>1, <2>2, <2>3
<1>2. \A k \in Live(conn_l) :
         /\ ServFd(k) # fd => Steady(k)
         /\ ServFd(k)' = ServFd(k) /\ Owner(k)' = Owner(k)
  <2>1. ASSUME NEW k \in Live(conn_l), ServFd(k) # fd PROVE Steady(k)
    BY <1>1, <2>1, SteadySame DEF Calm
  <2> QED BY <1>1, <2>1 DEF ServFd, Owner, Viewer
<1>3. Live(conn_l') = Live(conn_l)
  BY <1>1 DEF Live
<1>4. DOMAIN inq = Fds /\ DOMAIN fin = Fds /\ DOMAIN asked = Fds /\ IsQueue(inq[fd])
  BY DEF SchedInv, PartsInv, TextInv, AsksInv
<1>5. CASE ServerDies(fd) \/ ServerLeaves(fd)
  <2>1. fin'[fd] # "no"
    BY <1>4, <1>5 DEF ServerDies, ServerLeaves
  <2> QED BY <1>1, <1>2, <1>3, <2>1
<1>6. CASE ServerAnswers(fd)
  <2>1. PICK a, r : a = asked[fd] /\ r = Head(a)
    OBVIOUS
  <2>2. AsksOK(a) /\ a # <<>> /\ fin[fd] = "no"
    BY <1>6, <2>1 DEF ServerAnswers, TextInv, AsksInv
  <2>3. ~HalfAsked(Tail(a))
    <3>1. PICK t : t = Tail(a)
      OBVIOUS
    <3>2. IsQueue(t) /\ \A n \in DOMAIN t : t[n].kind # "body"
      BY <2>2, <3>1, AsksTail DEF AsksOK
    <3>3. t # <<>> => Head(t) = t[1] /\ 1 \in DOMAIN t
      BY <3>2 DEF IsQueue
    <3> QED BY <3>1, <3>2, <3>3 DEF HalfAsked
  <2>4. CASE r.kind = "body"
    <3>1. /\ inq' = [inq EXCEPT ![fd] = inq[fd] \o <<Body>>] /\ UNCHANGED fin
          /\ asked' = [asked EXCEPT ![fd] = Tail(a)]
      BY <1>6, <2>1, <2>4 DEF ServerAnswers, Enqueue
    <3>2. asked'[fd] = Tail(a) /\ HalfAsked(asked[fd])
      BY <1>4, <2>1, <2>2, <2>4, <3>1 DEF HalfAsked
    <3> QED BY <1>1, <1>2, <1>3, <2>2, <2>3, <3>1, <3>2
  <2>5. CASE r.kind # "body"
    <3>1. PICK type, close :
            LET h == ResponseHead(r, type, close, "no")
            IN \/ /\ inq' = [inq EXCEPT ![fd] = inq[fd] \o <<h, Body>>]
                  /\ asked' = [asked EXCEPT ![fd] = Tail(a)]
               \/ inq' = [inq EXCEPT ![fd] = inq[fd] \o <<h>>]
      BY <1>6, <2>1, <2>5 DEF ServerAnswers, Enqueue
    <3>2. PICK h, b : h = ResponseHead(r, type, close, "no") /\ b = Body
      OBVIOUS
    <3>3. h.part = "head"
      BY <3>2 DEF ResponseHead
    <3>4. CASE inq' = [inq EXCEPT ![fd] = inq[fd] \o <<h>>]
      <4>1. inq'[fd] = inq[fd] \o <<h>>
        BY <1>4, <3>4
      <4>2. HeadLast(inq'[fd]) /\ h \in ToSet(inq'[fd])
        BY <1>4, <3>3, <4>1, HeadPutLast
      <4> QED BY <1>1, <1>2, <1>3, <3>3, <4>2
    <3>5. CASE /\ inq' = [inq EXCEPT ![fd] = inq[fd] \o <<h, b>>]
               /\ asked' = [asked EXCEPT ![fd] = Tail(a)]
      <4>1. inq'[fd] = inq[fd] \o <<h, b>> /\ asked'[fd] = Tail(a)
        BY <1>4, <3>5
      <4>2. h \in ToSet(inq'[fd])
        <5>1. PICK q, S, p : q = inq[fd] /\ q \in Seq(S) /\ p = <<h, b>>
          BY <1>4 DEF IsQueue
        <5>2. q \in Seq(S \cup {h, b}) /\ p \in Seq(S \cup {h, b}) /\ Len(p) = 2 /\ p[1] = h
          BY <5>1
        <5>3. PICK j : j = q \o p
          OBVIOUS
        <5>4. PICK m \in Nat : m = Len(q)
          BY <5>2
        <5>5. PICK n \in Nat : n = Len(p) /\ n = 2
          BY <5>2
        <5>6. PICK T : q \in Seq(T) /\ p \in Seq(T)
          BY <5>2
        <5>7. /\ j \in Seq(T) /\ Len(j) = Len(q) + Len(p)
              /\ \A x \in 1..Len(p) : j[Len(q) + x] = p[x]
          BY <5>3, <5>6, JoinIs
        <5>8. j[m + 1] = h
          BY <5>2, <5>4, <5>5, <5>7
        <5>9. m + 1 \in DOMAIN j
          BY <5>4, <5>5, <5>7
        <5> QED BY <4>1, <5>1, <5>3, <5>8, <5>9 DEF ToSet
      <4> QED BY <1>1, <1>2, <1>3, <2>3, <3>3, <4>1, <4>2
    <3> QED BY <3>1, <3>2, <3>4, <3>5
  <2> QED BY <2>4, <2>5
<1> QED BY <1>5, <1>6

-----------------------------------------------------------------------------
(* A server that owes a body has its head, or the handler has it, unread   *)
(* last: kept by every step.                                               *)
LEMMA HalfFrame ==
    ASSUME HalfInv, Live(conn_l') = Live(conn_l), \A k \in Live(conn_l) : Steady(k),
           pc = "body" => UNCHANGED <<pc, job>>
    PROVE  HalfInv'
BY SteadyHalf DEF HalfInv

LEMMA HalfClosed ==
    ASSUME SchedInv, Inv', HalfInv, NEW k \in Slots, CloseConn(k), WithClosed,
           pc = "body" => k = job.conn
    PROVE  HalfInv'
<1>1. Inv
  BY DEF SchedInv, PrivInv, LoopInv
<1>2. ASSUME NEW j \in Live(conn_l') PROVE Half(j)'
  <2>1. j \in Live(conn_l) /\ j # k /\ Steady(j)
    BY <1>1, <1>2, SteadyClose
  <2> QED BY <2>1, SteadyHalf DEF HalfInv
<1> QED BY <1>2 DEF HalfInv

LEMMA HalfRouted == ASSUME SchedInv, QuietInv, HalfInv, Route PROVE HalfInv'
<1> Inv
  BY DEF SchedInv, PrivInv, LoopInv
<1>1. UNCHANGED <<peer, inq, fin, asked>> /\ pc = "route" /\ job.idx \in Slots
  BY DEF Route, chanVars, partyVars, SchedInv, PrivInv, LoopInv, JobOK
<1>2. \A k \in Live(conn_l) : k \in Live(conn_l') /\ Half(k)'
  BY <1>1, RouteSteady, SteadyHalf DEF HalfInv
<1>3. CASE UNCHANGED poolVars
  BY <1>2, <1>3 DEF HalfInv, Live, poolVars, connVars
<1>4. ASSUME NEW addr \in ServerAddrs, NEW k \in Slots, OpenServer(job.idx, addr), Opened(k)
      PROVE  HalfInv'
  <2>1. /\ Live(conn_l') = Live(conn_l) \cup {k}
        /\ ServFd(k)' = NoFd \/ ServFd(k)' \in (Fds \cap open') \ open
    BY <1>1, <1>4, OpenLeaves
  <2>2. PICK fd : fd = ServFd(k)'
    OBVIOUS
  <2>3. fd \in Fds => asked'[fd] = <<>>
    <3>1. fd \in Fds => fd \notin open
      BY <2>1, <2>2, PoolAssumption DEF NoFd
    <3> QED BY <1>1, <3>1 DEF QuietInv, Quiet
  <2>4. Half(k)'
    BY <2>2, <2>3 DEF Half, HalfAsked
  <2> QED BY <1>2, <2>1, <2>4 DEF HalfInv
<1> QED BY <1>3, <1>4 DEF Route

LEMMA HalfServed ==
    ASSUME SchedInv, Inv', HalfInv, NEW i \in Slots, ReadHead(i) \/ ReadCutHead(i) \/ ReadNoHead(i)
    PROVE  HalfInv'
<1>1. pc = "servers"
  BY DEF ReadHead, ReadCutHead, ReadNoHead, ServerTurn
<1>2. ASSUME NEW k \in Slots, CloseAndReturn(k, "servers", i) PROVE HalfInv'
  BY <1>1, <1>2, HalfClosed DEF CloseAndReturn
<1>3. CASE UNCHANGED <<client_l, server_l, conn_l, peer, inq, fin, asked>>
  BY <1>1, <1>3, SteadySame, HalfFrame DEF Calm, Live
<1>4. CASE ReadHead(i) /\ pc' = "body"
  <2>1. PICK k, q :
          /\ k \in Live(conn_l)
          /\ Live(conn_l') = Live(conn_l) /\ UNCHANGED <<peer, fin, asked>>
          /\ ServFd(k) \in Fds /\ q = inq[ServFd(k)] /\ q # <<>>
          /\ inq' = [inq EXCEPT ![ServFd(k)] = Tail(q)]
          /\ ServFd(k)' = ServFd(k) /\ job'.conn = k
          /\ \A j \in Live(conn_l) : j # k => Steady(j)
    BY <1>4, HeadSteady
  <2>2. PICK fd : fd = ServFd(k)
    OBVIOUS
  <2>3. IsQueue(q) /\ inq'[fd] = Tail(q)
    BY <2>1, <2>2 DEF SchedInv, PartsInv
  <2>4. Half(k)
    BY <2>1 DEF HalfInv
  <2>5. HalfAsked(asked[fd]) /\ fin[fd] = "no" => HeadLast(Tail(q)) \/ Tail(q) = <<>>
    BY <1>1, <2>1, <2>2, <2>3, <2>4, HeadStaysLast DEF Half
  <2>6. Half(k)'
    BY <1>4, <2>1, <2>2, <2>3, <2>5 DEF Half
  <2>7. \A j \in Live(conn_l) : j # k => Half(j)'
    BY <1>1, <2>1, SteadyHalf DEF HalfInv
  <2> QED BY <2>1, <2>6, <2>7 DEF HalfInv
<1>5. CASE ReadHead(i)
  BY <1>2, <1>4, <1>5 DEF ReadHead
<1>6. CASE ReadCutHead(i) \/ ReadNoHead(i)
  <2>1. \/ \E k \in Slots : CloseAndReturn(k, "servers", i)
        \/ UNCHANGED <<chanVars, partyVars, poolVars>>
    BY <1>6 DEF ReadCutHead, ReadNoHead
  <2> QED BY <1>2, <1>3, <2>1 DEF chanVars, partyVars, poolVars, clientVars, serverVars, connVars
<1> QED BY <1>5, <1>6

LEMMA BodyAlone ==
    ASSUME SchedInv, TextInv, ForwardBody \/ KeepList \/ BodyLost, ~CloseBodyConn
    PROVE  \E k \in Live(conn_l) : \E fd \in Fds :
              /\ k = job.conn /\ fd = BodyFd /\ ServFd(k) = fd /\ ServFd(k)' = fd
              /\ Owner(k) = BodyOwner /\ Owner(k) = job.head.to /\ Owner(k)' = Owner(k)
              /\ Live(conn_l') = Live(conn_l) /\ UNCHANGED peer
              /\ \A j \in Live(conn_l) : j # k => Steady(j)
              /\ HalfAsked(asked'[fd]) => HalfAsked(asked[fd])
              /\ \/ /\ inq[fd] # <<>> /\ inq[fd][1].part = "body"
                    /\ inq' = [inq EXCEPT ![fd] = Tail(inq[fd])] /\ UNCHANGED fin
                 \/ UNCHANGED inq /\ fin[fd] # "no" /\ fin'[fd] # "no"
<1>1. pc = "body"
  BY DEF ForwardBody, KeepList, BodyLost
<1>2. /\ UNCHANGED <<client_l, server_l, conn_l, peer>>
      /\ UNCHANGED fin \/ fin' = [fin EXCEPT ![BodyFd] = "eof"]
      /\ UNCHANGED asked \/ \E r : r.kind # "body" /\ asked' = Send(asked, BodyFd, r)
  <2>1. Request(job.head.to, "nolist", nolist_buf).kind # "body"
    BY DEF Request
  <2> QED BY <2>1 DEF ForwardBody, KeepList, BodyLost, Answer, chanVars, partyVars,
                      poolVars, clientVars, serverVars, connVars
<1>3. \/ /\ inq[BodyFd] # <<>> /\ inq[BodyFd][1].part = "body"
         /\ inq' = [inq EXCEPT ![BodyFd] = Tail(inq[BodyFd])] /\ UNCHANGED fin
      \/ UNCHANGED inq /\ fin[BodyFd] # "no"
  BY DEF ForwardBody, KeepList, BodyLost, Drained, Starts, chanVars
<1>4. PICK k, fd :
        /\ k \in Live(conn_l)
        /\ k = job.conn /\ fd = BodyFd /\ ServFd(k) = fd /\ fd \in Fds /\ ServFd(k)' = fd
        /\ Owner(k) = BodyOwner /\ Owner(k) = job.head.to /\ Owner(k)' = Owner(k)
        /\ Live(conn_l') = Live(conn_l)
        /\ \A j \in Live(conn_l) : j # k => Steady(j)
        /\ HalfAsked(asked'[fd]) => HalfAsked(asked[fd])
  BY <1>1, <1>2, <1>3, BodySteady
<1>5. fin[fd] # "no" => fin'[fd] # "no"
  BY <1>2, <1>4 DEF SchedInv, PartsInv
<1> QED BY <1>2, <1>3, <1>4, <1>5

LEMMA HalfRead ==
    ASSUME SchedInv, Inv', TextInv, HalfInv, ForwardBody \/ KeepList \/ BodyLost
    PROVE  HalfInv'
<1>1. pc = "body" /\ job.conn \in Slots
  BY DEF ForwardBody, KeepList, BodyLost, SchedInv, PrivInv, LoopInv, JobOK
<1>2. CASE CloseBodyConn
  BY <1>1, <1>2, HalfClosed DEF CloseBodyConn
<1>3. CASE ~CloseBodyConn
  <2>1. PICK k, fd :
          /\ k \in Live(conn_l)
          /\ k = job.conn /\ ServFd(k) = fd /\ fd \in Fds /\ ServFd(k)' = fd
          /\ Live(conn_l') = Live(conn_l)
          /\ \A j \in Live(conn_l) : j # k => Steady(j)
          /\ HalfAsked(asked'[fd]) => HalfAsked(asked[fd])
          /\ \/ /\ inq[fd] # <<>> /\ inq[fd][1].part = "body"
                /\ inq' = [inq EXCEPT ![fd] = Tail(inq[fd])] /\ UNCHANGED fin
             \/ UNCHANGED inq /\ fin[fd] # "no" /\ fin'[fd] # "no"
    BY <1>3, BodyAlone
  <2>2. PICK q : q = inq[fd] /\ IsQueue(q)
    BY <2>1 DEF SchedInv, PartsInv
  <2>3. Half(k)
    BY <2>1 DEF HalfInv
  <2>4. ASSUME fin'[fd] # "no" PROVE Half(k)'
    BY <2>1, <2>4 DEF Half
  <2>5. ASSUME q # <<>>, q[1].part = "body", UNCHANGED fin, inq' = [inq EXCEPT ![fd] = Tail(q)]
        PROVE  Half(k)'
    <3>1. inq'[fd] = Tail(q)
      BY <2>1, <2>5 DEF SchedInv, PartsInv
    <3>2. HalfAsked(asked[fd]) /\ fin[fd] = "no" => HeadLast(Tail(q))
      BY <2>1, <2>2, <2>3, <2>5, HeadStaysLast DEF Half
    <3> QED BY <2>1, <2>5, <3>1, <3>2 DEF Half
  <2>6. Half(k)'
    BY <2>1, <2>2, <2>4, <2>5
  <2>7. \A j \in Live(conn_l) : j # k => Half(j)'
    BY <2>1, SteadyHalf DEF HalfInv
  <2> QED BY <2>1, <2>6, <2>7 DEF HalfInv
<1> QED BY <1>2, <1>3

(* The body is there, or its server is gone, when its handler is stuck. *)
LEMMA HalfStuck ==
    ASSUME SchedInv, HalfInv, SendSpins \/ ResolveHangs
    PROVE  HalfInv'
<1>1. Live(conn_l') = Live(conn_l) /\ \A k \in Live(conn_l) : Steady(k)
  BY StuckSteady
<1>2. ASSUME NEW k \in Live(conn_l), pc = "body", job.conn = k PROVE Half(k)'
  <2>1. BodyFd = ServFd(k)
    BY <1>2, BodyFor DEF SchedInv
  <2>2. fin[BodyFd] # "no" \/ inq[BodyFd] # <<>>
    BY <1>2 DEF SendSpins, ResolveHangs, SendsToViewer, SendsToServer, ClientTurn, ServerTurn, Starts
  <2>3. UNCHANGED <<inq, fin, asked>> /\ ServFd(k)' = ServFd(k)
    BY <1>1, <1>2, StuckInPlace DEF chanVars, Steady
  <2>4. Half(k)
    BY DEF HalfInv
  <2>5. fin[ServFd(k)] # "no" \/ inq[ServFd(k)] # <<>>
    BY <2>1, <2>2
  <2> QED BY <2>3, <2>4, <2>5 DEF Half, HalfAsked, HeadLast
<1>3. ASSUME NEW k \in Live(conn_l), ~(pc = "body" /\ job.conn = k) PROVE Half(k)'
  BY <1>1, <1>3, SteadyHalf DEF HalfInv
<1> QED BY <1>1, <1>2, <1>3 DEF HalfInv

LEMMA HalfKept ==
    ASSUME NetInv, HalfInv, Inv', [Next]_vars PROVE HalfInv'
<1> SchedInv /\ TextInv /\ QuietInv
  BY DEF NetInv
<1>1. CASE Select \/ AcceptViewer \/ AcceptGivesUp \/ EndScan \/ TablesFull
  <2>1. pc # "body"
    BY <1>1 DEF Select, AcceptViewer, AcceptGivesUp, EndScan, TablesFull
  <2> QED BY <1>1, <2>1, LoopSteady, HalfFrame
<1>2. ASSUME NEW i \in Slots, ReadGet(i) \/ ReadOther(i) \/ ReadNothing(i) PROVE HalfInv'
  <2>1. pc # "body"
    BY <1>2 DEF ReadGet, ReadOther, ReadNothing, ClientTurn
  <2> QED BY <1>2, <2>1, ClientSteady, HalfFrame
<1>3. CASE DropRequest
  <2>1. pc = "forward" /\ job.conn \in Slots /\ CloseConn(job.conn) /\ WithClosed
    BY <1>3 DEF DropRequest, SchedInv, PrivInv, LoopInv, JobOK
  <2> QED BY <2>1, HalfClosed
<1>4. CASE ForwardRequest
  <2>1. pc = "forward"
    BY <1>4 DEF ForwardRequest
  <2> QED BY <1>4, <2>1, ForwardSteady, HalfFrame
<1>5. CASE DialForNolist
  <2>1. pc = "dial"
    BY <1>5 DEF DialForNolist
  <2>2. PICK k \in Slots :
          /\ Live(conn_l') = Live(conn_l) \cup {k} /\ Half(k)'
          /\ \A j \in Live(conn_l) : j # k /\ Steady(j)
    BY <1>5, DialSteady
  <2>3. \A j \in Live(conn_l) : Half(j)'
    BY <2>1, <2>2, SteadyHalf DEF HalfInv
  <2> QED BY <2>2, <2>3 DEF HalfInv
<1>6. ASSUME NEW v \in Viewers, Knock(v) \/ SendRequest(v) \/ SendHeaders(v) \/ Leave(v)
      PROVE  HalfInv'
  BY <1>6, ViewerSteady, HalfFrame
<1>7. ASSUME NEW fd \in Fds, ServerAnswers(fd) \/ ServerDies(fd) \/ ServerLeaves(fd)
      PROVE  HalfInv'
  <2>1. /\ Live(conn_l') = Live(conn_l) /\ UNCHANGED <<pc, job>>
        /\ \A k \in Live(conn_l) : ServFd(k) # fd => Steady(k)
        /\ \A k \in Live(conn_l) : ServFd(k)' = ServFd(k)
        /\ fin'[fd] # "no" \/ ~HalfAsked(asked'[fd]) \/ HeadLast(inq'[fd])
    BY <1>7, ServerSteady
  <2>2. ASSUME NEW k \in Live(conn_l) PROVE Half(k)'
    <3>1. CASE ServFd(k) # fd
      BY <2>1, <3>1, SteadyHalf DEF HalfInv
    <3>2. CASE ServFd(k) = fd
      BY <2>1, <3>2 DEF Half
    <3> QED BY <3>1, <3>2
  <2> QED BY <2>1, <2>2 DEF HalfInv
<1>8. CASE UNCHANGED vars
  BY <1>8, SteadySame, HalfFrame DEF Calm, Live, vars, loopVars, chanVars, partyVars, poolVars,
                                     clientVars, serverVars, connVars
<1> QED BY <1>1, <1>2, <1>3, <1>4, <1>5, <1>6, <1>7, <1>8, HalfRouted, HalfStuck, HalfServed, HalfRead
        DEF Next, ProxyStep, PeerStep, ClientStep, ServerStep

-----------------------------------------------------------------------------
(* A waiting viewer is remembered.  Frame: unread pieces, handlers and     *)
(* conns, each kept or made up for.                                        *)
LEMMA LinkedStays ==
    ASSUME Inv, NEW k \in Live(conn_l), k \in Live(conn_l'), Steady(k), NEW v, Owner(k) = v,
           v \in stranded => v \in stranded', Moving(k) \/ v \in stranded
    PROVE  Linked(v)'
<1>1. Owner(k)' = v /\ (Moving(k)' \/ v \in stranded')
  BY SteadyMoving DEF Steady
<1> QED BY <1>1 DEF Linked

LEMMA Frame ==
    ASSUME Inv, NEW v, Remembered(v), v \in stranded => v \in stranded',
           \A fd \in Fds : peer[fd] = v /\ inq[fd] # <<>> =>
                             Remembered(v)' \/ (peer'[fd] = v /\ inq'[fd] # <<>>),
           Served(v) => Remembered(v)',
           \A k \in Live(conn_l) : Owner(k) = v =>
                                     Remembered(v)' \/ (k \in Live(conn_l') /\ Steady(k))
    PROVE  Remembered(v)'
<1>1. CASE Unread(v)
  BY <1>1 DEF Unread, Remembered
<1>2. CASE Linked(v)
  <2>1. PICK k \in Live(conn_l) : Owner(k) = v /\ (Moving(k) \/ v \in stranded)
    BY <1>2 DEF Linked
  <2> QED BY <2>1, LinkedStays DEF Remembered
<1> QED BY <1>1, <1>2 DEF Remembered

(* A conn goes: its viewer is dropped with it, or left stranded. *)
LEMMA RememberClosed ==
    ASSUME SchedInv, Inv', WaitInv, NEW k \in Slots, CloseConn(k), WithClosed,
           NEW v \in waiting', Remembered(v), Served(v) => Owner(k) = v
    PROVE  Remembered(v)'
<1> Inv
  BY DEF SchedInv, PrivInv, LoopInv
<1> DEFINE shut == open \ open'
           dropped == {peer[fd] : fd \in shut} \ {NULL}
           parted == {Viewer(conn_l[j].clit_idx) : j \in {j \in Live(conn_l) : conn_l'[j] = NULL}}
<1>1. /\ inq' = [fd \in Fds |-> IF fd \in shut THEN <<>> ELSE inq[fd]]
      /\ peer' = [fd \in Fds |-> IF fd \in shut THEN NULL ELSE peer[fd]]
      /\ waiting' = waiting \ dropped
      /\ stranded' = stranded \cup ((parted \cap waiting) \ dropped)
  BY DEF WithClosed
<1>2. v \in waiting /\ v \notin dropped
  BY <1>1
<1>3. v # NULL
  BY <1>2, ProxyAssumption DEF WaitInv, ProxyAssumption
<1>4. \A fd \in Fds : peer[fd] = v => fd \notin shut
  BY <1>2, <1>3
<1>5. \A fd \in Fds : peer[fd] = v => peer'[fd] = v /\ inq'[fd] = inq[fd]
  BY <1>1, <1>4
<1>6. /\ k \in Live(conn_l) /\ Live(conn_l') = Live(conn_l) \ {k} /\ conn_l'[k] = NULL
      /\ \A j \in Live(conn_l') : Steady(j)
      /\ \/ \E j \in Live(conn_l') : Owner(j) = Owner(k)
         \/ \E fd \in shut : peer[fd] = Owner(k)
  BY CloseLeaves, SteadyClose
<1>7. ASSUME Owner(k) = v PROVE Remembered(v)'
  <2>1. v \in parted
    BY <1>6, <1>7 DEF Owner
  <2>2. v \in stranded'
    BY <1>1, <1>2, <2>1
  <2>3. \A fd \in shut : peer[fd] # v
    BY <1>2, <1>3
  <2>4. PICK j \in Live(conn_l') : Owner(j) = v
    BY <1>6, <1>7, <2>3
  <2>5. Owner(j)' = v
    BY <1>6, <2>4 DEF Steady
  <2> QED BY <2>2, <2>4, <2>5 DEF Linked, Remembered
<1>8. v \in stranded => v \in stranded'
  BY <1>1
<1> HIDE DEF shut, dropped, parted
<1> QED BY <1>5, <1>6, <1>7, <1>8, Frame

(* The loop, and the handlers that read a client. *)
LEMMA RememberLoop ==
    ASSUME NetInv, WaitInv, NEW v \in waiting, Remembered(v),
           Select \/ AcceptViewer \/ AcceptGivesUp \/ EndScan \/ TablesFull
    PROVE  Remembered(v)'
<1> SchedInv /\ QuietInv /\ Inv
  BY DEF NetInv, SchedInv, PrivInv, LoopInv
<1>1. UNCHANGED <<inq, stranded>>
  BY AcceptLeaves DEF Select, AcceptViewer, AcceptGivesUp, EndScan, TablesFull, chanVars, markVars,
                      histVars
<1>2. \A fd \in Fds : peer[fd] = v => peer'[fd] = v
  <2>1. CASE AcceptViewer
    <3>1. v # NULL
      BY ProxyAssumption DEF WaitInv, ProxyAssumption
    <3>2. \A fd \in Fds : peer[fd] = v => fd \in open
      BY <3>1 DEF QuietInv, Quiet
    <3> QED BY <2>1, <3>2, AcceptLeaves
  <2>2. CASE Select \/ AcceptGivesUp \/ EndScan \/ TablesFull
    BY <2>2 DEF Select, AcceptGivesUp, EndScan, TablesFull, partyVars
  <2> QED BY <2>1, <2>2
<1>3. Served(v) => Served(v)'
  BY DEF Served, Select, AcceptViewer, AcceptGivesUp, EndScan, TablesFull, Stop
<1> QED BY <1>1, <1>2, <1>3, LoopSteady, Frame DEF Remembered

LEMMA ReadOutcome ==
    ASSUME NEW i, ReadGet(i) \/ ReadOther(i) \/ ReadNothing(i)
    PROVE  \/ pc' = "hung" \/ Refuse(i) \/ UNCHANGED inq
           \/ pc' = "route" /\ job'.idx = i
<1>1. ASSUME NEW g, NEW ok, Parsed(i, g, ok)
      PROVE  Refuse(i) \/ (pc' = "route" /\ job'.idx = i)
  BY <1>1 DEF Parsed
<1>2. ASSUME NEW g, NEW more, RequestHeaders(i, g, more)
      PROVE  pc' = "hung" \/ Refuse(i) \/ (pc' = "route" /\ job'.idx = i)
  BY <1>1, <1>2 DEF RequestHeaders, Stop
<1> QED BY <1>2, OtherLine DEF ReadGet, Refused, ReadNothing

LEMMA RememberStuck ==
    ASSUME NetInv, NEW v \in waiting, Remembered(v), SendSpins \/ ResolveHangs
    PROVE  Remembered(v)'
BY StuckInPlace DEF Served, Remembered

LEMMA RememberClient ==
    ASSUME NetInv, WaitInv, NEW i \in Slots, ReadGet(i) \/ ReadOther(i) \/ ReadNothing(i),
           NEW v \in waiting', v \in waiting, Remembered(v)
    PROVE  Remembered(v)'
<1> SchedInv /\ Inv
  BY DEF NetInv, SchedInv, PrivInv, LoopInv
<1>1. /\ pc = "clients" /\ client_l[i] # NULL
      /\ UNCHANGED <<client_l, peer, stranded>>
  BY DEF ReadGet, ReadOther, ReadNothing, ClientTurn, ScanAt, Marked, partyVars, markVars, histVars,
         poolVars, clientVars
<1>2. ASSUME Refuse(i) PROVE v # Viewer(i)
  BY <1>2 DEF Refuse, Deliver, WaitInv
<1>3. PICK q : inq' = [inq EXCEPT ![client_l[i].fd] = q] \/ UNCHANGED inq
  BY ClientShrinks
<1>4. ASSUME NEW fd \in Fds, peer[fd] = v, inq[fd] # <<>>
      PROVE  Remembered(v)' \/ (peer'[fd] = v /\ inq'[fd] # <<>>)
  <2>1. CASE fd # client_l[i].fd \/ UNCHANGED inq
    BY <1>1, <1>3, <1>4, <2>1 DEF SchedInv, PartsInv
  <2>2. CASE fd = client_l[i].fd /\ ~UNCHANGED inq
    <3>1. v = Viewer(i) /\ Viewer(i)' = v
      BY <1>1, <1>4, <2>2 DEF Viewer
    <3>2. pc' = "hung" \/ (pc' = "route" /\ job'.idx = i)
      BY <1>2, <2>2, <3>1, ReadOutcome
    <3>3. Served(v)'
      BY <3>1, <3>2 DEF Served, Viewer
    <3> QED BY <3>3 DEF Remembered
  <2> QED BY <2>1, <2>2
<1>5. ~Served(v)
  BY <1>1 DEF Served
<1> QED BY <1>1, <1>4, <1>5, ClientSteady, Frame

(* A request on its way to a server. *)
LEMMA RememberRoute ==
    ASSUME NetInv, Route, NEW v \in waiting, Remembered(v)
    PROVE  Remembered(v)'
<1> SchedInv /\ Inv
  BY DEF NetInv, SchedInv, PrivInv, LoopInv
<1>1. PICK c : c = job.idx
  OBVIOUS
<1>2. /\ UNCHANGED <<peer, inq, stranded>> /\ pc = "route" /\ pc' = "forward"
      /\ c \in Slots /\ job'.idx = c
  BY <1>1 DEF Route, chanVars, partyVars, markVars, histVars, SchedInv, PrivInv, LoopInv, JobOK,
              JobFor
<1>3. Viewer(c)' = Viewer(c)
  <2>1. CASE UNCHANGED poolVars
    BY <1>2, <2>1 DEF Viewer, poolVars, clientVars
  <2>2. ASSUME NEW addr \in ServerAddrs, NEW k \in Slots, OpenServer(c, addr), Opened(k)
        PROVE  Viewer(c)' = Viewer(c)
    BY <1>2, <2>2, OpenLeaves
  <2> QED BY <1>1, <2>1, <2>2 DEF Route
<1>4. Served(v) => Served(v)'
  BY <1>1, <1>2, <1>3 DEF Served, Viewer
<1> QED BY <1>2, <1>4, RouteSteady, Frame DEF Remembered

LEMMA RememberForward ==
    ASSUME NetInv, ForwardRequest, NEW v \in waiting, Remembered(v)
    PROVE  Remembered(v)'
<1> SchedInv /\ TextInv /\ Inv
  BY DEF NetInv, SchedInv, PrivInv, LoopInv
<1>1. UNCHANGED <<peer, inq, stranded>> /\ pc = "forward"
  BY DEF ForwardRequest, partyVars
<1>2. ASSUME Served(v) PROVE Remembered(v)'
  <2>1. PICK k \in Live(conn_l') : Owner(k)' = v /\ Moving(k)'
    BY <1>1, <1>2, ForwardSteady DEF Served, Steady
  <2> QED BY <2>1 DEF Linked, Remembered
<1> QED BY <1>1, <1>2, ForwardSteady, Frame

LEMMA RememberDrop ==
    ASSUME NetInv, Inv', WaitInv, DropRequest, NEW v \in waiting', Remembered(v)
    PROVE  Remembered(v)'
<1>1. /\ pc = "forward" /\ job.conn \in Slots /\ CloseConn(job.conn) /\ WithClosed
      /\ Owner(job.conn) = Viewer(job.idx)
  BY DEF DropRequest, NetInv, SchedInv, PrivInv, LoopInv, JobOK, JobFor
<1>2. Served(v) => Owner(job.conn) = v
  BY <1>1 DEF Served
<1> QED BY <1>1, <1>2, RememberClosed DEF NetInv

(* A head read from a server. *)
LEMMA RememberHead ==
    ASSUME NetInv, Inv', WaitInv, NEW i \in Slots,
           ReadHead(i) \/ ReadCutHead(i) \/ ReadNoHead(i),
           NEW v \in waiting', Remembered(v)
    PROVE  Remembered(v)'
<1> SchedInv /\ Inv
  BY DEF NetInv, SchedInv, PrivInv, LoopInv
<1>1. pc = "servers"
  BY DEF ReadHead, ReadCutHead, ReadNoHead, ServerTurn
<1>2. ASSUME NEW k \in Slots, CloseAndReturn(k, "servers", i) PROVE Remembered(v)'
  <2>1. CloseConn(k) /\ WithClosed
    BY <1>2 DEF CloseAndReturn
  <2>2. ~Served(v)
    BY <1>1 DEF Served
  <2> QED BY <2>1, <2>2, RememberClosed
<1>3. CASE pc' \in {"hung", "aborted"}
  BY <1>3 DEF Served, Remembered
<1>4. CASE ReadHead(i) /\ pc' = "body"
  <2>1. PICK k \in Live(conn_l) :
          /\ Live(conn_l') = Live(conn_l) /\ UNCHANGED peer
          /\ ServFd(k) \in Fds
          /\ \E q : inq' = [inq EXCEPT ![ServFd(k)] = q]
          /\ job'.head.to = Owner(k)
          /\ \A j \in Live(conn_l) : j # k => Steady(j)
    BY <1>4, HeadSteady
  <2>2. UNCHANGED stranded \/ Remembered(v)'
    BY <1>2, <1>4 DEF ReadHead, markVars, histVars
  <2>3. Owner(k) = v => Remembered(v)'
    BY <1>4, <2>1 DEF Served, Remembered
  <2>4. v # NULL
    BY <1>4, ProxyAssumption DEF ReadHead, WaitInv, ProxyAssumption, CloseAndReturn, WithClosed,
                                 answerVars
  <2>5. peer[ServFd(k)] = NULL
    BY <2>1 DEF SchedInv, PrivInv, ChanInv, Mail
  <2>6. \A fd \in Fds : peer[fd] = v => inq'[fd] = inq[fd]
    BY <2>1, <2>4, <2>5 DEF SchedInv, PartsInv
  <2>7. ~Served(v)
    BY <1>1 DEF Served
  <2> QED BY <2>1, <2>2, <2>3, <2>6, <2>7, Frame
<1>5. CASE ReadHead(i)
  BY <1>2, <1>4, <1>5 DEF ReadHead
<1>6. CASE ReadCutHead(i)
  BY <1>3, <1>6 DEF ReadCutHead, Stop
<1>7. CASE ReadNoHead(i)
  BY <1>2, <1>3, <1>7 DEF ReadNoHead, Stop
<1> QED BY <1>5, <1>6, <1>7

(* The handler with a body to read: it answers its viewer, or asks again. *)
LEMMA RememberBody ==
    ASSUME NetInv, Inv', WaitInv, ForwardBody \/ KeepList \/ BodyLost,
           NEW v \in waiting', v \in waiting, Remembered(v)
    PROVE  Remembered(v)'
<1> SchedInv /\ TextInv /\ Inv
  BY DEF NetInv, SchedInv, PrivInv, LoopInv
<1>1. /\ pc = "body" /\ job.conn \in Slots /\ job.head.to = Owner(job.conn)
      /\ place[v] = "in" /\ v # NULL
  BY BodyFor, ProxyAssumption
     DEF ForwardBody, KeepList, BodyLost, SchedInv, WaitInv, ProxyAssumption
<1>2. CASE CloseBodyConn
  <2>1. CloseConn(job.conn) /\ WithClosed /\ (Served(v) => Owner(job.conn) = v)
    BY <1>1, <1>2 DEF CloseBodyConn, Served
  <2> QED BY <1>1, <2>1, RememberClosed
<1>3. CASE ~CloseBodyConn
  <2>1. PICK k \in Live(conn_l), fd \in Fds :
          /\ fd = BodyFd /\ ServFd(k) = fd /\ ServFd(k)' = fd
          /\ Owner(k) = BodyOwner /\ Owner(k) = job.head.to /\ Owner(k)' = Owner(k)
          /\ Live(conn_l') = Live(conn_l) /\ UNCHANGED peer
          /\ \A j \in Live(conn_l) : j # k => Steady(j)
          /\ UNCHANGED inq \/ inq' = [inq EXCEPT ![fd] = Tail(inq[fd])]
    BY <1>3, BodyAlone
  <2>2. ASSUME job.head.to = v PROVE Remembered(v)'
    <3>1. ASSUME NEW film, Answer(BodyOwner, film) PROVE FALSE
      BY <1>1, <2>1, <2>2, <3>1 DEF Answer, Deliver
    <3>2. CASE pc' \in {"hung", "dial"} /\ UNCHANGED job
      BY <2>2, <3>2 DEF Served, Remembered
    <3>3. ASSUME NEW r, r.kind # "body", asked' = Send(asked, fd, r), UNCHANGED fin
          PROVE  Remembered(v)'
      <4>1. fin'[fd] # "no" \/ asked'[fd] # <<>>
        BY <3>3, SentCalm DEF TextInv
      <4> QED BY <2>1, <2>2, <4>1 DEF Moving, Linked, Remembered
    <3>4. Request(job.head.to, "nolist", nolist_buf).kind # "body"
      BY DEF Request
    <3> QED BY <1>3, <2>1, <3>1, <3>2, <3>3, <3>4 DEF ForwardBody, KeepList, BodyLost, Stop
  <2>3. Served(v) => Remembered(v)'
    BY <1>1, <2>2 DEF Served
  <2>4. peer[fd] = NULL
    BY <2>1 DEF SchedInv, PrivInv, ChanInv, Mail
  <2>5. \A g \in Fds : peer[g] = v => inq'[g] = inq[g]
    BY <1>1, <2>1, <2>4 DEF SchedInv, PartsInv
  <2>6. UNCHANGED stranded
    BY <1>3 DEF ForwardBody, KeepList, BodyLost, Answer, markVars, histVars
  <2> QED BY <2>1, <2>2, <2>3, <2>5, <2>6, Frame
<1> QED BY <1>2, <1>3

LEMMA RememberDial ==
    ASSUME NetInv, DialForNolist, NEW v \in waiting, Remembered(v)
    PROVE  Remembered(v)'
<1> SchedInv /\ TextInv /\ QuietInv /\ Inv
  BY DEF NetInv, SchedInv, PrivInv, LoopInv
<1>1. UNCHANGED <<peer, inq, stranded>> /\ pc = "dial"
  BY DEF DialForNolist, partyVars, histVars
<1>2. PICK k \in Slots :
        /\ Live(conn_l') = Live(conn_l) \cup {k}
        /\ \A j \in Live(conn_l) : Steady(j)
        /\ Owner(k)' = job.head.to /\ Moving(k)'
  BY DialSteady
<1>3. Served(v) => Remembered(v)'
  BY <1>1, <1>2 DEF Served, Linked, Remembered
<1> QED BY <1>1, <1>2, <1>3, Frame

(* Peers: what a viewer sends is unread, what a server owes is followed.   *)
LEMMA RememberViewer ==
    ASSUME NetInv, NEW u \in Viewers, Knock(u) \/ SendRequest(u) \/ SendHeaders(u) \/ Leave(u),
           NEW v \in waiting', v \in waiting => Remembered(v), [Next]_vars
    PROVE  Remembered(v)'
<1> SchedInv /\ Inv
  BY DEF NetInv, SchedInv, PrivInv, LoopInv
<1>1. /\ Live(conn_l') = Live(conn_l) /\ \A k \in Live(conn_l) : Steady(k)
      /\ UNCHANGED <<pc, job, client_l, peer>>
  BY ViewerSteady
<1>2. Grows
  BY PartsKept DEF PeerStep
<1>3. Served(v) => Served(v)'
  BY <1>1 DEF Served, Viewer
<1>4. ASSUME v \in waiting, v \in stranded => v \in stranded' PROVE Remembered(v)'
  BY <1>1, <1>2, <1>3, <1>4, Frame DEF Grows, Remembered
<1>5. CASE SendRequest(u) /\ v = u
  <2>1. PICK fd \in Fds :
          /\ peer[fd] = u
          /\ \E line, host : \/ inq' = [inq EXCEPT ![fd] = inq[fd] \o <<line, host>>]
                             \/ inq' = [inq EXCEPT ![fd] = inq[fd] \o <<line>>]
    BY <1>5 DEF SendRequest, FdOf, Enqueue
  <2>2. /\ \A line : IsQueue(<<line>>) /\ <<line>> # <<>>
        /\ \A line, host : IsQueue(<<line, host>>) /\ <<line, host>> # <<>>
    BY ShortQueues
  <2>3. PICK p : IsQueue(p) /\ p # <<>> /\ inq' = [inq EXCEPT ![fd] = inq[fd] \o p]
    BY <2>1, <2>2
  <2>4. inq'[fd] = inq[fd] \o p /\ IsQueue(inq[fd])
    BY <2>3 DEF SchedInv, PartsInv
  <2>5. inq'[fd] # <<>>
    BY <2>3, <2>4, Longer
  <2> QED BY <1>1, <1>5, <2>1, <2>5 DEF Unread, Remembered
<1>6. CASE SendRequest(u) /\ v # u
  BY <1>4, <1>6 DEF SendRequest
<1>7. CASE Knock(u) \/ SendHeaders(u) \/ Leave(u)
  BY <1>4, <1>7 DEF Knock, SendHeaders, Leave, markVars, histVars, answerVars
<1> QED BY <1>5, <1>6, <1>7

LEMMA RememberServer ==
    ASSUME NetInv, HalfInv, NEW fd \in Fds,
           ServerAnswers(fd) \/ ServerDies(fd) \/ ServerLeaves(fd),
           NEW v \in waiting, Remembered(v), [Next]_vars
    PROVE  Remembered(v)'
<1> SchedInv /\ TextInv /\ Inv
  BY DEF NetInv, SchedInv, PrivInv, LoopInv
<1>1. /\ Live(conn_l') = Live(conn_l) /\ UNCHANGED <<pc, job, client_l, peer>>
      /\ \A k \in Live(conn_l) : ServFd(k) # fd => Steady(k)
      /\ \A k \in Live(conn_l) : ServFd(k)' = ServFd(k) /\ Owner(k)' = Owner(k)
      /\ \/ fin'[fd] # "no"
         \/ \E e \in ToSet(inq'[fd]) : e.part = "head"
         \/ HalfAsked(asked[fd]) /\ fin[fd] = "no"
            /\ inq' = [inq EXCEPT ![fd] = inq[fd] \o <<Body>>]
  BY ServerSteady
<1>2. Grows /\ UNCHANGED stranded
  BY PartsKept DEF PeerStep, ServerAnswers, ServerDies, ServerLeaves, markVars, histVars
<1>3. Served(v) => Served(v)'
  BY <1>1 DEF Served, Viewer
<1>4. ASSUME NEW k \in Live(conn_l), Owner(k) = v, ServFd(k) = fd PROVE Remembered(v)'
  <2>1. CASE fin'[fd] # "no" \/ \E e \in ToSet(inq'[fd]) : e.part = "head"
    BY <1>1, <1>4, <2>1 DEF Moving, Linked, Remembered
  <2>2. CASE HeadLast(inq[fd]) /\ inq' = [inq EXCEPT ![fd] = inq[fd] \o <<Body>>]
    <3>1. PICK e \in ToSet(inq[fd]) : e.part = "head"
      BY <2>2, HeadIn
    <3>2. PICK p : p = <<Body>> /\ IsQueue(p)
      BY ShortQueues
    <3>3. IsQueue(inq[fd]) /\ inq'[fd] = inq[fd] \o p
      BY <2>2, <3>2 DEF SchedInv, PartsInv
    <3>4. e \in ToSet(inq'[fd])
      BY <3>1, <3>2, <3>3, JoinedKeeps
    <3> QED BY <2>1, <3>1, <3>4
  <2>3. CASE pc = "body" /\ job.conn = k
    <3>1. Served(v)
      BY <1>4, <2>3 DEF Served, SchedInv, PrivInv, JobFor
    <3> QED BY <1>3, <3>1 DEF Remembered
  <2> QED BY <1>1, <1>4, <2>1, <2>2, <2>3 DEF HalfInv, Half
<1> QED BY <1>1, <1>2, <1>3, <1>4, Frame DEF Grows, Remembered

LEMMA RememberedKept ==
    ASSUME RememberInv, Inv', [Next]_vars PROVE WaitersInv'
<1> NetInv /\ WaitInv /\ HalfInv /\ WaitersInv
  BY DEF RememberInv
<1> SUFFICES ASSUME NEW v \in waiting' PROVE Remembered(v)'
  BY DEF WaitersInv
<1>1. v \in waiting => Remembered(v)
  BY DEF WaitersInv
<1>2. CASE PeerStep
  <2>1. ASSUME NEW fd \in Fds, ServerAnswers(fd) \/ ServerDies(fd) \/ ServerLeaves(fd)
        PROVE  v \in waiting
    BY <2>1 DEF ServerAnswers, ServerDies, ServerLeaves, answerVars
  <2> QED BY <1>1, <1>2, <2>1, RememberViewer, RememberServer DEF PeerStep
<1>3. ASSUME ProxyStep PROVE v \in waiting
  <2>1. WithClosed => waiting' \subseteq waiting
    BY DEF WithClosed
  <2>2. ASSUME NEW i, Refuse(i) PROVE waiting' \subseteq waiting
    BY <2>2 DEF Refuse, Deliver, answerVars
  <2>3. ASSUME NEW i, NEW g, NEW more, RequestHeaders(i, g, more) PROVE waiting' \subseteq waiting
    BY <2>2, <2>3 DEF RequestHeaders, Parsed, answerVars
  <2>4. ASSUME NEW i, ReadGet(i) \/ ReadOther(i) \/ ReadNothing(i) PROVE waiting' \subseteq waiting
    BY <2>2, <2>3, <2>4, OtherLine DEF ReadGet, Refused, ReadNothing, answerVars
  <2>5. ForwardBody \/ KeepList \/ BodyLost => waiting' \subseteq waiting
    BY <2>1 DEF ForwardBody, KeepList, BodyLost, CloseBodyConn, Answer, Deliver, answerVars
  <2>6. DropRequest \/ ServerStep => waiting' \subseteq waiting
    BY <2>1 DEF DropRequest, ServerStep, ReadHead, ReadCutHead, ReadNoHead, CloseAndReturn, answerVars
  <2>7. Select \/ AcceptViewer \/ AcceptGivesUp \/ EndScan \/ Route \/ TablesFull
          \/ ForwardRequest \/ DialForNolist => waiting' \subseteq waiting
    BY DEF Select, AcceptViewer, AcceptGivesUp, EndScan, Route, TablesFull, ForwardRequest,
           DialForNolist, answerVars
  <2>8. SendSpins \/ ResolveHangs => waiting' \subseteq waiting
    BY StuckInPlace DEF answerVars
  <2> QED BY <1>3, <2>4, <2>5, <2>6, <2>7, <2>8 DEF ProxyStep, ClientStep
<1>4. CASE ProxyStep
  BY <1>1, <1>3, <1>4, RememberLoop, RememberStuck, RememberClient, RememberRoute, RememberForward, RememberDrop,
     RememberHead, RememberBody, RememberDial DEF ProxyStep, ClientStep, ServerStep
<1>5. CASE UNCHANGED vars
  <2>1. /\ UNCHANGED <<client_l, server_l, conn_l, peer, inq, fin, asked>>
        /\ UNCHANGED <<waiting, stranded, pc, job>>
    BY <1>5 DEF vars, loopVars, chanVars, partyVars, markVars, histVars, answerVars, poolVars,
                clientVars, serverVars, connVars
  <2>2. \A k \in Live(conn_l) : k \in Live(conn_l') /\ Steady(k)
    BY <2>1, SteadySame DEF Calm
  <2>3. Served(v) => Served(v)'
    BY <2>1 DEF Served, Viewer
  <2>4. Inv
    BY DEF NetInv, SchedInv, PrivInv, LoopInv
  <2>5. v \in waiting
    BY <2>1
  <2> QED BY <1>1, <2>1, <2>2, <2>3, <2>4, <2>5, Frame DEF Remembered
<1> QED BY <1>2, <1>4, <1>5 DEF Next

LEMMA RememberStep == RememberInv /\ [Next]_vars => RememberInv'
<1> SUFFICES ASSUME RememberInv, [Next]_vars PROVE RememberInv'
  OBVIOUS
<1> NetInv /\ SchedInv /\ TextInv /\ QuietInv /\ WaitInv /\ HalfInv
  BY DEF RememberInv, NetInv
<1>1. NetInv'
  BY SchedStep, TextKept, QuietKept DEF NetInv
<1>2. Inv'
  BY <1>1 DEF NetInv, SchedInv, PrivInv, LoopInv
<1> QED BY <1>1, <1>2, WaitKept, HalfKept, RememberedKept DEF RememberInv

(* What a moving conn holds is for the viewer behind it. *)
LEMMA MovingIsOnItsWay ==
    ASSUME NetInv, NEW k \in Live(conn_l), Moving(k)
    PROVE  Unopened(k) \/ OnItsWay(Owner(k), k)
<1> DEFINE fd == ServFd(k)
           c == conn_l[k].clit_idx
<1>1. Inv /\ ChanInv /\ PartsInv
  BY DEF NetInv, SchedInv, PrivInv, LoopInv
<1>2. c \in Slots /\ client_l[c] # NULL /\ fd \in Fds \cup {NoFd}
  BY <1>1, LiveConn
<1>3. client_l[c].fd \in Fds /\ peer[client_l[c].fd] = Owner(k)
  BY <1>1, <1>2, ClientApart DEF Owner, Viewer
<1>4. CASE fd = NoFd
  BY <1>4 DEF Unopened, ServFd
<1>5. CASE fd \in Fds /\ fd # NoFd
  <2>1. Ours(asked[fd], inq[fd], Owner(k))
    BY <1>1, <1>5 DEF ChanInv, Mail
  <2>2. \/ fin[fd] # "no"
        \/ \E n \in DOMAIN asked[fd] : asked[fd][n].to = Owner(k)
        \/ \E n \in DOMAIN inq[fd] : inq[fd][n].part = "head" /\ inq[fd][n].to = Owner(k)
    <3>1. CASE asked[fd] # <<>>
      <4>1. asked[fd][1] \in ToSet(asked[fd])
        BY <2>1, <3>1, Taken DEF Ours
      <4> QED BY <2>1, <4>1 DEF Ours, ToSet
    <3>2. CASE \E e \in ToSet(inq[fd]) : e.part = "head"
      BY <2>1, <3>2 DEF Ours, ToSet
    <3> QED BY <1>5, <3>1, <3>2 DEF Moving
  <2> QED BY <1>3, <1>5, <2>2 DEF OnItsWay, ServFd
<1> QED BY <1>2, <1>4, <1>5

(* No request is forgotten (NeverForgotten), for any number of viewers,    *)
(* slots and servers and under all faults.  However the handlers close and *)
(* reopen descriptors, a waiting viewer's request is unread, in a handler, *)
(* at a server, or answered, or the socket that carried it has ended, or   *)
(* its conn is on a socket that never opened, or one of several is gone.   *)
THEOREM NoneForgotten == Spec => []NeverForgotten
<1>1. Init => RememberInv
  BY SchedInit, TextInit, QuietInit, HalfInit DEF RememberInv, NetInv
<1>2. RememberInv => NeverForgotten
  <2> SUFFICES ASSUME RememberInv, NEW v \in waiting
               PROVE  \/ Unread(v) \/ Served(v) \/ Astray(v)
                      \/ \E k \in Live(conn_l) : OnItsWay(v, k)
    BY DEF NeverForgotten, Unread, Served
  <2>1. Remembered(v)
    BY DEF RememberInv, WaitersInv
  <2>2. CASE Linked(v)
    <3>1. PICK k \in Live(conn_l) : Owner(k) = v /\ (Moving(k) \/ v \in stranded)
      BY <2>2 DEF Linked
    <3>2. k \in Links(v)
      BY <3>1 DEF Links, Owner
    <3>3. CASE v \in stranded
      BY <3>2, <3>3 DEF Astray
    <3>4. CASE Moving(k)
      BY <3>1, <3>2, <3>4, MovingIsOnItsWay DEF RememberInv, Astray
    <3> QED BY <3>1, <3>3, <3>4
  <2> QED BY <2>1, <2>2 DEF Remembered
<1> QED BY <1>1, <1>2, RememberStep, PTL DEF Spec

-----------------------------------------------------------------------------
(* One request at a time.  A viewer that waits has one request under way   *)
(* and it is in one place: in the viewer's socket, in the hands of the     *)
(* handler, on the server of one conn, asked or answered, or in the hands  *)
(* of the handler again, as an answer.  What it is at each place fits what *)
(* the viewer sent last.                                                   *)
Orderly == /\ \A v \in Viewers : \A n \in DOMAIN Plans[v] : Plans[v][n] # "post"
           /\ "slow" \notin Faults

Answers(kind) == {"misc"} \cup CASE kind = "list"  -> {"xmlList", "xml"}
                                 [] kind = "video" -> {"f4f"}
                                 [] OTHER          -> {}
Due(kind) == CASE kind = "list"  -> "xml"
               [] kind = "video" -> "f4f"
               [] OTHER          -> "error"

(* The list viewer v asked for may still come back, and its manifest with  *)
(* it: nolist_buf names its film, or nothing a server has.                 *)
Pend(v)          == v \in crossed \/ (nolist_buf \in {FilmOf[v], Garbage} /\ lister[v] = FilmOf[v])
OwnFilm(v, film) == v \in crossed \/ film = FilmOf[v]

(* The heads, as type and film, that may be on their way to viewer v. *)
Good(v) == {p \in Answers(LastSent(v)) \X Buffered :
               /\ p[1] = "xmlList" => Pend(v)
               /\ p[1] = "xml" => OwnFilm(v, p[2])}

(* Requests a and pieces i of one server: one request or one head.  The    *)
(* body still owed for a head is neither.                                  *)
Asking(a)  == \E n \in DOMAIN a : a[n].kind # "body"
Heading(i) == \E n \in DOMAIN i : i[n].part = "head"
OneAsk(a)  == \A m, n \in DOMAIN a : a[m].kind # "body" /\ a[n].kind # "body" => m = n
OneHead(i) == \A m, n \in DOMAIN i : i[m].part = "head" /\ i[n].part = "head" => m = n

AsksIn(G, a)  == \A n \in DOMAIN a : a[n].kind # "body" => <<TypeFor(a[n]), a[n].film>> \in G
HeadsIn(G, i) == \A n \in DOMAIN i : i[n].part = "head" => <<i[n].type, i[n].film>> \in G

Carried(G, a, i) == /\ OneAsk(a) /\ OneHead(i) /\ ~(Asking(a) /\ Heading(i))
                    /\ AsksIn(G, a) /\ HeadsIn(G, i)

LEMMA TailAt ==
    ASSUME NEW q, IsQueue(q), q # <<>>
    PROVE  /\ 1 \in DOMAIN q
           /\ \A n \in DOMAIN Tail(q) : /\ n \in Nat \ {0} /\ n + 1 \in DOMAIN q
                                        /\ Tail(q)[n] = q[n + 1]
<1>1. PICK S : q \in Seq(S)
  BY DEF IsQueue
<1>2. PICK t : t = Tail(q)
  OBVIOUS
<1>3. /\ 1 \in DOMAIN q
      /\ \A n \in DOMAIN t : n \in Nat \ {0} /\ n + 1 \in DOMAIN q /\ t[n] = q[n + 1]
  BY <1>1, <1>2
<1> QED BY <1>2, <1>3

(* Queue j is s and then t, from place m on. *)
Spliced(s, t, j, m) ==
    /\ m \in Nat
    /\ \A n \in DOMAIN j : /\ n \in Nat
                          /\ \/ n \in DOMAIN s /\ j[n] = s[n]
                             \/ n - m \in DOMAIN t /\ j[n] = t[n - m]

LEMMA JoinAt ==
    ASSUME NEW s, NEW t, IsQueue(s), IsQueue(t)
    PROVE  \E m : Spliced(s, t, s \o t, m)
<1>1. PICK S, T : s \in Seq(S) /\ t \in Seq(T)
  BY DEF IsQueue
<1>2. s \in Seq(S \cup T) /\ t \in Seq(S \cup T)
  BY <1>1
<1>3. PICK j : j = s \o t
  OBVIOUS
<1>4. /\ DOMAIN s = 1..Len(s) /\ DOMAIN t = 1..Len(t) /\ Len(s) \in Nat /\ Len(t) \in Nat
      /\ DOMAIN j = 1..(Len(s) + Len(t))
      /\ \A n \in 1..Len(s) : j[n] = s[n]
      /\ \A n \in 1..Len(t) : j[Len(s) + n] = t[n]
  BY <1>2, <1>3, JoinIs
<1>5. ASSUME NEW n \in DOMAIN j
      PROVE  /\ n \in Nat
             /\ \/ n \in DOMAIN s /\ j[n] = s[n]
                \/ n - Len(s) \in DOMAIN t /\ j[n] = t[n - Len(s)]
  <2>1. PICK x, y : x = Len(s) /\ y = Len(t)
    OBVIOUS
  <2>2. x \in Nat /\ y \in Nat /\ n \in 1..(x + y)
    BY <1>4, <2>1
  <2>3. CASE n <= x
    BY <1>4, <2>1, <2>2, <2>3
  <2>4. CASE n > x
    <3>1. n - x \in 1..y /\ x + (n - x) = n
      BY <2>2, <2>4
    <3> QED BY <1>4, <2>1, <2>2, <3>1
  <2> QED BY <2>2, <2>3, <2>4
<1>6. Spliced(s, t, j, Len(s))
  BY <1>4, <1>5 DEF Spliced
<1> QED BY <1>3, <1>6

(* One that is put last; pieces p that hold at most one. *)
LEMMA ShortAt ==
    /\ \A x : DOMAIN <<x>> = {1} /\ <<x>>[1] = x
    /\ \A x, y : DOMAIN <<x, y>> = {1, 2} /\ <<x, y>>[1] = x /\ <<x, y>>[2] = y
OBVIOUS

(* A request sent where there was none. *)
LEMMA CarriedSend ==
    ASSUME NEW G, NEW a, NEW i, IsQueue(a), ~Asking(a), ~Heading(i), NEW r,
           <<TypeFor(r), r.film>> \in G
    PROVE  Carried(G, Append(a, r), i)
<1>1. PICK S : a \in Seq(S)
  BY DEF IsQueue
<1>2. PICK b : b = Append(a, r)
  OBVIOUS
<1>3. a \in Seq(S \cup {r})
  BY <1>1
<1>4. \A n \in DOMAIN b : (n \in DOMAIN a /\ b[n] = a[n]) \/ (n = Len(a) + 1 /\ b[n] = r)
  BY <1>2, <1>3
<1>5. \A n \in DOMAIN b : b[n].kind # "body" => n = Len(a) + 1 /\ b[n] = r
  BY <1>4 DEF Asking
<1>6. OneAsk(b) /\ AsksIn(G, b)
  BY <1>5 DEF OneAsk, AsksIn
<1>7. OneHead(i) /\ HeadsIn(G, i)
  BY DEF Heading, OneHead, HeadsIn
<1> QED BY <1>2, <1>6, <1>7 DEF Carried

(* The first request is answered: it is gone, or its body is still owed.   *)
LEMMA AskTaken ==
    ASSUME NEW a, AsksOK(a), a # <<>>, OneAsk(a), Head(a).kind # "body"
    PROVE  /\ Asking(a) /\ ~Asking(Tail(a))
           /\ ~Asking(<<[Head(a) EXCEPT !.kind = "body"]>> \o Tail(a))
<1>1. PICK x, t, y : x = Head(a) /\ t = Tail(a) /\ y = [x EXCEPT !.kind = "body"]
  OBVIOUS
<1>2. /\ x = a[1] /\ 1 \in DOMAIN a /\ IsQueue(t)
      /\ \A n \in DOMAIN t : n \in Nat \ {0} /\ n + 1 \in DOMAIN a /\ t[n] = a[n + 1]
  BY <1>1, TailAt, Taken DEF AsksOK
<1>3. \A n \in DOMAIN t : t[n].kind = "body"
  <2>1. ASSUME NEW n \in DOMAIN t, t[n].kind # "body" PROVE FALSE
    <3>1. n + 1 = 1
      BY <1>1, <1>2, <2>1 DEF OneAsk
    <3> QED BY <1>2, <2>1, <3>1
  <2> QED BY <2>1
<1>4. y.kind = "body"
  BY <1>1, <1>2 DEF AsksOK, AskOK
<1>5. PICK s : s = <<y>>
  OBVIOUS
<1>6. IsQueue(s) /\ DOMAIN s = {1} /\ s[1] = y
  BY <1>5, ShortQueues, ShortAt
<1>7. PICK j : j = s \o t
  OBVIOUS
<1>8. ASSUME NEW n \in DOMAIN j PROVE j[n].kind = "body"
  <2>1. PICK m : Spliced(s, t, j, m)
    BY <1>2, <1>6, <1>7, JoinAt
  <2>2. CASE n \in DOMAIN s /\ j[n] = s[n]
    BY <1>4, <1>6, <2>2
  <2>3. CASE n - m \in DOMAIN t /\ j[n] = t[n - m]
    BY <1>3, <2>3
  <2> QED BY <2>1, <2>2, <2>3 DEF Spliced
<1>9. ~Asking(t) /\ ~Asking(j)
  BY <1>3, <1>8 DEF Asking
<1>10. Asking(a)
  BY <1>1, <1>2 DEF Asking
<1> QED BY <1>1, <1>5, <1>7, <1>9, <1>10

(* A head is put where there was none, with its body or without. *)
LEMMA HeadPut ==
    ASSUME NEW G, NEW i, IsQueue(i), ~Heading(i), NEW h, h.part = "head", <<h.type, h.film>> \in G,
           NEW p, p \in {<<h>>, <<h, Body>>}
    PROVE  OneHead(i \o p) /\ HeadsIn(G, i \o p)
<1>1. Body.part # "head"
  BY DEF Body
<1>2. IsQueue(p) /\ \A n \in DOMAIN p : p[n].part = "head" => n = 1 /\ p[n] = h
  <2>1. CASE p = <<h>>
    BY <2>1, ShortAt, ShortQueues
  <2>2. CASE p = <<h, Body>>
    BY <1>1, <2>2, ShortAt, ShortQueues
  <2> QED BY <2>1, <2>2
<1>3. PICK j : j = i \o p
  OBVIOUS
<1>4. PICK m : Spliced(i, p, j, m)
  BY <1>2, <1>3, JoinAt
<1>5. \A n \in DOMAIN j : j[n].part = "head" => n - m = 1 /\ n \in Nat /\ j[n] = h
  BY <1>2, <1>4 DEF Heading, Spliced
<1>6. OneHead(j) /\ HeadsIn(G, j)
  BY <1>4, <1>5 DEF OneHead, HeadsIn, Spliced
<1> QED BY <1>3, <1>6

LEMMA CarriedAnswer ==
    ASSUME NEW G, NEW a, NEW i, AsksOK(a), IsQueue(i), Carried(G, a, i),
           a # <<>>, Head(a).kind # "body",
           NEW h, h.part = "head", <<h.type, h.film>> \in G
    PROVE  /\ Asking(a)
           /\ Carried(G, Tail(a), i \o <<h, Body>>)
           /\ Carried(G, <<[Head(a) EXCEPT !.kind = "body"]>> \o Tail(a), i \o <<h>>)
           /\ Carried(G, <<>>, i \o <<h>>)
<1>1. PICK t, b : t = Tail(a) /\ b = <<[Head(a) EXCEPT !.kind = "body"]>> \o t
  OBVIOUS
<1>2. Asking(a) /\ ~Asking(t) /\ ~Asking(b) /\ ~Asking(<<>>) /\ ~Heading(i)
  BY <1>1, AskTaken DEF Carried, Asking
<1>3. \A c : ~Asking(c) => OneAsk(c) /\ AsksIn(G, c)
  BY DEF Asking, OneAsk, AsksIn
<1>4. PICK p, q : p = i \o <<h>> /\ q = i \o <<h, Body>>
  OBVIOUS
<1>5. OneHead(p) /\ HeadsIn(G, p) /\ OneHead(q) /\ HeadsIn(G, q)
  BY <1>2, <1>4, HeadPut
<1>6. Carried(G, t, q) /\ Carried(G, b, p) /\ Carried(G, <<>>, p)
  BY <1>2, <1>3, <1>5 DEF Carried
<1> QED BY <1>1, <1>2, <1>4, <1>6

(* The body that was owed. *)
LEMMA CarriedBody ==
    ASSUME NEW a, NEW i, AsksOK(a), IsQueue(i), a # <<>>
    PROVE  /\ Asking(Tail(a)) => Asking(a)
           /\ Heading(i \o <<Body>>) => Heading(i)
           /\ \A G : Carried(G, a, i) => Carried(G, Tail(a), i \o <<Body>>)
<1>1. PICK t, s, j : t = Tail(a) /\ s = <<Body>> /\ j = i \o s
  OBVIOUS
<1>2. \A n \in DOMAIN t : n \in Nat \ {0} /\ n + 1 \in DOMAIN a /\ t[n] = a[n + 1]
  BY <1>1, TailAt DEF AsksOK
<1>3. IsQueue(s) /\ \A n \in DOMAIN s : s[n].part # "head"
  BY <1>1, ShortAt, ShortQueues DEF Body
<1>4. PICK m : Spliced(i, s, j, m)
  BY <1>1, <1>3, JoinAt
<1>5. \A n \in DOMAIN j : j[n].part = "head" => n \in DOMAIN i /\ j[n] = i[n]
  BY <1>3, <1>4 DEF Spliced
<1>6. Heading(j) => Heading(i)
  BY <1>5 DEF Heading
<1>7. Asking(t) => Asking(a)
  BY <1>2 DEF Asking
<1>8. ASSUME OneAsk(a) PROVE OneAsk(t)
  <2>1. ASSUME NEW m1 \in DOMAIN t, NEW n1 \in DOMAIN t, t[m1].kind # "body", t[n1].kind # "body"
        PROVE  m1 = n1
    <3>1. m1 + 1 = n1 + 1
      BY <1>2, <1>8, <2>1 DEF OneAsk
    <3> QED BY <1>2, <2>1, <3>1
  <2> QED BY <2>1 DEF OneAsk
<1>9. OneHead(i) => OneHead(j)
  BY <1>5 DEF OneHead
<1>10. ASSUME NEW G, Carried(G, a, i) PROVE Carried(G, t, j)
  <2>1. AsksIn(G, t)
    BY <1>2, <1>10 DEF Carried, AsksIn
  <2>2. HeadsIn(G, j)
    BY <1>5, <1>10 DEF Carried, HeadsIn
  <2> QED BY <1>6, <1>7, <1>8, <1>9, <1>10, <2>1, <2>2 DEF Carried
<1> QED BY <1>1, <1>6, <1>7, <1>10

(* What was asked is lost. *)
LEMMA CarriedLost ==
    ASSUME NEW i
    PROVE  ~Asking(<<>>) /\ \A G, a : Carried(G, a, i) => Carried(G, <<>>, i)
BY DEF Carried, Asking, OneAsk, AsksIn

(* A piece is read. *)
LEMMA CarriedTaken ==
    ASSUME NEW i, IsQueue(i), i # <<>>
    PROVE  /\ Heading(Tail(i)) => Heading(i)
           /\ \A G, a : Carried(G, a, i) /\ i[1].part = "head" =>
                          /\ <<i[1].type, i[1].film>> \in G /\ Heading(i)
                          /\ ~Asking(a) /\ ~Heading(Tail(i))
<1>1. PICK t : t = Tail(i)
  OBVIOUS
<1>2. /\ 1 \in DOMAIN i
      /\ \A n \in DOMAIN t : n \in Nat \ {0} /\ n + 1 \in DOMAIN i /\ t[n] = i[n + 1]
  BY <1>1, TailAt
<1>3. Heading(t) => Heading(i)
  BY <1>2 DEF Heading
<1>4. ASSUME NEW G, NEW a, Carried(G, a, i), i[1].part = "head"
      PROVE  <<i[1].type, i[1].film>> \in G /\ Heading(i) /\ ~Asking(a) /\ ~Heading(t)
  <2>1. Heading(i) /\ <<i[1].type, i[1].film>> \in G /\ ~Asking(a)
    BY <1>2, <1>4 DEF Carried, Heading, HeadsIn
  <2>2. ASSUME NEW n \in DOMAIN t, t[n].part = "head" PROVE FALSE
    <3>1. n + 1 = 1
      BY <1>2, <1>4, <2>2 DEF Carried, OneHead
    <3> QED BY <1>2, <2>2, <3>1
  <2> QED BY <2>1, <2>2 DEF Heading
<1> QED BY <1>1, <1>3, <1>4

LEMMA CarriedWider ==
    ASSUME NEW G, NEW H, G \subseteq H, NEW a, NEW i, Carried(G, a, i)
    PROVE  Carried(H, a, i)
BY DEF Carried, AsksIn, HeadsIn

-----------------------------------------------------------------------------
(* The places where the request of a viewer may be: besides the servers,   *)
(* by slot of their conns, these three.                                    *)
AtLine == -1  \* in the viewer's socket
AtLoop == -2  \* with the handler, on its way to a server
AtBody == -3  \* with the handler, whose head has been read
Stages == Slots \cup {AtLine, AtLoop, AtBody}

OnServer(k) == ServFd(k) \in Fds /\ (Asking(asked[ServFd(k)]) \/ Heading(inq[ServFd(k)]))

Busy(v, t) ==
    \/ t = AtLine /\ Unread(v)
    \/ t = AtLoop /\ pc \in {"route", "forward"} /\ Viewer(job.idx) = v
    \/ t = AtBody /\ pc \in {"body", "dial"} /\ job.head.to = v
    \/ t \in Live(conn_l) /\ Owner(t) = v /\ OnServer(t)

WholeRequest(v, q) ==
    \E host \in BOOLEAN : q = <<GetLine(LastSent(v), FilmOf[v]), Headers(host)>>

Fits(v, t) ==
    /\ t = AtLine =>
         \A fd \in Fds : peer[fd] = v /\ inq[fd] # <<>> => WholeRequest(v, inq[fd])
    /\ t = AtLoop => job.kind = LastSent(v) /\ job.film = FilmOf[v]
    /\ t = AtBody => <<job.head.type, job.head.film>> \in Good(v) /\ job.head.type # "misc"
    /\ t \in Live(conn_l) => Carried(Good(v), asked[ServFd(t)], inq[ServFd(t)])

Lone(v) == \A t \in Stages : Busy(v, t) => /\ v \in waiting /\ Fits(v, t)
                                           /\ \A s \in Stages : Busy(v, s) => s = t

(* What viewer v has been told. *)
Told(v) ==
    /\ place[v] = "out" => got[v] = NULL
    /\ place[v] = "in" /\ v \notin waiting /\ got[v] # NULL => got[v].type = Due(LastSent(v))
    /\ got[v] # NULL /\ got[v].type = "xml" => OwnFilm(v, got[v].film)

Fit(v) == (place[v] = "in" => Lone(v)) /\ Told(v)

LEMMA StagesApart ==
    /\ AtLine \notin Slots /\ AtLoop \notin Slots /\ AtBody \notin Slots
    /\ AtLine # AtLoop /\ AtLine # AtBody /\ AtLoop # AtBody
    /\ Live(conn_l) \subseteq Slots /\ Live(conn_l') \subseteq Slots /\ Slots \subseteq Stages
    /\ {AtLine, AtLoop, AtBody} \subseteq Stages
BY PoolAssumption DEF PoolAssumption, Slots, AtLine, AtLoop, AtBody, Live, Stages

(* Steps that put nothing at place t for viewer v. *)
Rests(v, t) == Busy(v, t)' => Busy(v, t) /\ (Fits(v, t) => Fits(v, t)')

LEMMA LoneRests ==
    ASSUME NEW v, Lone(v), v \in waiting => v \in waiting', \A t \in Stages : Rests(v, t)
    PROVE  Lone(v)'
<1>1. Stages' = Stages
  BY DEF Stages, Slots, AtLine, AtLoop, AtBody
<1> QED BY <1>1 DEF Lone, Rests

LEMMA LoneMoves ==
    ASSUME NEW v, Lone(v), NEW s \in Stages, NEW t \in Stages, Busy(v, s),
           s = t \/ ~Busy(v, s)', v \in waiting', Fits(v, t)',
           \A u \in Stages : u = s \/ u = t \/ Rests(v, u)
    PROVE  Lone(v)'
<1>1. Stages' = Stages
  BY DEF Stages, Slots, AtLine, AtLoop, AtBody
<1>2. ASSUME NEW u \in Stages, Busy(v, u)' PROVE u = t
  BY <1>2 DEF Lone, Rests
<1> QED BY <1>1, <1>2 DEF Lone

LEMMA LoneEnds ==
    ASSUME NEW v, Lone(v), NEW s \in Stages, Busy(v, s), ~Busy(v, s)',
           \A u \in Stages : u = s \/ Rests(v, u)
    PROVE  Lone(v)'
<1>1. Stages' = Stages
  BY DEF Stages, Slots, AtLine, AtLoop, AtBody
<1>2. ASSUME NEW u \in Stages PROVE ~Busy(v, u)'
  BY <1>2 DEF Lone, Rests
<1> QED BY <1>1, <1>2 DEF Lone

(* The four kinds of place. *)
LEMMA LineRests ==
    ASSUME NEW v, LastSent(v)' = LastSent(v),
           \A fd \in Fds : peer'[fd] = v =>
                             inq'[fd] = <<>> \/ (peer[fd] = v /\ inq'[fd] = inq[fd])
    PROVE  Rests(v, AtLine)
<1>1. Busy(v, AtLine) <=> Unread(v)
  BY StagesApart DEF Busy
<1>2. Busy(v, AtLine)' <=> Unread(v)'
  BY StagesApart DEF Busy
<1>3. AtLine \notin Live(conn_l')
  BY StagesApart
<1>4. \A q : WholeRequest(v, q)' <=> WholeRequest(v, q)
  BY DEF WholeRequest
<1>5. Unread(v)' => Unread(v)
  BY DEF Unread
<1>6. Fits(v, AtLine) => Fits(v, AtLine)'
  BY <1>3, <1>4, StagesApart DEF Fits
<1> QED BY <1>1, <1>2, <1>5, <1>6 DEF Rests

LEMMA LoopRests ==
    ASSUME NEW v, LastSent(v)' = LastSent(v),
           pc' \in {"route", "forward"} /\ Viewer(job.idx)' = v =>
              /\ pc \in {"route", "forward"} /\ Viewer(job.idx)' = Viewer(job.idx)
              /\ job'.kind = job.kind /\ job'.film = job.film
    PROVE  Rests(v, AtLoop)
<1>1. Busy(v, AtLoop) <=> pc \in {"route", "forward"} /\ Viewer(job.idx) = v
  BY StagesApart DEF Busy
<1>2. Busy(v, AtLoop)' <=> pc' \in {"route", "forward"} /\ Viewer(job.idx)' = v
  BY StagesApart DEF Busy
<1>3. AtLoop \notin Live(conn_l')
  BY StagesApart
<1> QED BY <1>1, <1>2, <1>3, StagesApart DEF Rests, Fits

LEMMA BodyRests ==
    ASSUME NEW v, Good(v) \subseteq Good(v)',
           pc' \in {"body", "dial"} /\ job'.head.to = v =>
              pc \in {"body", "dial"} /\ job'.head = job.head
    PROVE  Rests(v, AtBody)
<1>1. Busy(v, AtBody) <=> pc \in {"body", "dial"} /\ job.head.to = v
  BY StagesApart DEF Busy
<1>2. Busy(v, AtBody)' <=> pc' \in {"body", "dial"} /\ job'.head.to = v
  BY StagesApart DEF Busy
<1>3. AtBody \notin Live(conn_l')
  BY StagesApart
<1> QED BY <1>1, <1>2, <1>3, StagesApart DEF Rests, Fits

(* Conn k keeps its socket, and what is on it is no more than it was. *)
Bears(k, v) ==
    /\ k \in Live(conn_l) /\ ServFd(k)' = ServFd(k) /\ Owner(k)' = Owner(k)
    /\ OnServer(k)' => OnServer(k)
    /\ OnServer(k)' /\ Carried(Good(v), asked[ServFd(k)], inq[ServFd(k)]) =>
         Carried(Good(v), asked'[ServFd(k)], inq'[ServFd(k)])

LEMMA ConnRests ==
    ASSUME NEW v, NEW k \in Slots, Good(v) \subseteq Good(v)',
           k \in Live(conn_l') /\ Owner(k)' = v => ~OnServer(k)' \/ Bears(k, v)
    PROVE  Rests(v, k)
<1>1. k # AtLine /\ k # AtLoop /\ k # AtBody
  BY StagesApart
<1>2. Busy(v, k) <=> k \in Live(conn_l) /\ Owner(k) = v /\ OnServer(k)
  BY <1>1 DEF Busy
<1>3. Busy(v, k)' <=> k \in Live(conn_l') /\ Owner(k)' = v /\ OnServer(k)'
  BY <1>1 DEF Busy
<1>4. ASSUME Busy(v, k)' PROVE Busy(v, k) /\ (Fits(v, k) => Fits(v, k)')
  <2>1. Bears(k, v) /\ OnServer(k)'
    BY <1>3, <1>4
  <2>2. Busy(v, k)
    BY <1>2, <1>3, <1>4, <2>1 DEF Bears
  <2>3. ASSUME Fits(v, k) PROVE Fits(v, k)'
    <3>1. Carried(Good(v), asked[ServFd(k)], inq[ServFd(k)])
      BY <1>2, <2>2, <2>3 DEF Fits
    <3>2. Carried(Good(v)', asked'[ServFd(k)], inq'[ServFd(k)])
      BY <2>1, <3>1, CarriedWider DEF Bears
    <3>3. Carried(Good(v), asked[ServFd(k)], inq[ServFd(k)])'
      BY <2>1, <3>2 DEF Bears, Carried, AsksIn, HeadsIn, TypeFor, OneAsk, OneHead, Asking, Heading
    <3> QED BY <1>1, <3>3 DEF Fits
  <2> QED BY <2>2, <2>3
<1> QED BY <1>4 DEF Rests

LEMMA StillBears ==
    ASSUME NEW k \in Live(conn_l), NEW v, ServFd(k)' = ServFd(k), Owner(k)' = Owner(k),
           ServFd(k) \in Fds => inq'[ServFd(k)] = inq[ServFd(k)] /\ asked'[ServFd(k)] = asked[ServFd(k)]
    PROVE  Bears(k, v)
BY DEF Bears, OnServer

-----------------------------------------------------------------------------
LEMMA SentSame == ASSUME NEW v, plan'[v] = plan[v] PROVE LastSent(v)' = LastSent(v)
BY DEF LastSent

LEMMA GoodWider ==
    ASSUME NEW v, LastSent(v)' = LastSent(v), crossed \subseteq crossed',
           Pend(v) => Pend(v)'
    PROVE  Good(v) \subseteq Good(v)'
BY DEF Good, OwnFilm

LEMMA PendSame ==
    ASSUME NEW v, crossed \subseteq crossed', UNCHANGED nolist_buf, lister'[v] = lister[v], Pend(v)
    PROVE  Pend(v)'
BY DEF Pend

(* A step that does nothing for viewer v and nothing against it. *)
LEMMA FitRests ==
    ASSUME NEW v, Fit(v), plan'[v] = plan[v], got'[v] = got[v], crossed \subseteq crossed',
           place'[v] \in {"in", "out"} => place'[v] = place[v],
           place'[v] = "in" => /\ v \in waiting => v \in waiting'
                               /\ \A t \in Stages : Rests(v, t)
    PROVE  Fit(v)'
<1>1. LastSent(v)' = LastSent(v)
  BY SentSame
<1>2. place'[v] = "in" => Lone(v)'
  BY LoneRests DEF Fit
<1>3. ASSUME got'[v] # NULL, got'[v].type = "xml" PROVE OwnFilm(v, got[v].film)'
  BY <1>3 DEF Fit, Told, OwnFilm
<1>4. Told(v)'
  BY <1>1, <1>3 DEF Fit, Told
<1> QED BY <1>2, <1>4 DEF Fit

-----------------------------------------------------------------------------
(* Viewers and their sockets.  A viewer has one, on which nothing is asked *)
(* and which is open at the other end while the viewer is there; the       *)
(* descriptors to be handed out next have not been closed by anyone.       *)
OneSocket == \A f, g \in Fds : peer[f] = peer[g] /\ peer[f] # NULL => f = g
PeerOK(fd) == peer[fd] # NULL => /\ place[peer[fd]] # "out" /\ asked[fd] = <<>>
                                 /\ place[peer[fd]] = "in" => fin[fd] = "no"
FreshEnds == status = "serving" =>
                \A fd \in Fds : fd \notin open \/ fd = ListenFd => fin[fd] = "no"
PeersInv  == OneSocket /\ (\A fd \in Fds : PeerOK(fd)) /\ FreshEnds

(* What each viewer has still to send is the end of its plan. *)
PlanOK(v) == /\ Len(plan[v]) <= Len(Plans[v])
             /\ \A n \in DOMAIN plan[v] :
                   plan[v][n] = Plans[v][(Len(Plans[v]) - Len(plan[v])) + n]
PlansInv  == \A v \in Viewers : PlanOK(v)

BaseInv == NetInv /\ TypesInv

LEMMA BaseHas ==
    ASSUME BaseInv
    PROVE  /\ SchedInv /\ TextInv /\ QuietInv /\ PrivInv /\ Inv /\ ChanInv /\ PartsInv /\ PlaceInv
           /\ AsksInv /\ PartyTypes
           /\ DOMAIN inq = Fds /\ DOMAIN fin = Fds /\ DOMAIN asked = Fds /\ DOMAIN peer = Fds
           /\ DOMAIN place = Viewers
BY DEF BaseInv, NetInv, TypesInv, SchedInv, PrivInv, LoopInv, PartsInv, ChanInv, TextInv, PlaceInv

LEMMA ServerSocket ==
    ASSUME BaseInv, NEW k \in Live(conn_l), ServFd(k) \in Fds
    PROVE  peer[ServFd(k)] = NULL /\ ServFd(k) \in open /\ ServFd(k) # ListenFd
BY BaseHas, LiveConn, Unheld DEF ChanInv, Mail

LEMMA SendElsewhere ==
    ASSUME BaseInv, NEW g, NEW r, asked' = Send(asked, g, r)
    PROVE  /\ \A fd \in Fds : fd # g => asked'[fd] = asked[fd]
           /\ g \in Fds /\ fin[g] = "no" => asked'[g] = Append(asked[g], r)
           /\ ~(g \in Fds /\ fin[g] = "no") => asked' = asked
BY BaseHas DEF Send

LEMMA PeersRest ==
    ASSUME BaseInv, PeersInv, UNCHANGED <<peer, place>>,
           status' = "serving" => status = "serving" /\ open \subseteq open',
           \A fd \in Fds : asked'[fd] # asked[fd] => peer[fd] = NULL,
           \A fd \in Fds : fin'[fd] # fin[fd] => /\ peer[fd] = NULL
                                                 /\ fd \in open /\ fd # ListenFd
    PROVE  PeersInv'
BY DEF PeersInv, OneSocket, PeerOK, FreshEnds

LEMMA PeersClosed ==
    ASSUME BaseInv, PeersInv, NEW k, CloseConn(k), WithClosed
    PROVE  PeersInv'
<1>1. PICK shut, dropped :
        /\ shut = open \ open'
        /\ inq' = [fd \in Fds |-> IF fd \in shut THEN <<>> ELSE inq[fd]]
        /\ fin' = [fd \in Fds |-> IF fd \in shut THEN "no" ELSE fin[fd]]
        /\ asked' = [fd \in Fds |-> IF fd \in shut THEN <<>> ELSE asked[fd]]
        /\ peer' = [fd \in Fds |-> IF fd \in shut THEN NULL ELSE peer[fd]]
        /\ place' = [v \in Viewers |-> IF v \in dropped /\ place[v] = "in"
                                       THEN "dropped" ELSE place[v]]
  BY DEF WithClosed
<1>2. status = "serving" /\ status' = status /\ open' \subseteq open
  BY DEF CloseConn, Release
<1>3. peer \in [Fds -> Viewers \cup {NULL}]
  BY BaseHas DEF PartyTypes
<1>4. OneSocket'
  BY <1>1, <1>3 DEF PeersInv, OneSocket
<1>5. ASSUME NEW fd \in Fds PROVE PeerOK(fd)'
  <2>1. CASE peer'[fd] = NULL
    BY <2>1 DEF PeerOK
  <2>2. CASE peer'[fd] # NULL
    <3>1. /\ fd \notin shut /\ peer'[fd] = peer[fd] /\ peer[fd] \in Viewers
          /\ asked'[fd] = asked[fd] /\ fin'[fd] = fin[fd]
      BY <1>1, <1>3, <2>2
    <3>2. place'[peer[fd]] \in {place[peer[fd]], "dropped"}
      BY <1>1, <3>1
    <3> QED BY <2>2, <3>1, <3>2 DEF PeersInv, PeerOK
  <2> QED BY <2>1, <2>2
<1>6. FreshEnds'
  BY <1>1, <1>2 DEF PeersInv, FreshEnds
<1> QED BY <1>4, <1>5, <1>6 DEF PeersInv

LEMMA PeersAccepted == ASSUME BaseInv, PeersInv, AcceptViewer PROVE PeersInv'
<1> Inv /\ PlaceInv /\ QuietInv /\ DOMAIN place = Viewers /\ PartyTypes
  BY BaseHas
<1>1. PICK u : u = Head(knocking)
  OBVIOUS
<1>2. u \in Viewers /\ place[u] = "out" /\ place' = [place EXCEPT ![u] = "in"]
  <2>1. pc = "accept" /\ place' = [place EXCEPT ![u] = "in"]
    BY <1>1 DEF AcceptViewer
  <2>2. knocking # <<>> /\ IsQueue(knocking)
    BY <2>1 DEF PlaceInv
  <2>3. u \in ToSet(knocking)
    BY <1>1, <2>2, Taken
  <2> QED BY <2>1, <2>3 DEF PlaceInv
<1>3. PICK fd \in Fds : fd \notin open /\ open' = open \cup {fd} /\ status = "serving"
  BY DEF AcceptViewer, Accept, LowestFree
<1>4. /\ peer' = [g \in Fds |-> IF g = fd THEN u ELSE peer[g]]
      /\ UNCHANGED <<inq, asked, fin, status>>
  BY <1>1, <1>3, AcceptLeaves
<1>5. inq[fd] = <<>> /\ asked[fd] = <<>> /\ peer[fd] = NULL /\ fin[fd] = "no"
  BY <1>3 DEF QuietInv, Quiet, PeersInv, FreshEnds
<1>6. \A g \in Fds : peer[g] # u
  BY <1>2, ProxyAssumption DEF PeersInv, PeerOK, ProxyAssumption
<1>7. OneSocket'
  BY <1>4, <1>6 DEF PeersInv, OneSocket
<1>8. ASSUME NEW g \in Fds PROVE PeerOK(g)'
  <2>1. CASE g = fd
    BY <1>2, <1>4, <1>5, <2>1 DEF PeerOK
  <2>2. CASE g # fd
    BY <1>2, <1>4, <1>6, <2>2 DEF PeersInv, PeerOK
  <2> QED BY <2>1, <2>2
<1>9. FreshEnds'
  BY <1>3, <1>4 DEF PeersInv, FreshEnds
<1> QED BY <1>7, <1>8, <1>9 DEF PeersInv

(* What a server may do it does on the socket of a live conn. *)
LEMMA ServerEnd ==
    ASSUME BaseInv, PeersInv, NEW fd \in Fds, asked[fd] # <<>> \/ fd \in ServerFds
    PROVE  peer[fd] = NULL /\ fd \in open /\ fd # ListenFd
<1> Inv /\ QuietInv
  BY BaseHas
<1>1. CASE asked[fd] # <<>>
  BY <1>1 DEF PeersInv, PeerOK, QuietInv, Quiet
<1>2. CASE fd \in ServerFds
  <2>1. PICK s \in Live(server_l) : fd = server_l[s].fd
    BY <1>2 DEF ServerFds
  <2>2. PICK k \in Live(conn_l) : ConnsVia(conn_l, s) = {k}
    BY <2>1 DEF Inv, ConnsWellFormed
  <2>3. ServFd(k) = fd
    BY <2>1, <2>2 DEF ConnsVia, ServFd
  <2> QED BY <2>2, <2>3, ServerSocket
<1> QED BY <1>1, <1>2

LEMMA PeersServed ==
    ASSUME BaseInv, PeersInv, NEW fd \in Fds,
           ServerAnswers(fd) \/ ServerDies(fd) \/ ServerLeaves(fd)
    PROVE  PeersInv'
<1>1. peer[fd] = NULL /\ fd \in open /\ fd # ListenFd
  BY ServerEnd DEF ServerAnswers, ServerDies, ServerLeaves
<1>2. UNCHANGED <<peer, place, open, status>>
  BY DEF ServerAnswers, ServerDies, ServerLeaves, partyVars, poolVars, fdVars
<1>3. UNCHANGED fin \/ (\E how : fin' = [fin EXCEPT ![fd] = how])
  <2>1. CASE ServerAnswers(fd)
    BY <2>1 DEF ServerAnswers
  <2>2. CASE ServerDies(fd)
    BY <2>2 DEF ServerDies
  <2>3. CASE ServerLeaves(fd)
    BY <2>3 DEF ServerLeaves
  <2> QED BY <2>1, <2>2, <2>3
<1>4. \E a : asked' = [asked EXCEPT ![fd] = a]
  <2>1. CASE ServerAnswers(fd)
    BY <2>1 DEF ServerAnswers
  <2>2. CASE ServerDies(fd)
    BY <2>2 DEF ServerDies
  <2>3. CASE ServerLeaves(fd)
    BY <2>3 DEF ServerLeaves
  <2> QED BY <2>1, <2>2, <2>3
<1>5. \A g \in Fds : g # fd => fin'[g] = fin[g] /\ asked'[g] = asked[g]
  BY <1>3, <1>4, BaseHas
<1> QED BY <1>1, <1>2, <1>5, PeersRest

LEMMA PeersLeft ==
    ASSUME BaseInv, PeersInv, NEW v \in Viewers, Leave(v)
    PROVE  PeersInv'
<1>1. PICK fd \in Fds : peer[fd] = v /\ fin' = [fin EXCEPT ![fd] = "eof"]
  BY DEF Leave, FdOf
<1>2. /\ UNCHANGED <<peer, asked, open, status>> /\ v # NULL
      /\ place' = [place EXCEPT ![v] = "left"]
  BY ProxyAssumption DEF Leave, poolVars, fdVars, ProxyAssumption
<1>3. fd \in open /\ fd # ListenFd
  BY <1>1, <1>2, BaseHas DEF QuietInv, Quiet
<1>4. ASSUME NEW g \in Fds PROVE PeerOK(g)'
  <2>1. place'[peer[g]] # "out" \/ peer[g] = NULL
    BY <1>2, BaseHas DEF PartyTypes, PeersInv, PeerOK
  <2>2. CASE g = fd
    BY <1>1, <1>2, <2>1, <2>2, BaseHas DEF PeersInv, PeerOK
  <2>3. CASE g # fd
    <3>1. fin'[g] = fin[g]
      BY <1>1, <2>3, BaseHas
    <3>2. peer[g] # v
      BY <1>1, <1>2, <2>3 DEF PeersInv, OneSocket
    <3> QED BY <1>2, <2>1, <3>1, <3>2, BaseHas DEF PeersInv, PeerOK
  <2> QED BY <2>2, <2>3
<1>5. OneSocket' /\ FreshEnds'
  BY <1>1, <1>2, <1>3, BaseHas DEF PeersInv, OneSocket, FreshEnds
<1> QED BY <1>4, <1>5 DEF PeersInv

LEMMA PeersAsked ==
    ASSUME BaseInv, PeersInv, ForwardRequest \/ KeepList
    PROVE  PeersInv'
<1> Inv /\ PrivInv
  BY BaseHas
<1>1. UNCHANGED <<peer, place, open, status, fin>>
  BY DEF ForwardRequest, KeepList, partyVars, poolVars, fdVars
<1>2. job.conn \in Live(conn_l)
  BY BodyFor DEF PrivInv, LoopInv, JobOK, JobFor, ForwardRequest, KeepList, Live
<1>3. asked' = asked \/ \E r : asked' = Send(asked, ServFd(job.conn), r)
  BY <1>2 DEF ForwardRequest, KeepList, ServFd, BodyFd, BodyConn
<1>4. \A fd \in Fds : asked'[fd] # asked[fd] => fd = ServFd(job.conn)
  BY <1>3, SendElsewhere
<1>5. \A fd \in Fds : asked'[fd] # asked[fd] => peer[fd] = NULL
  BY <1>2, <1>4, ServerSocket
<1> QED BY <1>1, <1>5, PeersRest

LEMMA PeersDialed == ASSUME BaseInv, PeersInv, DialForNolist PROVE PeersInv'
<1> Inv /\ PrivInv
  BY BaseHas
<1>1. PICK c : c = BodyConn.clit_idx
  OBVIOUS
<1>2. c \in Slots
  BY <1>1, BodyFor, LiveConn DEF DialForNolist, BodyConn
<1>3. PICK addr \in ServerAddrs, k \in Slots :
         OpenServer(c, addr) /\ Opened(k) /\ \E r : asked' = Send(asked, ServFd(k)', r)
  BY <1>1 DEF DialForNolist, ServFd
<1>4. UNCHANGED <<peer, place, fin>>
  BY DEF DialForNolist, partyVars
<1>5. /\ status' = status /\ open \subseteq open'
      /\ ServFd(k)' = NoFd \/ ServFd(k)' \in (Fds \cap open') \ open
  BY <1>2, <1>3, <1>4, OpenLeaves
<1>6. ASSUME NEW fd \in Fds, asked'[fd] # asked[fd] PROVE peer[fd] = NULL
  <2>1. fd = ServFd(k)'
    BY <1>3, <1>6, SendElsewhere
  <2>2. fd \notin open
    BY <1>5, <2>1, PoolAssumption DEF NoFd, PoolAssumption
  <2> QED BY <2>2, BaseHas DEF QuietInv, Quiet
<1> QED BY <1>4, <1>5, <1>6, PeersRest

LEMMA PeersLost == ASSUME BaseInv, PeersInv, BodyLost PROVE PeersInv'
<1> Inv /\ PrivInv /\ SchedInv
  BY BaseHas
<1>1. CASE CloseBodyConn
  BY <1>1, PeersClosed DEF CloseBodyConn
<1>2. CASE ~CloseBodyConn
  <2>1. /\ UNCHANGED <<peer, place, open, status, asked>>
        /\ UNCHANGED fin \/ fin' = [fin EXCEPT ![BodyFd] = "eof"]
    BY <1>2 DEF BodyLost, Answer, chanVars, partyVars, poolVars, fdVars
  <2>2. pc = "body" /\ ServFd(job.conn) \in Fds /\ BodyFd = ServFd(job.conn) /\ job.conn \in Live(conn_l)
    BY BodyFor DEF BodyLost, SchedInv, StopInv
  <2>3. peer[BodyFd] = NULL /\ BodyFd \in open /\ BodyFd # ListenFd
    BY <2>2, ServerSocket
  <2>4. \A fd \in Fds : fin'[fd] # fin[fd] => fd = BodyFd
    BY <2>1, BaseHas
  <2> QED BY <2>1, <2>3, <2>4, PeersRest
<1> QED BY <1>1, <1>2

LEMMA PeersKept == ASSUME BaseInv, PeersInv, [Next]_vars PROVE PeersInv'
<1> Inv /\ PrivInv
  BY BaseHas
<1>1. CASE Select \/ AcceptGivesUp \/ EndScan \/ TablesFull \/ UNCHANGED vars
  <2>1. /\ UNCHANGED <<peer, place, asked, fin>>
        /\ status' = "serving" => status = "serving" /\ open' = open
    BY <1>1 DEF Select, AcceptGivesUp, AcceptFails, EndScan, TablesFull, Overrun, vars, chanVars,
                partyVars, poolVars, fdVars
  <2> QED BY <2>1, PeersRest
<1>2. ASSUME NEW i, ReadGet(i) \/ ReadOther(i) \/ ReadNothing(i) PROVE PeersInv'
  <2>1. UNCHANGED <<peer, place, asked, fin, open, status>>
    BY <1>2 DEF ReadGet, ReadOther, ReadNothing, partyVars, poolVars, fdVars
  <2> QED BY <2>1, PeersRest
<1>3. CASE Route
  <2>1. UNCHANGED <<peer, place, asked, fin>>
    BY <1>3 DEF Route, chanVars, partyVars
  <2>2. status' = status /\ open \subseteq open'
    <3>1. job.idx \in Slots
      BY <1>3 DEF Route, PrivInv, LoopInv, JobOK
    <3>2. PICK c : c = job.idx
      OBVIOUS
    <3>3. ASSUME NEW addr \in ServerAddrs, NEW k \in Slots, OpenServer(c, addr), Opened(k)
          PROVE  status' = status /\ open \subseteq open'
      BY <2>1, <3>1, <3>2, <3>3, OpenLeaves
    <3> QED BY <1>3, <3>2, <3>3 DEF Route, poolVars, fdVars
  <2> QED BY <2>1, <2>2, PeersRest
<1>4. CASE DropRequest
  BY <1>4, PeersClosed DEF DropRequest
<1>5. ASSUME NEW i, ReadHead(i) \/ ReadCutHead(i) \/ ReadNoHead(i) PROVE PeersInv'
  <2>1. \/ UNCHANGED <<peer, place, asked, fin, open, status>>
        \/ \E k : CloseConn(k) /\ WithClosed
    BY <1>5 DEF ReadHead, ReadCutHead, ReadNoHead, CloseAndReturn, chanVars, partyVars, poolVars, fdVars
  <2> QED BY <2>1, PeersRest, PeersClosed
<1>6. CASE ForwardBody
  <2>1. UNCHANGED <<peer, place, asked, fin, open, status>> \/ (CloseConn(job.conn) /\ WithClosed)
    BY <1>6 DEF ForwardBody, Answer, CloseBodyConn, chanVars, partyVars, poolVars, fdVars
  <2> QED BY <2>1, PeersRest, PeersClosed
<1>7. ASSUME NEW v, Knock(v) \/ SendRequest(v) \/ SendHeaders(v) PROVE PeersInv'
  <2>1. UNCHANGED <<peer, place, asked, fin, open, status>>
    BY <1>7 DEF Knock, SendRequest, SendHeaders, chanVars, partyVars, poolVars, fdVars
  <2> QED BY <2>1, PeersRest
<1>8. CASE SendSpins \/ ResolveHangs
  BY <1>8, StuckInPlace, PeersRest DEF chanVars, partyVars, poolVars, fdVars
<1> QED BY <1>1, <1>2, <1>3, <1>4, <1>5, <1>6, <1>7, <1>8, PeersAccepted, PeersAsked, PeersDialed,
           PeersLost, PeersLeft, PeersServed
        DEF Next, ProxyStep, PeerStep, ClientStep, ServerStep

-----------------------------------------------------------------------------
LEMMA PlanMoves ==
    ASSUME [Next]_vars
    PROVE  UNCHANGED plan \/ \E v \in Viewers : SendRequest(v)
<1>1. CASE Select \/ AcceptViewer \/ AcceptGivesUp \/ EndScan \/ TablesFull \/ Route \/ UNCHANGED vars
  BY <1>1 DEF Select, AcceptViewer, AcceptGivesUp, EndScan, TablesFull, Route, vars, viewerVars
<1>2. ASSUME NEW i, ReadGet(i) \/ ReadOther(i) \/ ReadNothing(i) PROVE UNCHANGED plan
  BY <1>2 DEF ReadGet, ReadOther, ReadNothing, viewerVars
<1>3. ASSUME NEW i, ReadHead(i) \/ ReadCutHead(i) \/ ReadNoHead(i) PROVE UNCHANGED plan
  BY <1>3 DEF ReadHead, ReadCutHead, ReadNoHead, CloseAndReturn, viewerVars
<1>4. CASE DropRequest \/ ForwardRequest \/ ForwardBody \/ KeepList \/ DialForNolist \/ BodyLost
  BY <1>4 DEF DropRequest, ForwardRequest, ForwardBody, KeepList, DialForNolist, BodyLost, Answer,
              CloseBodyConn, viewerVars
<1>5. ASSUME NEW v, Knock(v) \/ SendHeaders(v) \/ Leave(v) PROVE UNCHANGED plan
  BY <1>5 DEF Knock, SendHeaders, Leave, viewerVars
<1>6. ASSUME NEW fd, ServerAnswers(fd) \/ ServerDies(fd) \/ ServerLeaves(fd) PROVE UNCHANGED plan
  BY <1>6 DEF ServerAnswers, ServerDies, ServerLeaves, viewerVars
<1>7. CASE SendSpins \/ ResolveHangs
  BY <1>7, StuckInPlace DEF viewerVars
<1> QED BY <1>1, <1>2, <1>3, <1>4, <1>5, <1>6, <1>7
        DEF Next, ProxyStep, PeerStep, ClientStep, ServerStep

(* The request sent is the next of the plan, and then the last sent. *)
LEMMA PlanSent ==
    ASSUME BaseInv, NEW v \in Viewers, PlanOK(v), SendRequest(v)
    PROVE  PlanOK(v)' /\ LastSent(v)' = Head(plan[v]) /\ Head(plan[v]) = plan[v][1] /\ 1 \in DOMAIN plan[v]
<1>1. plan \in [Viewers -> Seq(Kinds \cup {"post"})] /\ Plans[v] \in Seq({"list", "video", "page", "bad", "post"})
  BY BaseHas, ProxyAssumption DEF TextInv, SaidInv, ProxyAssumption
<1>2. PICK p, q, P : p = plan[v] /\ q = Tail(p) /\ P = Plans[v]
  OBVIOUS
<1>3. p # <<>> /\ plan' = [plan EXCEPT ![v] = q]
  BY <1>2 DEF SendRequest
<1>4. plan'[v] = q
  BY <1>1, <1>3
<1>5. PICK K : p \in Seq(K)
  BY <1>1, <1>2
<1>6. PICK m \in Nat, n \in Nat : m = Len(p) /\ n = Len(P)
  BY <1>1, <1>2
<1>7. /\ m >= 1 /\ Len(q) = m - 1 /\ DOMAIN q = 1..(m - 1) /\ DOMAIN p = 1..m /\ Head(p) = p[1]
      /\ \A j \in 1..(m - 1) : q[j] = p[j + 1]
  BY <1>2, <1>3, <1>5, <1>6
<1>8. m <= n /\ \A j \in 1..m : p[j] = P[(n - m) + j]
  BY <1>2, <1>6, <1>7 DEF PlanOK
<1>9. LastSent(v)' = P[n - (m - 1)]
  BY <1>2, <1>4, <1>6, <1>7 DEF LastSent
<1>10. n - (m - 1) = (n - m) + 1
  BY <1>6
<1>11. ASSUME NEW j \in 1..(m - 1) PROVE q[j] = P[(n - (m - 1)) + j]
  <2>1. j + 1 \in 1..m /\ (n - m) + (j + 1) = (n - (m - 1)) + j
    BY <1>6, <1>11
  <2> QED BY <1>7, <1>8, <2>1
<1>12. Len(q) <= n
  BY <1>6, <1>7, <1>8
<1>13. PlanOK(v)'
  <2>1. Len(plan'[v]) = m - 1 /\ DOMAIN plan'[v] = 1..(m - 1) /\ Len(Plans[v]) = n
    BY <1>2, <1>4, <1>6, <1>7
  <2>2. ASSUME NEW j \in DOMAIN plan'[v]
        PROVE  plan'[v][j] = Plans[v][(Len(Plans[v]) - Len(plan'[v])) + j]
    BY <1>2, <1>4, <1>11, <2>1, <2>2
  <2> QED BY <1>2, <1>4, <1>6, <1>12, <2>2 DEF PlanOK
<1> QED BY <1>2, <1>7, <1>8, <1>9, <1>10, <1>13

LEMMA PlansKept == ASSUME BaseInv, PlansInv, [Next]_vars PROVE PlansInv'
<1>1. CASE UNCHANGED plan
  BY <1>1 DEF PlansInv, PlanOK
<1>2. ASSUME NEW v \in Viewers, SendRequest(v) PROVE PlansInv'
  <2>1. plan' = [plan EXCEPT ![v] = Tail(@)]
    BY <1>2 DEF SendRequest
  <2>2. ASSUME NEW w \in Viewers, w # v PROVE PlanOK(w)'
    <3>1. plan'[w] = plan[w]
      BY <2>1, <2>2
    <3> QED BY <2>2, <3>1 DEF PlansInv, PlanOK
  <2> QED BY <1>2, <2>2, PlanSent DEF PlansInv
<1> QED BY <1>1, <1>2, PlanMoves

(* A plan names no post where it is orderly. *)
LEMMA OrderlySent ==
    ASSUME Orderly, BaseInv, NEW v \in Viewers, PlanOK(v), SendRequest(v)
    PROVE  Head(plan[v]) \in Kinds
<1>1. /\ Head(plan[v]) = plan[v][1] /\ 1 \in DOMAIN plan[v]
      /\ plan \in [Viewers -> Seq(Kinds \cup {"post"})]
  BY PlanSent, BaseHas DEF TextInv, SaidInv
<1>2. plan[v][1] \in Kinds \cup {"post"}
  BY <1>1
<1>3. PICK j : j \in DOMAIN Plans[v] /\ plan[v][1] = Plans[v][j]
  <2>1. Plans[v] \in Seq({"list", "video", "page", "bad", "post"})
    BY ProxyAssumption DEF ProxyAssumption
  <2>2. PICK m \in Nat, n \in Nat : m = Len(plan[v]) /\ n = Len(Plans[v]) /\ DOMAIN plan[v] = 1..m
                                    /\ DOMAIN Plans[v] = 1..n
    BY <1>1, <2>1
  <2>3. m >= 1 /\ m <= n /\ plan[v][1] = Plans[v][(n - m) + 1]
    BY <1>1, <2>2 DEF PlanOK
  <2>4. (n - m) + 1 \in 1..n
    <3>1. n \in Nat /\ m \in Nat /\ m >= 1 /\ m <= n
      BY <2>3
    <3> QED BY <3>1
  <2> QED BY <2>2, <2>3, <2>4
<1> QED BY <1>1, <1>2, <1>3 DEF Orderly

LEMMA OwedKept == ASSUME Orderly, owed = {}, [Next]_vars PROVE owed' = {}
<1>1. CASE Select \/ AcceptViewer \/ AcceptGivesUp \/ EndScan \/ TablesFull \/ Route \/ UNCHANGED vars
  BY <1>1 DEF Select, AcceptViewer, AcceptGivesUp, EndScan, TablesFull, Route, vars, viewerVars
<1>2. ASSUME NEW i, ReadGet(i) \/ ReadOther(i) \/ ReadNothing(i) PROVE owed' = {}
  BY <1>2 DEF ReadGet, ReadOther, ReadNothing, viewerVars
<1>3. WithClosed => owed' = {}
  BY DEF WithClosed
<1>4. ASSUME NEW i, ReadHead(i) \/ ReadCutHead(i) \/ ReadNoHead(i) PROVE owed' = {}
  BY <1>3, <1>4 DEF ReadHead, ReadCutHead, ReadNoHead, CloseAndReturn, viewerVars
<1>5. CASE DropRequest \/ ForwardRequest \/ ForwardBody \/ KeepList \/ DialForNolist \/ BodyLost
  BY <1>3, <1>5 DEF DropRequest, ForwardRequest, ForwardBody, KeepList, DialForNolist, BodyLost, Answer,
              CloseBodyConn, viewerVars
<1>6. ASSUME NEW v, Knock(v) \/ SendRequest(v) \/ SendHeaders(v) \/ Leave(v) PROVE owed' = {}
  BY <1>6 DEF Knock, SendRequest, SendHeaders, Leave, viewerVars, Orderly
<1>7. ASSUME NEW fd, ServerAnswers(fd) \/ ServerDies(fd) \/ ServerLeaves(fd) PROVE owed' = {}
  BY <1>7 DEF ServerAnswers, ServerDies, ServerLeaves, viewerVars
<1>8. CASE SendSpins \/ ResolveHangs
  BY <1>8, StuckInPlace DEF viewerVars
<1> QED BY <1>1, <1>2, <1>4, <1>5, <1>6, <1>7, <1>8
        DEF Next, ProxyStep, PeerStep, ClientStep, ServerStep

-----------------------------------------------------------------------------
(* Steps that do nothing for viewer v, place by place. *)
LEMMA AllRest ==
    ASSUME NEW v, LastSent(v)' = LastSent(v), Good(v) \subseteq Good(v)',
           \A fd \in Fds : peer'[fd] = v =>
                             inq'[fd] = <<>> \/ (peer[fd] = v /\ inq'[fd] = inq[fd]),
           pc' \in {"route", "forward"} /\ Viewer(job.idx)' = v =>
              /\ pc \in {"route", "forward"} /\ Viewer(job.idx)' = Viewer(job.idx)
              /\ job'.kind = job.kind /\ job'.film = job.film,
           pc' \in {"body", "dial"} /\ job'.head.to = v =>
              pc \in {"body", "dial"} /\ job'.head = job.head,
           \A k \in Live(conn_l') : Owner(k)' = v => ~OnServer(k)' \/ Bears(k, v)
    PROVE  \A t \in Stages : Rests(v, t)
<1>1. Rests(v, AtLine) /\ Rests(v, AtLoop) /\ Rests(v, AtBody)
  BY LineRests, LoopRests, BodyRests
<1>2. ASSUME NEW k \in Slots PROVE Rests(v, k)
  BY <1>2, ConnRests
<1> QED BY <1>1, <1>2 DEF Stages

LEMMA FitIdle ==
    ASSUME NEW v, Fit(v), UNCHANGED <<client_l, server_l, conn_l, peer, inq, asked>>,
           UNCHANGED <<plan, got, place, waiting, crossed, nolist_buf, lister>>,
           pc' \notin {"route", "forward", "body", "dial"} \/ UNCHANGED <<pc, job>>
    PROVE  Fit(v)'
<1>1. LastSent(v)' = LastSent(v)
  BY SentSame
<1>2. Good(v) \subseteq Good(v)'
  BY <1>1, GoodWider, PendSame
<1>3. \A k \in Live(conn_l') : Bears(k, v)
  BY StillBears DEF ServFd, Owner, Viewer, Live
<1>4. \A t \in Stages : Rests(v, t)
  BY <1>1, <1>2, <1>3, AllRest DEF Viewer
<1> QED BY <1>4, FitRests

LEMMA FitLoop ==
    ASSUME NEW v, Fit(v), Select \/ AcceptGivesUp \/ EndScan \/ TablesFull \/ (\E w : Knock(w))
                          \/ SendSpins \/ ResolveHangs \/ UNCHANGED vars
    PROVE  Fit(v)'
<1>1. UNCHANGED <<client_l, server_l, conn_l, peer, inq, asked>>
  BY StuckInPlace
     DEF Select, AcceptGivesUp, AcceptFails, EndScan, TablesFull, Overrun, Knock, vars, chanVars,
         partyVars, poolVars, clientVars, serverVars, connVars
<1>2. UNCHANGED <<plan, got, place, waiting, crossed, nolist_buf, lister>>
  BY StuckInPlace
     DEF Select, AcceptGivesUp, EndScan, TablesFull, Knock, vars, viewerVars, partyVars, markVars,
         histVars, answerVars, globalVars
<1>3. pc' \notin {"route", "forward", "body", "dial"} \/ UNCHANGED <<pc, job>>
  BY StuckInPlace
     DEF Select, AcceptGivesUp, EndScan, TablesFull, Knock, vars, loopVars, Stop
<1> QED BY <1>1, <1>2, <1>3, FitIdle

(* A viewer just accepted has nothing under way. *)
LEMMA FitAccepted ==
    ASSUME BaseInv, PeersInv, AcceptViewer, NEW v \in Viewers, Fit(v)
    PROVE  Fit(v)'
<1> Inv /\ PlaceInv /\ QuietInv /\ DOMAIN place = Viewers
  BY BaseHas
<1>1. PICK u : u = Head(knocking)
  OBVIOUS
<1>2. u \in Viewers /\ place[u] = "out" /\ place' = [place EXCEPT ![u] = "in"]
  <2>1. pc = "accept" /\ place' = [place EXCEPT ![u] = "in"]
    BY <1>1 DEF AcceptViewer
  <2>2. knocking # <<>> /\ IsQueue(knocking)
    BY <2>1 DEF PlaceInv
  <2>3. u \in ToSet(knocking)
    BY <1>1, <2>2, Taken
  <2> QED BY <2>1, <2>3 DEF PlaceInv
<1>3. PICK fd \in Fds : fd \notin open /\ open' = open \cup {fd}
  BY DEF AcceptViewer, Accept, LowestFree
<1>4. /\ peer' = [g \in Fds |-> IF g = fd THEN u ELSE peer[g]]
      /\ UNCHANGED <<conn_l, inq, asked>>
      /\ \A k \in Live(conn_l) : ServFd(k)' = ServFd(k) /\ Owner(k)' = Owner(k)
  BY <1>1, <1>3, AcceptLeaves
<1>5. /\ pc' = "clients" /\ UNCHANGED <<plan, got, waiting, crossed, nolist_buf, lister>>
  BY DEF AcceptViewer, viewerVars, answerVars, markVars, histVars, globalVars
<1>6. LastSent(v)' = LastSent(v) /\ Good(v) \subseteq Good(v)'
  BY <1>5, SentSame, GoodWider, PendSame
<1>7. inq'[fd] = <<>>
  BY <1>3, <1>4 DEF QuietInv, Quiet
<1>8. \A k \in Live(conn_l') : Bears(k, v)
  BY <1>4, StillBears DEF Live
<1>9. ASSUME NEW g \in Fds, peer'[g] = v
      PROVE  inq'[g] = <<>> \/ (peer[g] = v /\ inq'[g] = inq[g])
  BY <1>4, <1>7, <1>9
<1>10. \A t \in Stages : Rests(v, t)
  BY <1>5, <1>6, <1>8, <1>9, AllRest
<1>11. CASE v # u
  <2>1. place'[v] = place[v]
    BY <1>2, <1>11
  <2> QED BY <1>5, <1>10, <2>1, FitRests
<1>12. CASE v = u
  <2>1. \A g \in Fds : peer[g] # u
    BY <1>2, ProxyAssumption DEF PeersInv, PeerOK, ProxyAssumption
  <2>2. ASSUME NEW k \in Live(conn_l) PROVE Owner(k) # u
    BY <2>1, LiveConn, ClientApart DEF Owner, Viewer
  <2>3. ~Unread(u)'
    BY <1>4, <1>7, <2>1 DEF Unread
  <2>4. \A t \in Stages : ~Busy(u, t)'
    BY <1>4, <1>5, <2>2, <2>3 DEF Busy, Live
  <2>5. Lone(u)'
    BY <2>4 DEF Lone, Stages, Slots, AtLine, AtLoop, AtBody
  <2>6. got'[u] = NULL /\ place'[u] = "in"
    BY <1>2, <1>5, <1>12 DEF Fit, Told
  <2>7. Told(u)'
    BY <2>6 DEF Told
  <2> QED BY <1>12, <2>5, <2>7 DEF Fit
<1> QED BY <1>11, <1>12

(* A connection closed: what was on it is gone, the rest stays. *)
LEMMA FitClosed ==
    ASSUME BaseInv, Inv', NEW k \in Slots, CloseConn(k), WithClosed, UNCHANGED <<plan, got, crossed, nolist_buf>>,
           pc' \notin {"route", "forward", "body", "dial"}, NEW v \in Viewers, Fit(v)
    PROVE  Fit(v)'
<1> Inv /\ v # NULL
  BY BaseHas, ProxyAssumption DEF ProxyAssumption
<1>1. PICK shut, dropped :
        /\ shut = open \ open'
        /\ inq' = [fd \in Fds |-> IF fd \in shut THEN <<>> ELSE inq[fd]]
        /\ asked' = [fd \in Fds |-> IF fd \in shut THEN <<>> ELSE asked[fd]]
        /\ peer' = [fd \in Fds |-> IF fd \in shut THEN NULL ELSE peer[fd]]
        /\ place' = [w \in Viewers |-> IF w \in dropped /\ place[w] = "in"
                                       THEN "dropped" ELSE place[w]]
        /\ waiting' = waiting \ dropped
        /\ lister' = [w \in Viewers |-> IF w \in dropped THEN NoFilm ELSE lister[w]]
  BY DEF WithClosed
<1>2. place'[v] \in {"in", "out"} => place'[v] = place[v]
  BY <1>1
<1>3. ASSUME place'[v] = "in" PROVE (v \in waiting => v \in waiting') /\ \A t \in Stages : Rests(v, t)
  <2>1. v \notin dropped
    BY <1>1, <1>3
  <2>2. LastSent(v)' = LastSent(v)
    BY SentSame
  <2>3. lister'[v] = lister[v]
    BY <1>1, <2>1
  <2>4. Good(v) \subseteq Good(v)'
    BY <2>2, <2>3, GoodWider, PendSame
  <2>5. ASSUME NEW j \in Live(conn_l') PROVE Bears(j, v)
    <3>1. /\ ServFd(j)' = ServFd(j) /\ Owner(j)' = Owner(j) /\ j \in Live(conn_l)
          /\ ServFd(j) \in Fds => ServFd(j) \in open'
      BY CloseLeaves
    <3>2. PICK fd : fd = ServFd(j)
      OBVIOUS
    <3>3. fd \in Fds => inq'[fd] = inq[fd] /\ asked'[fd] = asked[fd]
      BY <1>1, <3>1, <3>2
    <3> QED BY <3>1, <3>2, <3>3, StillBears
  <2>6. \A fd \in Fds : peer'[fd] = v => peer[fd] = v /\ inq'[fd] = inq[fd]
    BY <1>1
  <2>7. \A t \in Stages : Rests(v, t)
    BY <2>2, <2>4, <2>5, <2>6, AllRest
  <2> QED BY <1>1, <2>1, <2>7
<1> QED BY <1>2, <1>3, FitRests

-----------------------------------------------------------------------------
(* The handler reads a request, or what is left of one. *)
LEMMA PairOf ==
    \A x, y : /\ <<x, y>>[1] = x /\ Tail(<<x, y>>) = <<y>> /\ <<x, y>> # <<>>
              /\ <<y>>[1] = y /\ Tail(<<y>>) = <<>> /\ <<y>> # <<>>
OBVIOUS

(* A whole request is either refused or taken on. *)
LEMMA WholeRead ==
    ASSUME NEW i, NEW v, WholeRequest(v, inq[client_l[i].fd]),
           ReadGet(i) \/ ReadOther(i) \/ ReadNothing(i)
    PROVE  /\ inq' = [inq EXCEPT ![client_l[i].fd] = <<>>]
           /\ \/ LastSent(v) = "bad" /\ Refuse(i) /\ pc' = "clients"
              \/ /\ pc' = "route" /\ job'.idx = i /\ job'.kind = LastSent(v) /\ job'.film = FilmOf[v]
                 /\ UNCHANGED answerVars
<1>1. PICK host \in BOOLEAN : inq[client_l[i].fd] = <<GetLine(LastSent(v), FilmOf[v]), Headers(host)>>
  BY DEF WholeRequest
<1>2. PICK q, l, h, fd : /\ fd = client_l[i].fd /\ q = inq[fd] /\ q = <<l, h>>
                         /\ l = GetLine(LastSent(v), FilmOf[v]) /\ h = Headers(host)
  BY <1>1
<1>3. /\ l.part = "get" /\ l.kind = LastSent(v) /\ l.film = FilmOf[v]
      /\ h.part = "hdrs" /\ h.host = host
  BY <1>2 DEF GetLine, Headers
<1>4. PICK r : r = <<h>>
  OBVIOUS
<1>5. q # <<>> /\ q[1] = l /\ Tail(q) = r /\ r # <<>> /\ r[1] = h /\ Tail(r) = <<>>
  BY <1>2, <1>4, PairOf
<1>6. ReadGet(i) /\ RequestHeaders(i, l, r)
  BY <1>2, <1>3, <1>5 DEF ReadGet, ReadOther, ReadNothing, Starts
<1>7. Parsed(i, l, host) /\ inq' = [inq EXCEPT ![fd] = <<>>]
  BY <1>2, <1>3, <1>5, <1>6 DEF RequestHeaders, Starts
<1>8. \/ LastSent(v) = "bad" /\ Refuse(i) /\ pc' = "clients"
      \/ /\ pc' = "route" /\ job'.idx = i /\ job'.kind = LastSent(v) /\ job'.film = FilmOf[v]
         /\ UNCHANGED answerVars
  BY <1>3, <1>7 DEF Parsed, ReturnFrom
<1> QED BY <1>2, <1>7, <1>8

LEMMA EmptyRead ==
    ASSUME NEW i, inq[client_l[i].fd] = <<>>, fin[client_l[i].fd] = "no",
           ReadGet(i) \/ ReadOther(i) \/ ReadNothing(i)
    PROVE  UNCHANGED <<inq, answerVars>> /\ pc' = "clients"
BY DEF ReadGet, ReadOther, ReadNothing, Starts, ReturnFrom

LEMMA ReadEnds ==
    ASSUME NEW i, ReadGet(i) \/ ReadOther(i) \/ ReadNothing(i)
    PROVE  \/ pc' \in {"clients", "hung"}
           \/ pc' = "route" /\ job'.idx = i
<1>1. ASSUME NEW g, NEW ok, Parsed(i, g, ok)
      PROVE  pc' = "clients" \/ (pc' = "route" /\ job'.idx = i)
  BY <1>1 DEF Parsed, ReturnFrom
<1>2. ASSUME NEW g, NEW more, RequestHeaders(i, g, more)
      PROVE  pc' \in {"clients", "hung"} \/ (pc' = "route" /\ job'.idx = i)
  BY <1>1, <1>2 DEF RequestHeaders, Stop
<1> QED BY <1>2, OtherLine DEF ReadGet, Refused, ReadNothing, ReturnFrom

(* Only the viewer read from may be refused, and only while it is there. *)
LEMMA ReadAnswers ==
    ASSUME NEW i, ReadGet(i) \/ ReadOther(i) \/ ReadNothing(i)
    PROVE  UNCHANGED answerVars \/ (place[Viewer(i)] = "in" /\ Refuse(i))
<1>1. ASSUME NEW g, NEW ok, Parsed(i, g, ok) PROVE UNCHANGED answerVars \/ Refuse(i)
  BY <1>1 DEF Parsed
<1>2. ASSUME NEW g, NEW more, RequestHeaders(i, g, more) PROVE UNCHANGED answerVars \/ Refuse(i)
  BY <1>1, <1>2 DEF RequestHeaders
<1>3. UNCHANGED answerVars \/ Refuse(i)
  BY <1>2, OtherLine DEF ReadGet, Refused, ReadNothing, answerVars
<1> QED BY <1>3 DEF Refuse

LEMMA FitClient ==
    ASSUME BaseInv, PeersInv, NEW i \in Slots, ReadGet(i) \/ ReadOther(i) \/ ReadNothing(i),
           NEW v \in Viewers, Fit(v)
    PROVE  Fit(v)'
<1> Inv /\ PrivInv /\ SchedInv /\ DOMAIN inq = Fds /\ v # NULL
  BY BaseHas, ProxyAssumption DEF ProxyAssumption
<1>1. pc = "clients" /\ client_l[i] # NULL
  BY DEF ReadGet, ReadOther, ReadNothing, ClientTurn, ScanAt, Marked
<1>2. PICK fd : fd = client_l[i].fd
  OBVIOUS
<1>3. fd \in Fds /\ \A k \in Live(conn_l) : ServFd(k) # fd
  BY <1>1, <1>2, ClientApart
<1>4. /\ UNCHANGED <<client_l, server_l, conn_l, peer, asked>>
      /\ UNCHANGED <<plan, place, crossed, nolist_buf, lister>>
  BY DEF ReadGet, ReadOther, ReadNothing, viewerVars, partyVars, markVars, histVars, globalVars,
         poolVars, clientVars, serverVars, connVars
<1>5. \A g \in Fds \ {fd} : inq'[g] = inq[g]
  BY <1>2, ClientShrinks
<1>6. LastSent(v)' = LastSent(v) /\ Good(v) \subseteq Good(v)'
  BY <1>4, SentSame, GoodWider, PendSame
<1>7. \A k \in Live(conn_l') : Bears(k, v)
  <2>1. ASSUME NEW k \in Live(conn_l)
        PROVE  /\ ServFd(k)' = ServFd(k) /\ Owner(k)' = Owner(k)
               /\ ServFd(k) \in Fds => inq'[ServFd(k)] = inq[ServFd(k)]
    BY <1>3, <1>4, <1>5 DEF ServFd, Owner, Viewer
  <2> QED BY <1>4, <2>1, StillBears DEF Live
<1>8. Viewer(i) = peer[fd] /\ Viewer(i)' = peer[fd]
  BY <1>2, <1>4 DEF Viewer
<1>9. CASE peer[fd] # v
  <2>1. got'[v] = got[v] /\ (v \in waiting => v \in waiting')
    BY <1>8, <1>9, ReadAnswers DEF Refuse, Deliver, answerVars, PrivInv, GotInv
  <2>2. pc' \in {"route", "forward"} => Viewer(job.idx)' # v
    BY <1>8, <1>9, ReadEnds DEF Viewer
  <2>3. \A g \in Fds : peer'[g] = v => peer[g] = v /\ inq'[g] = inq[g]
    BY <1>4, <1>5, <1>9
  <2>4. pc' \notin {"body", "dial"}
    BY ReadEnds
  <2>5. \A t \in Stages : Rests(v, t)
    BY <1>6, <1>7, <2>2, <2>3, <2>4, AllRest
  <2> QED BY <1>4, <2>1, <2>5, FitRests
<1>10. CASE peer[fd] = v /\ place[v] # "in"
  <2>1. UNCHANGED answerVars
    BY <1>8, <1>10, ReadAnswers
  <2> QED BY <1>4, <1>10, <2>1, FitRests DEF answerVars
<1>11. CASE peer[fd] = v /\ place[v] = "in" /\ inq[fd] = <<>>
  <2>1. fin[fd] = "no"
    BY <1>3, <1>11 DEF PeersInv, PeerOK
  <2>2. UNCHANGED <<inq, answerVars>> /\ pc' = "clients"
    BY <1>2, <1>11, <2>1, EmptyRead
  <2> QED BY <1>4, <2>2, FitIdle DEF answerVars
<1>12. CASE peer[fd] = v /\ place[v] = "in" /\ inq[fd] # <<>>
  <2>1. Lone(v) /\ AtLine \in Stages /\ AtLoop \in Stages
    BY <1>12, StagesApart DEF Fit
  <2>2. Busy(v, AtLine)
    BY <1>3, <1>12 DEF Busy, Unread
  <2>3. v \in waiting /\ WholeRequest(v, inq[fd])
    BY <1>3, <1>12, <2>1, <2>2 DEF Lone, Fits
  <2>4. /\ inq' = [inq EXCEPT ![fd] = <<>>]
        /\ \/ LastSent(v) = "bad" /\ Refuse(i) /\ pc' = "clients"
           \/ /\ pc' = "route" /\ job'.idx = i /\ job'.kind = LastSent(v) /\ job'.film = FilmOf[v]
              /\ UNCHANGED answerVars
    BY <1>2, <2>3, WholeRead
  <2>5. \A g \in Fds : peer'[g] = v => inq'[g] = <<>>
    BY <1>3, <1>4, <1>12, <2>4 DEF PeersInv, OneSocket
  <2>6. ~Busy(v, AtLine)'
    BY <2>5, StagesApart DEF Busy, Unread
  <2>7. Rests(v, AtBody) /\ \A k \in Slots : Rests(v, k)
    BY <1>6, <1>7, <2>4, BodyRests, ConnRests
  <2>8. CASE LastSent(v) = "bad" /\ Refuse(i) /\ pc' = "clients"
    <3>1. Rests(v, AtLoop)
      BY <1>6, <2>8, LoopRests
    <3>2. Lone(v)'
      BY <2>1, <2>2, <2>6, <2>7, <3>1, LoneEnds DEF Stages
    <3>3. got' = [got EXCEPT ![v] = [type |-> "error", film |-> FilmOf[v], to |-> v]]
      BY <1>8, <1>12, <2>8 DEF Refuse, Deliver
    <3>4. got'[v].type = "error" /\ place'[v] = "in"
      BY <1>4, <1>12, <3>3 DEF PrivInv, GotInv
    <3>5. Told(v)'
      BY <1>6, <2>8, <3>4 DEF Told, Due
    <3> QED BY <3>2, <3>5 DEF Fit
  <2>9. CASE /\ pc' = "route" /\ job'.idx = i /\ job'.kind = LastSent(v) /\ job'.film = FilmOf[v]
             /\ UNCHANGED answerVars
    <3>1. Fits(v, AtLoop)'
      BY <1>6, <2>9, StagesApart DEF Fits
    <3>2. v \in waiting' /\ got' = got
      BY <2>3, <2>9 DEF answerVars
    <3>3. Lone(v)'
      BY <2>1, <2>2, <2>6, <2>7, <3>1, <3>2, LoneMoves DEF Stages
    <3>4. Told(v)'
      BY <1>4, <1>6, <1>12, <3>2 DEF Fit, Told, OwnFilm
    <3> QED BY <3>3, <3>4 DEF Fit
  <2> QED BY <2>4, <2>8, <2>9
<1> QED BY <1>9, <1>10, <1>11, <1>12

-----------------------------------------------------------------------------
(* A connection found or opened for a request. *)
LEMMA FreshIdle ==
    ASSUME BaseInv, NEW c \in Slots, NEW addr \in ServerAddrs, OpenServer(c, addr),
           NEW k \in Slots, Opened(k), UNCHANGED <<peer, inq>>,
           \A fd \in Fds : fd # ServFd(k)' => asked'[fd] = asked[fd], NEW v
    PROVE  /\ Live(conn_l') = Live(conn_l) \cup {k} /\ k \notin Live(conn_l)
           /\ \A j \in Live(conn_l) : Bears(j, v)
           /\ Owner(k)' = Viewer(c) /\ Viewer(c)' = Viewer(c)
           /\ ServFd(k)' \in Fds => inq[ServFd(k)'] = <<>> /\ asked[ServFd(k)'] = <<>>
<1> Inv /\ QuietInv
  BY BaseHas
<1>1. /\ Live(conn_l') = Live(conn_l) \cup {k}
      /\ Viewer(c)' = Viewer(c) /\ Owner(k)' = Viewer(c)
      /\ ServFd(k)' = NoFd \/ ServFd(k)' \in (Fds \cap open') \ open
      /\ \A j \in Live(conn_l) : j # k /\ ServFd(j)' = ServFd(j) /\ Owner(j)' = Owner(j)
  BY OpenLeaves
<1>2. ServFd(k)' \in Fds => ServFd(k)' \notin open
  BY <1>1, PoolAssumption DEF NoFd, PoolAssumption
<1>3. ASSUME NEW j \in Live(conn_l) PROVE Bears(j, v)
  <2>1. ServFd(j) \in Fds => ServFd(j) \in open
    BY LiveConn
  <2>2. ServFd(j) \in Fds => inq'[ServFd(j)] = inq[ServFd(j)] /\ asked'[ServFd(j)] = asked[ServFd(j)]
    BY <1>2, <2>1
  <2> QED BY <1>1, <2>2, StillBears
<1> QED BY <1>1, <1>2, <1>3 DEF QuietInv, Quiet

LEMMA FitRoute == ASSUME BaseInv, Route, NEW v \in Viewers, Fit(v) PROVE Fit(v)'
<1> Inv /\ SchedInv /\ TextInv
  BY BaseHas
<1>1. PICK c : c = job.idx
  OBVIOUS
<1>2. /\ UNCHANGED <<peer, inq, asked, plan, got, place, waiting, crossed, nolist_buf, lister>>
      /\ pc = "route" /\ pc' = "forward"
  BY DEF Route, chanVars, partyVars, viewerVars, answerVars, markVars, histVars, globalVars
<1>3. c \in Slots /\ job'.idx = c /\ job'.kind = job.kind /\ job'.film = job.film
  BY <1>1, <1>2 DEF Route, SchedInv, PrivInv, LoopInv, JobOK, JobFor, TextInv, SaidInv
<1>4. Viewer(c)' = Viewer(c) /\ \A k \in Live(conn_l') : ~OnServer(k)' \/ Bears(k, v)
  <2>1. CASE UNCHANGED poolVars
    <3>1. UNCHANGED <<client_l, server_l, conn_l>>
      BY <2>1 DEF poolVars, clientVars, serverVars, connVars
    <3> QED BY <1>2, <3>1, StillBears DEF ServFd, Owner, Viewer, Live
  <2>2. ASSUME NEW addr \in ServerAddrs, NEW k \in Slots, OpenServer(c, addr), Opened(k)
        PROVE  Viewer(c)' = Viewer(c) /\ \A j \in Live(conn_l') : ~OnServer(j)' \/ Bears(j, v)
    <3>1. /\ Live(conn_l') = Live(conn_l) \cup {k} /\ \A j \in Live(conn_l) : Bears(j, v)
          /\ Viewer(c)' = Viewer(c)
          /\ ServFd(k)' \in Fds => inq[ServFd(k)'] = <<>> /\ asked[ServFd(k)'] = <<>>
      BY <1>2, <1>3, <2>2, FreshIdle
    <3>2. ~OnServer(k)'
      BY <1>2, <3>1 DEF OnServer, Asking, Heading
    <3> QED BY <3>1, <3>2
  <2> QED BY <1>1, <2>1, <2>2 DEF Route
<1>5. LastSent(v)' = LastSent(v) /\ Good(v) \subseteq Good(v)'
  BY <1>2, SentSame, GoodWider, PendSame
<1>6. Viewer(job.idx)' = Viewer(job.idx)
  BY <1>1, <1>3, <1>4 DEF Viewer
<1>7. \A t \in Stages : Rests(v, t)
  BY <1>2, <1>3, <1>4, <1>5, <1>6, AllRest
<1> QED BY <1>2, <1>7, FitRests

(* Requests that may be on their way to a server for viewer v. *)
LEMMA GoodRequest ==
    ASSUME NEW v, NEW kind \in Kinds, LastSent(v)' = kind, NEW film \in Buffered,
           kind = "list" => Pend(v)',
           NEW r, r = Request(v, kind, film)
    PROVE  <<TypeFor(r), r.film>> \in Good(v)'
<1>1. r.kind = kind /\ r.film = film
  BY DEF Request
<1>2. /\ TypeFor(r) \in Answers(kind) /\ TypeFor(r) # "xml"
      /\ TypeFor(r) = "xmlList" => kind = "list"
  BY <1>1 DEF TypeFor, Answers, Kinds
<1> QED BY <1>1, <1>2 DEF Good

(* The films asked for and in flight, when a request is forwarded. *)
LEMMA PendForward ==
    ASSUME BaseInv, ForwardRequest, NEW v \in Viewers,
           v = Viewer(job.idx) => job.film = FilmOf[v]
    PROVE  /\ crossed \subseteq crossed'
           /\ Pend(v) => Pend(v)'
           /\ v = Viewer(job.idx) /\ job.kind = "list" => Pend(v)'
<1>1. PICK u : u = Viewer(job.idx)
  OBVIOUS
<1>2. lister \in [Viewers -> Films \cup {NoFilm}] /\ FilmOf[v] \in Films
  BY DEF BaseInv, TypesInv, MarkTypes, Films
<1>3. CASE job.kind = "list"
  <2>1. /\ nolist_buf' = job.film /\ lister' = [lister EXCEPT ![u] = job.film]
        /\ crossed' = crossed \cup {w \in Viewers \ {u} : lister[w] # NoFilm}
    BY <1>1, <1>3 DEF ForwardRequest
  <2>2. CASE v = u
    BY <1>1, <1>2, <2>1, <2>2 DEF Pend
  <2>3. CASE v # u
    BY <1>1, <1>2, <2>1, <2>3, ProxyAssumption DEF Pend, ProxyAssumption
  <2> QED BY <2>2, <2>3
<1>4. CASE job.kind # "list"
  <2>1. /\ nolist_buf' \in {nolist_buf} \cup {g \in {Garbage} : "junk" \in Unset}
        /\ UNCHANGED <<lister, crossed>>
    BY <1>4 DEF ForwardRequest
  <2> QED BY <1>4, <2>1 DEF Pend
<1> QED BY <1>3, <1>4

(* Requests sent on conn k touch no other. *)
LEMMA OthersBear ==
    ASSUME BaseInv, NEW k \in Live(conn_l), NEW v, UNCHANGED <<client_l, server_l, conn_l, peer>>,
           \A fd \in Fds : fd # ServFd(k) => inq'[fd] = inq[fd] /\ asked'[fd] = asked[fd]
    PROVE  /\ Live(conn_l') = Live(conn_l) /\ ServFd(k)' = ServFd(k) /\ Owner(k)' = Owner(k)
           /\ \A j \in Live(conn_l) : j # k => Bears(j, v)
<1> Inv
  BY BaseHas
<1>1. \A j \in Live(conn_l) : ServFd(j)' = ServFd(j) /\ Owner(j)' = Owner(j)
  BY DEF ServFd, Owner, Viewer
<1>2. ASSUME NEW j \in Live(conn_l), j # k PROVE Bears(j, v)
  <2>1. ServFd(j) \in Fds => ServFd(j) # ServFd(k)
    BY <1>2, OneConn
  <2> QED BY <1>1, <2>1, StillBears
<1> QED BY <1>1, <1>2 DEF Live

(* A request that moves on to conn k of viewer v from place s. *)
LEMMA FitAsked ==
    ASSUME BaseInv, NEW v, Lone(v), NEW s \in {AtLoop, AtBody}, Busy(v, s), ~Busy(v, s)',
           v \in waiting',
           NEW k \in Slots, k \in Live(conn_l') /\ Owner(k)' = v, ~OnServer(k)' \/ Fits(v, k)',
           \A u \in Stages : u = s \/ u = k \/ Rests(v, u)
    PROVE  Lone(v)'
<1>1. s \in Stages /\ k \in Stages /\ k # s
  BY StagesApart
<1>2. CASE Fits(v, k)'
  BY <1>1, <1>2, LoneMoves
<1>3. CASE ~OnServer(k)'
  <2>1. ~Busy(v, k)'
    BY <1>3, StagesApart DEF Busy
  <2> QED BY <1>1, <2>1, LoneEnds DEF Rests
<1> QED BY <1>2, <1>3

(* What is then on the socket of conn k, which carried nothing before. *)
LEMMA AskedFits ==
    ASSUME BaseInv, NEW v, NEW k, NEW fd, NEW r, ServFd(k)' = fd, k \in Live(conn_l'),
           asked' = Send(asked, fd, r),
           fd \in Fds => ~Asking(asked[fd]) /\ ~Heading(inq'[fd]),
           <<TypeFor(r), r.film>> \in Good(v)'
    PROVE  ~OnServer(k)' \/ Fits(v, k)'
<1>1. k # AtLine /\ k # AtLoop /\ k # AtBody
  BY StagesApart
<1>2. CASE fd \in Fds /\ fin[fd] = "no"
  <2>1. asked'[fd] = Append(asked[fd], r) /\ IsQueue(asked[fd])
    BY <1>2, SendElsewhere, BaseHas DEF AsksInv, AsksOK
  <2>2. Carried(Good(v)', asked'[fd], inq'[fd])
    BY <1>2, <2>1, CarriedSend
  <2>3. Carried(Good(v), asked[ServFd(k)], inq[ServFd(k)])'
    BY <2>2 DEF Carried, AsksIn, HeadsIn, TypeFor, OneAsk, OneHead, Asking, Heading
  <2> QED BY <1>1, <2>3 DEF Fits
<1>3. CASE ~(fd \in Fds /\ fin[fd] = "no")
  <2>1. asked' = asked
    BY <1>3, SendElsewhere
  <2> QED BY <2>1 DEF OnServer, Asking, Heading
<1> QED BY <1>2, <1>3

LEMMA FitForward ==
    ASSUME BaseInv, PeersInv, ForwardRequest, NEW v \in Viewers, Fit(v)
    PROVE  Fit(v)'
<1> Inv /\ PrivInv /\ TextInv /\ DOMAIN asked = Fds
  BY BaseHas
<1>1. PICK u, k, fd, r :
        /\ u = Viewer(job.idx) /\ k = job.conn /\ fd = ServFd(k)
        /\ r = Request(u, job.kind, job.film)
  OBVIOUS
<1>2. /\ pc = "forward" /\ pc' = "clients" /\ asked' = Send(asked, fd, r)
      /\ UNCHANGED <<client_l, server_l, conn_l, peer, inq, fin, plan, place, waiting, got>>
  BY <1>1 DEF ForwardRequest, ServFd, Return, partyVars, viewerVars, answerVars, poolVars,
              clientVars, serverVars, connVars
<1>3. k \in Live(conn_l) /\ Owner(k) = u /\ k \in Slots
  BY <1>1, <1>2 DEF PrivInv, LoopInv, JobOK, JobFor, Live
<1>4. LastSent(v)' = LastSent(v)
  BY <1>2, SentSame
<1>5. /\ Live(conn_l') = Live(conn_l) /\ ServFd(k)' = fd /\ Owner(k)' = u
      /\ \A j \in Live(conn_l) : j # k => Bears(j, v)
  BY <1>1, <1>2, <1>3, SendElsewhere, OthersBear
<1>6. Rests(v, AtLine)
  BY <1>2, <1>4, LineRests
<1>7. CASE v # u \/ place[v] # "in"
  <2>1. v # u => crossed \subseteq crossed' /\ (Pend(v) => Pend(v)')
    BY <1>1, PendForward
  <2>2. v # u => Good(v) \subseteq Good(v)'
    BY <1>4, <2>1, GoodWider
  <2>3. ASSUME v # u PROVE \A t \in Stages : Rests(v, t)
    <3>1. \A j \in Live(conn_l') : Owner(j)' = v => Bears(j, v)
      BY <1>5, <2>3
    <3> QED BY <1>2, <1>4, <2>2, <2>3, <3>1, AllRest
  <2>4. crossed \subseteq crossed'
    BY DEF ForwardRequest
  <2> QED BY <1>2, <1>7, <2>3, <2>4, FitRests
<1>8. CASE v = u /\ place[v] = "in"
  <2>1. Lone(v) /\ AtLoop \in Stages
    BY <1>8, StagesApart DEF Fit
  <2>2. Busy(v, AtLoop) /\ ~Busy(v, AtLoop)'
    BY <1>1, <1>2, <1>8, StagesApart DEF Busy
  <2>3. v \in waiting /\ job.kind = LastSent(v) /\ job.film = FilmOf[v]
    BY <2>1, <2>2 DEF Lone, Fits
  <2>4. k \in Stages /\ k # AtLoop
    BY <1>3, StagesApart
  <2>5. fd \in Fds => ~Asking(asked[fd]) /\ ~Heading(inq[fd])
    BY <1>1, <1>3, <1>8, <2>1, <2>2, <2>4 DEF Lone, Busy, OnServer
  <2>6. job.kind \in Kinds /\ job.film \in Buffered
    BY <1>2 DEF TextInv, SaidInv, Named, Buffered
  <2>7. /\ crossed \subseteq crossed' /\ (Pend(v) => Pend(v)')
        /\ job.kind = "list" => Pend(v)'
    BY <1>1, <1>8, <2>3, PendForward
  <2>8. <<TypeFor(r), r.film>> \in Good(v)'
    BY <1>1, <1>4, <1>8, <2>3, <2>6, <2>7, GoodRequest
  <2>9. Good(v) \subseteq Good(v)'
    BY <1>4, <2>7, GoodWider
  <2>10. ~OnServer(k)' \/ Fits(v, k)'
    BY <1>2, <1>3, <1>5, <2>5, <2>8, AskedFits
  <2>11. Rests(v, AtBody) /\ \A j \in Slots : j = k \/ Rests(v, j)
    BY <1>2, <1>5, <2>9, BodyRests, ConnRests
  <2>12. Lone(v)'
    BY <1>2, <1>3, <1>5, <1>6, <1>8, <2>1, <2>2, <2>3, <2>10, <2>11, FitAsked DEF Stages
  <2>13. Told(v)'
    BY <1>2, <1>4, <1>8, <2>7 DEF Fit, Told, OwnFilm
  <2> QED BY <2>12, <2>13 DEF Fit
<1> QED BY <1>7, <1>8

-----------------------------------------------------------------------------
(* A head read moves the answer from the server to the handler. *)
LEMMA FitHead ==
    ASSUME BaseInv, Inv', NEW i \in Slots, ReadHead(i) \/ ReadCutHead(i) \/ ReadNoHead(i),
           NEW v \in Viewers, Fit(v)
    PROVE  Fit(v)'
<1> Inv /\ PrivInv /\ SchedInv /\ ChanInv /\ DOMAIN inq = Fds
  BY BaseHas
<1>1. ASSUME NEW k \in Slots, CloseAndReturn(k, "servers", i) PROVE Fit(v)'
  <2>1. /\ CloseConn(k) /\ WithClosed /\ pc' = "servers" /\ UNCHANGED <<plan, got, crossed, nolist_buf>>
    BY <1>1 DEF CloseAndReturn, ReturnFrom, globalVars
  <2> QED BY <2>1, FitClosed
<1>2. CASE pc' \in {"hung", "aborted"} /\ UNCHANGED <<globalVars, chanVars, viewerVars, partyVars,
                                                    markVars, answerVars, poolVars>>
  BY <1>2, FitIdle DEF globalVars, chanVars, viewerVars, partyVars, markVars, histVars, answerVars,
                       poolVars, clientVars, serverVars, connVars
<1>3. ASSUME NEW k \in Slots, NEW fd, NEW h, fd = server_l[i].fd, h = inq[fd][1],
             ServerTurn(i), ServerConn(fd, k), Starts(inq[fd], "head"), h.type # "misc",
             pc' = "body", job' = [idx |-> i, conn |-> k, head |-> h],
             inq' = [inq EXCEPT ![fd] = Tail(@)],
             UNCHANGED <<asked, viewerVars, partyVars, markVars, answerVars, globalVars, poolVars>>
      PROVE  Fit(v)'
  <2>1. k \in Live(conn_l) /\ ServFd(k) = fd /\ fd \in Fds
    BY <1>3 DEF ServerConn, Carries, ServFd, Live, ServerTurn, ScanAt, Marked, PrivInv
  <2>2. PICK q, u : q = inq[fd] /\ u = Owner(k)
    OBVIOUS
  <2>3. q # <<>> /\ q[1] = h /\ h.part = "head" /\ IsQueue(q) /\ Heading(q)
    <3>1. q # <<>> /\ q[1] = h /\ h.part = "head" /\ IsQueue(q)
      BY <1>3, <2>1, <2>2 DEF Starts, SchedInv, PartsInv
    <3>2. 1 \in DOMAIN q
      BY <3>1, TailAt
    <3> QED BY <3>1, <3>2 DEF Heading
  <2>4. h.to = u
    <3>1. Ours(asked[fd], q, u)
      BY <2>1, <2>2 DEF ChanInv, Mail
    <3> QED BY <2>3, <3>1, OursRead
  <2>5. /\ UNCHANGED <<client_l, server_l, conn_l, peer, plan, got, place, waiting>>
        /\ UNCHANGED <<crossed, nolist_buf, lister>>
    BY <1>3 DEF viewerVars, partyVars, markVars, histVars, globalVars, answerVars, poolVars,
                clientVars, serverVars, connVars
  <2>6. inq'[fd] = Tail(q) /\ \A g \in Fds : g # fd => inq'[g] = inq[g]
    BY <1>3, <2>1, <2>2
  <2>7. LastSent(v)' = LastSent(v) /\ Good(v) \subseteq Good(v)'
    BY <2>5, SentSame, GoodWider, PendSame
  <2>8. /\ Live(conn_l') = Live(conn_l) /\ ServFd(k)' = fd /\ Owner(k)' = u
        /\ \A j \in Live(conn_l) : j # k => Bears(j, v)
    <3>1. \A j \in Live(conn_l) : ServFd(j)' = ServFd(j) /\ Owner(j)' = Owner(j)
      BY <2>5 DEF ServFd, Owner, Viewer
    <3>2. ASSUME NEW j \in Live(conn_l), j # k PROVE Bears(j, v)
      <4>1. ServFd(j) \in Fds => ServFd(j) # fd
        BY <2>1, <3>2, OneConn
      <4> QED BY <1>3, <2>6, <3>1, <4>1, StillBears
    <3> QED BY <2>1, <2>2, <2>5, <3>1, <3>2 DEF Live
  <2>9. Rests(v, AtLine) /\ Rests(v, AtLoop)
    <3>1. ASSUME NEW g \in Fds, peer'[g] = v PROVE peer[g] = v /\ inq'[g] = inq[g]
      <4>1. peer[fd] = NULL /\ v # NULL
        BY <2>1, ServerSocket, ProxyAssumption DEF ProxyAssumption
      <4> QED BY <2>5, <2>6, <3>1, <4>1
    <3> QED BY <1>3, <2>7, <3>1, LineRests, LoopRests
  <2>10. CASE v # u \/ place[v] # "in"
    <3>1. ASSUME v # u PROVE \A t \in Stages : Rests(v, t)
      <4>1. Rests(v, AtBody)
        BY <1>3, <2>4, <2>7, <3>1, BodyRests
      <4>2. \A j \in Slots : Rests(v, j)
        BY <2>7, <2>8, <3>1, ConnRests
      <4> QED BY <2>9, <4>1, <4>2 DEF Stages
    <3> QED BY <2>5, <2>10, <3>1, FitRests
  <2>11. CASE v = u /\ place[v] = "in"
    <3>1. Lone(v) /\ k \in Stages /\ AtBody \in Stages /\ k # AtLine /\ k # AtLoop /\ k # AtBody
      BY <2>11, StagesApart DEF Fit
    <3>2. Busy(v, k)
      BY <2>1, <2>2, <2>3, <2>11 DEF Busy, OnServer
    <3>3. v \in waiting /\ Carried(Good(v), asked[fd], q)
      BY <2>1, <2>2, <3>1, <3>2 DEF Lone, Fits
    <3>4. <<h.type, h.film>> \in Good(v) /\ ~Asking(asked[fd]) /\ ~Heading(Tail(q))
      BY <2>3, <3>3, CarriedTaken
    <3>5. ~OnServer(k)'
      BY <1>3, <2>6, <2>8, <3>4 DEF OnServer
    <3>6. ~Busy(v, k)'
      BY <3>1, <3>5 DEF Busy
    <3>7. Fits(v, AtBody)'
      BY <1>3, <2>7, <3>4, StagesApart DEF Fits
    <3>8. \A j \in Slots : j = k \/ Rests(v, j)
      BY <2>7, <2>8, ConnRests
    <3>9. Lone(v)'
      BY <2>5, <2>9, <3>1, <3>2, <3>3, <3>6, <3>7, <3>8, LoneMoves DEF Stages
    <3>10. Told(v)'
      BY <2>5, <2>7, <2>11 DEF Fit, Told, OwnFilm
    <3> QED BY <3>9, <3>10 DEF Fit
  <2> QED BY <2>10, <2>11
<1>4. CASE ReadHead(i)
  <2>1. PICK k \in Slots :
           LET fd == server_l[i].fd
               h == inq[fd][1]
           IN /\ ServerTurn(i) /\ ServerConn(fd, k) /\ Starts(inq[fd], "head")
              /\ \/ CloseAndReturn(k, "servers", i)
                 \/ /\ h.type # "misc" /\ pc' = "body"
                    /\ job' = [idx |-> i, conn |-> k, head |-> h]
                    /\ inq' = [inq EXCEPT ![fd] = Tail(@)]
                    /\ UNCHANGED <<asked, viewerVars, partyVars, markVars, answerVars, globalVars,
                                   poolVars>>
    BY <1>4 DEF ReadHead
  <2> QED BY <1>1, <1>3, <2>1
<1>5. CASE ReadCutHead(i) \/ ReadNoHead(i)
  BY <1>1, <1>2, <1>5 DEF ReadCutHead, ReadNoHead, Stop
<1> QED BY <1>4, <1>5

-----------------------------------------------------------------------------
(* Only a manifest with its bitrates is asked for again on a new conn. *)
DialOK == pc = "dial" => job.head.type = "xmlList"

LEMMA ListDialed == ASSUME DialOK, [Next]_vars PROVE DialOK'
<1>1. CASE UNCHANGED loopVars
  BY <1>1 DEF DialOK, loopVars
<1>2. CASE Select \/ AcceptViewer \/ AcceptGivesUp \/ EndScan \/ TablesFull \/ Route
  BY <1>2 DEF Select, AcceptViewer, AcceptGivesUp, EndScan, TablesFull, Route, Stop, DialOK
<1>3. ASSUME NEW i, ReadGet(i) \/ ReadOther(i) \/ ReadNothing(i) PROVE DialOK'
  BY <1>3, ReadEnds DEF DialOK
<1>4. ASSUME NEW i, ReadHead(i) \/ ReadCutHead(i) \/ ReadNoHead(i) PROVE DialOK'
  BY <1>4 DEF ReadHead, ReadCutHead, ReadNoHead, CloseAndReturn, ReturnFrom, Stop, DialOK
<1>5. CASE DropRequest \/ ForwardRequest \/ ForwardBody \/ KeepList \/ DialForNolist \/ BodyLost
  BY <1>5 DEF DropRequest, ForwardRequest, ForwardBody, KeepList, DialForNolist, BodyLost, Answer,
              CloseBodyConn, Return, Stop, DialOK
<1>6. CASE PeerStep \/ UNCHANGED vars
  <2>1. UNCHANGED loopVars
    BY <1>6 DEF PeerStep, Knock, SendRequest, SendHeaders, Leave, ServerAnswers, ServerDies,
                ServerLeaves, vars
  <2> QED BY <1>1, <2>1
<1>7. CASE SendSpins \/ ResolveHangs
  BY <1>7, StuckInPlace DEF DialOK
<1> QED BY <1>2, <1>3, <1>4, <1>5, <1>6, <1>7 DEF Next, ProxyStep, ClientStep, ServerStep

LEMMA FitDrop ==
    ASSUME BaseInv, Inv', DropRequest, NEW v \in Viewers, Fit(v)
    PROVE  Fit(v)'
<1>1. /\ CloseConn(job.conn) /\ WithClosed /\ pc' = "clients"
      /\ UNCHANGED <<plan, got, crossed, nolist_buf>>
  BY DEF DropRequest, Return, globalVars
<1>2. job.conn \in Slots
  BY BaseHas DEF PrivInv, LoopInv, JobOK, DropRequest
<1> QED BY <1>1, <1>2, FitClosed

(* With the request elsewhere, nothing is on the other conns of v. *)
LEMMA QuietRests ==
    ASSUME NEW v, Lone(v), NEW s \in Stages, Busy(v, s), NEW j \in Slots, j # s,
           j \in Live(conn_l') /\ Owner(j)' = v => ~OnServer(j)' \/ Bears(j, v)
    PROVE  Rests(v, j)
<1>1. j # AtLine /\ j # AtLoop /\ j # AtBody /\ j \in Stages
  BY StagesApart
<1>2. ~Busy(v, j)
  BY <1>1 DEF Lone
<1>3. ~Busy(v, j)'
  BY <1>1, <1>2 DEF Busy, Bears
<1> QED BY <1>3 DEF Rests

(* An answer sent on, or what passes for one. *)
LEMMA FitAnswered ==
    ASSUME BaseInv, pc = "body", BodyFd \in Fds, NEW film, Answer(BodyOwner, film),
           film = job.head.film \/ job.head.type = "f4f", job.head.type # "xmlList",
           UNCHANGED inq \/ (inq[BodyFd] # <<>> /\ inq' = [inq EXCEPT ![BodyFd] = Tail(@)]),
           NEW v \in Viewers, Fit(v)
    PROVE  Fit(v)'
<1> Inv /\ PrivInv /\ DOMAIN inq = Fds /\ v # NULL
  BY BaseHas, ProxyAssumption DEF ProxyAssumption
<1>1. PICK k, fd, u : k = job.conn /\ fd = BodyFd /\ u = job.head.to
  OBVIOUS
<1>2. /\ k \in Live(conn_l) /\ k \in Slots /\ ServFd(k) = fd /\ fd \in Fds
      /\ Owner(k) = u /\ BodyOwner = u
  BY <1>1, BodyFor
<1>3. /\ UNCHANGED <<client_l, server_l, conn_l, peer, asked, plan, place, crossed, nolist_buf, lister>>
      /\ pc' = "servers"
  BY DEF Answer, Return, viewerVars, partyVars, markVars, histVars, globalVars, poolVars, clientVars,
         serverVars, connVars
<1>4. IsQueue(inq[fd]) /\ \A g \in Fds : g # fd => inq'[g] = inq[g]
  BY <1>1, <1>2, BaseHas DEF PartsInv
<1>5. LastSent(v)' = LastSent(v) /\ Good(v) \subseteq Good(v)'
  BY <1>3, SentSame, GoodWider, PendSame
<1>6. /\ Live(conn_l') = Live(conn_l) /\ ServFd(k)' = fd /\ Owner(k)' = u
      /\ \A j \in Live(conn_l) : j # k => Bears(j, v)
  BY <1>2, <1>3, <1>4, OthersBear
<1>7. peer[fd] = NULL
  BY <1>2, ServerSocket
<1>8. Rests(v, AtLine) /\ Rests(v, AtLoop) /\ Rests(v, AtBody)
  BY <1>3, <1>4, <1>5, <1>7, LineRests, LoopRests, BodyRests
<1>9. CASE v # u \/ place[v] # "in"
  <2>1. (got'[v] = got[v] /\ (v \in waiting => v \in waiting')) \/ place'[v] # "in"
    BY <1>2, <1>3, <1>9 DEF Answer, Deliver, answerVars, PrivInv, GotInv
  <2>2. got'[v] = got[v]
    BY <1>2, <1>9 DEF Answer, Deliver, answerVars, PrivInv, GotInv
  <2>3. v # u => \A j \in Slots : Rests(v, j)
    BY <1>5, <1>6, ConnRests
  <2> QED BY <1>3, <1>8, <1>9, <2>1, <2>2, <2>3, FitRests DEF Stages
<1>10. CASE v = u /\ place[v] = "in"
  <2>1. Lone(v) /\ AtBody \in Stages /\ Busy(v, AtBody) /\ ~Busy(v, AtBody)'
    BY <1>1, <1>3, <1>10, StagesApart DEF Fit, Busy
  <2>2. <<job.head.type, job.head.film>> \in Good(v) /\ job.head.type # "misc"
    BY <2>1 DEF Lone, Fits
  <2>3. ~OnServer(k)
    BY <1>2, <1>10, <2>1, StagesApart DEF Lone, Busy
  <2>4. ~OnServer(k)'
    <3>1. inq[fd] # <<>> => (Heading(Tail(inq[fd])) => Heading(inq[fd]))
      BY <1>4, CarriedTaken
    <3>2. Heading(inq'[fd]) => Heading(inq[fd])
      BY <1>1, <1>2, <3>1
    <3> QED BY <1>2, <1>3, <1>6, <2>3, <3>2 DEF OnServer
  <2>5. \A j \in Slots : Rests(v, j)
    BY <1>5, <1>6, <2>4, ConnRests
  <2>6. Lone(v)'
    BY <1>8, <2>1, <2>5, LoneEnds DEF Stages
  <2>7. got'[v].type = job.head.type /\ got'[v].film = film
    BY <1>2, <1>10 DEF Answer, Deliver, PrivInv, GotInv
  <2>8. job.head.type = Due(LastSent(v))
    BY <2>2 DEF Good, Answers, Due
  <2>9. job.head.type = "xml" => OwnFilm(v, film)
    BY <2>2 DEF Good
  <2>10. Told(v)'
    BY <1>3, <1>5, <1>10, <2>7, <2>8, <2>9 DEF Told, OwnFilm
  <2> QED BY <2>6, <2>10 DEF Fit
<1> QED BY <1>9, <1>10

(* The manifest asked for again, for a viewer that waits for a manifest. *)
LEMMA ListGood ==
    ASSUME BaseInv, NEW v, Lone(v), Busy(v, AtBody), job.head.type = "xmlList",
           LastSent(v)' = LastSent(v), UNCHANGED <<crossed, nolist_buf>>,
           NEW r, r = Request(v, "nolist", nolist_buf)
    PROVE  v \in waiting /\ <<TypeFor(r), r.film>> \in Good(v)'
<1>1. v \in waiting /\ <<"xmlList", job.head.film>> \in Good(v)
  BY StagesApart DEF Lone, Fits
<1>2. LastSent(v) = "list" /\ Pend(v)
  BY <1>1 DEF Good, Answers
<1>3. r.kind = "nolist" /\ r.film = nolist_buf /\ nolist_buf \in Buffered
  BY BaseHas DEF Request, TextInv, SaidInv
<1>4. TypeFor(r) \in {"xml", "misc"}
  BY <1>3 DEF TypeFor
<1>5. TypeFor(r) \in Answers(LastSent(v)')
  BY <1>2, <1>4 DEF Answers
<1>6. TypeFor(r) = "xml" => OwnFilm(v, nolist_buf)'
  BY <1>2, <1>3, ProxyAssumption DEF Pend, OwnFilm, TypeFor, ProxyAssumption
<1> QED BY <1>1, <1>3, <1>4, <1>5, <1>6 DEF Good

(* The request moves on from the handler of a body to conn k. *)
LEMMA FitRelisted ==
    ASSUME BaseInv, NEW v \in Viewers, Fit(v), place[v] = "in", Busy(v, AtBody),
           job.head.type = "xmlList", pc' = "servers",
           UNCHANGED <<plan, got, place, waiting, crossed, nolist_buf>>,
           \A fd \in Fds : peer'[fd] = v => peer[fd] = v /\ inq'[fd] = inq[fd],
           NEW k \in Slots, k \in Live(conn_l') /\ Owner(k)' = v,
           NEW fd, ServFd(k)' = fd, asked' = Send(asked, fd, Request(v, "nolist", nolist_buf)),
           fd \in Fds => ~Asking(asked[fd]) /\ ~Heading(inq'[fd]),
           \A j \in Live(conn_l') : j # k => Bears(j, v)
    PROVE  Fit(v)'
<1>1. Lone(v) /\ AtBody \in Stages /\ LastSent(v)' = LastSent(v)
  BY StagesApart, SentSame DEF Fit
<1>2. PICK r : r = Request(v, "nolist", nolist_buf)
  OBVIOUS
<1>3. v \in waiting /\ <<TypeFor(r), r.film>> \in Good(v)'
  BY <1>1, <1>2, ListGood
<1>4. ~OnServer(k)' \/ Fits(v, k)'
  BY <1>2, <1>3, AskedFits
<1>5. ~Busy(v, AtBody)'
  BY StagesApart DEF Busy
<1>6. Rests(v, AtLine) /\ Rests(v, AtLoop)
  BY <1>1, LineRests, LoopRests
<1>7. \A j \in Slots : j = k \/ Rests(v, j)
  <2>1. ASSUME NEW j \in Slots, j # k PROVE Rests(v, j)
    <3>1. j # AtBody
      BY StagesApart
    <3> QED BY <1>1, <2>1, <3>1, QuietRests
  <2> QED BY <2>1
<1>8. Lone(v)'
  BY <1>1, <1>3, <1>4, <1>5, <1>6, <1>7, FitAsked DEF Stages
<1>9. Told(v)'
  BY <1>1 DEF Fit, Told, OwnFilm
<1> QED BY <1>8, <1>9 DEF Fit

LEMMA FitKeepList ==
    ASSUME BaseInv, KeepList, NEW v \in Viewers, Fit(v)
    PROVE  Fit(v)'
<1> Inv /\ PrivInv /\ SchedInv /\ DOMAIN inq = Fds /\ v # NULL
  BY BaseHas, ProxyAssumption DEF ProxyAssumption
<1>1. PICK k, fd, u : k = job.conn /\ fd = BodyFd /\ u = job.head.to
  OBVIOUS
<1>2. /\ k \in Live(conn_l) /\ k \in Slots /\ ServFd(k) = fd /\ fd \in Fds
      /\ Owner(k) = u /\ BodyOwner = u
  BY <1>1, BodyFor DEF KeepList, SchedInv, StopInv
<1>3. /\ UNCHANGED <<client_l, server_l, conn_l, peer, plan, got, place, waiting, crossed, nolist_buf>>
      /\ pc = "body" /\ job.head.type = "xmlList"
      /\ inq[fd] # <<>> /\ inq' = [inq EXCEPT ![fd] = Tail(@)]
      /\ \/ /\ asked' = Send(asked, fd, Request(u, "nolist", nolist_buf))
            /\ lister' = [lister EXCEPT ![u] = NoFilm] /\ pc' = "servers"
         \/ pc' = "dial" /\ UNCHANGED <<asked, lister, job>>
  BY <1>1, <1>2 DEF KeepList, Return, Starts, viewerVars, partyVars, histVars, answerVars, poolVars,
                    clientVars, serverVars, connVars
<1>4. \A g \in Fds : g # fd => inq'[g] = inq[g] /\ asked'[g] = asked[g]
  BY <1>2, <1>3, SendElsewhere
<1>5. /\ Live(conn_l') = Live(conn_l) /\ ServFd(k)' = fd /\ Owner(k)' = u
      /\ \A j \in Live(conn_l) : j # k => Bears(j, v)
  BY <1>2, <1>3, <1>4, OthersBear
<1>6. Heading(inq'[fd]) => Heading(inq[fd])
  <2>1. PICK q : q = inq[fd]
    OBVIOUS
  <2>2. IsQueue(q) /\ q # <<>> /\ inq'[fd] = Tail(q)
    BY <1>2, <1>3, <2>1, BaseHas DEF PartsInv
  <2> QED BY <2>1, <2>2, CarriedTaken
<1>7. \A g \in Fds : peer'[g] = v => peer[g] = v /\ inq'[g] = inq[g]
  BY <1>2, <1>3, <1>4, ServerSocket
<1>8. LastSent(v)' = LastSent(v)
  BY <1>3, SentSame
<1>9. CASE v # u \/ place[v] # "in"
  <2>1. ASSUME v # u PROVE \A t \in Stages : Rests(v, t)
    <3>1. lister'[v] = lister[v]
      BY <1>3, <2>1, BaseHas DEF TypesInv, MarkTypes, BaseInv
    <3>2. Good(v) \subseteq Good(v)'
      BY <1>3, <1>8, <3>1, GoodWider, PendSame
    <3>3. \A j \in Live(conn_l') : Owner(j)' = v => Bears(j, v)
      BY <1>5, <2>1
    <3> QED BY <1>3, <1>7, <1>8, <3>2, <3>3, AllRest
  <2> QED BY <1>3, <1>9, <2>1, FitRests
<1>10. CASE v = u /\ place[v] = "in"
  <2>1. Lone(v) /\ Busy(v, AtBody) /\ AtBody \in Stages
    BY <1>1, <1>3, <1>10, StagesApart DEF Busy, Fit
  <2>2. ~Asking(asked[fd]) /\ ~Heading(inq[fd])
    BY <1>2, <1>10, <2>1, StagesApart DEF Lone, Busy, OnServer
  <2>3. CASE asked' = Send(asked, fd, Request(u, "nolist", nolist_buf)) /\ pc' = "servers"
    BY <1>2, <1>3, <1>5, <1>6, <1>7, <1>10, <2>1, <2>2, <2>3, FitRelisted
  <2>4. CASE pc' = "dial" /\ UNCHANGED <<asked, lister, job>>
    <3>1. Good(v) \subseteq Good(v)'
      BY <1>3, <1>8, <2>4, GoodWider, PendSame
    <3>2. ~OnServer(k)'
      BY <1>5, <1>6, <2>2, <2>4 DEF OnServer
    <3>3. \A t \in Stages : Rests(v, t)
      BY <1>3, <1>5, <1>7, <1>8, <2>4, <3>1, <3>2, AllRest
    <3> QED BY <1>3, <3>3, FitRests
  <2> QED BY <1>3, <2>3, <2>4
<1> QED BY <1>9, <1>10

LEMMA FitBody ==
    ASSUME BaseInv, Inv', ForwardBody \/ KeepList \/ BodyLost, NEW v \in Viewers, Fit(v)
    PROVE  Fit(v)'
<1> PrivInv /\ SchedInv
  BY BaseHas
<1>1. pc = "body" /\ BodyFd \in Fds /\ job.conn \in Slots
  BY BodyFor DEF ForwardBody, KeepList, BodyLost, SchedInv, StopInv
<1>2. CASE CloseBodyConn
  <2>1. /\ CloseConn(job.conn) /\ WithClosed /\ pc' = "servers"
        /\ UNCHANGED <<plan, got, crossed, nolist_buf>>
    BY <1>2 DEF CloseBodyConn, Return, globalVars
  <2> QED BY <1>1, <2>1, FitClosed
<1>3. CASE KeepList
  BY <1>3, FitKeepList
<1>4. CASE ForwardBody /\ ~CloseBodyConn
  <2>1. /\ Answer(BodyOwner, job.head.film) /\ job.head.type # "xmlList"
        /\ inq[BodyFd] # <<>> /\ inq' = [inq EXCEPT ![BodyFd] = Tail(@)]
    BY <1>4 DEF ForwardBody, Starts
  <2> QED BY <1>1, <2>1, FitAnswered
<1>5. CASE BodyLost /\ ~CloseBodyConn
  <2>1. CASE pc' = "hung" /\ UNCHANGED <<globalVars, chanVars, viewerVars, partyVars, markVars,
                                         answerVars, poolVars>>
    BY <2>1, FitIdle DEF globalVars, chanVars, viewerVars, partyVars, markVars, histVars, answerVars,
                         poolVars, clientVars, serverVars, connVars
  <2>2. CASE job.head.type = "f4f" /\ Answer(BodyOwner, Garbage) /\ UNCHANGED inq
    BY <1>1, <2>2, FitAnswered
  <2> QED BY <1>5, <2>1, <2>2 DEF BodyLost, Stop
<1> QED BY <1>2, <1>3, <1>4, <1>5

LEMMA FitDial ==
    ASSUME BaseInv, DialOK, DialForNolist, NEW v \in Viewers, Fit(v)
    PROVE  Fit(v)'
<1> Inv /\ PrivInv /\ v # NULL
  BY BaseHas, ProxyAssumption DEF ProxyAssumption
<1>1. PICK c, u : c = BodyConn.clit_idx /\ u = job.head.to
  OBVIOUS
<1>2. /\ pc = "dial" /\ job.head.type = "xmlList" /\ pc' = "servers"
      /\ UNCHANGED <<peer, inq, plan, got, place, waiting, crossed, nolist_buf>>
  BY DEF DialForNolist, DialOK, Return, partyVars, viewerVars, histVars, answerVars, globalVars
<1>3. c \in Slots /\ Viewer(c) = u
  BY <1>1, <1>2, BodyFor, LiveConn DEF BodyConn, BodyOwner
<1>4. PICK addr \in ServerAddrs, k \in Slots :
        /\ OpenServer(c, addr) /\ Opened(k)
        /\ asked' = Send(asked, ServFd(k)', Request(u, "nolist", nolist_buf))
  BY <1>1 DEF DialForNolist, ServFd
<1>5. PICK fd, a : fd = ServFd(k)' /\ a = Request(u, "nolist", nolist_buf)
  OBVIOUS
<1>6. \A g \in Fds : g # fd => asked'[g] = asked[g]
  BY <1>4, <1>5, SendElsewhere
<1>7. /\ Live(conn_l') = Live(conn_l) \cup {k} /\ k \notin Live(conn_l)
      /\ \A j \in Live(conn_l) : Bears(j, v)
      /\ Owner(k)' = u
      /\ fd \in Fds => inq[fd] = <<>> /\ asked[fd] = <<>>
  BY <1>2, <1>3, <1>4, <1>5, <1>6, FreshIdle
<1>8. lister' = [lister EXCEPT ![u] = NoFilm]
  BY <1>1, <1>3 DEF DialForNolist
<1>9. LastSent(v)' = LastSent(v)
  BY <1>2, SentSame
<1>10. CASE v # u \/ place[v] # "in"
  <2>1. ASSUME v # u PROVE \A t \in Stages : Rests(v, t)
    <3>1. lister'[v] = lister[v]
      BY <1>8, <2>1, BaseHas DEF TypesInv, MarkTypes, BaseInv
    <3>2. Good(v) \subseteq Good(v)'
      BY <1>2, <1>9, <3>1, GoodWider, PendSame
    <3>3. \A j \in Live(conn_l') : Owner(j)' = v => Bears(j, v)
      BY <1>7, <2>1
    <3> QED BY <1>2, <1>9, <3>2, <3>3, AllRest
  <2> QED BY <1>2, <1>10, <2>1, FitRests
<1>11. CASE v = u /\ place[v] = "in"
  <2>1. Busy(v, AtBody)
    BY <1>1, <1>2, <1>11, StagesApart DEF Busy
  <2>2. fd \in Fds => ~Asking(asked[fd]) /\ ~Heading(inq'[fd])
    BY <1>2, <1>7 DEF Asking, Heading
  <2>3. k \in Live(conn_l') /\ Owner(k)' = v /\ \A j \in Live(conn_l') : j # k => Bears(j, v)
    BY <1>7, <1>11
  <2> QED BY <1>2, <1>4, <1>5, <1>11, <2>1, <2>2, <2>3, FitRelisted
<1> QED BY <1>10, <1>11

-----------------------------------------------------------------------------
(* A viewer that sends its next request has nothing else under way. *)
LEMMA FitSends ==
    ASSUME Orderly, BaseInv, PeersInv, PlansInv, NEW u \in Viewers, SendRequest(u),
           NEW v \in Viewers, Fit(v)
    PROVE  Fit(v)'
<1> Inv /\ PrivInv /\ DOMAIN inq = Fds
  BY BaseHas
<1>1. PlanOK(u) /\ LastSent(u)' = Head(plan[u]) /\ Head(plan[u]) \in Kinds
  BY PlanSent, OrderlySent DEF PlansInv
<1>2. PICK fd \in Fds, host \in BOOLEAN :
        /\ FdOf(u, fd) /\ Enqueue(fd, <<GetLine(Head(plan[u]), FilmOf[u]), Headers(host)>>)
  <2>1. Head(plan[u]) # "post"
    BY <1>1 DEF Kinds
  <2> QED BY <2>1 DEF SendRequest, Orderly
<1>3. PICK q, s : /\ q = inq[fd]
                  /\ s = <<GetLine(Head(plan[u]), FilmOf[u]), Headers(host)>>
  OBVIOUS
<1>4. /\ inq' = [inq EXCEPT ![fd] = q \o s] /\ peer[fd] = u /\ place[u] = "in"
      /\ UNCHANGED <<client_l, server_l, conn_l, peer, asked, got, place, crossed, nolist_buf, lister, pc, job>>
      /\ plan' = [plan EXCEPT ![u] = Tail(@)] /\ waiting' = waiting \cup {u} /\ u \notin waiting
  BY <1>2, <1>3 DEF SendRequest, Enqueue, FdOf, loopVars, partyVars, histVars, globalVars, poolVars,
                    clientVars, serverVars, connVars
<1>5. \A g \in Fds : g # fd => inq'[g] = inq[g]
  BY <1>4
<1>6. u # NULL
  BY ProxyAssumption DEF ProxyAssumption
<1>7. \A k \in Live(conn_l') : Bears(k, v)
  <2>1. ASSUME NEW k \in Live(conn_l), ServFd(k) \in Fds PROVE ServFd(k) # fd
    BY <1>4, <1>6, <2>1, ServerSocket
  <2>2. \A k \in Live(conn_l) : ServFd(k)' = ServFd(k) /\ Owner(k)' = Owner(k)
    BY <1>4 DEF ServFd, Owner, Viewer
  <2>3. \A k \in Live(conn_l) : ServFd(k) \in Fds => inq'[ServFd(k)] = inq[ServFd(k)]
    BY <1>5, <2>1
  <2> QED BY <1>4, <2>2, <2>3, StillBears DEF Live
<1>8. CASE v # u
  <2>1. plan'[v] = plan[v]
    BY <1>4, <1>8, BaseHas DEF TextInv, SaidInv
  <2>2. LastSent(v)' = LastSent(v) /\ Good(v) \subseteq Good(v)'
    BY <1>4, <2>1, SentSame, GoodWider, PendSame
  <2>3. \A g \in Fds : peer'[g] = v => peer[g] = v /\ inq'[g] = inq[g]
    BY <1>4, <1>5, <1>8
  <2>4. \A t \in Stages : Rests(v, t)
    BY <1>4, <1>7, <2>2, <2>3, AllRest DEF Viewer
  <2> QED BY <1>4, <2>1, <2>4, FitRests
<1>9. CASE v = u
  <2>1. \A t \in Stages : ~Busy(v, t)
    BY <1>4, <1>9 DEF Fit, Lone
  <2>2. ~Unread(v)
    BY <2>1, StagesApart DEF Busy
  <2>3. q = <<>>
    BY <1>3, <1>4, <1>9, <2>2 DEF Unread
  <2>4. inq'[fd] = s
    <3>1. \A x, y : <<>> \o <<x, y>> = <<x, y>>
      OBVIOUS
    <3> QED BY <1>3, <1>4, <2>3, <3>1
  <2>5. WholeRequest(v, s)'
    BY <1>1, <1>3, <1>9 DEF WholeRequest
  <2>6. \A g \in Fds : peer'[g] = v => g = fd
    BY <1>4, <1>6, <1>9 DEF PeersInv, OneSocket
  <2>7. Fits(v, AtLine)'
    BY <2>4, <2>5, <2>6, StagesApart DEF Fits
  <2>8. ASSUME NEW t \in Stages, Busy(v, t)' PROVE t = AtLine
    <3>1. t = AtLoop => Busy(v, t)
      BY <1>4, <2>8, StagesApart DEF Busy, Viewer
    <3>2. t = AtBody => Busy(v, t)
      BY <1>4, <2>8, StagesApart DEF Busy
    <3>3. t \in Slots => Busy(v, t)
      BY <1>7, <2>8, StagesApart DEF Busy, Bears
    <3> QED BY <2>1, <3>1, <3>2, <3>3 DEF Stages
  <2>9. Stages' = Stages
    BY DEF Stages, Slots, AtLine, AtLoop, AtBody
  <2>10. Lone(v)'
    BY <1>4, <1>9, <2>7, <2>8, <2>9 DEF Lone
  <2>11. Told(v)'
    BY <1>4, <1>9 DEF Fit, Told, OwnFilm
  <2> QED BY <2>10, <2>11 DEF Fit
<1> QED BY <1>8, <1>9

LEMMA FitLeaves ==
    ASSUME BaseInv, PeersInv, NEW u \in Viewers, Leave(u), NEW v \in Viewers, Fit(v)
    PROVE  Fit(v)'
<1> Inv /\ PrivInv /\ DOMAIN inq = Fds /\ DOMAIN place = Viewers /\ u # NULL
  BY BaseHas, ProxyAssumption DEF ProxyAssumption
<1>1. PICK fd \in Fds : peer[fd] = u /\ \A g \in Fds : g # fd => inq'[g] = inq[g]
  BY DEF Leave, FdOf, Enqueue
<1>2. /\ UNCHANGED <<client_l, server_l, conn_l, peer, asked, got, plan, crossed, nolist_buf, lister, pc, job>>
      /\ place' = [place EXCEPT ![u] = "left"] /\ waiting' = waiting \ {u}
  BY DEF Leave, loopVars, markVars, histVars, globalVars, poolVars, clientVars, serverVars, connVars
<1>3. CASE v = u
  BY <1>2, <1>3, FitRests
<1>4. CASE v # u
  <2>1. LastSent(v)' = LastSent(v) /\ Good(v) \subseteq Good(v)'
    BY <1>2, SentSame, GoodWider, PendSame
  <2>2. \A g \in Fds : peer'[g] = v => peer[g] = v /\ inq'[g] = inq[g]
    BY <1>1, <1>2, <1>4
  <2>3. \A k \in Live(conn_l') : Bears(k, v)
    <3>1. ASSUME NEW k \in Live(conn_l), ServFd(k) \in Fds PROVE inq'[ServFd(k)] = inq[ServFd(k)]
      BY <1>1, <3>1, ServerSocket
    <3>2. \A k \in Live(conn_l) : ServFd(k)' = ServFd(k) /\ Owner(k)' = Owner(k)
      BY <1>2 DEF ServFd, Owner, Viewer
    <3> QED BY <1>2, <3>1, <3>2, StillBears DEF Live
  <2>4. \A t \in Stages : Rests(v, t)
    BY <1>2, <2>1, <2>2, <2>3, AllRest DEF Viewer
  <2>5. place'[v] = place[v] /\ (v \in waiting => v \in waiting')
    BY <1>2, <1>4
  <2> QED BY <1>2, <2>4, <2>5, FitRests
<1> QED BY <1>3, <1>4

-----------------------------------------------------------------------------
(* A server puts no more on its socket than it was asked for. *)
LEMMA MiscGood == ASSUME NEW v, NEW film \in Buffered PROVE <<"misc", film>> \in Good(v)
<1>1. "misc" \in Answers(LastSent(v))
  BY DEF Answers
<1> QED BY <1>1 DEF Good

LEMMA AnswerGood ==
    ASSUME NEW v, NEW a, AsksOK(a), a # <<>>, Head(a).kind # "body", AsksIn(Good(v), a),
           NEW type \in {TypeFor(Head(a)), "misc"}, NEW close, NEW cut,
           NEW h, h = ResponseHead(Head(a), type, close, cut)
    PROVE  h.part = "head" /\ <<h.type, h.film>> \in Good(v)
<1>1. PICK r : r = Head(a)
  OBVIOUS
<1>2. r = a[1] /\ 1 \in DOMAIN a
  BY <1>1, TailAt, Taken DEF AsksOK
<1>3. r.film \in Buffered /\ <<TypeFor(r), r.film>> \in Good(v)
  BY <1>1, <1>2 DEF AsksOK, AskOK, AsksIn
<1>4. h.part = "head" /\ h.type = type /\ h.film = r.film
  BY <1>1 DEF ResponseHead
<1> QED BY <1>1, <1>3, <1>4, MiscGood

LEMMA ServerCarries ==
    ASSUME BaseInv, NEW fd \in Fds, ServerAnswers(fd) \/ ServerDies(fd) \/ ServerLeaves(fd), NEW v
    PROVE  /\ Asking(asked'[fd]) \/ Heading(inq'[fd]) => Asking(asked[fd]) \/ Heading(inq[fd])
           /\ Carried(Good(v), asked[fd], inq[fd]) => Carried(Good(v), asked'[fd], inq'[fd])
<1>1. PICK a, i, r : a = asked[fd] /\ i = inq[fd] /\ r = Head(a)
  OBVIOUS
<1>2. AsksOK(a) /\ IsQueue(i) /\ DOMAIN inq = Fds /\ DOMAIN asked = Fds
  BY <1>1, BaseHas DEF AsksInv, PartsInv
<1>3. CASE inq'[fd] = i /\ asked'[fd] = <<>>
  BY <1>1, <1>3, CarriedLost
<1>4. CASE a # <<>> /\ inq'[fd] = i \o <<Body>> /\ asked'[fd] = Tail(a)
  BY <1>1, <1>2, <1>4, CarriedBody
<1>5. ASSUME a # <<>>, r.kind # "body", NEW type \in {TypeFor(r), "misc"}, NEW close, NEW cut,
             NEW h, h = ResponseHead(r, type, close, cut),
             \/ inq'[fd] = i \o <<h, Body>> /\ asked'[fd] = Tail(a)
             \/ inq'[fd] = i \o <<h>> /\ asked'[fd] = <<[r EXCEPT !.kind = "body"]>> \o Tail(a)
             \/ inq'[fd] = i \o <<h>> /\ asked'[fd] = <<>>
      PROVE  Asking(a) /\ (Carried(Good(v), a, i) => Carried(Good(v), asked'[fd], inq'[fd]))
  <2>1. Asking(a)
    <3>1. 1 \in DOMAIN a /\ a[1] = r
      BY <1>1, <1>2, <1>5, TailAt, Taken DEF AsksOK
    <3> QED BY <1>5, <3>1 DEF Asking
  <2>2. ASSUME Carried(Good(v), a, i) PROVE Carried(Good(v), asked'[fd], inq'[fd])
    <3>1. h.part = "head" /\ <<h.type, h.film>> \in Good(v)
      <4>1. AsksOK(a) /\ a # <<>> /\ Head(a).kind # "body" /\ h = ResponseHead(Head(a), type, close, cut)
            /\ type \in {TypeFor(Head(a)), "misc"}
        BY <1>1, <1>2, <1>5
      <4>2. AsksIn(Good(v), a)
        BY <2>2 DEF Carried
      <4> QED BY <4>1, <4>2, AnswerGood
    <3>2. PICK G : G = Good(v)
      OBVIOUS
    <3>3. /\ Carried(G, Tail(a), i \o <<h, Body>>)
          /\ Carried(G, <<[r EXCEPT !.kind = "body"]>> \o Tail(a), i \o <<h>>)
          /\ Carried(G, <<>>, i \o <<h>>)
      BY <1>1, <1>2, <1>5, <2>2, <3>1, <3>2, CarriedAnswer
    <3> QED BY <1>5, <3>2, <3>3
  <2> QED BY <2>1, <2>2
<1>6. CASE ServerAnswers(fd) /\ r.kind = "body"
  <2>1. a # <<>> /\ inq'[fd] = i \o <<Body>> /\ asked'[fd] = Tail(a)
    BY <1>1, <1>2, <1>6 DEF ServerAnswers, Enqueue
  <2> QED BY <1>4, <2>1
<1>7. CASE ServerAnswers(fd) /\ r.kind # "body"
  <2>1. PICK type \in {TypeFor(r), "misc"}, close \in {"keep", "close", "absent"} :
           LET h == ResponseHead(r, type, close, "no")
           IN \/ Enqueue(fd, <<h, Body>>) /\ asked' = [asked EXCEPT ![fd] = Tail(@)]
              \/ /\ Enqueue(fd, <<h>>)
                 /\ asked' = [asked EXCEPT ![fd] = <<[r EXCEPT !.kind = "body"]>> \o Tail(@)]
    BY <1>1, <1>7 DEF ServerAnswers
  <2>2. PICK h : h = ResponseHead(r, type, close, "no")
    OBVIOUS
  <2>3. a # <<>> /\ r.kind # "body"
    BY <1>1, <1>7 DEF ServerAnswers
  <2>4. \/ inq'[fd] = i \o <<h, Body>> /\ asked'[fd] = Tail(a)
        \/ inq'[fd] = i \o <<h>> /\ asked'[fd] = <<[r EXCEPT !.kind = "body"]>> \o Tail(a)
    BY <1>1, <1>2, <2>1, <2>2 DEF Enqueue
  <2> QED BY <1>1, <1>5, <2>2, <2>3, <2>4
<1>8. CASE ServerDies(fd)
  <2>1. a # <<>> /\ asked'[fd] = <<>>
    BY <1>1, <1>2, <1>8 DEF ServerDies
  <2>2. CASE inq' = inq
    BY <1>1, <1>3, <2>1, <2>2
  <2>3. ASSUME NEW cut, r.kind # "body", Enqueue(fd, <<ResponseHead(r, TypeFor(r), "keep", cut)>>)
        PROVE  Asking(a) /\ (Carried(Good(v), a, i) => Carried(Good(v), asked'[fd], inq'[fd]))
    <3>1. PICK h : h = ResponseHead(r, TypeFor(r), "keep", cut)
      OBVIOUS
    <3>2. inq'[fd] = i \o <<h>>
      BY <1>1, <1>2, <2>3, <3>1 DEF Enqueue
    <3> QED BY <1>5, <2>1, <2>3, <3>1, <3>2
  <2> QED BY <1>1, <1>8, <2>2, <2>3 DEF ServerDies
<1>9. CASE ServerLeaves(fd)
  BY <1>1, <1>2, <1>3, <1>9 DEF ServerLeaves
<1> QED BY <1>6, <1>7, <1>8, <1>9

LEMMA FitServes ==
    ASSUME BaseInv, PeersInv, NEW fd \in Fds,
           ServerAnswers(fd) \/ ServerDies(fd) \/ ServerLeaves(fd), NEW v \in Viewers, Fit(v)
    PROVE  Fit(v)'
<1> DOMAIN inq = Fds /\ DOMAIN asked = Fds /\ v # NULL
  BY BaseHas, ProxyAssumption DEF ProxyAssumption
<1>1. /\ UNCHANGED <<client_l, server_l, conn_l, peer, pc, job, plan, got, place, waiting>>
      /\ UNCHANGED <<crossed, nolist_buf, lister>>
  BY DEF ServerAnswers, ServerDies, ServerLeaves, loopVars, viewerVars, partyVars, markVars, histVars,
         globalVars, answerVars, poolVars, clientVars, serverVars, connVars
<1>2. \A g \in Fds : g # fd => inq'[g] = inq[g] /\ asked'[g] = asked[g]
  <2>1. /\ UNCHANGED inq \/ \E q : inq' = [inq EXCEPT ![fd] = q]
        /\ \E a : asked' = [asked EXCEPT ![fd] = a]
    BY DEF ServerAnswers, ServerDies, ServerLeaves, Enqueue
  <2> QED BY <2>1
<1>3. peer[fd] = NULL
  BY ServerEnd DEF ServerAnswers, ServerDies, ServerLeaves
<1>4. LastSent(v)' = LastSent(v) /\ Good(v) \subseteq Good(v)'
  BY <1>1, SentSame, GoodWider, PendSame
<1>5. \A g \in Fds : peer'[g] = v => peer[g] = v /\ inq'[g] = inq[g]
  BY <1>1, <1>2, <1>3
<1>6. ASSUME NEW k \in Live(conn_l) PROVE Bears(k, v)
  <2>1. ServFd(k)' = ServFd(k) /\ Owner(k)' = Owner(k)
    BY <1>1 DEF ServFd, Owner, Viewer
  <2>2. CASE ServFd(k) = fd
    <3>1. OnServer(k)' => OnServer(k)
      BY <2>1, <2>2, ServerCarries DEF OnServer
    <3> QED BY <2>1, <2>2, <3>1, ServerCarries DEF Bears
  <2>3. CASE ServFd(k) # fd
    BY <1>2, <2>1, <2>3, StillBears
  <2> QED BY <2>2, <2>3
<1>7. \A k \in Live(conn_l') : Bears(k, v)
  BY <1>1, <1>6 DEF Live
<1>8. \A t \in Stages : Rests(v, t)
  BY <1>1, <1>4, <1>5, <1>7, AllRest DEF Viewer
<1> QED BY <1>1, <1>8, FitRests

-----------------------------------------------------------------------------
FitInv == /\ BaseInv /\ PeersInv /\ PlansInv /\ DialOK /\ owed = {}
          /\ \A v \in Viewers : Fit(v)

LEMMA FitInit == Init => FitInv
<1> SUFFICES ASSUME Init PROVE FitInv
  OBVIOUS
<1>1. BaseInv
  BY SchedInit, TextInit, QuietInit, TypesInit DEF BaseInv, NetInv
<1>2. PeersInv
  BY DEF Init, PeersInv, OneSocket, PeerOK, FreshEnds
<1>3. ASSUME NEW v \in Viewers PROVE PlanOK(v)
  <2>1. PICK P : P = Plans[v] /\ plan[v] = P
    BY DEF Init
  <2>2. PICK m \in Nat : m = Len(P) /\ DOMAIN P = 1..m
    BY <2>1, ProxyAssumption DEF ProxyAssumption
  <2>3. m <= m /\ \A n \in 1..m : (m - m) + n = n
    OBVIOUS
  <2>4. Len(plan[v]) <= Len(Plans[v])
    BY <2>1, <2>2, <2>3
  <2>5. \A n \in DOMAIN plan[v] : plan[v][n] = Plans[v][(Len(Plans[v]) - Len(plan[v])) + n]
    BY <2>1, <2>2, <2>3
  <2> QED BY <2>4, <2>5 DEF PlanOK
<1>4. DialOK /\ owed = {}
  BY DEF Init, DialOK
<1>5. ASSUME NEW v \in Viewers PROVE Fit(v)
  BY <1>5 DEF Init, Fit, Told
<1> QED BY <1>1, <1>2, <1>3, <1>4, <1>5 DEF FitInv, PlansInv

LEMMA FitStep == ASSUME Orderly, FitInv, [Next]_vars PROVE FitInv'
<1> BaseInv /\ PeersInv /\ PlansInv /\ DialOK /\ owed = {}
  BY DEF FitInv
<1>1. BaseInv'
  <2>1. SchedInv' /\ TextInv' /\ QuietInv'
    BY BaseHas, SchedStep, TextKept, QuietKept
  <2>2. LoopTypes' /\ PartyTypes' /\ MarkTypes'
    BY BaseHas, LoopTypesKept, PartyTypesKept, MarkTypesKept DEF BaseInv, TypesInv
  <2> QED BY <2>1, <2>2 DEF BaseInv, NetInv, TypesInv
<1>2. Inv'
  BY <1>1 DEF BaseInv, NetInv, SchedInv, PrivInv, LoopInv
<1>3. PeersInv' /\ PlansInv' /\ DialOK' /\ owed' = {}
  BY PeersKept, PlansKept, ListDialed, OwedKept
<1>4. ASSUME NEW v \in Viewers PROVE Fit(v)'
  <2>1. Fit(v)
    BY DEF FitInv
  <2>2. CASE Select \/ AcceptGivesUp \/ EndScan \/ TablesFull \/ SendSpins \/ ResolveHangs
             \/ UNCHANGED vars
    BY <2>1, <2>2, FitLoop
  <2>3. CASE AcceptViewer
    BY <2>1, <2>3, FitAccepted
  <2>4. CASE ClientStep
    BY <2>1, <2>4, FitClient DEF ClientStep
  <2>5. CASE Route
    BY <2>1, <2>5, FitRoute
  <2>6. CASE DropRequest
    BY <1>2, <2>1, <2>6, FitDrop
  <2>7. CASE ForwardRequest
    BY <2>1, <2>7, FitForward
  <2>8. CASE ServerStep
    BY <1>2, <2>1, <2>8, FitHead DEF ServerStep
  <2>9. CASE ForwardBody \/ KeepList \/ BodyLost
    BY <1>2, <2>1, <2>9, FitBody
  <2>10. CASE DialForNolist
    BY <2>1, <2>10, FitDial
  <2>11. ASSUME NEW u \in Viewers, Knock(u) \/ SendRequest(u) \/ SendHeaders(u) \/ Leave(u)
         PROVE  Fit(v)'
    <3>1. CASE Knock(u)
      BY <2>1, <3>1, FitLoop
    <3>2. CASE SendRequest(u)
      BY <2>1, <3>2, FitSends
    <3>3. CASE SendHeaders(u)
      BY <3>3 DEF SendHeaders
    <3>4. CASE Leave(u)
      BY <2>1, <3>4, FitLeaves
    <3> QED BY <2>11, <3>1, <3>2, <3>3, <3>4
  <2>12. ASSUME NEW fd \in Fds, ServerAnswers(fd) \/ ServerDies(fd) \/ ServerLeaves(fd)
         PROVE  Fit(v)'
    BY <2>1, <2>12, FitServes
  <2> QED BY <2>2, <2>3, <2>4, <2>5, <2>6, <2>7, <2>8, <2>9, <2>10, <2>11, <2>12
          DEF Next, ProxyStep, PeerStep
<1> QED BY <1>1, <1>3, <1>4 DEF FitInv

(* An answer fits the request it follows (AnswerFits), for any number of   *)
(* viewers, slots and servers, whatever servers do and wherever a viewer   *)
(* leaves, as long as no header block is left unread: no viewer posts and  *)
(* none is late with its headers.  Between the line and the last byte of   *)
(* its answer a request is in one place only, whatever conns the handlers  *)
(* open and close and whatever an unset buffer held.                       *)
THEOREM AnswersFit == ASSUME Orderly PROVE Spec => []AnswerFits
<1>1. Init => FitInv
  BY FitInit
<1>2. FitInv /\ [Next]_vars => FitInv'
  BY FitStep
<1>3. FitInv => AnswerFits
  BY DEF FitInv, Fit, Told, Due, AnswerFits
<1> QED BY <1>1, <1>2, <1>3, PTL DEF Spec

(* The manifest a viewer is given is of its own film, or another viewer's  *)
(* manifest request followed its own (ManifestOwn): one nolist_buf serves  *)
(* them all, and that is the only way manifests are mixed up where viewers *)
(* send whole requests; a path read unset gets the viewer none at all.     *)
THEOREM ManifestsOwn == ASSUME Orderly PROVE Spec => []ManifestOwn
<1>1. Init => FitInv
  BY FitInit
<1>2. FitInv /\ [Next]_vars => FitInv'
  BY FitStep
<1>3. FitInv => ManifestOwn
  BY DEF FitInv, Fit, Told, OwnFilm, ManifestOwn
<1> QED BY <1>1, <1>2, <1>3, PTL DEF Spec
=============================================================================
