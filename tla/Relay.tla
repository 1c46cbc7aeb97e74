-------------------------------- MODULE Relay -------------------------------
(***************************************************************************)
(* The response path byte by byte: read_responeshdrs and server2client     *)
(* over the loops of sock.c, with reads and sends that take or accept only *)
(* a part.  One thread serves all connections.  Module Proxy takes a head  *)
(* and a body as one piece each; here they arrive in segments of any size. *)
(*                                                                         *)
(* A byte is its position in the server's stream.  A head is two lines, one *)
(* that carries type and length and the blank one; no body byte is a line  *)
(* feed.  Sockets are non-blocking, so a recv or send that would block     *)
(* fails with EAGAIN and is tried again.  The list manifest, which is not  *)
(* relayed, is left to Proxy.                                              *)
(***************************************************************************)
EXTENDS Integers, Sequences, SequencesExt

CONSTANTS N,         (* number of connections                              *)
          Responses, (* what the server of each will be asked for: the     *)
                     (* type, and the position of the last byte            *)
          MaxLine,   (* MAXLINE: bounds the tries of io_recvline_block     *)
          Cap,       (* bytes a viewer's send buffer holds                 *)
          Faults     (* what the peers of each connection may do           *)

Conns == 1..N

HeadLine  == <<"h", "h", "n">>
BlankLine == <<"r", "n">>
HeadLen   == 5

(* The position at which response j of connection k ends. *)
End(k, j) == IF j = 0 THEN 0 ELSE Responses[k][j].end

ASSUME RelayAssumption ==
    /\ N \in Nat /\ MaxLine \in Nat \ {0, 1} /\ Cap \in Nat \ {0}
    /\ Responses \in [Conns -> Seq([type : {"xml", "f4f"}, end : Nat])]
    /\ \A k \in Conns : \A j \in DOMAIN Responses[k] : End(k, j - 1) + HeadLen < End(k, j)
    /\ Faults \in [Conns -> SUBSET {"parts", "ahead", "die", "stall", "leave"}]

VARIABLES
    pc,       \* "select", "line", "parse", "head", "recv", "body", or stopped
    todo,     \* read_rdy: connections of this round still to be served
    cur,      \* the connection being served
    n,        \* tries of the running io_recvline_block
    buf,      \* the cells of the line buffer written since the handler began
    bufp,     \* how many of them the running io_recvline_block wrote
    hdr_buf,  \* the lines kept for the viewer
    resp,     \* the response whose type and length were read, or 0
    body,     \* what io_recvn_block has read; its length is res
    ubuf,     \* what the running io_sendn has still to send
    alive,    \* connections not closed
    arrived, taken,  \* bytes that came in from each server, and were read
    fin,      \* "no", "eof" or "rst": whether the server has closed
    asked,    \* requests made on each connection
    outq,     \* each viewer's send buffer
    got,      \* what each viewer has received
    viewer,   \* "reading", "stalled" or "gone"
    cut       \* connections where a head was returned incomplete: history

localVars == <<cur, n, buf, bufp, hdr_buf, resp, body, ubuf>>
servVars  == <<arrived, fin, asked>>
viewVars  == <<outq, got, viewer>>
vars == <<pc, todo, localVars, alive, taken, servVars, viewVars, cut>>

-----------------------------------------------------------------------------
Nul  == 0        \* ends a string; also stands for bytes never written
Junk == <<-1>>   \* bytes that are none of the stream's
Bad  == <<-2>>   \* an address send refuses

(* The stream: the response a position belongs to, and what is there.     *)
At(k, p)   == CHOOSE j \in DOMAIN Responses[k] : End(k, j - 1) < p /\ p <= End(k, j)
Char(k, p) == LET off == p - End(k, At(k, p) - 1)
              IN IF off <= HeadLen THEN (HeadLine \o BlankLine)[off] ELSE "b"
Text(k, s) == [i \in DOMAIN s |-> Char(k, s[i])]

MutLength(k, j) == End(k, j) - End(k, j - 1) - HeadLen - 1 \* one byte short
Length(k, j)    == End(k, j) - End(k, j - 1) - HeadLen
Type(k, j)      == Responses[k][j].type

Span(a, m) == [i \in 1..m |-> a + i]
Smaller(a, b) == IF a <= b THEN a ELSE b

Avail(k)    == arrived[k] - taken[k]
Readable(k) == Avail(k) > 0 \/ fin[k] # "no"

(* The string a buffer holds, up to its first NUL.                         *)
Terminated(s) == \E i \in DOMAIN s : s[i] = Nul
CString(s) == SubSeq(s, 1, SelectInSeq(s, LAMBDA c : c = Nul) - 1)
Put(s, i, c) == IF i <= Len(s) THEN [s EXCEPT ![i] = c] ELSE Append(s, c)

-----------------------------------------------------------------------------
Init ==
    /\ pc = "select" /\ todo = {}
    /\ cur = 0 /\ n = 0 /\ buf = <<>> /\ bufp = 0 /\ hdr_buf = <<>> /\ resp = 0
    /\ body = <<>> /\ ubuf = <<>>
    /\ alive = Conns
    /\ arrived = [k \in Conns |-> 0] /\ taken = [k \in Conns |-> 0]
    /\ fin = [k \in Conns |-> "no"] /\ asked = [k \in Conns |-> 0]
    /\ outq = [k \in Conns |-> <<>>] /\ got = [k \in Conns |-> <<>>]
    /\ viewer = [k \in Conns |-> "reading"]
    /\ cut = {}

(* The handler is over; its locals mean nothing any more. *)
LeaveWith(kept) ==
    /\ pc' = "select"
    /\ cur' = 0 /\ n' = 0 /\ buf' = <<>> /\ bufp' = 0 /\ hdr_buf' = <<>> /\ resp' = 0
    /\ body' = kept /\ ubuf' = <<>>

MutLeave == LeaveWith(body)  \* one body buffer for all, its count not reset
Leave    == LeaveWith(<<>>)

Finish == Leave /\ UNCHANGED alive
Close  == Leave /\ alive' = alive \ {cur}   \* close_conn

Stop(how) == pc' = how /\ UNCHANGED <<localVars, alive>>

Select ==
    /\ pc = "select" /\ todo = {}
    /\ todo' = {k \in alive : Readable(k)}
    /\ todo' # {}
    /\ UNCHANGED <<pc, localVars, alive, taken, servVars, viewVars, cut>>

(* serve_servers, in the order of the table. *)
Serve(k) ==
    /\ pc = "select" /\ k \in todo
    /\ \A j \in todo : k <= j
    /\ todo' = todo \ {k}
    /\ pc' = "line" /\ cur' = k /\ n' = 1
    /\ UNCHANGED <<buf, bufp, hdr_buf, resp, body, ubuf, alive, taken, servVars, viewVars, cut>>

-----------------------------------------------------------------------------
(* io_recvline_block: one byte for each try.  A try that finds nothing is  *)
(* a try too, and the line is ended where the tries run out.               *)
MutRecvChar == \* as many bytes as the buffer has, and the NUL behind them
    LET p == taken[cur] + 1
    IN /\ pc = "line" /\ Avail(cur) > 0
       /\ taken' = [taken EXCEPT ![cur] = p]
       /\ IF Char(cur, p) = "n" \/ n >= MaxLine
          THEN /\ pc' = "parse" /\ n' = 0 /\ bufp' = 0
               /\ buf' = Put(Put(buf, bufp + 1, p), bufp + 2, Nul)
          ELSE /\ n' = n + 1 /\ bufp' = bufp + 1
               /\ buf' = Put(buf, bufp + 1, p)
               /\ UNCHANGED pc
       /\ UNCHANGED <<todo, cur, hdr_buf, resp, body, ubuf, alive, servVars, viewVars, cut>>

RecvChar ==
    LET p == taken[cur] + 1
    IN /\ pc = "line" /\ Avail(cur) > 0
       /\ taken' = [taken EXCEPT ![cur] = p]
       /\ IF Char(cur, p) = "n" \/ n + 1 >= MaxLine
          THEN /\ pc' = "parse" /\ n' = 0 /\ bufp' = 0
               /\ buf' = Put(Put(buf, bufp + 1, p), bufp + 2, Nul)
          ELSE /\ n' = n + 1 /\ bufp' = bufp + 1
               /\ buf' = Put(buf, bufp + 1, p)
               /\ UNCHANGED pc
       /\ UNCHANGED <<todo, cur, hdr_buf, resp, body, ubuf, alive, servVars, viewVars, cut>>

Poll ==
    /\ pc = "line" /\ ~Readable(cur)
    /\ IF n + 1 >= MaxLine
       THEN pc' = "parse" /\ n' = 0 /\ bufp' = 0 /\ buf' = Put(buf, bufp + 1, Nul)
       ELSE n' = n + 1 /\ UNCHANGED <<pc, buf, bufp>>
    /\ UNCHANGED <<todo, cur, hdr_buf, resp, body, ubuf, alive, taken, servVars, viewVars, cut>>

(* read_responeshdrs returns; server2client goes on, or gives up when it   *)
(* was told no type and length.                                            *)
HeadRead(h) ==
    IF resp = 0 THEN Close
    ELSE /\ hdr_buf' = h /\ n' = 0 /\ buf' = <<>> /\ bufp' = 0
         /\ IF Type(cur, resp) = "f4f" THEN pc' = "head" /\ ubuf' = h
                                       ELSE pc' = "recv" /\ UNCHANGED ubuf
         /\ UNCHANGED <<cur, resp, body, alive>>

(* It returns early: hdr_buf and hdr_len are what the stack held. *)
HeadCut ==
    /\ \E h \in {<<>>, Junk, Bad} : HeadRead(h)
    /\ cut' = cut \cup {cur}

(* One turn of the loop of read_responeshdrs.  "hhn" stands for the header *)
(* lines up to type and length.  A stale line is one that only the buffer  *)
(* still held: it comes back for ever, or trips the assertion on the type. *)
TakeLine(line, stale) ==
    LET text == Text(cur, line)
        ends == line # <<>> /\ Last(text) = "n"
        again == stale \/ (text = HeadLine /\ resp # 0)
    IN \/ ~ends /\ HeadCut
       \/ ends /\ text = BlankLine /\ HeadRead(hdr_buf \o line) /\ UNCHANGED cut
       \/ ends /\ text # BlankLine /\ again /\ Stop("stuck") /\ UNCHANGED cut
       \/ /\ ends /\ text # BlankLine /\ ~again
          /\ pc' = "line" /\ n' = 1
          /\ hdr_buf' = hdr_buf \o line
          /\ resp' = IF text = HeadLine THEN At(cur, line[1]) ELSE resp
          /\ UNCHANGED <<cur, buf, bufp, body, ubuf, alive, cut>>

ParseLine ==
    /\ pc = "parse"
    /\ TakeLine(CString(buf), FALSE)
    /\ UNCHANGED <<todo, taken, servVars, viewVars>>

(* The server has closed and nothing is left: io_recvline_block returns     *)
(* without a NUL, so the buffer still holds the rest of an earlier line.   *)
(* Where it holds no NUL at all the caller reads what the stack held.      *)
LineEnded ==
    /\ pc = "line" /\ Avail(cur) = 0 /\ fin[cur] # "no"
    /\ fin' = [fin EXCEPT ![cur] = "eof"]   \* the error is reported once
    /\ \/ Terminated(buf) /\ TakeLine(CString(buf), TRUE)
       \/ ~Terminated(buf) /\ HeadCut
       \/ ~Terminated(buf) /\ Stop("stuck") /\ UNCHANGED cut
    /\ UNCHANGED <<todo, taken, arrived, asked, viewVars>>

-----------------------------------------------------------------------------
(* io_recvn_block: the room left is never reduced, so every recv asks for  *)
(* as many bytes as the whole body has.                                    *)
BodyRead(text) ==
    /\ body' = text
    /\ pc' = IF Type(cur, resp) = "xml" THEN "head" ELSE "body"
    /\ ubuf' = IF Type(cur, resp) = "xml" THEN hdr_buf ELSE text
    /\ UNCHANGED alive

RecvBody ==
    LET m == Smaller(Length(cur, resp), Avail(cur))
        now == body \o Span(taken[cur], m)
    IN /\ pc = "recv" /\ m > 0
       /\ taken' = [taken EXCEPT ![cur] = @ + m]
       /\ \/ Len(now) = Length(cur, resp) /\ BodyRead(now)
          \/ /\ Len(now) # Length(cur, resp) /\ body' = now
             /\ pc' = IF Len(now) > Length(cur, resp) THEN "overrun" ELSE pc
             /\ UNCHANGED <<ubuf, alive>>
       /\ UNCHANGED <<todo, cur, n, buf, bufp, hdr_buf, resp, servVars, viewVars, cut>>

(* At the end of the stream recv returns 0 for ever. *)
BodyEnded ==
    /\ pc = "recv" /\ Avail(cur) = 0 /\ fin[cur] = "eof"
    /\ Stop("stuck")
    /\ UNCHANGED <<todo, taken, servVars, viewVars, cut>>

(* An error ends it: a manifest is given up, a chunk is sent on as it lies *)
(* in the buffer.                                                          *)
BodyBroken ==
    /\ pc = "recv" /\ Avail(cur) = 0 /\ fin[cur] = "rst"
    /\ fin' = [fin EXCEPT ![cur] = "eof"]
    /\ \/ Type(cur, resp) = "xml" /\ Close
       \/ /\ Type(cur, resp) = "f4f"
          /\ BodyRead([i \in 1..Length(cur, resp) |->
                         IF i <= Len(body) THEN body[i] ELSE Nul])
          /\ UNCHANGED <<cur, n, buf, bufp, hdr_buf, resp>>
    /\ UNCHANGED <<todo, taken, arrived, asked, viewVars, cut>>

-----------------------------------------------------------------------------
(* io_sendn: a full send buffer (EAGAIN) is tried again.                   *)
SendPart(m, rest) ==
    /\ pc \in {"head", "body"} /\ ubuf # <<>> /\ ubuf # Bad
    /\ viewer[cur] # "gone" /\ m > 0
    /\ outq' = [outq EXCEPT ![cur] = @ \o SubSeq(ubuf, 1, m)]
    /\ ubuf' = rest
    /\ UNCHANGED <<pc, todo, cur, n, buf, bufp, hdr_buf, resp, body, alive, taken,
                   servVars, got, viewer, cut>>

Room == Smaller(Len(ubuf), Cap - Len(outq[cur]))

MutSendBuf == SendPart(Room, SubSeq(ubuf, 1, Len(ubuf) - Room)) \* buf stays
Send       == SendPart(Room, SubSeq(ubuf, Room + 1, Len(ubuf)))

(* A viewer that left takes what is sent first; then send fails. *)
MutSendFails == viewer[cur] = "gone" \/ ubuf = Bad \/ Room = 0 \* EAGAIN as an error
SendFails    == viewer[cur] = "gone" \/ ubuf = Bad

SendLost ==
    /\ pc \in {"head", "body"} /\ ubuf # <<>>
    /\ \/ /\ viewer[cur] = "gone" /\ ubuf # Bad
          /\ ubuf' = <<>>
          /\ UNCHANGED <<pc, cur, n, buf, bufp, hdr_buf, resp, body, alive>>
       \/ SendFails /\ Close
    /\ UNCHANGED <<todo, taken, servVars, viewVars, cut>>

(* All is sent: a chunk's body is still to be read after its head, the     *)
(* body of a manifest is still to be sent.                                 *)
Sent ==
    /\ pc \in {"head", "body"} /\ ubuf = <<>>
    /\ \/ pc = "body" /\ Finish
       \/ /\ pc = "head"
          /\ pc' = IF Type(cur, resp) = "xml" THEN "body" ELSE "recv"
          /\ ubuf' = IF Type(cur, resp) = "xml" THEN body ELSE <<>>
          /\ UNCHANGED <<cur, n, buf, bufp, hdr_buf, resp, body, alive>>
    /\ UNCHANGED <<todo, taken, servVars, viewVars, cut>>

-----------------------------------------------------------------------------
(* The peers.  A viewer asks again when it has its answer, or ahead of it. *)
Ask(k) ==
    /\ asked[k] < Len(Responses[k]) /\ viewer[k] # "gone"
    /\ "ahead" \in Faults[k] \/ Len(got[k]) >= End(k, asked[k])
    /\ asked' = [asked EXCEPT ![k] = @ + 1]
    /\ UNCHANGED <<pc, todo, localVars, alive, taken, arrived, fin, viewVars, cut>>

(* Bytes come in segments of any size, or all at once. *)
Arrive(k) ==
    /\ fin[k] = "no"
    /\ \E a \in (arrived[k] + 1)..End(k, asked[k]) :
         /\ "parts" \in Faults[k] \/ a = End(k, asked[k])
         /\ arrived' = [arrived EXCEPT ![k] = a]
    /\ UNCHANGED <<pc, todo, localVars, alive, taken, fin, asked, viewVars, cut>>

Die(k) ==
    /\ "die" \in Faults[k] /\ fin[k] = "no"
    /\ \E f \in {"eof", "rst"} : fin' = [fin EXCEPT ![k] = f]
    /\ UNCHANGED <<pc, todo, localVars, alive, taken, arrived, asked, viewVars, cut>>

Read(k) ==
    /\ viewer[k] = "reading" /\ outq[k] # <<>>
    /\ got' = [got EXCEPT ![k] = @ \o outq[k]]
    /\ outq' = [outq EXCEPT ![k] = <<>>]
    /\ UNCHANGED <<pc, todo, localVars, alive, taken, servVars, viewer, cut>>

Stall(k) ==
    /\ "stall" \in Faults[k] /\ viewer[k] = "reading"
    /\ viewer' = [viewer EXCEPT ![k] = "stalled"]
    /\ UNCHANGED <<pc, todo, localVars, alive, taken, servVars, outq, got, cut>>

Gone(k) ==
    /\ "leave" \in Faults[k] /\ viewer[k] # "gone"
    /\ viewer' = [viewer EXCEPT ![k] = "gone"]
    /\ outq' = [outq EXCEPT ![k] = <<>>]
    /\ UNCHANGED <<pc, todo, localVars, alive, taken, servVars, got, cut>>

-----------------------------------------------------------------------------
Proxy == \/ Select
         \/ \E k \in Conns : Serve(k)
         \/ RecvChar \/ Poll \/ LineEnded \/ ParseLine
         \/ RecvBody \/ BodyEnded \/ BodyBroken
         \/ Send \/ SendLost \/ Sent

Peer(k) == Ask(k) \/ Arrive(k) \/ Die(k) \/ Read(k) \/ Stall(k) \/ Gone(k)

Next == Proxy \/ \E k \in Conns : Peer(k)

Spec == Init /\ [][Next]_vars

FairSpec == /\ Spec /\ WF_vars(Proxy)
            /\ \A k \in Conns : WF_vars(Arrive(k)) /\ WF_vars(Read(k))

-----------------------------------------------------------------------------
(* Types, and the loops of sock.c keep to their bounds: a line and its NUL *)
(* lie in the line buffer, no byte is read that has not come in, and none  *)
(* is sent that there is no room for.                                      *)
TypeOK ==
    /\ pc \in {"select", "line", "parse", "head", "recv", "body", "stuck", "overrun"}
    /\ todo \subseteq Conns /\ alive \subseteq Conns /\ cut \subseteq Conns
    /\ cur \in 0..N /\ n \in 0..MaxLine /\ bufp \in 0..MaxLine
    /\ {buf, hdr_buf, body, ubuf} \subseteq Seq(Int)
    /\ Len(buf) <= MaxLine
    /\ \A k \in Conns :
         /\ taken[k] <= arrived[k] /\ arrived[k] <= End(k, asked[k])
         /\ Len(outq[k]) <= Cap
         /\ fin[k] \in {"no", "eof", "rst"}
         /\ viewer[k] \in {"reading", "stalled", "gone"}

(* Between two handlers the reading of a connection stands at the end of a *)
(* response, and all that was read is with the viewer or on its way: the   *)
(* loops leave no part of a head or body behind for the next handler to    *)
(* take for a head.                                                        *)
FramesKept ==
    pc = "select" =>
      \A k \in alive \ cut :
        fin[k] = "no" =>
          /\ \E j \in 0..Len(Responses[k]) : taken[k] = End(k, j)
          /\ viewer[k] # "gone" => Len(got[k]) + Len(outq[k]) = taken[k]

(* io_recvn_block writes past the end of its buffer only where the bytes   *)
(* after the body are there already: the viewer asked ahead, or the        *)
(* framing was lost in a head that was cut short.                          *)
OverrunOnlyWhenAhead ==
    pc = "overrun" => asked[cur] > resp \/ cur \in cut

(* Each viewer receives its server's bytes, once and in order, until the   *)
(* server has closed or a head was cut short.                              *)
P == INSTANCE Pipe WITH sent <- arrived, seen <- got,
                        sound <- [k \in Conns |-> fin[k] = "no" /\ k \notin cut]
ImplementsPipe == P!PipeSpec

(* The loops that wait: io_recvn_block for ever at the end of a stream,    *)
(* read_responeshdrs over a stale line, io_sendn for a viewer that does    *)
(* not read.  While one waits nobody is served.                            *)
Held == \/ pc \in {"stuck", "overrun"}
        \/ /\ pc \in {"head", "body"}
           /\ viewer[cur] = "stalled" /\ Len(outq[cur]) = Cap

(* Again and again every viewer has all it asked for so far, in full,      *)
(* unless the connection itself is in trouble or one of the others holds   *)
(* the thread.                                                             *)
Trouble(k) == fin[k] # "no" \/ k \in cut \/ viewer[k] # "reading"
Delivered ==
    \A k \in Conns : []<>(Len(got[k]) >= End(k, asked[k]) \/ Trouble(k) \/ Held)
=============================================================================
