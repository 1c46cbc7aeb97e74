----------------------------- MODULE RelayProofs ----------------------------
(***************************************************************************)
(* The response path, for any number of connections, responses of any      *)
(* length, any segments and all faults.  The loops of sock.c keep the      *)
(* reading of every connection on the frames of its stream until a head is *)
(* cut short, and so each viewer is sent its server's bytes once and in    *)
(* order: Relay implements Pipe.                                           *)
(***************************************************************************)
EXTENDS Relay, BasicLemmas, SequenceTheorems

Busy == {"line", "parse", "head", "recv", "body"}

(* Types, and the positions each connection has come to. *)
Shape ==
    /\ pc \in Busy \cup {"select", "stuck", "overrun"}
    /\ n \in 0..MaxLine /\ bufp \in 0..MaxLine /\ resp \in Nat
    /\ buf \in Seq(Nat) /\ {hdr_buf, body, ubuf} \subseteq Seq(Int)
    /\ cut \subseteq Conns
    /\ arrived \in [Conns -> Nat] /\ taken \in [Conns -> Nat] /\ asked \in [Conns -> Nat]
    /\ fin \in [Conns -> {"no", "eof", "rst"}]
    /\ viewer \in [Conns -> {"reading", "stalled", "gone"}]
    /\ outq \in [Conns -> Seq(Int)] /\ got \in [Conns -> Seq(Int)]

StreamInv ==
    \A k \in Conns : /\ taken[k] <= arrived[k] /\ arrived[k] <= End(k, asked[k])
                     /\ asked[k] <= Len(Responses[k])
                     /\ Len(outq[k]) <= Cap
                     /\ viewer[k] = "gone" => outq[k] = <<>>

(* Connections still to be served in this round, and the one being served. *)
RoundInv ==
    /\ alive \subseteq Conns /\ todo \subseteq alive
    /\ \A k \in todo : Readable(k)
    /\ cur \in 0..N
    /\ pc = "select" => /\ buf = <<>> /\ bufp = 0 /\ hdr_buf = <<>> /\ resp = 0
                        /\ body = <<>> /\ ubuf = <<>>
    /\ pc # "select" => cur \in alive /\ cur \notin todo
    /\ resp # 0 => resp \in DOMAIN Responses[cur]

(* The running loop: what each holds of its locals. *)
LoopInv ==
    /\ pc \in {"line", "parse"} => body = <<>> /\ ubuf = <<>>
                                   /\ \A i \in 1..Len(buf) : buf[i] <= taken[cur]
    /\ pc = "line" => n >= 1 /\ bufp + 1 <= n /\ bufp <= Len(buf)
    /\ pc = "parse" => Terminated(buf) /\ bufp = 0
    /\ pc \in {"head", "recv", "body"} => resp # 0
    /\ pc = "head" /\ Type(cur, resp) = "f4f" => body = <<>>
    /\ pc = "recv" => ubuf = <<>> /\ Len(body) < Length(cur, resp)

BasicInv == Shape /\ StreamInv /\ RoundInv /\ LoopInv

-----------------------------------------------------------------------------
(* The bytes that follow position a. *)
Runs(s, a) == \A i \in 1..Len(s) : s[i] = a + i

(* No handler is at work on k. *)
Idle(k) == pc = "select" \/ k # cur

Boundary(k) == \E j \in 0..Len(Responses[k]) : taken[k] = End(k, j)
Ended(k)    == fin[k] # "no" /\ taken[k] = arrived[k]

Passed(k) == Len(got[k]) + Len(outq[k])

Framed(k) == k \in alive \ cut /\ Idle(k) => Boundary(k) \/ Ended(k)

(* What a viewer has received, and what waits in its send buffer. *)
Relayed(k) ==
    k \notin cut /\ fin[k] = "no" =>
        /\ Runs(got[k], 0) /\ Runs(outq[k], Len(got[k])) /\ Passed(k) <= taken[k]
        /\ k \in alive /\ Idle(k) /\ viewer[k] # "gone" => Passed(k) = taken[k]

FrameInv == \A k \in Conns : Framed(k)
OutInv   == \A k \in Conns : Relayed(k)

(* All that was sent is what comes before position s. *)
SentTo(s) == fin[cur] = "no" /\ viewer[cur] # "gone" => Passed(cur) = s

(* The first of h bytes of head j that the handler keeps. *)
Kept(j, h) ==
    /\ j \in DOMAIN Responses[cur]
    /\ Len(hdr_buf) = h /\ Runs(hdr_buf, End(cur, j - 1))

(* Where the handler is in response j: in its head line, in its blank line *)
(* behind the stale cells of the head line, ... *)
InHeadLine(j) ==
    /\ Kept(j, 0) /\ resp = 0
    /\ bufp <= 2 /\ Len(buf) = bufp /\ Runs(buf, End(cur, j - 1))
    /\ taken[cur] = End(cur, j - 1) + bufp

InBlankLine(j) ==
    /\ Kept(j, 3) /\ resp = j
    /\ bufp <= 1 /\ Len(buf) = 4 /\ buf[4] = Nul
    /\ \A i \in 1..3 : buf[i] # Nul
    /\ bufp = 1 => buf[1] = End(cur, j - 1) + 4
    /\ taken[cur] = End(cur, j - 1) + 3 + bufp

(* ... with a line returned, whole or cut short, ... *)
AtLine(j, h) ==
    /\ Kept(j, h) /\ resp = (IF h = 0 THEN 0 ELSE j)
    /\ \E m \in 0..(IF h = 0 THEN 3 ELSE 2) :
          /\ taken[cur] = End(cur, j - 1) + h + m
          /\ m + 1 <= Len(buf) /\ buf[m + 1] = Nul
          /\ h = 0 => Len(buf) = m + 1
          /\ \A i \in 1..m : buf[i] = End(cur, j - 1) + h + i

(* ... or at the end of the stream, before anything was read. *)
AtEnd == Ended(cur) /\ buf = <<>> /\ hdr_buf = <<>> /\ resp = 0

(* The body read so far. *)
BodyTo(m) ==
    /\ Len(body) = m /\ Runs(body, End(cur, resp - 1) + HeadLen)
    /\ taken[cur] = End(cur, resp - 1) + HeadLen + m

(* What is still to be sent reaches up to position s. *)
Sending(s) ==
    fin[cur] = "no" /\ viewer[cur] # "gone" =>
        Runs(ubuf, Passed(cur)) /\ Passed(cur) + Len(ubuf) = s

PlaceInv ==
    cur \notin cut =>
      /\ pc = "line" =>
           \/ AtEnd
           \/ \E j \in DOMAIN Responses[cur] : /\ InHeadLine(j) \/ InBlankLine(j)
                                               /\ SentTo(End(cur, j - 1))
      /\ pc = "parse" =>
           \E j \in DOMAIN Responses[cur] : /\ AtLine(j, 0) \/ AtLine(j, 3)
                                            /\ SentTo(End(cur, j - 1))
      /\ pc \in {"head", "recv"} => Kept(resp, HeadLen)
      /\ pc = "recv" =>
           /\ BodyTo(Len(body))
           /\ SentTo(End(cur, resp - 1) + (IF Type(cur, resp) = "xml" THEN 0 ELSE HeadLen))
      /\ pc = "head" =>
           /\ Sending(End(cur, resp - 1) + HeadLen)
           /\ BodyTo(IF Type(cur, resp) = "xml" THEN Length(cur, resp) ELSE 0)
      /\ pc = "body" =>
           \/ Ended(cur)
           \/ taken[cur] = End(cur, resp) /\ Sending(End(cur, resp))

RelayInv == BasicInv /\ FrameInv /\ OutInv /\ PlaceInv /\ OverrunOnlyWhenAhead

-----------------------------------------------------------------------------
(* The stream of a connection: its ends are in order, and a position lies  *)
(* in one response only.                                                   *)
LEMMA Scripts ==
    ASSUME NEW k \in Conns
    PROVE  /\ Len(Responses[k]) \in Nat /\ DOMAIN Responses[k] = 1..Len(Responses[k])
           /\ \A j \in DOMAIN Responses[k] : /\ Responses[k][j].end \in Nat
                                             /\ Responses[k][j].type \in {"xml", "f4f"}
<1> DEFINE R == [type : {"xml", "f4f"}, end : Nat]
<1>1. Responses[k] \in Seq(R)
  BY RelayAssumption
<1>2. \A r \in R : r.end \in Nat /\ r.type \in {"xml", "f4f"}
  OBVIOUS
<1> HIDE DEF R
<1>3. /\ Len(Responses[k]) \in Nat /\ DOMAIN Responses[k] = 1..Len(Responses[k])
      /\ \A j \in DOMAIN Responses[k] : Responses[k][j] \in R
  BY <1>1
<1> QED BY <1>2, <1>3

LEMMA EndNat ==
    ASSUME NEW k \in Conns, NEW j \in 0..Len(Responses[k])
    PROVE  End(k, j) \in Nat
BY Scripts DEF End

LEMMA EndStep ==
    ASSUME NEW k \in Conns, NEW j \in DOMAIN Responses[k]
    PROVE  /\ j \in Nat \ {0} /\ j <= Len(Responses[k]) /\ j - 1 \in 0..Len(Responses[k])
           /\ End(k, j) \in Nat /\ End(k, j - 1) \in Nat
           /\ End(k, j - 1) + 5 < End(k, j)
           /\ Length(k, j) = End(k, j) - End(k, j - 1) - 5 /\ Length(k, j) \in Nat \ {0}
           /\ Type(k, j) \in {"xml", "f4f"}
<1>1. /\ j \in Nat \ {0} /\ j <= Len(Responses[k]) /\ j - 1 \in 0..Len(Responses[k])
      /\ Len(Responses[k]) \in Nat
  BY Scripts
<1>2. End(k, j) \in Nat /\ End(k, j - 1) \in Nat
  BY <1>1, EndNat
<1>3. End(k, j - 1) + HeadLen < End(k, j)
  BY RelayAssumption
<1>4. Type(k, j) \in {"xml", "f4f"}
  BY Scripts DEF Type
<1> QED BY <1>1, <1>2, <1>3, <1>4 DEF Length, HeadLen

LEMMA EndOrder ==
    ASSUME NEW k \in Conns, NEW i \in 0..Len(Responses[k]), NEW j \in i..Len(Responses[k])
    PROVE  End(k, i) <= End(k, j)
<1> DEFINE L == Len(Responses[k])
           D == {d \in Nat : i + d <= L => End(k, i) <= End(k, i + d)}
<1>0. L \in Nat /\ i \in Nat /\ j \in Nat /\ i <= j /\ j <= L
  BY RelayAssumption
<1>1. 0 \in D
  BY <1>0, EndNat
<1>2. ASSUME NEW d \in Nat, d \in D PROVE d + 1 \in D
  <2> SUFFICES ASSUME i + d + 1 <= L PROVE End(k, i) <= End(k, i + d + 1)
    BY <1>0
  <2>1. End(k, i) <= End(k, i + d)
    BY <1>0, <1>2
  <2>2. i + d + 1 \in DOMAIN Responses[k] /\ (i + d + 1) - 1 = i + d
    BY <1>0, RelayAssumption
  <2>3. End(k, i + d) <= End(k, i + d + 1) /\ End(k, i) \in Nat /\ End(k, i + d) \in Nat
        /\ End(k, i + d + 1) \in Nat
    BY <2>2, EndStep, EndNat
  <2> QED BY <2>1, <2>3
<1> HIDE DEF D
<1>3. Nat \subseteq D
  BY <1>1, <1>2, Induction
<1>4. j - i \in D
  BY <1>0, <1>3
<1> QED BY <1>0, <1>4 DEF D

LEMMA AtIs ==
    ASSUME NEW k \in Conns, NEW j \in DOMAIN Responses[k], NEW p \in Int,
           End(k, j - 1) < p, p <= End(k, j)
    PROVE  At(k, p) = j
<1>1. ASSUME NEW i \in DOMAIN Responses[k], End(k, i - 1) < p, p <= End(k, i), i # j
      PROVE  FALSE
  <2>1. /\ i \in Nat /\ j \in Nat /\ i <= Len(Responses[k]) /\ j <= Len(Responses[k])
        /\ i - 1 \in 0..Len(Responses[k]) /\ j - 1 \in 0..Len(Responses[k])
        /\ i \in 0..Len(Responses[k]) /\ j \in 0..Len(Responses[k])
        /\ {End(k, i), End(k, j), End(k, i - 1), End(k, j - 1)} \subseteq Nat
    BY EndStep
  <2>2. CASE i < j
    <3>1. End(k, i) <= End(k, j - 1)
      BY <2>1, <2>2, EndOrder
    <3> QED BY <1>1, <2>1, <3>1
  <2>3. CASE j < i
    <3>1. End(k, j) <= End(k, i - 1)
      BY <2>1, <2>3, EndOrder
    <3> QED BY <1>1, <2>1, <3>1
  <2> QED BY <1>1, <2>1, <2>2, <2>3
<1> QED BY <1>1 DEF At

(* Every position asked for lies in some response. *)
LEMMA AtFinds ==
    ASSUME NEW k \in Conns, NEW a \in 0..Len(Responses[k]), NEW p \in Nat \ {0},
           p <= End(k, a)
    PROVE  At(k, p) \in DOMAIN Responses[k]
<1> DEFINE L == Len(Responses[k])
           T == {j \in 0..L : p <= End(k, j)}
<1>0. L \in Nat
  BY RelayAssumption
<1>1. L \in Nat /\ T \in SUBSET Nat /\ T # {}
  <2>1. a \in T
    OBVIOUS
  <2> QED BY <1>0, <2>1
<1> HIDE DEF T
<1>2. PICK j \in T : \A i \in T : j <= i
  BY <1>1, LeastNat
<1>3. j \in 0..L /\ p <= End(k, j)
  BY <1>2 DEF T
<1>4. j # 0
  BY <1>3 DEF End
<1>5. j \in DOMAIN Responses[k] /\ j - 1 \in 0..L
  BY <1>1, <1>3, <1>4, RelayAssumption
<1>6. j - 1 \notin T
  BY <1>1, <1>2, <1>3
<1>7. End(k, j - 1) < p
  BY <1>5, <1>6, EndNat DEF T
<1> QED BY <1>3, <1>5, <1>7, AtIs

(* The bytes of a head, and those behind it. *)
HeadText == HeadLine \o BlankLine

LEMMA HeadTexts ==
    /\ Len(HeadText) = 5
    /\ HeadText[1] = "h" /\ HeadText[2] = "h" /\ HeadText[3] = "n"
    /\ HeadText[4] = "r" /\ HeadText[5] = "n"
<1> DEFINE S == {"h", "n", "r"}
<1>1. HeadLine \in Seq(S) /\ BlankLine \in Seq(S)
  BY DEF HeadLine, BlankLine
<1>2. Len(HeadLine) = 3 /\ Len(BlankLine) = 2
  BY DEF HeadLine, BlankLine
<1>3. HeadLine[1] = "h" /\ HeadLine[2] = "h" /\ HeadLine[3] = "n"
      /\ BlankLine[1] = "r" /\ BlankLine[2] = "n"
  BY DEF HeadLine, BlankLine
<1> HIDE DEF S
<1>4. /\ Len(HeadText) = Len(HeadLine) + Len(BlankLine)
      /\ \A i \in 1..Len(HeadLine) : HeadText[i] = HeadLine[i]
      /\ \A i \in 1..Len(BlankLine) : HeadText[Len(HeadLine) + i] = BlankLine[i]
  BY <1>1, JoinIs DEF HeadText
<1> QED BY <1>2, <1>3, <1>4

LEMMA CharIs ==
    ASSUME NEW k \in Conns, NEW j \in DOMAIN Responses[k], NEW off \in 1..5
    PROVE  Char(k, End(k, j - 1) + off) = HeadText[off]
<1>1. /\ End(k, j - 1) \in Nat /\ End(k, j) \in Nat /\ End(k, j - 1) + 5 < End(k, j)
  BY EndStep
<1> DEFINE p == End(k, j - 1) + off
<1>2. At(k, p) = j
  BY <1>1, AtIs
<1>3. p - End(k, j - 1) = off /\ off <= 5
  BY <1>1
<1> HIDE DEF p
<1>4. Char(k, p) = HeadText[off]
  BY <1>2, <1>3 DEF Char, HeadText, HeadLen
<1> QED BY <1>4 DEF p

-----------------------------------------------------------------------------
(* The line buffer: a cell written, and the string it holds. *)
LEMMA PutIs ==
    ASSUME NEW s \in Seq(Nat), NEW i \in 1..(Len(s) + 1), NEW c \in Nat
    PROVE  /\ Put(s, i, c) \in Seq(Nat)
           /\ Len(Put(s, i, c)) = (IF i <= Len(s) THEN Len(s) ELSE i)
           /\ Put(s, i, c)[i] = c
           /\ \A m \in 1..Len(s) : m # i => Put(s, i, c)[m] = s[m]
<1>1. CASE i <= Len(s)
  <2>1. Put(s, i, c) = [s EXCEPT ![i] = c] /\ i \in 1..Len(s)
    BY <1>1 DEF Put
  <2> QED BY <1>1, <2>1
<1>2. CASE i > Len(s)
  <2>1. Put(s, i, c) = Append(s, c) /\ i = Len(s) + 1
    BY <1>2 DEF Put
  <2> QED BY <1>2, <2>1
<1> QED BY <1>1, <1>2

LEMMA PutBelow ==
    ASSUME NEW s \in Seq(Nat), NEW i \in 1..(Len(s) + 1), NEW c \in Nat,
           NEW b \in Nat, c <= b, \A m \in 1..Len(s) : s[m] <= b
    PROVE  /\ \A m \in 1..Len(Put(s, i, c)) : Put(s, i, c)[m] <= b
           /\ i \in 1..Len(Put(s, i, c)) /\ Len(Put(s, i, c)) \in Nat
<1> DEFINE t == Put(s, i, c)
           L == Len(s)
           K == Len(t)
<1>1. /\ t \in Seq(Nat) /\ K = (IF i <= L THEN L ELSE i) /\ t[i] = c
      /\ \A m \in 1..L : m # i => t[m] = s[m]
  BY PutIs
<1>2. L \in Nat /\ i \in 1..(L + 1) /\ \A m \in 1..L : s[m] <= b
  OBVIOUS
<1> HIDE DEF t, L, K
<1>3. \A m \in 1..K : m = i \/ m \in 1..L
  BY <1>1, <1>2
<1>4. \A m \in 1..K : t[m] <= b
  BY <1>1, <1>2, <1>3
<1>5. i \in 1..K /\ K \in Nat
  BY <1>1, <1>2
<1> QED BY <1>4, <1>5 DEF t, L, K

LEMMA CStringIs ==
    ASSUME NEW s \in Seq(Nat), NEW m \in Nat, m + 1 <= Len(s), s[m + 1] = Nul,
           \A i \in 1..m : s[i] # Nul
    PROVE  /\ CString(s) \in Seq(Nat) /\ Len(CString(s)) = m
           /\ \A i \in 1..m : CString(s)[i] = s[i]
<1> DEFINE I == {i \in 1..Len(s) : s[i] = Nul}
<1>1. m + 1 \in I /\ \A i \in I : m + 1 <= i
  OBVIOUS
<1>2. (CHOOSE i \in I : \A q \in I : i <= q) = m + 1
  <2>1. \A i \in I : (\A q \in I : i <= q) => i = m + 1
    BY <1>1
  <2> HIDE DEF I
  <2> QED BY <1>1, <2>1
<1>3. CString(s) = SubSeq(s, 1, (m + 1) - 1)
  <2>1. CString(s) = SubSeq(s, 1, (IF I # {} THEN Min(I) ELSE 0) - 1)
    BY DEF CString, SelectInSeq
  <2>2. Min(I) = m + 1 /\ I # {}
    BY <1>1, <1>2 DEF Min
  <2> HIDE DEF I
  <2> QED BY <2>1, <2>2
<1>4. (m + 1) - 1 = m /\ m <= Len(s)
  OBVIOUS
<1> QED BY <1>3, <1>4

(* A terminated buffer has a first NUL. *)
LEMMA CStringStops ==
    ASSUME NEW s \in Seq(Nat), Terminated(s)
    PROVE  \E m \in Nat : /\ m + 1 <= Len(s) /\ s[m + 1] = Nul
                          /\ \A i \in 1..m : s[i] # Nul
<1> DEFINE I == {i \in 1..Len(s) : s[i] = Nul}
<1>1. I \in SUBSET Nat /\ I # {}
  BY DEF Terminated
<1> HIDE DEF I
<1>2. PICK i \in I : \A q \in I : i <= q
  BY <1>1, LeastNat
<1>3. i \in 1..Len(s) /\ s[i] = Nul
  BY <1>2 DEF I
<1>4. \A q \in 1..(i - 1) : s[q] # Nul
  BY <1>2, <1>3 DEF I
<1>5. i - 1 \in Nat /\ (i - 1) + 1 = i
  BY <1>3
<1> QED BY <1>3, <1>4, <1>5

-----------------------------------------------------------------------------
(* The initial states. *)
LEMMA RelayInit == ASSUME Init PROVE RelayInv
<1>0. <<>> \in Seq(Nat) /\ <<>> \in Seq(Int) /\ Len(<<>>) = 0
  OBVIOUS
<1>1. ASSUME NEW k \in Conns
      PROVE  /\ taken[k] = 0 /\ arrived[k] = 0 /\ asked[k] = 0 /\ fin[k] = "no"
             /\ outq[k] = <<>> /\ got[k] = <<>> /\ End(k, 0) = 0
             /\ 0 \in 0..Len(Responses[k]) /\ 0 <= Len(Responses[k])
  BY Scripts DEF Init, End
<1>2. Cap \in Nat /\ MaxLine \in Nat /\ 0 \in 0..N /\ cur = 0
  BY RelayAssumption DEF Init
<1>3. Shape
  BY <1>0, <1>2 DEF Init, Shape
<1>4. StreamInv
  BY <1>0, <1>1, <1>2 DEF StreamInv
<1>5. RoundInv
  BY <1>2 DEF Init, RoundInv
<1>6. LoopInv
  BY DEF Init, LoopInv
<1>7. FrameInv
  BY <1>1 DEF Init, FrameInv, Framed, Boundary
<1>8. OutInv
  <2>1. \A a \in Nat : Runs(<<>>, a)
    BY <1>0 DEF Runs
  <2>2. \A k \in Conns : Passed(k) = 0 /\ Len(got[k]) = 0
    <3>1. Len(<<>>) = 0
      OBVIOUS
    <3> TAKE k \in Conns
    <3>2. Len(got[k]) = 0 /\ Len(outq[k]) = 0
      BY <1>1, <3>1
    <3> QED BY <3>2 DEF Passed
  <2> QED BY <1>1, <2>1, <2>2 DEF OutInv, Relayed
<1>9. PlaceInv /\ OverrunOnlyWhenAhead
  BY DEF Init, PlaceInv, OverrunOnlyWhenAhead
<1> QED BY <1>3, <1>4, <1>5, <1>6, <1>7, <1>8, <1>9 DEF RelayInv, BasicInv

-----------------------------------------------------------------------------
(* What the peers do leaves the locals of the handler alone. *)
Locals == <<pc, todo, cur, n, buf, bufp, hdr_buf, resp, body, ubuf, alive, taken, cut>>

LEMMA PeerLocals ==
    ASSUME NEW k \in Conns, Peer(k)
    PROVE  UNCHANGED Locals
<1> USE DEF Locals, localVars
<1>1. CASE Ask(k)
  BY <1>1 DEF Ask
<1>2. CASE Arrive(k)
  BY <1>2 DEF Arrive
<1>3. CASE Die(k)
  BY <1>3 DEF Die
<1>4. CASE Read(k)
  BY <1>4 DEF Read
<1>5. CASE Stall(k)
  BY <1>5 DEF Stall
<1>6. CASE Gone(k)
  BY <1>6 DEF Gone
<1> QED BY <1>1, <1>2, <1>3, <1>4, <1>5, <1>6 DEF Peer

(* Types of what the peers change, and how the streams go on. *)
PeerTypes ==
    /\ arrived \in [Conns -> Nat] /\ asked \in [Conns -> Nat]
    /\ fin \in [Conns -> {"no", "eof", "rst"}]
    /\ viewer \in [Conns -> {"reading", "stalled", "gone"}]
    /\ outq \in [Conns -> Seq(Int)] /\ got \in [Conns -> Seq(Int)]

Onward == \A i \in Conns : /\ arrived[i] <= arrived'[i] /\ asked[i] <= asked'[i]
                           /\ fin[i] # "no" => fin'[i] # "no" /\ arrived'[i] = arrived[i]

LEMMA StreamIs ==
    ASSUME BasicInv, NEW i \in Conns
    PROVE  /\ taken[i] \in Nat /\ arrived[i] \in Nat /\ asked[i] \in Nat
           /\ taken[i] <= arrived[i] /\ arrived[i] <= End(i, asked[i])
           /\ asked[i] \in 0..Len(Responses[i]) /\ asked[i] <= Len(Responses[i])
           /\ Len(Responses[i]) \in Nat /\ End(i, asked[i]) \in Nat
<1>1. Len(Responses[i]) \in Nat
  BY Scripts
<1>2. /\ taken[i] \in Nat /\ arrived[i] \in Nat /\ asked[i] \in Nat
      /\ taken[i] <= arrived[i] /\ arrived[i] <= End(i, asked[i])
      /\ asked[i] <= Len(Responses[i])
  BY DEF BasicInv, Shape, StreamInv
<1>3. asked[i] \in 0..Len(Responses[i])
  BY <1>1, <1>2
<1> QED BY <1>1, <1>2, <1>3, EndNat

(* The room in a send buffer. *)
Fits(q) == Len(q) <= Cap

LEMMA PeerStream ==
    ASSUME BasicInv, NEW k \in Conns, Peer(k)
    PROVE  PeerTypes' /\ Onward /\ StreamInv'
<1> DEFINE Streams == \A i \in Conns : /\ taken[i] <= arrived[i] /\ arrived[i] <= End(i, asked[i])
                                      /\ asked[i] <= Len(Responses[i])
           Queues == \A i \in Conns : Fits(outq[i]) /\ (viewer[i] = "gone" => outq[i] = <<>>)
<1>0. PeerTypes /\ Streams /\ Queues /\ taken' = taken
  BY PeerLocals DEF BasicInv, Shape, StreamInv, PeerTypes, Locals, Fits
<1>1. <<>> \in Seq(Int) /\ Fits(<<>>)
  BY RelayAssumption DEF Fits
<1>2. Streams' /\ Queues' => StreamInv'
  BY DEF StreamInv, Fits
<1>3. \A i \in Conns : taken[i] \in Nat
  BY StreamIs
<1>a. CASE Ask(k)
  <2>1. /\ asked' = [asked EXCEPT ![k] = @ + 1] /\ asked[k] < Len(Responses[k])
        /\ arrived' = arrived /\ fin' = fin /\ outq' = outq /\ got' = got /\ viewer' = viewer
    BY <1>a DEF Ask, viewVars
  <2>2. asked[k] + 1 \in DOMAIN Responses[k] /\ (asked[k] + 1) - 1 = asked[k]
    BY <2>1, StreamIs, Scripts
  <2>3. End(k, asked[k]) <= End(k, asked[k] + 1) /\ asked[k] + 1 <= Len(Responses[k])
        /\ End(k, asked[k] + 1) \in Nat
    <3> DEFINE j == asked[k] + 1
    <3>2. End(k, j - 1) + 5 < End(k, j) /\ {End(k, j), End(k, j - 1)} \subseteq Nat
          /\ j <= Len(Responses[k])
      BY <2>2, EndStep
    <3> QED BY <2>2, <3>2
  <2>4. PeerTypes' /\ Onward
    BY <1>0, <2>1 DEF PeerTypes, Onward
  <2>5. ASSUME NEW i \in Conns
        PROVE  arrived[i] <= End(i, asked'[i]) /\ asked'[i] <= Len(Responses[i])
    <3>1. CASE i = k
      <4>1. asked'[i] = asked[k] + 1
        BY <1>0, <2>1, <3>1 DEF PeerTypes
      <4> QED BY <2>3, <3>1, <4>1, StreamIs
    <3>2. CASE i # k
      <4>1. asked'[i] = asked[i]
        BY <1>0, <2>1, <3>2 DEF PeerTypes
      <4> QED BY <4>1, StreamIs
    <3> QED BY <3>1, <3>2
  <2> QED BY <1>0, <1>2, <2>1, <2>4, <2>5
<1>b. CASE Arrive(k)
  <2>1. PICK a \in (arrived[k] + 1)..End(k, asked[k]) : arrived' = [arrived EXCEPT ![k] = a]
    BY <1>b DEF Arrive
  <2>2. /\ asked' = asked /\ fin' = fin /\ outq' = outq /\ got' = got /\ viewer' = viewer
    BY <1>b DEF Arrive, viewVars
  <2>0. fin[k] = "no"
    BY <1>b DEF Arrive
  <2>3. arrived[k] <= a /\ a <= End(k, asked[k]) /\ a \in Nat
    BY <2>1, StreamIs
  <2>4. PeerTypes'
    BY <1>0, <2>1, <2>2, <2>3 DEF PeerTypes
  <2>5. ASSUME NEW i \in Conns
        PROVE  arrived[i] <= arrived'[i] /\ arrived'[i] <= End(i, asked[i])
               /\ taken[i] <= arrived'[i]
               /\ (fin[i] # "no" => arrived'[i] = arrived[i])
    <3>1. arrived'[i] = IF i = k THEN a ELSE arrived[i]
      BY <1>0, <2>1 DEF PeerTypes
    <3> QED BY <2>0, <2>3, <3>1, StreamIs
  <2>6. Streams'
    BY <1>0, <1>3, <2>2, <2>5, StreamIs
  <2>7. Queues'
    BY <1>0, <2>2
  <2>8. \A i \in Conns : asked[i] <= asked[i]
    BY StreamIs
  <2>9. Onward
    BY <2>2, <2>5, <2>8 DEF Onward
  <2> QED BY <1>2, <2>4, <2>6, <2>7, <2>9
<1>c. CASE Die(k)
  <2>1. PICK f \in {"eof", "rst"} : fin' = [fin EXCEPT ![k] = f]
    BY <1>c DEF Die
  <2>2. /\ asked' = asked /\ arrived' = arrived /\ outq' = outq /\ got' = got
        /\ viewer' = viewer
    BY <1>c DEF Die, viewVars
  <2>3. PeerTypes' /\ Onward
    BY <1>0, <2>1, <2>2 DEF PeerTypes, Onward
  <2> QED BY <1>0, <1>2, <2>2, <2>3
<1>d. CASE Read(k)
  <2>1. got[k] \o outq[k] \in Seq(Int)
    BY <1>0 DEF PeerTypes
  <2>2. /\ got' = [got EXCEPT ![k] = @ \o outq[k]] /\ outq' = [outq EXCEPT ![k] = <<>>]
        /\ asked' = asked /\ arrived' = arrived /\ fin' = fin /\ viewer' = viewer
    BY <1>d DEF Read, servVars
  <2>3. PeerTypes' /\ Onward
    BY <1>0, <1>1, <2>1, <2>2 DEF PeerTypes, Onward
  <2>4. Queues'
    BY <1>0, <1>1, <2>2 DEF PeerTypes
  <2> QED BY <1>0, <1>2, <2>2, <2>3, <2>4
<1>e. CASE Stall(k)
  <2>1. /\ viewer' = [viewer EXCEPT ![k] = "stalled"] /\ outq' = outq /\ got' = got
        /\ asked' = asked /\ arrived' = arrived /\ fin' = fin /\ viewer[k] = "reading"
    BY <1>e DEF Stall, servVars
  <2>2. PeerTypes' /\ Onward
    BY <1>0, <2>1 DEF PeerTypes, Onward
  <2>3. Queues'
    BY <1>0, <2>1 DEF PeerTypes
  <2> QED BY <1>0, <1>2, <2>1, <2>2, <2>3
<1>f. CASE Gone(k)
  <2>1. /\ viewer' = [viewer EXCEPT ![k] = "gone"] /\ outq' = [outq EXCEPT ![k] = <<>>]
        /\ got' = got /\ asked' = asked /\ arrived' = arrived /\ fin' = fin
    BY <1>f DEF Gone, servVars
  <2>2. PeerTypes' /\ Onward
    BY <1>0, <1>1, <2>1 DEF PeerTypes, Onward
  <2>3. Queues'
    BY <1>0, <1>1, <2>1 DEF PeerTypes
  <2> QED BY <1>0, <1>2, <2>1, <2>2, <2>3
<1> QED BY <1>a, <1>b, <1>c, <1>d, <1>e, <1>f DEF Peer

LEMMA PeerBasic ==
    ASSUME BasicInv, NEW k \in Conns, Peer(k)
    PROVE  BasicInv'
<1>0. UNCHANGED Locals /\ PeerTypes' /\ Onward /\ StreamInv'
  BY PeerLocals, PeerStream
<1>1. Shape'
  BY <1>0 DEF BasicInv, Shape, Locals, PeerTypes
<1>2. \A i \in Conns : Readable(i) => Readable(i)'
  <2>1. PeerTypes /\ taken \in [Conns -> Nat] /\ taken' = taken
    BY <1>0 DEF BasicInv, Shape, PeerTypes, Locals
  <2> QED BY <1>0, <2>1 DEF Readable, Avail, Onward, PeerTypes
<1>3. RoundInv'
  BY <1>0, <1>2 DEF BasicInv, RoundInv, Locals
<1>4. LoopInv'
  BY <1>0 DEF BasicInv, LoopInv, Locals, Terminated, Length, Type
<1> QED BY <1>0, <1>1, <1>3, <1>4 DEF BasicInv

-----------------------------------------------------------------------------
(* Steps of the handler that read and send nothing: an error of the server *)
(* may be noticed, and an incomplete head recorded.                        *)
Noticed ==
    /\ UNCHANGED <<todo, taken, arrived, asked, outq, got, viewer>>
    /\ fin' = fin \/ (fin[cur] # "no" /\ fin' = [fin EXCEPT ![cur] = "eof"])

Still == Noticed /\ (cut' = cut \/ cut' = cut \cup {cur})

LEMMA Serving ==
    ASSUME BasicInv, pc # "select"
    PROVE  cur \in Conns /\ cur \in alive /\ cur \notin todo
BY DEF BasicInv, RoundInv

LEMMA StillStream ==
    ASSUME BasicInv, pc # "select", Still
    PROVE  /\ PeerTypes' /\ StreamInv' /\ cut' \subseteq Conns
           /\ \A i \in Conns : fin[i] = "no" <=> fin'[i] = "no"
           /\ \A i \in Conns : Readable(i) => Readable(i)'
<1>1. cur \in Conns /\ PeerTypes /\ StreamInv /\ cut \subseteq Conns
  BY Serving DEF BasicInv, Shape, PeerTypes
<1>2. fin' \in [Conns -> {"no", "eof", "rst"}] /\ cut' \subseteq Conns
      /\ \A i \in Conns : fin[i] = "no" <=> fin'[i] = "no"
  BY <1>1 DEF Still, Noticed, PeerTypes
<1>3. PeerTypes'
  BY <1>1, <1>2 DEF Still, Noticed, PeerTypes
<1>4. StreamInv'
  BY <1>1 DEF Still, Noticed, StreamInv
<1>5. \A i \in Conns : Readable(i) => Readable(i)'
  BY <1>2 DEF Still, Noticed, Readable, Avail
<1> QED BY <1>2, <1>3, <1>4, <1>5

LEMMA LeaveBasic ==
    ASSUME BasicInv, pc # "select", Still, Leave,
           alive' = alive \/ alive' = alive \ {cur}
    PROVE  BasicInv'
<1>1. /\ PeerTypes' /\ StreamInv' /\ cut' \subseteq Conns
      /\ \A i \in Conns : Readable(i) => Readable(i)'
  BY StillStream
<1>2. <<>> \in Seq(Nat) /\ <<>> \in Seq(Int) /\ MaxLine \in Nat /\ N \in Nat
  BY RelayAssumption
<1>3. Shape'
  BY <1>1, <1>2 DEF BasicInv, Shape, PeerTypes, Still, Noticed, Leave, LeaveWith
<1>4. RoundInv'
  BY <1>1, <1>2, Serving DEF BasicInv, RoundInv, Still, Noticed, Leave, LeaveWith
<1>5. LoopInv'
  BY DEF LoopInv, Leave, LeaveWith
<1> QED BY <1>1, <1>3, <1>4, <1>5 DEF BasicInv

LEMMA StopBasic ==
    ASSUME BasicInv, pc # "select", Still, Stop("stuck")
    PROVE  BasicInv'
<1>1. /\ PeerTypes' /\ StreamInv' /\ cut' \subseteq Conns
      /\ \A i \in Conns : Readable(i) => Readable(i)'
  BY StillStream
<1>3. Shape'
  BY <1>1 DEF BasicInv, Shape, PeerTypes, Still, Noticed, Stop, localVars
<1>4. RoundInv'
  BY <1>1, Serving DEF BasicInv, RoundInv, Still, Noticed, Stop, localVars
<1>5. LoopInv'
  BY DEF LoopInv, Stop
<1> QED BY <1>1, <1>3, <1>4, <1>5 DEF BasicInv

(* Where a response was read of, its script is known. *)
LEMMA RespIs ==
    ASSUME BasicInv, pc # "select", resp # 0
    PROVE  /\ cur \in Conns /\ resp \in DOMAIN Responses[cur] /\ resp \in Nat
           /\ Type(cur, resp) \in {"xml", "f4f"} /\ Length(cur, resp) \in Nat \ {0}
           /\ End(cur, resp - 1) \in Nat /\ End(cur, resp) \in Nat
           /\ Length(cur, resp) = End(cur, resp) - End(cur, resp - 1) - 5
<1>1. cur \in Conns /\ resp \in DOMAIN Responses[cur]
  BY Serving DEF BasicInv, RoundInv
<1> QED BY <1>1, EndStep

LEMMA HeadReadBasic ==
    ASSUME BasicInv, pc \in {"line", "parse"}, Still, NEW h \in Seq(Int), HeadRead(h)
    PROVE  BasicInv'
<1>0. pc # "select"
  OBVIOUS
<1>1. CASE resp = 0
  BY <1>0, <1>1, LeaveBasic DEF HeadRead, Close
<1>2. CASE resp # 0
  <2>1. /\ hdr_buf' = h /\ n' = 0 /\ buf' = <<>> /\ bufp' = 0
        /\ IF Type(cur, resp) = "f4f" THEN pc' = "head" /\ ubuf' = h
                                      ELSE pc' = "recv" /\ ubuf' = ubuf
        /\ UNCHANGED <<cur, resp, body, alive>>
    BY <1>2 DEF HeadRead
  <2>2. /\ PeerTypes' /\ StreamInv' /\ cut' \subseteq Conns
        /\ \A i \in Conns : Readable(i) => Readable(i)'
    BY <1>0, StillStream
  <2>3. <<>> \in Seq(Nat) /\ <<>> \in Seq(Int) /\ MaxLine \in Nat
    BY RelayAssumption
  <2>9. Len(<<>>) = 0
    OBVIOUS
  <2>4. Shape'
    <3>1. pc' \in {"head", "recv"} /\ n' = 0 /\ bufp' = 0 /\ 0 \in 0..MaxLine
          /\ resp' \in Nat /\ buf' \in Seq(Nat)
      BY <2>1, <2>3 DEF BasicInv, Shape
    <3>2. {hdr_buf', body', ubuf'} \subseteq Seq(Int)
      BY <2>1 DEF BasicInv, Shape
    <3>3. taken' \in [Conns -> Nat]
      BY DEF BasicInv, Shape, Still, Noticed
    <3> QED BY <2>2, <3>1, <3>2, <3>3 DEF Shape, PeerTypes, Busy
  <2>5. RoundInv'
    BY <1>0, <2>1, <2>2, Serving DEF BasicInv, RoundInv, Still, Noticed
  <2>6. body = <<>> /\ ubuf = <<>>
    BY DEF BasicInv, LoopInv
  <2>7. Length(cur, resp)' = Length(cur, resp) /\ Type(cur, resp)' = Type(cur, resp)
    BY <2>1 DEF Length, Type
  <2>8. LoopInv'
    BY <1>0, <1>2, <2>1, <2>6, <2>7, <2>9, RespIs DEF LoopInv
  <2> QED BY <2>2, <2>4, <2>5, <2>8 DEF BasicInv
<1> QED BY <1>1, <1>2

LEMMA HeadCutBasic ==
    ASSUME BasicInv, pc \in {"line", "parse"}, Noticed, HeadCut
    PROVE  BasicInv'
<1>1. PICK h \in {<<>>, Junk, Bad} : HeadRead(h)
  BY DEF HeadCut
<1>2. h \in Seq(Int)
  <2>1. -1 \in Int /\ -2 \in Int
    OBVIOUS
  <2>2. \A i \in Int : <<i>> \in Seq(Int)
    OBVIOUS
  <2>3. <<>> \in Seq(Int)
    OBVIOUS
  <2> QED BY <2>1, <2>2, <2>3 DEF Junk, Bad
<1>3. Still
  BY DEF HeadCut, Still
<1> QED BY <1>1, <1>2, <1>3, HeadReadBasic

(* A line that lies in what was read. *)
LineOf(line) ==
    /\ line \in Seq(Nat)
    /\ \A i \in 1..Len(line) : line[i] # Nul /\ line[i] <= taken[cur]

LEMMA HeadLineAt ==
    ASSUME BasicInv, pc # "select", NEW line, LineOf(line), Text(cur, line) = HeadLine
    PROVE  At(cur, line[1]) \in DOMAIN Responses[cur]
<1>1. DOMAIN Text(cur, line) = DOMAIN line /\ DOMAIN line = 1..Len(line)
  BY DEF Text, LineOf
<1>2. 1 \in DOMAIN HeadLine
  BY DEF HeadLine
<1>3. 1 \in 1..Len(line)
  BY <1>1, <1>2
<1>4. line[1] \in Nat \ {0} /\ line[1] <= taken[cur]
  BY <1>3 DEF LineOf, Nul
<1>5. line[1] <= End(cur, asked[cur]) /\ asked[cur] \in 0..Len(Responses[cur]) /\ cur \in Conns
  BY <1>4, Serving, StreamIs
<1> QED BY <1>4, <1>5, AtFinds

LEMMA TakeLineBasic ==
    ASSUME BasicInv, pc \in {"line", "parse"}, Noticed, NEW line, LineOf(line),
           NEW stale \in BOOLEAN, pc = "line" => stale, TakeLine(line, stale)
    PROVE  BasicInv'
<1>0. pc # "select"
  OBVIOUS
<1>1. line \in Seq(Int) /\ hdr_buf \in Seq(Int)
  BY DEF LineOf, BasicInv, Shape
<1>2. hdr_buf \o line \in Seq(Int)
  BY <1>1
<1> DEFINE text == Text(cur, line)
           ends == line # <<>> /\ Last(text) = "n"
           again == stale \/ (text = HeadLine /\ resp # 0)
<1>a. CASE HeadCut
  BY <1>a, HeadCutBasic
<1>b. CASE HeadRead(hdr_buf \o line) /\ cut' = cut
  BY <1>b, <1>2, HeadReadBasic DEF Still
<1>c. CASE Stop("stuck") /\ cut' = cut
  BY <1>0, <1>c, StopBasic DEF Still
<1>d. CASE /\ ~again
           /\ pc' = "line" /\ n' = 1
           /\ hdr_buf' = hdr_buf \o line
           /\ resp' = IF text = HeadLine THEN At(cur, line[1]) ELSE resp
           /\ UNCHANGED <<cur, buf, bufp, body, ubuf, alive, cut>>
  <2>1. /\ PeerTypes' /\ StreamInv' /\ cut' \subseteq Conns
        /\ \A i \in Conns : Readable(i) => Readable(i)'
    BY <1>0, <1>d, StillStream DEF Still
  <2>2. resp' \in Nat /\ (resp' # 0 => resp' \in DOMAIN Responses[cur])
    <3>1. CASE text = HeadLine
      <4>1. resp' = At(cur, line[1]) /\ cur \in Conns
        BY <1>0, <1>d, <3>1, Serving
      <4>2. resp' \in DOMAIN Responses[cur]
        BY <1>0, <3>1, <4>1, HeadLineAt
      <4> QED BY <4>1, <4>2, Scripts
    <3>2. CASE text # HeadLine
      BY <1>d, <3>2 DEF BasicInv, Shape, RoundInv
    <3> QED BY <3>1, <3>2
  <2>3. pc = "parse"
    BY <1>d
  <2>4. Shape'
    <3>1. pc' = "line" /\ n' = 1 /\ bufp' = bufp /\ 1 \in 0..MaxLine /\ buf' = buf
      BY <1>d, RelayAssumption
    <3>2. {hdr_buf', body', ubuf'} \subseteq Seq(Int)
      BY <1>d, <1>2 DEF BasicInv, Shape
    <3>3. taken' \in [Conns -> Nat]
      BY DEF BasicInv, Shape, Noticed
    <3> QED BY <2>1, <2>2, <3>1, <3>2, <3>3 DEF BasicInv, Shape, PeerTypes, Busy
  <2>5. RoundInv'
    BY <1>0, <1>d, <2>1, <2>2, Serving DEF BasicInv, RoundInv, Noticed
  <2>6. LoopInv'
    <3>1. bufp = 0 /\ Len(buf) \in Nat
      BY <2>3 DEF BasicInv, LoopInv, Shape
    <3> QED BY <1>d, <2>3, <3>1 DEF BasicInv, LoopInv, Noticed
  <2> QED BY <2>1, <2>4, <2>5, <2>6 DEF BasicInv
<1> QED BY <1>a, <1>b, <1>c, <1>d DEF TakeLine

(* The string in a buffer that is terminated. *)
LEMMA BufferLine ==
    ASSUME BasicInv, pc \in {"line", "parse"}, Terminated(buf)
    PROVE  LineOf(CString(buf))
<1>1. buf \in Seq(Nat) /\ \A i \in 1..Len(buf) : buf[i] <= taken[cur]
  BY DEF BasicInv, Shape, LoopInv
<1>2. PICK m \in Nat : /\ m + 1 <= Len(buf) /\ buf[m + 1] = Nul
                       /\ \A i \in 1..m : buf[i] # Nul
  BY <1>1, CStringStops
<1>3. /\ CString(buf) \in Seq(Nat) /\ Len(CString(buf)) = m
      /\ \A i \in 1..m : CString(buf)[i] = buf[i]
  BY <1>1, <1>2, CStringIs
<1>4. \A i \in 1..m : i \in 1..Len(buf)
  BY <1>1, <1>2
<1> QED BY <1>1, <1>2, <1>3, <1>4 DEF LineOf

LEMMA ParseLineBasic == ASSUME BasicInv, ParseLine PROVE BasicInv'
<1>1. pc = "parse" /\ TakeLine(CString(buf), FALSE) /\ Noticed
  BY DEF ParseLine, Noticed, servVars, viewVars
<1>2. LineOf(CString(buf))
  BY <1>1, BufferLine DEF BasicInv, LoopInv
<1> QED BY <1>1, <1>2, TakeLineBasic

LEMMA LineEndedBasic == ASSUME BasicInv, LineEnded PROVE BasicInv'
<1>1. pc = "line" /\ Noticed
  BY DEF LineEnded, Noticed, viewVars
<1>2. CASE Terminated(buf) /\ TakeLine(CString(buf), TRUE)
  BY <1>1, <1>2, BufferLine, TakeLineBasic
<1>3. CASE HeadCut
  BY <1>1, <1>3, HeadCutBasic
<1>4. CASE Stop("stuck") /\ cut' = cut
  BY <1>1, <1>4, StopBasic DEF Still
<1> QED BY <1>2, <1>3, <1>4 DEF LineEnded

-----------------------------------------------------------------------------
(* The rounds. *)
LEMMA RoundBasic ==
    ASSUME BasicInv, Select \/ (\E k \in Conns : Serve(k))
    PROVE  BasicInv'
<1> USE DEF servVars, viewVars, localVars
<1>1. 1 \in 0..MaxLine /\ MaxLine \in Nat /\ N \in Nat /\ Conns = 1..N
  BY RelayAssumption DEF Conns
<1>2. CASE Select
  <2>1. Shape' /\ StreamInv'
    BY <1>2 DEF Select, BasicInv, Shape, StreamInv
  <2>2. RoundInv'
    BY <1>2 DEF Select, BasicInv, RoundInv, Readable, Avail
  <2>3. LoopInv'
    BY <1>2 DEF Select, LoopInv
  <2> QED BY <2>1, <2>2, <2>3 DEF BasicInv
<1>3. ASSUME NEW k \in Conns, Serve(k) PROVE BasicInv'
  <2>1. /\ pc = "select" /\ k \in todo /\ todo' = todo \ {k} /\ pc' = "line" /\ cur' = k
        /\ n' = 1
        /\ UNCHANGED <<buf, bufp, hdr_buf, resp, body, ubuf, alive, taken, arrived, fin, asked,
                       outq, got, viewer, cut>>
    BY <1>3 DEF Serve
  <2>2. Shape' /\ StreamInv'
    BY <1>1, <2>1 DEF BasicInv, Shape, StreamInv, Busy
  <2>3. RoundInv'
    BY <1>1, <2>1 DEF BasicInv, RoundInv, Readable, Avail
  <2>4. LoopInv'
    <3>1. buf = <<>> /\ bufp = 0 /\ body = <<>> /\ ubuf = <<>>
      BY <2>1 DEF BasicInv, RoundInv
    <3>2. Len(<<>>) = 0
      OBVIOUS
    <3> QED BY <2>1, <3>1, <3>2 DEF LoopInv
  <2> QED BY <2>2, <2>3, <2>4 DEF BasicInv
<1> QED BY <1>2, <1>3

-----------------------------------------------------------------------------
(* The handler reads: the bytes taken move on, but not past what came in.  *)
Advance(m) ==
    /\ taken' = [taken EXCEPT ![cur] = @ + m]
    /\ UNCHANGED <<todo, cur, arrived, fin, asked, outq, got, viewer, cut, alive>>

LEMMA AdvanceBasic ==
    ASSUME BasicInv, pc # "select", NEW m \in Nat, m <= Avail(cur), Advance(m)
    PROVE  /\ PeerTypes' /\ StreamInv' /\ taken' \in [Conns -> Nat]
           /\ taken[cur] + m <= arrived[cur]
           /\ taken'[cur] = taken[cur] + m
           /\ \A i \in Conns \ {cur} : taken'[i] = taken[i]
           /\ \A i \in todo : Readable(i)'
<1>1. cur \in Conns /\ taken \in [Conns -> Nat] /\ PeerTypes /\ cur \notin todo
      /\ todo \subseteq Conns /\ \A i \in todo : Readable(i)
  BY Serving DEF BasicInv, Shape, PeerTypes, RoundInv
<1>2. taken[cur] \in Nat /\ arrived[cur] \in Nat
  BY <1>1, StreamIs
<1>3. taken[cur] + m <= arrived[cur]
  BY <1>2 DEF Avail
<1>4. /\ taken' \in [Conns -> Nat] /\ taken'[cur] = taken[cur] + m
      /\ \A i \in Conns \ {cur} : taken'[i] = taken[i]
  BY <1>1, <1>2 DEF Advance
<1>5. PeerTypes'
  BY <1>1 DEF PeerTypes, Advance
<1>6. \A i \in Conns : taken'[i] <= arrived[i]
  BY <1>3, <1>4 DEF BasicInv, StreamInv
<1>7. StreamInv'
  BY <1>6 DEF BasicInv, StreamInv, Advance
<1>8. \A i \in todo : Readable(i)'
  BY <1>1, <1>4 DEF Advance, Readable, Avail
<1> QED BY <1>3, <1>4, <1>5, <1>7, <1>8

(* What io_recvline_block does to its buffer in one try. *)
LEMMA RecvCharBasic == ASSUME BasicInv, RecvChar PROVE BasicInv'
<1> DEFINE p == taken[cur] + 1
           one == Put(buf, bufp + 1, p)
           two == Put(one, bufp + 2, Nul)
<1>1. /\ pc = "line" /\ Avail(cur) > 0 /\ Advance(1)
      /\ UNCHANGED <<hdr_buf, resp, body, ubuf>>
      /\ \/ pc' = "parse" /\ n' = 0 /\ bufp' = 0 /\ buf' = two
         \/ n + 1 < MaxLine /\ n' = n + 1 /\ bufp' = bufp + 1 /\ buf' = one /\ pc' = pc
  BY RelayAssumption DEF RecvChar, Advance, servVars, viewVars, BasicInv, Shape
<1>2. cur \in Conns /\ taken[cur] \in Nat /\ arrived[cur] \in Nat
  BY <1>1, Serving, StreamIs
<1>3. 1 <= Avail(cur)
  BY <1>1, <1>2 DEF Avail
<1>4. /\ PeerTypes' /\ StreamInv' /\ taken' \in [Conns -> Nat] /\ taken'[cur] = p
      /\ \A i \in todo : Readable(i)'
  BY <1>1, <1>3, AdvanceBasic
<1>5. /\ buf \in Seq(Nat) /\ bufp \in 0..MaxLine /\ n \in 0..MaxLine /\ bufp <= Len(buf)
      /\ n >= 1 /\ bufp + 1 <= n /\ p \in Nat /\ MaxLine \in Nat /\ Len(buf) \in Nat
      /\ \A i \in 1..Len(buf) : buf[i] <= taken[cur]
      /\ body = <<>> /\ ubuf = <<>>
  BY <1>1, <1>2, RelayAssumption DEF BasicInv, Shape, LoopInv
<1>6. /\ one \in Seq(Nat) /\ Len(one) = (IF bufp + 1 <= Len(buf) THEN Len(buf) ELSE bufp + 1)
      /\ one[bufp + 1] = p
      /\ \A m \in 1..Len(buf) : m # bufp + 1 => one[m] = buf[m]
  <2>1. bufp + 1 \in 1..(Len(buf) + 1)
    BY <1>5
  <2> QED BY <1>5, <2>1, PutIs
<1>7. bufp + 1 <= Len(one) /\ Len(one) \in Nat /\ \A i \in 1..Len(one) : one[i] <= p
  <2>1. bufp + 1 \in 1..(Len(buf) + 1) /\ \A i \in 1..Len(buf) : buf[i] <= p /\ p <= p
    BY <1>2, <1>5
  <2>2. /\ \A i \in 1..Len(one) : one[i] <= p
        /\ bufp + 1 \in 1..Len(one) /\ Len(one) \in Nat
    BY <1>5, <2>1, PutBelow
  <2> QED BY <2>2
<1>8. bufp + 2 \in 1..(Len(one) + 1) /\ Nul \in Nat /\ Nul <= p
  BY <1>5, <1>7 DEF Nul
<1>9. /\ two \in Seq(Nat) /\ two[bufp + 2] = Nul
      /\ \A i \in 1..Len(two) : two[i] <= p
      /\ bufp + 2 \in DOMAIN two
  <2>1. two \in Seq(Nat) /\ two[bufp + 2] = Nul
    BY <1>6, <1>8, PutIs
  <2>2. (\A i \in 1..Len(two) : two[i] <= p) /\ bufp + 2 \in 1..Len(two)
    BY <1>5, <1>6, <1>7, <1>8, PutBelow
  <2> QED BY <2>1, <2>2
<1> HIDE DEF one, two, p
<1>10. Shape'
  <2>1. taken' \in [Conns -> Nat] /\ n' \in 0..MaxLine /\ bufp' \in 0..MaxLine
        /\ pc' \in {"line", "parse"}
    BY <1>1, <1>4, <1>5
  <2>2. buf' \in Seq(Nat) /\ resp' \in Nat /\ cut' \subseteq Conns
        /\ {hdr_buf', body', ubuf'} \subseteq Seq(Int)
    BY <1>1, <1>6, <1>9 DEF BasicInv, Shape, Advance
  <2> QED BY <1>4, <2>1, <2>2 DEF Shape, PeerTypes, Busy
<1>11. RoundInv'
  BY <1>1, <1>4 DEF BasicInv, RoundInv, Advance
<1>12. LoopInv'
  <2>1. CASE pc' = "parse"
    <3>1. Terminated(buf)' /\ bufp' = 0 /\ \A i \in 1..Len(buf') : buf'[i] <= taken'[cur]
      BY <1>1, <1>4, <1>9, <2>1 DEF Terminated
    <3> QED BY <1>1, <1>5, <2>1, <3>1 DEF LoopInv, Advance
  <2>2. CASE pc' = "line"
    <3>1. /\ n' = n + 1 /\ bufp' = bufp + 1 /\ buf' = one
      BY <1>1, <2>2
    <3>2. n' >= 1 /\ bufp' + 1 <= n' /\ bufp' <= Len(buf')
          /\ \A i \in 1..Len(buf') : buf'[i] <= taken'[cur]
      BY <1>4, <1>5, <1>7, <3>1
    <3> QED BY <1>1, <1>5, <2>2, <3>2 DEF LoopInv, Advance
  <2> QED BY <1>1, <2>1, <2>2
<1> QED BY <1>4, <1>10, <1>11, <1>12 DEF BasicInv

LEMMA PollBasic == ASSUME BasicInv, Poll PROVE BasicInv'
<1>1. /\ pc = "line" /\ Noticed /\ UNCHANGED <<cur, hdr_buf, resp, body, ubuf, alive, cut>>
      /\ \/ pc' = "parse" /\ n' = 0 /\ bufp' = 0 /\ buf' = Put(buf, bufp + 1, Nul)
         \/ n + 1 < MaxLine /\ n' = n + 1 /\ UNCHANGED <<pc, buf, bufp>>
  BY RelayAssumption DEF Poll, Noticed, servVars, viewVars, BasicInv, Shape
<1>2. /\ PeerTypes' /\ StreamInv' /\ cut' \subseteq Conns
      /\ \A i \in Conns : Readable(i) => Readable(i)'
  BY <1>1, StillStream DEF Still
<1>3. /\ buf \in Seq(Nat) /\ bufp \in 0..MaxLine /\ n \in 0..MaxLine /\ bufp <= Len(buf)
      /\ n >= 1 /\ bufp + 1 <= n /\ MaxLine \in Nat /\ Len(buf) \in Nat
      /\ \A i \in 1..Len(buf) : buf[i] <= taken[cur]
      /\ body = <<>> /\ ubuf = <<>>
  BY <1>1, RelayAssumption DEF BasicInv, Shape, LoopInv
<1>4. bufp + 1 \in 1..(Len(buf) + 1) /\ Nul \in Nat
  BY <1>3 DEF Nul
<1>5. taken[cur] \in Nat /\ Nul <= taken[cur]
  BY <1>1, Serving, StreamIs DEF Nul
<1> DEFINE one == Put(buf, bufp + 1, Nul)
<1>6. one \in Seq(Nat) /\ one[bufp + 1] = Nul
  BY <1>3, <1>4, PutIs
<1>7. (\A i \in 1..Len(one) : one[i] <= taken[cur]) /\ bufp + 1 \in 1..Len(one)
  BY <1>3, <1>4, <1>5, PutBelow
<1>8. bufp + 1 \in DOMAIN one
  BY <1>6, <1>7
<1> HIDE DEF one
<1>9. Shape'
  <2>1. taken' \in [Conns -> Nat] /\ n' \in 0..MaxLine /\ bufp' \in 0..MaxLine
        /\ pc' \in {"line", "parse"}
    BY <1>1, <1>3 DEF BasicInv, Shape, Noticed
  <2>2. buf' \in Seq(Nat) /\ resp' \in Nat /\ {hdr_buf', body', ubuf'} \subseteq Seq(Int)
    BY <1>1, <1>6 DEF BasicInv, Shape, one
  <2> QED BY <1>2, <2>1, <2>2 DEF Shape, PeerTypes, Busy
<1>10. RoundInv'
  BY <1>1, <1>2 DEF BasicInv, RoundInv, Noticed
<1>11. LoopInv'
  <2>1. CASE pc' = "parse" /\ bufp' = 0 /\ buf' = one
    <3>1. Terminated(buf)' /\ \A i \in 1..Len(buf') : buf'[i] <= taken'[cur]
      BY <1>1, <1>6, <1>7, <1>8, <2>1 DEF Terminated, Noticed
    <3> QED BY <1>1, <1>3, <2>1, <3>1 DEF LoopInv
  <2>2. CASE n' = n + 1 /\ UNCHANGED <<pc, buf, bufp>>
    <3>1. n' >= 1 /\ bufp' + 1 <= n'
      BY <1>3, <2>2
    <3> QED BY <1>1, <1>3, <2>2, <3>1 DEF LoopInv, Noticed
  <2> QED BY <1>1, <2>1, <2>2 DEF one
<1> QED BY <1>2, <1>9, <1>10, <1>11 DEF BasicInv

(* Bytes that follow one another, and a body put together of them. *)
LEMMA SpanIs ==
    ASSUME NEW a \in Nat, NEW m \in Nat
    PROVE  Span(a, m) \in Seq(Int) /\ Len(Span(a, m)) = m
           /\ \A i \in 1..m : Span(a, m)[i] = a + i
BY DEF Span

LEMMA RecvBodyBasic == ASSUME BasicInv, RecvBody PROVE BasicInv'
<1> DEFINE m == Smaller(Length(cur, resp), Avail(cur))
           now == body \o Span(taken[cur], m)
<1>1. /\ pc = "recv" /\ m > 0 /\ Advance(m) /\ UNCHANGED <<n, buf, bufp, hdr_buf, resp>>
      /\ body' = now
      /\ \/ /\ Len(now) = Length(cur, resp)
            /\ pc' = IF Type(cur, resp) = "xml" THEN "head" ELSE "body"
            /\ ubuf' = IF Type(cur, resp) = "xml" THEN hdr_buf ELSE now
         \/ /\ Len(now) # Length(cur, resp) /\ ubuf' = ubuf
            /\ pc' = IF Len(now) > Length(cur, resp) THEN "overrun" ELSE pc
  BY DEF RecvBody, BodyRead, Advance, servVars, viewVars
<1>2. /\ resp # 0 /\ ubuf = <<>> /\ body \in Seq(Int) /\ hdr_buf \in Seq(Int)
  BY <1>1 DEF BasicInv, LoopInv, Shape
<1>3. /\ cur \in Conns /\ Type(cur, resp) \in {"xml", "f4f"} /\ Length(cur, resp) \in Nat
      /\ taken[cur] \in Nat /\ arrived[cur] \in Nat
  BY <1>1, <1>2, RespIs, StreamIs
<1>4. m \in Nat /\ m <= Avail(cur)
  BY <1>3, StreamIs DEF Smaller, Avail
<1>5. /\ PeerTypes' /\ StreamInv' /\ taken' \in [Conns -> Nat]
      /\ \A i \in todo : Readable(i)'
  BY <1>1, <1>4, AdvanceBasic
<1>6. now \in Seq(Int) /\ Len(now) \in Nat
  BY <1>2, <1>3, <1>4, SpanIs
<1> HIDE DEF m, now
<1>7. Shape'
  <2>1. pc' \in {"head", "body", "overrun", "recv"} /\ ubuf' \in Seq(Int) /\ body' \in Seq(Int)
        /\ hdr_buf' \in Seq(Int)
    <3>1. ubuf \in Seq(Int)
      BY DEF BasicInv, Shape
    <3> QED BY <1>1, <1>2, <1>6, <3>1
  <2>2. /\ n' \in 0..MaxLine /\ bufp' \in 0..MaxLine /\ resp' \in Nat
        /\ buf' \in Seq(Nat) /\ cut' \subseteq Conns
    BY <1>1 DEF Advance, BasicInv, Shape
  <2> QED BY <1>5, <2>1, <2>2 DEF Shape, PeerTypes, Busy
<1>8. RoundInv'
  BY <1>1, <1>5 DEF BasicInv, RoundInv, Advance
<1>9. LoopInv'
  <2>1. pc' \in {"head", "body", "overrun", "recv"} /\ resp' # 0
        /\ Length(cur, resp)' = Length(cur, resp) /\ Type(cur, resp)' = Type(cur, resp)
    BY <1>1, <1>2 DEF Advance, Length, Type
  <2>2. pc' = "head" => Type(cur, resp) = "xml"
    BY <1>1
  <2>3. pc' = "recv" => ubuf' = <<>> /\ Len(body') < Length(cur, resp)
    BY <1>1, <1>2, <1>3, <1>6
  <2> QED BY <2>1, <2>2, <2>3 DEF LoopInv
<1> QED BY <1>5, <1>7, <1>8, <1>9 DEF BasicInv

LEMMA BodyEndedBasic == ASSUME BasicInv, BodyEnded PROVE BasicInv'
<1>1. pc = "recv" /\ Still /\ Stop("stuck")
  BY DEF BodyEnded, Still, Noticed, servVars, viewVars
<1> QED BY <1>1, StopBasic

(* What a chunk's buffer holds when the server's error ends its body. *)
Remains == [i \in 1..Length(cur, resp) |-> IF i <= Len(body) THEN body[i] ELSE Nul]

LEMMA BodyBrokenBasic == ASSUME BasicInv, BodyBroken PROVE BasicInv'
<1>1. pc = "recv" /\ Still /\ fin[cur] = "rst" /\ taken[cur] <= arrived[cur]
  BY Serving DEF BodyBroken, Still, Noticed, viewVars, BasicInv, StreamInv
<1>2. CASE Close
  BY <1>1, <1>2, LeaveBasic DEF Close
<1>3. CASE /\ Type(cur, resp) = "f4f" /\ BodyRead(Remains)
           /\ UNCHANGED <<cur, n, buf, bufp, hdr_buf, resp>>
  <2>1. /\ resp # 0 /\ body \in Seq(Int)
    BY <1>1 DEF BasicInv, LoopInv, Shape
  <2>2. Length(cur, resp) \in Nat
    BY <1>1, <2>1, RespIs
  <2>3. Remains \in Seq(Int)
    <3>1. ASSUME NEW i \in 1..Length(cur, resp)
          PROVE  (IF i <= Len(body) THEN body[i] ELSE Nul) \in Int
      BY <2>1, <2>2 DEF Nul
    <3> DEFINE f == Remains
    <3>2. f \in [1..Length(cur, resp) -> Int]
      BY <3>1 DEF Remains
    <3> HIDE DEF f
    <3>3. f \in Seq(Int)
      BY <2>2, <3>2
    <3> QED BY <3>3 DEF f
  <2>4. /\ pc' = "body" /\ body' = Remains /\ ubuf' = Remains
        /\ UNCHANGED <<cur, n, buf, bufp, hdr_buf, resp, alive>>
    BY <1>3 DEF BodyRead
  <2>5. /\ PeerTypes' /\ StreamInv' /\ cut' \subseteq Conns
        /\ \A i \in Conns : Readable(i) => Readable(i)'
    BY <1>1, StillStream
  <2>6. Shape'
    <3>1. taken' \in [Conns -> Nat]
      BY <1>1 DEF BasicInv, Shape, Still, Noticed
    <3> HIDE DEF Remains
    <3> QED BY <2>3, <2>4, <2>5, <3>1 DEF BasicInv, Shape, PeerTypes, Busy
  <2>7. RoundInv'
    BY <1>1, <2>4, <2>5 DEF BasicInv, RoundInv, Still, Noticed
  <2>8. LoopInv'
    BY <2>1, <2>4 DEF LoopInv
  <2> QED BY <2>5, <2>6, <2>7, <2>8 DEF BasicInv
<1> QED BY <1>2, <1>3 DEF BodyBroken, Remains

-----------------------------------------------------------------------------
(* The handler sends. *)
LEMMA RoomIs ==
    ASSUME BasicInv, pc # "select"
    PROVE  /\ ubuf \in Seq(Int) /\ outq[cur] \in Seq(Int) /\ Room \in Int
           /\ Room <= Len(ubuf) /\ Room <= Cap - Len(outq[cur])
           /\ Len(ubuf) \in Nat /\ Len(outq[cur]) \in Nat /\ Cap \in Nat
           /\ Len(outq[cur]) <= Cap
<1>1. cur \in Conns
  BY Serving
<1>2. /\ ubuf \in Seq(Int) /\ outq[cur] \in Seq(Int) /\ Cap \in Nat
      /\ Len(outq[cur]) <= Cap
  BY <1>1, RelayAssumption DEF BasicInv, Shape, StreamInv
<1>3. Len(ubuf) \in Nat /\ Len(outq[cur]) \in Nat
  BY <1>2
<1> DEFINE a == Len(ubuf)
           b == Len(outq[cur])
<1>4. a \in Nat /\ b \in Nat /\ b <= Cap
  BY <1>2, <1>3
<1>5. Room = IF a <= Cap - b THEN a ELSE Cap - b
  BY DEF Room, Smaller
<1> HIDE DEF a, b
<1>6. Room \in Int /\ Room <= a /\ Room <= Cap - b
  BY <1>2, <1>4, <1>5
<1> QED BY <1>2, <1>3, <1>6 DEF a, b

(* The part sent and what is left of it. *)
LEMMA SplitAt ==
    ASSUME NEW s \in Seq(Int), NEW m \in 0..Len(s)
    PROVE  /\ SubSeq(s, 1, m) \in Seq(Int) /\ Len(SubSeq(s, 1, m)) = m
           /\ \A i \in 1..m : SubSeq(s, 1, m)[i] = s[i]
           /\ SubSeq(s, m + 1, Len(s)) \in Seq(Int)
           /\ Len(SubSeq(s, m + 1, Len(s))) = Len(s) - m
           /\ \A i \in 1..(Len(s) - m) : SubSeq(s, m + 1, Len(s))[i] = s[m + i]
<1>1. /\ SubSeq(s, 1, m) \in Seq(Int) /\ Len(SubSeq(s, 1, m)) = m
      /\ \A i \in 1..m : SubSeq(s, 1, m)[i] = s[i]
  OBVIOUS
<1>2. CASE m = Len(s)
  <2>1. SubSeq(s, m + 1, Len(s)) \in Seq(Int) /\ Len(SubSeq(s, m + 1, Len(s))) = 0
    BY <1>2
  <2> QED BY <1>1, <1>2, <2>1
<1>3. CASE m < Len(s)
  <2>1. /\ SubSeq(s, m + 1, Len(s)) \in Seq(Int)
        /\ Len(SubSeq(s, m + 1, Len(s))) = Len(s) - m
        /\ \A i \in 1..(Len(s) - m) : SubSeq(s, m + 1, Len(s))[i] = s[m + i]
    BY <1>3
  <2> QED BY <1>1, <2>1
<1>4. m = Len(s) \/ m < Len(s)
  OBVIOUS
<1> QED BY <1>2, <1>3, <1>4

(* A step of the sending loop that goes well. *)
Passes ==
    /\ pc \in {"head", "body"} /\ ubuf # <<>> /\ ubuf # Bad /\ viewer[cur] # "gone"
    /\ Room \in 1..Len(ubuf)
    /\ outq' = [outq EXCEPT ![cur] = @ \o SubSeq(ubuf, 1, Room)]
    /\ ubuf' = SubSeq(ubuf, Room + 1, Len(ubuf))
    /\ UNCHANGED <<pc, todo, cur, n, buf, bufp, hdr_buf, resp, body, alive, taken,
                   arrived, fin, asked, got, viewer, cut>>

LEMMA SendIs == ASSUME BasicInv, Send PROVE Passes
<1>1. pc # "select" /\ Room > 0
  BY DEF Send, SendPart
<1>2. Room \in 1..Len(ubuf)
  BY <1>1, RoomIs
<1> QED BY <1>2 DEF Send, SendPart, Passes, servVars

LEMMA SendBasic == ASSUME BasicInv, Passes PROVE BasicInv'
<1> DEFINE part == SubSeq(ubuf, 1, Room)
           rest == SubSeq(ubuf, Room + 1, Len(ubuf))
<1>0. pc # "select" /\ pc \in {"head", "body"} /\ cur \in Conns /\ viewer[cur] # "gone"
  BY Serving DEF Passes
<1>1. Room \in 0..Len(ubuf)
  BY <1>0, RoomIs DEF Passes
<1>2. part \in Seq(Int) /\ Len(part) = Room /\ rest \in Seq(Int)
  BY <1>0, <1>1, RoomIs, SplitAt
<1>3. outq[cur] \o part \in Seq(Int) /\ Len(outq[cur] \o part) = Len(outq[cur]) + Len(part)
  BY <1>0, <1>2, RoomIs, JoinIs
<1>4. Len(outq[cur] \o part) <= Cap
  BY <1>0, <1>2, <1>3, RoomIs
<1> HIDE DEF part, rest
<1>5. /\ outq' = [outq EXCEPT ![cur] = outq[cur] \o part] /\ ubuf' = rest
      /\ UNCHANGED <<pc, todo, cur, n, buf, bufp, hdr_buf, resp, body, alive, taken,
                     arrived, fin, asked, got, viewer, cut>>
  BY DEF Passes, part, rest
<1>6. outq' \in [Conns -> Seq(Int)] /\ outq'[cur] = outq[cur] \o part
      /\ \A i \in Conns \ {cur} : outq'[i] = outq[i]
  BY <1>0, <1>3, <1>5 DEF BasicInv, Shape
<1>7. Shape'
  BY <1>2, <1>5, <1>6 DEF BasicInv, Shape
<1>8. StreamInv'
  <2>1. ASSUME NEW i \in Conns
        PROVE  Len(outq'[i]) <= Cap /\ (viewer[i] = "gone" => outq'[i] = <<>>)
    BY <1>0, <1>4, <1>6 DEF BasicInv, StreamInv
  <2> QED BY <1>5, <2>1 DEF BasicInv, StreamInv
<1>9. RoundInv'
  BY <1>0, <1>5 DEF BasicInv, RoundInv, Readable, Avail
<1>10. LoopInv'
  BY <1>0, <1>5 DEF BasicInv, LoopInv, Type, Length
<1> QED BY <1>7, <1>8, <1>9, <1>10 DEF BasicInv

LEMMA SendLostBasic == ASSUME BasicInv, SendLost PROVE BasicInv'
<1>1. pc \in {"head", "body"} /\ pc # "select" /\ Still
  BY DEF SendLost, Still, Noticed, servVars, viewVars
<1>2. CASE Close
  BY <1>1, <1>2, LeaveBasic DEF Close
<1>3. CASE ubuf' = <<>> /\ UNCHANGED <<pc, cur, n, buf, bufp, hdr_buf, resp, body, alive>>
  <2>1. /\ PeerTypes' /\ StreamInv' /\ cut' \subseteq Conns
        /\ \A i \in Conns : Readable(i) => Readable(i)'
    BY <1>1, StillStream
  <2>2. <<>> \in Seq(Int)
    OBVIOUS
  <2>3. Shape'
    BY <1>1, <1>3, <2>1, <2>2 DEF BasicInv, Shape, PeerTypes, Still, Noticed
  <2>4. RoundInv'
    BY <1>1, <1>3, <2>1 DEF BasicInv, RoundInv, Still, Noticed
  <2>5. LoopInv'
    BY <1>1, <1>3 DEF BasicInv, LoopInv, Type, Length
  <2> QED BY <2>1, <2>3, <2>4, <2>5 DEF BasicInv
<1> QED BY <1>2, <1>3 DEF SendLost

LEMMA SentBasic == ASSUME BasicInv, Sent PROVE BasicInv'
<1>1. pc \in {"head", "body"} /\ pc # "select" /\ Still /\ ubuf = <<>>
  BY DEF Sent, Still, Noticed, servVars, viewVars
<1>2. CASE Finish
  BY <1>1, <1>2, LeaveBasic DEF Finish
<1>3. CASE /\ pc = "head"
           /\ pc' = IF Type(cur, resp) = "xml" THEN "body" ELSE "recv"
           /\ ubuf' = IF Type(cur, resp) = "xml" THEN body ELSE <<>>
           /\ UNCHANGED <<cur, n, buf, bufp, hdr_buf, resp, body, alive>>
  <2>1. /\ PeerTypes' /\ StreamInv' /\ cut' \subseteq Conns
        /\ \A i \in Conns : Readable(i) => Readable(i)'
    BY <1>1, StillStream
  <2>2. <<>> \in Seq(Int) /\ body \in Seq(Int) /\ resp # 0
    BY <1>1 DEF BasicInv, Shape, LoopInv
  <2>3. Type(cur, resp) \in {"xml", "f4f"} /\ Length(cur, resp) \in Nat \ {0}
    BY <1>1, <2>2, RespIs
  <2>4. Len(<<>>) = 0
    OBVIOUS
  <2>5. Shape'
    BY <1>1, <1>3, <2>1, <2>2 DEF BasicInv, Shape, PeerTypes, Busy, Still, Noticed
  <2>6. RoundInv'
    BY <1>1, <1>3, <2>1 DEF BasicInv, RoundInv, Still, Noticed
  <2>7. LoopInv'
    <3>1. Length(cur, resp)' = Length(cur, resp) /\ Type(cur, resp)' = Type(cur, resp)
      BY <1>3 DEF Length, Type
    <3>2. pc' = "recv" => body = <<>> /\ ubuf' = <<>>
      BY <1>3, <2>3 DEF BasicInv, LoopInv
    <3> QED BY <1>3, <2>2, <2>3, <2>4, <3>1, <3>2 DEF LoopInv
  <2> QED BY <2>1, <2>5, <2>6, <2>7 DEF BasicInv
<1> QED BY <1>2, <1>3 DEF Sent

LEMMA BasicStep == ASSUME BasicInv, [Next]_vars PROVE BasicInv'
<1>1. CASE UNCHANGED vars
  BY <1>1 DEF vars, localVars, servVars, viewVars, BasicInv, Shape, StreamInv, RoundInv, LoopInv,
              Readable, Avail, Terminated, Length, Type
<1>2. CASE Proxy
  BY <1>2, RoundBasic, RecvCharBasic, PollBasic, LineEndedBasic, ParseLineBasic, RecvBodyBasic,
     BodyEndedBasic, BodyBrokenBasic, SendIs, SendBasic, SendLostBasic, SentBasic DEF Proxy
<1>3. CASE \E k \in Conns : Peer(k)
  BY <1>3, PeerBasic
<1> QED BY <1>1, <1>2, <1>3 DEF Next

(* A line and its NUL have room in the line buffer. *)
RoomInv == Len(buf) <= MaxLine /\ (pc = "line" => n < MaxLine)

(* A step that writes nothing to the line buffer. *)
NoLine == /\ buf' = buf \/ buf' = <<>>
          /\ pc' # "line" \/ n' = 1 \/ UNCHANGED <<pc, n>>

LEMMA RoomQuiet ==
    ASSUME BasicInv, RoomInv, NoLine PROVE RoomInv'
<1>1. Len(<<>>) = 0 /\ MaxLine \in Nat \ {0, 1}
  BY RelayAssumption
<1>2. Len(buf') <= MaxLine
  BY <1>1 DEF RoomInv, NoLine
<1> QED BY <1>1, <1>2 DEF RoomInv, NoLine

LEMMA HeadQuiet ==
    ASSUME pc # "select", NEW h, HeadRead(h) PROVE NoLine
BY DEF HeadRead, Close, Leave, LeaveWith, NoLine

LEMMA LineQuiet ==
    ASSUME pc # "select", NEW line, NEW stale, TakeLine(line, stale) PROVE NoLine
<1>1. CASE HeadCut
  BY <1>1, HeadQuiet DEF HeadCut
<1>2. CASE HeadRead(hdr_buf \o line)
  BY <1>2, HeadQuiet
<1>3. CASE Stop("stuck")
  BY <1>3 DEF Stop, localVars, NoLine
<1>4. CASE n' = 1 /\ buf' = buf
  BY <1>4 DEF NoLine
<1> QED BY <1>1, <1>2, <1>3, <1>4 DEF TakeLine

LEMMA RoomRecv == ASSUME BasicInv, RoomInv, RecvChar PROVE RoomInv'
<1> DEFINE p == taken[cur] + 1
           one == Put(buf, bufp + 1, p)
           two == Put(one, bufp + 2, Nul)
<1>1. /\ pc = "line" /\ Avail(cur) > 0
      /\ \/ pc' = "parse" /\ buf' = two
         \/ n + 1 < MaxLine /\ n' = n + 1 /\ buf' = one
  BY RelayAssumption DEF RecvChar, BasicInv, Shape
<1>2. p \in Nat
  BY <1>1, Serving, StreamIs
<1>3. /\ buf \in Seq(Nat) /\ bufp \in Nat /\ n \in Nat /\ bufp <= Len(buf)
      /\ bufp + 1 <= n /\ n < MaxLine /\ MaxLine \in Nat
      /\ Len(buf) \in Nat /\ Len(buf) <= MaxLine
  BY <1>1, RelayAssumption DEF BasicInv, Shape, LoopInv, RoomInv
<1>4. one \in Seq(Nat) /\ Len(one) = (IF bufp + 1 <= Len(buf) THEN Len(buf) ELSE bufp + 1)
  <2>1. bufp + 1 \in 1..(Len(buf) + 1)
    BY <1>3
  <2> HIDE DEF p
  <2> QED BY <1>2, <1>3, <2>1, PutIs
<1> HIDE DEF one
<1>5. Len(one) \in Nat /\ bufp + 1 <= Len(one) /\ Len(one) <= MaxLine
  BY <1>3, <1>4
<1>6. Len(two) = (IF bufp + 2 <= Len(one) THEN Len(one) ELSE bufp + 2)
  <2>1. bufp + 2 \in 1..(Len(one) + 1) /\ Nul \in Nat
    BY <1>3, <1>5 DEF Nul
  <2> QED BY <1>4, <2>1, PutIs
<1> HIDE DEF two
<1>7. Len(two) <= MaxLine
  BY <1>3, <1>5, <1>6
<1> QED BY <1>1, <1>3, <1>5, <1>7 DEF RoomInv

LEMMA RoomPoll == ASSUME BasicInv, RoomInv, Poll PROVE RoomInv'
<1> DEFINE one == Put(buf, bufp + 1, Nul)
<1>1. /\ pc = "line"
      /\ \/ pc' = "parse" /\ buf' = one
         \/ n + 1 < MaxLine /\ n' = n + 1 /\ buf' = buf
  BY RelayAssumption DEF Poll, BasicInv, Shape
<1>2. /\ buf \in Seq(Nat) /\ bufp \in Nat /\ n \in Nat /\ bufp <= Len(buf)
      /\ bufp + 1 <= n /\ n < MaxLine /\ MaxLine \in Nat
      /\ Len(buf) \in Nat /\ Len(buf) <= MaxLine
  BY <1>1, RelayAssumption DEF BasicInv, Shape, LoopInv, RoomInv
<1>3. Len(one) = (IF bufp + 1 <= Len(buf) THEN Len(buf) ELSE bufp + 1)
  <2>1. bufp + 1 \in 1..(Len(buf) + 1) /\ Nul \in Nat
    BY <1>2 DEF Nul
  <2> QED BY <1>2, <2>1, PutIs
<1> HIDE DEF one
<1>4. Len(one) <= MaxLine
  BY <1>2, <1>3
<1> QED BY <1>1, <1>2, <1>4 DEF RoomInv

LEMMA RoomStep == ASSUME BasicInv, RoomInv, [Next]_vars PROVE RoomInv'
<1>1. CASE UNCHANGED Locals
  BY <1>1, RoomQuiet DEF Locals, NoLine
<1>2. CASE UNCHANGED vars
  BY <1>2, <1>1 DEF vars, Locals, localVars
<1>3. CASE \E k \in Conns : Peer(k)
  BY <1>3, <1>1, PeerLocals
<1>4. CASE Select \/ (\E k \in Conns : Serve(k))
  BY <1>4, RoomQuiet DEF Select, Serve, localVars, NoLine
<1>5. CASE LineEnded \/ ParseLine
  <2>1. pc # "select"
    BY <1>5 DEF LineEnded, ParseLine
  <2>2. ASSUME NEW h, HeadRead(h) PROVE RoomInv'
    BY <2>1, <2>2, HeadQuiet, RoomQuiet
  <2>3. ASSUME NEW line, NEW stale, TakeLine(line, stale) PROVE RoomInv'
    BY <2>1, <2>3, LineQuiet, RoomQuiet
  <2>4. CASE Stop("stuck")
    BY <2>4, RoomQuiet DEF Stop, localVars, NoLine
  <2> QED BY <1>5, <2>2, <2>3, <2>4 DEF LineEnded, ParseLine, HeadCut
<1>6. CASE RecvBody \/ BodyEnded \/ BodyBroken
  BY <1>6, RoomQuiet DEF RecvBody, BodyEnded, BodyBroken, BodyRead, Close, Leave, LeaveWith,
                         Stop, localVars, NoLine
<1>7. CASE Send \/ SendLost \/ Sent
  BY <1>7, RoomQuiet DEF Send, SendPart, SendLost, Sent, Finish, Close, Leave, LeaveWith, NoLine
<1>8. CASE RecvChar \/ Poll
  BY <1>8, RoomRecv, RoomPoll
<1> QED BY <1>2, <1>3, <1>4, <1>5, <1>6, <1>7, <1>8 DEF Next, Proxy

LEMMA BasicTypes == BasicInv /\ RoomInv => TypeOK
<1> SUFFICES ASSUME BasicInv, RoomInv PROVE TypeOK
  OBVIOUS
<1>1. \A s \in Seq(Nat) : s \in Seq(Int)
  OBVIOUS
<1> QED BY <1>1 DEF BasicInv, RoomInv, Shape, StreamInv, RoundInv, TypeOK, Busy

(* Types, and the bounds of the loops of sock.c: every line and its NUL    *)
(* lie in the line buffer, no byte is taken that has not come in, and no   *)
(* more is sent than there is room for.                                    *)
THEOREM RelayTypes == Spec => []TypeOK
<1>1. Init => BasicInv /\ RoomInv
  <2>1. Init => RoomInv
    <3>1. Len(<<>>) = 0
      OBVIOUS
    <3> QED BY <3>1, RelayAssumption DEF Init, RoomInv
  <2> QED BY <2>1, RelayInit DEF RelayInv
<1>2. BasicInv /\ RoomInv /\ [Next]_vars => BasicInv' /\ RoomInv'
  BY BasicStep, RoomStep
<1> QED BY <1>1, <1>2, BasicTypes, PTL DEF Spec

-----------------------------------------------------------------------------
(* Where a step leads is said of each connection by itself. *)
Deep(k) == Framed(k) /\ Relayed(k) /\ PlaceInv /\ OverrunOnlyWhenAhead

LEMMA PassedIs ==
    ASSUME got \in [Conns -> Seq(Int)], outq \in [Conns -> Seq(Int)], NEW i \in Conns
    PROVE  /\ Len(got[i]) \in Nat /\ Len(outq[i]) \in Nat /\ Passed(i) \in Nat
           /\ Passed(i) = Len(got[i]) + Len(outq[i]) /\ Len(got[i]) <= Passed(i)
<1> DEFINE a == Len(got[i])
           b == Len(outq[i])
<1>1. a \in Nat /\ b \in Nat
  OBVIOUS
<1>2. Passed(i) = a + b
  BY DEF Passed
<1> HIDE DEF a, b
<1>3. Passed(i) \in Nat /\ a <= Passed(i)
  BY <1>1, <1>2
<1> QED BY <1>1, <1>2, <1>3 DEF a, b

(* Bytes in order, joined and split. *)
LEMMA JoinRuns ==
    ASSUME NEW s \in Seq(Int), NEW t \in Seq(Int), NEW p \in Int,
           Runs(s, p), Runs(t, p + Len(s))
    PROVE  s \o t \in Seq(Int) /\ Len(s \o t) = Len(s) + Len(t) /\ Runs(s \o t, p)
<1> DEFINE a == Len(s)
           b == Len(t)
           u == s \o t
<1>1. /\ u \in Seq(Int) /\ Len(u) = a + b
      /\ \A i \in 1..a : u[i] = s[i]
      /\ \A i \in 1..b : u[a + i] = t[i]
  BY JoinIs
<1>2. /\ a \in Nat /\ b \in Nat
      /\ \A i \in 1..a : s[i] = p + i
      /\ \A i \in 1..b : t[i] = p + a + i
  BY DEF Runs
<1> HIDE DEF a, b, u
<1>3. ASSUME NEW i \in 1..(a + b) PROVE u[i] = p + i
  <2>1. CASE i <= a
    BY <1>1, <1>2, <2>1
  <2>2. CASE i > a
    <3>1. i - a \in 1..b /\ a + (i - a) = i
      BY <1>2, <2>2
    <3>2. u[a + (i - a)] = t[i - a] /\ t[i - a] = p + a + (i - a)
      BY <1>1, <1>2, <3>1
    <3> QED BY <1>2, <3>1, <3>2
  <2>3. i <= a \/ i > a
    BY <1>2
  <2> QED BY <2>1, <2>2, <2>3
<1>4. Runs(u, p)
  BY <1>1, <1>3 DEF Runs
<1> QED BY <1>1, <1>4 DEF a, b, u

LEMMA SplitRuns ==
    ASSUME NEW s \in Seq(Int), NEW m \in 0..Len(s), NEW p \in Int, Runs(s, p)
    PROVE  Runs(SubSeq(s, 1, m), p) /\ Runs(SubSeq(s, m + 1, Len(s)), p + m)
<1> DEFINE a == Len(s)
           u == SubSeq(s, 1, m)
           v == SubSeq(s, m + 1, Len(s))
<1>1. /\ Len(u) = m /\ \A i \in 1..m : u[i] = s[i]
      /\ Len(v) = a - m /\ \A i \in 1..(a - m) : v[i] = s[m + i]
  BY SplitAt
<1>2. a \in Nat /\ m \in 0..a /\ \A i \in 1..a : s[i] = p + i
  BY DEF Runs
<1> HIDE DEF a, u, v
<1>3. \A i \in 1..m : u[i] = p + i
  <2> SUFFICES ASSUME NEW i \in 1..m PROVE u[i] = p + i
    OBVIOUS
  <2>1. i \in 1..a
    BY <1>2
  <2> QED BY <1>1, <1>2, <2>1
<1>4. \A i \in 1..(a - m) : v[i] = p + m + i
  <2> SUFFICES ASSUME NEW i \in 1..(a - m) PROVE v[i] = p + m + i
    OBVIOUS
  <2>1. m + i \in 1..a
    BY <1>2
  <2> QED BY <1>1, <1>2, <2>1
<1>5. Runs(u, p) /\ Runs(v, p + m)
  BY <1>1, <1>3, <1>4 DEF Runs
<1> QED BY <1>5 DEF u, v

(* What the peers leave of what waits to be sent. *)
LEMMA PeerPassed ==
    ASSUME BasicInv, NEW k \in Conns, Peer(k), NEW i \in Conns
    PROVE  /\ fin'[i] = "no" => fin[i] = "no"
           /\ viewer'[i] # "gone" => viewer[i] # "gone" /\ Passed(i)' = Passed(i)
           /\ Relayed(i) => Relayed(i)'
<1>0. UNCHANGED Locals /\ Onward /\ PeerTypes /\ cut' = cut /\ alive' = alive /\ taken' = taken
      /\ (Idle(i)' <=> Idle(i))
  BY PeerLocals, PeerStream DEF BasicInv, Shape, PeerTypes, Locals, Idle
<1>1. fin'[i] = "no" => fin[i] = "no"
  BY <1>0 DEF Onward
<1>2. got[i] \in Seq(Int) /\ outq[i] \in Seq(Int) /\ taken[i] \in Nat
  BY <1>0, StreamIs DEF PeerTypes
<1>3. Len(got[i]) \in Nat /\ Len(outq[i]) \in Nat /\ Passed(i) \in Nat
      /\ Passed(i) = Len(got[i]) + Len(outq[i]) /\ Len(got[i]) <= Passed(i)
  BY <1>0, PassedIs DEF PeerTypes
<1>4. CASE outq'[i] = outq[i] /\ got'[i] = got[i] /\ (viewer'[i] # "gone" => viewer[i] # "gone")
  BY <1>0, <1>1, <1>4 DEF Relayed, Passed
<1>5. Len(<<>>) = 0 /\ \A a : Runs(<<>>, a)
  <2>1. Len(<<>>) = 0
    OBVIOUS
  <2> QED BY <2>1 DEF Runs
<1>6. CASE i = k /\ Read(k)
  <2>1. viewer' = viewer /\ outq'[i] = <<>> /\ got'[i] = got[i] \o outq[i]
    BY <1>0, <1>6 DEF Read, PeerTypes
  <2>2. Len(got'[i]) = Len(got[i]) + Len(outq[i])
    BY <1>2, <2>1, JoinIs
  <2>3. Passed(i)' = Passed(i)
    BY <1>3, <1>5, <2>1, <2>2 DEF Passed
  <2>4. Runs(got[i], 0) /\ Runs(outq[i], Len(got[i])) => Runs(got'[i], 0)
    <3> SUFFICES ASSUME Runs(got[i], 0), Runs(outq[i], Len(got[i])) PROVE Runs(got'[i], 0)
      OBVIOUS
    <3>1. 0 + Len(got[i]) = Len(got[i])
      BY <1>3
    <3> QED BY <1>2, <2>1, <3>1, JoinRuns
  <2>5. Relayed(i) => Relayed(i)'
    BY <1>0, <1>1, <1>5, <2>1, <2>3, <2>4 DEF Relayed
  <2> QED BY <1>1, <2>1, <2>3, <2>5
<1>7. CASE i = k /\ Gone(k)
  <2>1. viewer'[i] = "gone" /\ outq'[i] = <<>> /\ got'[i] = got[i]
    BY <1>0, <1>7 DEF Gone, PeerTypes
  <2>2. Passed(i)' = Len(got[i])
    BY <1>3, <1>5, <2>1 DEF Passed
  <2>4. Len(got[i]) <= Passed(i) /\ taken'[i] = taken[i]
    BY <1>0, <1>3
  <2>5. Passed(i) <= taken[i] => Len(got[i]) <= taken[i]
    <3> DEFINE a == Len(got[i])
    <3>1. a \in Nat /\ a <= Passed(i) /\ Passed(i) \in Nat /\ taken[i] \in Nat
      BY <1>2, <1>3
    <3> HIDE DEF a
    <3>2. Passed(i) <= taken[i] => a <= taken[i]
      BY <3>1
    <3> QED BY <3>2 DEF a
  <2>3. Relayed(i) => Relayed(i)'
    BY <1>0, <1>1, <1>5, <2>1, <2>2, <2>4, <2>5 DEF Relayed
  <2> QED BY <1>1, <2>1, <2>3
<1>8. \/ outq'[i] = outq[i] /\ got'[i] = got[i] /\ (viewer'[i] # "gone" => viewer[i] # "gone")
      \/ i = k /\ Read(k)
      \/ i = k /\ Gone(k)
  BY <1>0 DEF Peer, Ask, Arrive, Die, Read, Stall, Gone, viewVars, PeerTypes
<1> QED BY <1>1, <1>4, <1>6, <1>7, <1>8

LEMMA PeerDeep ==
    ASSUME RelayInv, NEW k \in Conns, Peer(k)
    PROVE  FrameInv' /\ OutInv' /\ PlaceInv' /\ OverrunOnlyWhenAhead'
<1>0. UNCHANGED Locals /\ Onward /\ PeerTypes' /\ BasicInv /\ FrameInv /\ OutInv /\ PlaceInv
  BY PeerLocals, PeerStream DEF RelayInv
<1>1. \A i \in Conns : Ended(i) => Ended(i)'
  BY <1>0 DEF Ended, Onward, Locals
<1>2. FrameInv'
  BY <1>0, <1>1 DEF FrameInv, Framed, Idle, Boundary, Locals
<1>3. OutInv'
  BY <1>0, PeerPassed DEF OutInv
<1>4. PlaceInv'
  <2>1. CASE pc = "select"
    BY <1>0, <2>1 DEF PlaceInv, Locals
  <2>2. CASE pc # "select"
    <3>1. cur \in Conns /\ cur' = cur
      BY <1>0, <2>2, Serving DEF Locals
    <3>2. \A s : SentTo(s) => SentTo(s)'
      BY <1>0, <3>1, PeerPassed DEF SentTo
    <3>3. \A s : Sending(s) => Sending(s)'
      BY <1>0, <3>1, PeerPassed DEF Sending, Locals
    <3>4. AtEnd => AtEnd'
      BY <1>0, <1>1, <3>1 DEF AtEnd, Locals
    <3>5. \A j : /\ InHeadLine(j) => InHeadLine(j)'
                 /\ InBlankLine(j) => InBlankLine(j)'
                 /\ Kept(j, HeadLen) => Kept(j, HeadLen)'
      BY <1>0 DEF InHeadLine, InBlankLine, Kept, Locals
    <3>6. \A m : BodyTo(m) => BodyTo(m)'
      BY <1>0 DEF BodyTo, Locals
    <3>7. pc' = pc /\ cut' = cut /\ resp' = resp /\ taken' = taken /\ body' = body
      BY <1>0 DEF Locals
    <3>8. Type(cur, resp)' = Type(cur, resp) /\ Length(cur, resp)' = Length(cur, resp)
      BY <3>1, <3>7 DEF Type, Length
    <3>9. Ended(cur) => Ended(cur)'
      BY <1>1, <3>1
    <3> SUFFICES ASSUME cur \notin cut PROVE PlaceInv'
      BY <3>1, <3>7 DEF PlaceInv
    <3>a. CASE pc = "line"
      <4>1. \/ AtEnd
            \/ \E j \in DOMAIN Responses[cur] : /\ InHeadLine(j) \/ InBlankLine(j)
                                                /\ SentTo(End(cur, j - 1))
        BY <1>0, <3>a DEF PlaceInv
      <4> QED BY <3>1, <3>2, <3>4, <3>5, <3>7, <3>a, <4>1 DEF PlaceInv
    <3>b. CASE pc = "parse"
      <4>1. \E j \in DOMAIN Responses[cur] : /\ AtLine(j, 0) \/ AtLine(j, 3)
                                             /\ SentTo(End(cur, j - 1))
        BY <1>0, <3>b DEF PlaceInv
      <4>2. PICK j \in DOMAIN Responses[cur] : /\ AtLine(j, 0) \/ AtLine(j, 3)
                                              /\ SentTo(End(cur, j - 1))
        BY <4>1
      <4>3. AtLine(j, 0)' \/ AtLine(j, 3)'
        BY <1>0, <4>2 DEF AtLine, Kept, Locals
      <4>4. SentTo(End(cur, j - 1))'
        BY <3>1, <3>2, <4>2
      <4> QED BY <3>1, <3>7, <3>b, <4>3, <4>4 DEF PlaceInv
    <3>c. CASE pc = "recv"
      BY <1>0, <3>1, <3>2, <3>5, <3>6, <3>7, <3>8, <3>c DEF PlaceInv
    <3>d. CASE pc = "head"
      BY <1>0, <3>1, <3>3, <3>5, <3>6, <3>7, <3>8, <3>d DEF PlaceInv
    <3>e. CASE pc = "body"
      BY <1>0, <3>1, <3>3, <3>7, <3>9, <3>e DEF PlaceInv
    <3>f. CASE pc \notin {"line", "parse", "recv", "head", "body"}
      BY <3>7, <3>f DEF PlaceInv
    <3> QED BY <3>a, <3>b, <3>c, <3>d, <3>e, <3>f
  <2> QED BY <2>1, <2>2
<1>5. OverrunOnlyWhenAhead'
  <2>1. pc = "overrun" => cur \in Conns /\ resp \in Nat /\ asked[cur] \in Nat
                          /\ asked'[cur] \in Nat
    BY <1>0, Serving, StreamIs DEF BasicInv, Shape, PeerTypes
  <2> QED BY <1>0, <2>1 DEF RelayInv, OverrunOnlyWhenAhead, Onward, Locals
<1> QED BY <1>2, <1>3, <1>4, <1>5

-----------------------------------------------------------------------------
(* A step of the handler concerns its own connection only. *)
Mine ==
    /\ \A i \in Conns \ {cur} :
          /\ taken'[i] = taken[i] /\ arrived'[i] = arrived[i] /\ fin'[i] = fin[i]
          /\ outq'[i] = outq[i] /\ got'[i] = got[i] /\ viewer'[i] = viewer[i]
          /\ i \in alive' <=> i \in alive
          /\ i \in cut' <=> i \in cut
    /\ cut \subseteq cut'
    /\ cur' = cur \/ pc' = "select"

LEMMA Elsewhere ==
    ASSUME FrameInv, OutInv, pc # "select", Mine, NEW i \in Conns, i # cur
    PROVE  Framed(i)' /\ Relayed(i)'
<1>1. /\ taken'[i] = taken[i] /\ arrived'[i] = arrived[i] /\ fin'[i] = fin[i]
      /\ outq'[i] = outq[i] /\ got'[i] = got[i] /\ viewer'[i] = viewer[i]
      /\ i \in alive' <=> i \in alive
      /\ i \in cut' <=> i \in cut
  BY DEF Mine
<1>2. Framed(i) /\ Relayed(i) /\ Idle(i)
  BY DEF FrameInv, OutInv, Idle
<1>3. Framed(i)'
  BY <1>1, <1>2 DEF Framed, Boundary, Ended
<1>4. Relayed(i)'
  BY <1>1, <1>2 DEF Relayed, Passed
<1> QED BY <1>3, <1>4

(* Where a head was cut short nothing is promised. *)
LEMMA CutDeep ==
    ASSUME NEW k, k = cur, k \in cut', cur' = cur \/ pc' = "select"
    PROVE  Deep(k)'
BY DEF Deep, Framed, Relayed, PlaceInv, OverrunOnlyWhenAhead

LEMMA StillIs ==
    ASSUME BasicInv, pc # "select", Still, NEW k \in Conns
    PROVE  /\ fin'[k] = "no" <=> fin[k] = "no"
           /\ outq' = outq /\ got' = got /\ viewer' = viewer /\ taken' = taken
           /\ arrived' = arrived /\ asked' = asked /\ Passed(k)' = Passed(k)
           /\ cut \subseteq cut'
BY StillStream DEF Still, Noticed, Passed

LEMMA CloseDeep ==
    ASSUME BasicInv, OutInv, pc # "select", Still, Close, NEW k \in Conns, k = cur
    PROVE  Deep(k)'
<1>1. k \notin alive' /\ pc' = "select"
  BY DEF Close, Leave, LeaveWith
<1>2. Framed(k)' /\ PlaceInv' /\ OverrunOnlyWhenAhead'
  BY <1>1 DEF Framed, PlaceInv, OverrunOnlyWhenAhead
<1>3. Relayed(k)'
  BY <1>1, StillIs DEF OutInv, Relayed
<1> QED BY <1>2, <1>3 DEF Deep

LEMMA StopDeep ==
    ASSUME BasicInv, OutInv, pc # "select", Still, Stop("stuck"), NEW k \in Conns, k = cur
    PROVE  Deep(k)'
<1>1. pc' = "stuck" /\ cur' = cur /\ alive' = alive
  BY DEF Stop, localVars
<1>2. Framed(k)' /\ PlaceInv' /\ OverrunOnlyWhenAhead'
  BY <1>1 DEF Framed, Idle, PlaceInv, OverrunOnlyWhenAhead
<1>3. Relayed(k)'
  BY <1>1, StillIs DEF OutInv, Relayed, Idle
<1> QED BY <1>2, <1>3 DEF Deep

-----------------------------------------------------------------------------
(* What a line that was read of a head says. *)
LEMMA TextIs ==
    ASSUME NEW k \in Conns, NEW j \in DOMAIN Responses[k], NEW h \in Nat, NEW m \in Nat,
           h + m <= 5, NEW line \in Seq(Nat), Len(line) = m,
           \A i \in 1..m : line[i] = End(k, j - 1) + h + i
    PROVE  /\ Text(k, line) \in Seq({"h", "n", "r"}) /\ Len(Text(k, line)) = m
           /\ DOMAIN Text(k, line) = 1..m
           /\ \A i \in 1..m : Text(k, line)[i] = HeadText[h + i]
<1>1. DOMAIN line = 1..m
  OBVIOUS
<1>2. ASSUME NEW i \in 1..m PROVE Char(k, line[i]) = HeadText[h + i] /\ h + i \in 1..5
  <2>1. h + i \in 1..5 /\ End(k, j - 1) \in Nat
    BY EndStep
  <2>2. line[i] = End(k, j - 1) + (h + i)
    BY <2>1
  <2> QED BY <2>1, <2>2, CharIs
<1> DEFINE t == Text(k, line)
<1>3. t = [i \in 1..m |-> HeadText[h + i]]
  BY <1>1, <1>2 DEF Text
<1>4. \A i \in 1..5 : HeadText[i] \in {"h", "n", "r"}
  BY HeadTexts
<1>5. \A i \in 1..m : HeadText[h + i] \in {"h", "n", "r"}
  BY <1>2, <1>4
<1>6. t \in [1..m -> {"h", "n", "r"}]
  BY <1>3, <1>5
<1>7. DOMAIN t = 1..m /\ \A i \in 1..m : t[i] = HeadText[h + i]
  BY <1>3
<1> DEFINE S == {"h", "n", "r"}
<1> HIDE DEF t, S
<1>8. t \in Seq(S) /\ Len(t) = m
  BY <1>6, <1>7 DEF S
<1> QED BY <1>7, <1>8 DEF t, S

(* A line ended by its line feed is the whole one. *)
Ends(k, line) == line # <<>> /\ Last(Text(k, line)) = "n"

LEMMA Lines ==
    ASSUME NEW k \in Conns, NEW j \in DOMAIN Responses[k], NEW h \in {0, 3},
           NEW m \in Nat, h = 0 => m <= 3, h = 3 => m <= 2, NEW line \in Seq(Nat), Len(line) = m,
           \A i \in 1..m : line[i] = End(k, j - 1) + h + i
    PROVE  /\ Ends(k, line) /\ h = 0 => m = 3
           /\ Ends(k, line) /\ h = 3 => m = 2
           /\ h = 0 /\ m = 3 => Text(k, line) = HeadLine
           /\ h = 0 => Text(k, line) # BlankLine
           /\ h = 3 /\ m = 2 => Text(k, line) = BlankLine
<1> DEFINE t == Text(k, line)
           S == {"h", "n", "r"}
<1>1. m \in Nat /\ h \in Nat /\ h + m <= 5
  OBVIOUS
<1>2. /\ t \in Seq(S) /\ Len(t) = m /\ DOMAIN t = 1..m
      /\ \A i \in 1..m : t[i] = HeadText[h + i]
  BY <1>1, TextIs
<1>3. /\ HeadLine \in Seq(S) /\ Len(HeadLine) = 3
      /\ HeadLine[1] = "h" /\ HeadLine[2] = "h" /\ HeadLine[3] = "n"
  BY DEF HeadLine
<1>4. /\ BlankLine \in Seq(S) /\ Len(BlankLine) = 2
      /\ BlankLine[1] = "r" /\ BlankLine[2] = "n" /\ DOMAIN BlankLine = 1..2
  BY DEF BlankLine
<1>5. line # <<>> => m # 0
  <2>1. Len(line) = 0 => line = <<>>
    OBVIOUS
  <2> QED BY <2>1
<1>6. Ends(k, line) => m # 0 /\ t[m] = "n"
  BY <1>2, <1>5 DEF Ends, Last
<1> HIDE DEF t, S
<1>7. Ends(k, line) => (h = 0 => m = 3) /\ (h = 3 => m = 2)
  <2> SUFFICES ASSUME Ends(k, line) PROVE (h = 0 => m = 3) /\ (h = 3 => m = 2)
    OBVIOUS
  <2>1. m \in 1..3 /\ HeadText[h + m] = "n"
    BY <1>2, <1>6
  <2>2. CASE h = 0
    BY <2>1, <2>2, HeadTexts
  <2>3. CASE h = 3
    <3>1. m = 1 \/ m = 2
      BY <2>1, <2>3
    <3>2. m # 1
      BY <2>1, <2>3, HeadTexts
    <3> QED BY <2>3, <3>1, <3>2
  <2> QED BY <2>2, <2>3
<1>8. h = 0 /\ m = 3 => t = HeadLine
  <2> SUFFICES ASSUME h = 0, m = 3 PROVE t = HeadLine
    OBVIOUS
  <2>1. \A i \in 1..3 : i = 1 \/ i = 2 \/ i = 3
    OBVIOUS
  <2>2. \A i \in 1..3 : t[i] = HeadLine[i]
    BY <1>2, <1>3, <2>1, HeadTexts
  <2> QED BY <1>2, <1>3, <2>2, SeqEqual
<1>9. h = 0 => t # BlankLine
  <2> SUFFICES ASSUME h = 0, t = BlankLine PROVE FALSE
    OBVIOUS
  <2>1. m = 2
    BY <1>2, <1>4
  <2>2. t[1] = "h"
    BY <1>2, <2>1, HeadTexts
  <2> QED BY <1>4, <2>2
<1>10. h = 3 /\ m = 2 => t = BlankLine
  <2> SUFFICES ASSUME h = 3, m = 2 PROVE t = BlankLine
    OBVIOUS
  <2>1. t[1] = "r" /\ t[2] = "n"
    BY <1>2, HeadTexts
  <2>2. \A i \in 1..2 : i = 1 \/ i = 2
    OBVIOUS
  <2>3. \A i \in 1..2 : t[i] = BlankLine[i]
    BY <1>4, <2>1, <2>2
  <2>4. Len(t) = Len(BlankLine) /\ Len(t) = 2
    BY <1>2, <1>4
  <2>5. \A i \in 1..Len(t) : t[i] = BlankLine[i]
    BY <2>3, <2>4
  <2>6. t \in Seq(S) /\ BlankLine \in Seq(S)
    BY <1>2, <1>4
  <2> QED BY <2>4, <2>5, <2>6, SeqEqual
<1> QED BY <1>7, <1>8, <1>9, <1>10 DEF t

-----------------------------------------------------------------------------
(* The head goes to the viewer, or waits for its body. *)
LEMMA HeadReadDeep ==
    ASSUME BasicInv, OutInv, pc = "parse", Still, cut' = cut,
           NEW k \in Conns, k = cur, NEW j \in DOMAIN Responses[k], resp = j,
           NEW h \in Seq(Int), Len(h) = 5, Runs(h, End(k, j - 1)),
           taken[k] = End(k, j - 1) + 5, SentTo(End(k, j - 1)), HeadRead(h)
    PROVE  Deep(k)'
<1> DEFINE e == End(k, j - 1)
<1>1. pc # "select" /\ resp # 0 /\ e \in Nat /\ body = <<>> /\ Length(k, j) \in Nat
      /\ Type(k, j) \in {"xml", "f4f"}
  BY EndStep DEF BasicInv, LoopInv
<1>2. /\ hdr_buf' = h /\ resp' = j /\ body' = <<>> /\ cur' = k /\ alive' = alive /\ cut' = cut
      /\ \/ Type(k, j) = "f4f" /\ pc' = "head" /\ ubuf' = h
         \/ Type(k, j) = "xml" /\ pc' = "recv"
  BY <1>1 DEF HeadRead
<1>3. /\ fin'[k] = "no" <=> fin[k] = "no"
      /\ outq' = outq /\ got' = got /\ viewer' = viewer /\ taken' = taken
      /\ Passed(k)' = Passed(k)
  BY <1>1, StillIs
<1>4. fin'[k] = "no" /\ viewer'[k] # "gone" => Passed(k)' = e
  BY <1>3 DEF SentTo
<1>5. Framed(k)' /\ OverrunOnlyWhenAhead'
  BY <1>2 DEF Framed, Idle, OverrunOnlyWhenAhead
<1>6. Relayed(k)'
  BY <1>2, <1>3 DEF OutInv, Relayed, Idle
<1>7. Kept(resp, HeadLen)'
  BY <1>2 DEF Kept, HeadLen
<1>8. BodyTo(0)'
  <2>1. Len(<<>>) = 0 /\ \A a : Runs(<<>>, a)
    <3>1. Len(<<>>) = 0
      OBVIOUS
    <3> QED BY <3>1 DEF Runs
  <2>2. taken'[cur'] = e + 5 + 0
    BY <1>1, <1>2, <1>3
  <2> QED BY <1>2, <2>1, <2>2 DEF BodyTo, HeadLen
<1>9. CASE Type(k, j) = "f4f" /\ pc' = "head" /\ ubuf' = h
  <2>1. Sending(End(cur, resp - 1) + HeadLen)'
    BY <1>2, <1>4, <1>9 DEF Sending, HeadLen
  <2>2. Type(cur, resp)' = "f4f"
    BY <1>2, <1>9 DEF Type
  <2>3. PlaceInv'
    BY <1>7, <1>8, <1>9, <2>1, <2>2 DEF PlaceInv
  <2> QED BY <1>5, <1>6, <2>3 DEF Deep
<1>10. CASE Type(k, j) = "xml" /\ pc' = "recv"
  <2>1. Len(body') = 0
    BY <1>2
  <2>2. SentTo(End(cur, resp - 1) + 0)'
    BY <1>1, <1>2, <1>4 DEF SentTo
  <2>3. Type(cur, resp)' = "xml"
    BY <1>2, <1>10 DEF Type
  <2>4. PlaceInv'
    BY <1>7, <1>8, <1>10, <2>1, <2>2, <2>3 DEF PlaceInv
  <2> QED BY <1>5, <1>6, <2>4 DEF Deep
<1> QED BY <1>2, <1>9, <1>10

(* The head line was read: the blank line is next, and the buffer still    *)
(* holds the head line's cells.                                            *)
LEMMA HeadLineDeep ==
    ASSUME BasicInv, OutInv, pc = "parse", Still,
           NEW k \in Conns, k = cur, NEW j \in DOMAIN Responses[k],
           AtLine(j, 0), taken[k] = End(k, j - 1) + 3, Len(buf) = 4, buf[4] = Nul,
           \A i \in 1..3 : buf[i] # Nul, SentTo(End(k, j - 1)),
           NEW line \in Seq(Int), Len(line) = 3, Runs(line, End(k, j - 1)),
           pc' = "line", resp' = j, hdr_buf' = hdr_buf \o line,
           UNCHANGED <<cur, buf, bufp, body, ubuf, alive, cut>>
    PROVE  Deep(k)'
<1> DEFINE e == End(k, j - 1)
<1>1. pc # "select" /\ e \in Nat /\ bufp = 0 /\ hdr_buf \in Seq(Int)
  BY EndStep DEF BasicInv, LoopInv, Shape
<1>2. /\ fin'[k] = "no" <=> fin[k] = "no"
      /\ outq' = outq /\ got' = got /\ viewer' = viewer /\ taken' = taken
      /\ Passed(k)' = Passed(k)
  BY <1>1, StillIs
<1>3. Framed(k)' /\ OverrunOnlyWhenAhead'
  BY DEF Framed, Idle, OverrunOnlyWhenAhead
<1>4. Relayed(k)'
  BY <1>2 DEF OutInv, Relayed, Idle
<1>5. Len(hdr_buf) = 0 /\ Runs(hdr_buf, e) /\ e + 0 = e
  BY <1>1 DEF AtLine, Kept
<1>6. Len(hdr_buf') = 3 /\ Runs(hdr_buf', e)
  BY <1>1, <1>5, JoinRuns
<1>7. Kept(j, 3)'
  BY <1>6 DEF Kept
<1>8. InBlankLine(j)'
  BY <1>1, <1>2, <1>7 DEF InBlankLine
<1>9. SentTo(End(cur, j - 1))'
  BY <1>2 DEF SentTo
<1>10. PlaceInv'
  BY <1>8, <1>9 DEF PlaceInv
<1> QED BY <1>3, <1>4, <1>10 DEF Deep

LEMMA ParseLineDeep ==
    ASSUME RelayInv, ParseLine, Mine, NEW k \in Conns, k = cur
    PROVE  Deep(k)'
<1>0. BasicInv /\ OutInv /\ pc = "parse" /\ pc # "select" /\ Noticed
  BY DEF RelayInv, ParseLine, Noticed, servVars, viewVars
<1>1. CASE k \in cut'
  BY <1>1, CutDeep DEF Mine
<1>2. CASE k \notin cut'
  <2>1. PICK j \in DOMAIN Responses[k] : /\ AtLine(j, 0) \/ AtLine(j, 3)
                                         /\ SentTo(End(k, j - 1))
    BY <1>0, <1>2 DEF RelayInv, PlaceInv, Mine
  <2>2. PICK h \in {0, 3} : AtLine(j, h)
    BY <2>1
  <2> DEFINE e == End(k, j - 1)
  <2>0. PICK line : line = CString(buf)
    OBVIOUS
  <2>3. Kept(j, h) /\ resp = (IF h = 0 THEN 0 ELSE j)
    BY <2>2 DEF AtLine
  <2>4. PICK m \in 0..(IF h = 0 THEN 3 ELSE 2) :
          /\ taken[k] = e + h + m
          /\ m + 1 <= Len(buf) /\ buf[m + 1] = Nul
          /\ h = 0 => Len(buf) = m + 1
          /\ \A i \in 1..m : buf[i] = e + h + i
    BY <2>2 DEF AtLine
  <2>5. e \in Nat /\ j \in Nat \ {0} /\ m \in Nat /\ h \in Nat
        /\ buf \in Seq(Nat) /\ hdr_buf \in Seq(Int)
    BY <1>0, EndStep DEF BasicInv, Shape
  <2>6. \A i \in 1..m : buf[i] # Nul
    BY <2>4, <2>5 DEF Nul
  <2>7. /\ line \in Seq(Nat) /\ Len(line) = m
        /\ \A i \in 1..m : line[i] = buf[i]
    BY <2>0, <2>4, <2>5, <2>6, CStringIs
  <2> HIDE DEF e
  <2>8. \A i \in 1..m : line[i] = e + h + i
    BY <2>4, <2>7
  <2>9. /\ Ends(k, line) /\ h = 0 => m = 3
        /\ Ends(k, line) /\ h = 3 => m = 2
        /\ h = 0 /\ m = 3 => Text(k, line) = HeadLine
        /\ h = 0 => Text(k, line) # BlankLine
        /\ h = 3 /\ m = 2 => Text(k, line) = BlankLine
    <3>1. \A i \in 1..m : line[i] = End(k, j - 1) + h + i
      BY <2>8 DEF e
    <3>2. m \in Nat /\ (h = 0 => m <= 3) /\ (h = 3 => m <= 2)
      BY <2>4, <2>5
    <3> QED BY <2>7, <3>1, <3>2, Lines
  <2>10. line \in Seq(Int) /\ Runs(line, e + h)
    BY <2>7, <2>8 DEF Runs
  <2>11. ~HeadCut
    BY <1>2 DEF HeadCut
  <2>12. \/ /\ Ends(k, line) /\ Text(k, line) = BlankLine /\ HeadRead(hdr_buf \o line)
            /\ cut' = cut
         \/ Stop("stuck") /\ cut' = cut
         \/ /\ Ends(k, line) /\ Text(k, line) # BlankLine
            /\ pc' = "line" /\ hdr_buf' = hdr_buf \o line
            /\ resp' = IF Text(k, line) = HeadLine THEN At(k, line[1]) ELSE resp
            /\ UNCHANGED <<cur, buf, bufp, body, ubuf, alive, cut>>
    BY <2>0, <2>11 DEF ParseLine, TakeLine, Ends
  <2>13. CASE Ends(k, line) /\ Text(k, line) = BlankLine /\ HeadRead(hdr_buf \o line)
              /\ cut' = cut
    <3>1. h = 3 /\ m = 2 /\ resp = j
      BY <2>3, <2>9, <2>13
    <3>2. Len(hdr_buf) = 3 /\ Runs(hdr_buf, e) /\ hdr_buf \in Seq(Int)
      BY <2>3, <2>5, <3>1 DEF Kept, e
    <3>3. hdr_buf \o line \in Seq(Int) /\ Runs(hdr_buf \o line, e)
          /\ Len(hdr_buf \o line) = Len(hdr_buf) + Len(line)
      <4>1. e + Len(hdr_buf) = e + h
        BY <3>1, <3>2
      <4>2. Runs(line, e + Len(hdr_buf)) /\ e \in Int /\ line \in Seq(Int)
        BY <2>5, <2>10, <4>1
      <4> QED BY <3>2, <4>2, JoinRuns
    <3>4. Len(hdr_buf \o line) = 5 /\ taken[k] = e + 5
      BY <2>4, <2>5, <2>7, <3>1, <3>2, <3>3
    <3> QED BY <1>0, <2>1, <2>13, <3>1, <3>3, <3>4, HeadReadDeep DEF e, Still
  <2>14. CASE Stop("stuck") /\ cut' = cut
    BY <1>0, <2>14, StopDeep DEF Still
  <2>15. CASE /\ Ends(k, line) /\ Text(k, line) # BlankLine
              /\ pc' = "line" /\ hdr_buf' = hdr_buf \o line
              /\ resp' = IF Text(k, line) = HeadLine THEN At(k, line[1]) ELSE resp
              /\ UNCHANGED <<cur, buf, bufp, body, ubuf, alive, cut>>
    <3>1. h = 0 /\ m = 3 /\ Text(k, line) = HeadLine
      BY <2>9, <2>15
    <3>2. line[1] = e + 1
      BY <2>5, <2>8, <3>1
    <3>3. At(k, line[1]) = j
      <4>1. PICK p : p = line[1]
        OBVIOUS
      <4>2. e + 5 < End(k, j) /\ End(k, j) \in Nat
        BY EndStep DEF e
      <4>3. p \in Int /\ e < p /\ p <= End(k, j)
        BY <2>5, <3>2, <4>1, <4>2
      <4>4. At(k, p) = j
        BY <4>3, AtIs DEF e
      <4> QED BY <4>1, <4>4
    <3>4. resp' = j /\ taken[k] = e + 3 /\ Len(buf) = 4 /\ buf[4] = Nul
          /\ (\A i \in 1..3 : buf[i] # Nul) /\ e + h = e
      BY <2>4, <2>5, <2>6, <2>15, <3>1, <3>3
    <3> QED BY <1>0, <2>1, <2>2, <2>7, <2>10, <2>15, <3>1, <3>4, HeadLineDeep DEF e, Still
  <2> QED BY <2>12, <2>13, <2>14, <2>15
<1> QED BY <1>1, <1>2

LEMMA LineEndedDeep ==
    ASSUME RelayInv, LineEnded, Mine, NEW k \in Conns, k = cur
    PROVE  Deep(k)'
<1>0. BasicInv /\ OutInv /\ pc = "line" /\ pc # "select" /\ Noticed
  BY DEF RelayInv, LineEnded, Noticed, viewVars
<1>1. CASE k \in cut'
  BY <1>1, CutDeep DEF Mine
<1>2. CASE k \notin cut'
  <2>0. PICK line : line = CString(buf)
    OBVIOUS
  <2>1. ~HeadCut
    BY <1>2 DEF HeadCut
  <2>2. \/ Terminated(buf) /\ Text(k, line) = BlankLine
        \/ Stop("stuck") /\ cut' = cut
    BY <2>0, <2>1 DEF LineEnded, TakeLine
  <2>3. ASSUME Terminated(buf) PROVE Text(k, line) # BlankLine
    <3>1. \/ buf = <<>>
          \/ \E j \in DOMAIN Responses[k] : InHeadLine(j) \/ InBlankLine(j)
      BY <1>0, <1>2 DEF RelayInv, PlaceInv, Mine, AtEnd
    <3>2. buf # <<>>
      BY <2>3 DEF Terminated
    <3>3. PICK j \in DOMAIN Responses[k] : InHeadLine(j) \/ InBlankLine(j)
      BY <3>1, <3>2
    <3>4. buf \in Seq(Nat) /\ End(k, j - 1) \in Nat
      BY <1>0, EndStep DEF BasicInv, Shape
    <3>5. ~InHeadLine(j)
      BY <2>3, <3>4 DEF InHeadLine, Runs, Terminated, Nul
    <3>6. Len(buf) = 4 /\ buf[3 + 1] = Nul /\ \A i \in 1..3 : buf[i] # Nul
      BY <3>3, <3>5 DEF InBlankLine
    <3>7. line \in Seq(Nat) /\ Len(line) = 3
      <4>1. 3 \in Nat /\ 3 + 1 <= Len(buf)
        BY <3>6
      <4> QED BY <2>0, <3>4, <3>6, <4>1, CStringIs
    <3>8. DOMAIN Text(k, line) = 1..3
      BY <3>7 DEF Text
    <3>9. DOMAIN BlankLine = 1..2
      BY DEF BlankLine
    <3> QED BY <3>8, <3>9
  <2> QED BY <1>0, <2>2, <2>3, StopDeep DEF Still
<1> QED BY <1>1, <1>2

LEMMA RecvCharIs ==
    ASSUME BasicInv, RecvChar, NEW k \in Conns, k = cur, NEW p, p = taken[k] + 1
    PROVE  /\ pc = "line" /\ Avail(k) > 0 /\ 1 <= Avail(k) /\ Advance(1)
           /\ taken'[k] = p /\ p \in Nat \ {0}
           /\ UNCHANGED <<cur, hdr_buf, resp, body, ubuf, cut, fin, viewer, outq, got, alive>>
           /\ \/ /\ pc' = "parse" /\ bufp' = 0
                 /\ buf' = Put(Put(buf, bufp + 1, p), bufp + 2, Nul)
              \/ /\ Char(k, p) # "n" /\ bufp' = bufp + 1 /\ buf' = Put(buf, bufp + 1, p)
                 /\ pc' = "line"
<1>1. pc = "line" /\ pc # "select" /\ Avail(k) > 0
  BY DEF RecvChar
<1>2. taken[k] \in Nat /\ arrived[k] \in Nat
  BY StreamIs
<1>3. 1 <= Avail(k)
  BY <1>1, <1>2 DEF Avail
<1>4. /\ Advance(1)
      /\ UNCHANGED <<cur, hdr_buf, resp, body, ubuf, cut, fin, viewer, outq, got, alive>>
      /\ \/ /\ pc' = "parse" /\ bufp' = 0
            /\ buf' = Put(Put(buf, bufp + 1, p), bufp + 2, Nul)
         \/ /\ Char(k, p) # "n" /\ bufp' = bufp + 1 /\ buf' = Put(buf, bufp + 1, p)
            /\ pc' = "line"
  BY <1>1 DEF RecvChar, Advance, servVars, viewVars
<1>5. taken'[k] = p
  BY <1>1, <1>3, <1>4, AdvanceBasic
<1> QED BY <1>1, <1>2, <1>3, <1>4, <1>5

(* The bytes read of a line still lie ahead of what was sent. *)
LEMMA AdvanceRelayed ==
    ASSUME BasicInv, OutInv, pc # "select", NEW m \in Nat, m <= Avail(cur), Advance(m),
           NEW k \in Conns, k = cur, pc' # "select", Passed(k) \in Nat
    PROVE  Framed(k)' /\ Relayed(k)'
<1>1. taken'[k] = taken[k] + m /\ taken[k] \in Nat
  BY AdvanceBasic, StreamIs
<1>2. Framed(k)'
  BY DEF Framed, Idle, Advance
<1>3. Relayed(k)'
  <2>1. Passed(k)' = Passed(k)
    BY DEF Advance, Passed
  <2>2. Passed(k) <= taken[k] => Passed(k) <= taken'[k]
    BY <1>1
  <2> QED BY <2>1, <2>2 DEF OutInv, Relayed, Idle, Advance
<1> QED BY <1>2, <1>3

LEMMA RecvCharDeep ==
    ASSUME RelayInv, RecvChar, NEW k \in Conns, k = cur
    PROVE  Deep(k)'
<1>0. BasicInv /\ OutInv
  BY DEF RelayInv
<1>1. PICK p : p = taken[k] + 1
  OBVIOUS
<1>2. /\ pc = "line" /\ Avail(k) > 0 /\ 1 <= Avail(k) /\ Advance(1)
      /\ taken'[k] = p /\ p \in Nat \ {0}
      /\ UNCHANGED <<cur, hdr_buf, resp, body, ubuf, cut, fin, viewer, outq, got, alive>>
      /\ \/ /\ pc' = "parse" /\ bufp' = 0
            /\ buf' = Put(Put(buf, bufp + 1, p), bufp + 2, Nul)
         \/ /\ Char(k, p) # "n" /\ bufp' = bufp + 1 /\ buf' = Put(buf, bufp + 1, p)
            /\ pc' = "line"
  BY <1>0, <1>1, RecvCharIs
<1>3. taken[k] \in Nat /\ Passed(k) \in Nat /\ buf \in Seq(Nat)
  BY <1>0, StreamIs, PassedIs DEF BasicInv, Shape
<1>4. Framed(k)' /\ Relayed(k)'
  BY <1>0, <1>2, <1>3, AdvanceRelayed
<1>5. OverrunOnlyWhenAhead'
  BY <1>2 DEF OverrunOnlyWhenAhead
<1>6. CASE k \in cut'
  BY <1>2, <1>6, CutDeep
<1>7. CASE k \notin cut'
  <2>1. ~Ended(k)
    BY <1>2, <1>3 DEF Ended, Avail
  <2>2. PICK j \in DOMAIN Responses[k] : /\ InHeadLine(j) \/ InBlankLine(j)
                                         /\ SentTo(End(k, j - 1))
    BY <1>2, <1>7, <2>1 DEF RelayInv, PlaceInv, AtEnd
  <2>3. SentTo(End(cur, j - 1))'
    BY <1>2, <2>2 DEF SentTo, Passed
  <2>4. PICK e : e = End(k, j - 1)
    OBVIOUS
  <2>5. e \in Nat /\ j \in Nat \ {0}
    BY <2>4, EndStep
  <2>6. PICK q : q = bufp
    OBVIOUS
  <2>a. CASE InHeadLine(j)
    <3>1. /\ Kept(j, 0)' /\ resp' = 0 /\ q <= 2 /\ Len(buf) = q
          /\ (\A i \in 1..q : buf[i] = e + i) /\ taken[k] = e + q
      BY <1>2, <2>a, <2>4, <2>6 DEF InHeadLine, Kept, Runs
    <3>2. q \in Nat /\ q \in 0..Len(buf) /\ p = e + q + 1
      BY <1>0, <1>1, <2>5, <2>6, <3>1 DEF BasicInv, Shape
    <3>3. PICK one : one = Put(buf, q + 1, p)
      OBVIOUS
    <3>4. /\ one \in Seq(Nat) /\ one[q + 1] = p /\ Len(one) = q + 1
          /\ \A i \in 1..q : i # q + 1 => one[i] = buf[i]
      <4>1. q + 1 \in 1..(Len(buf) + 1) /\ p \in Nat
        BY <1>2, <3>1, <3>2
      <4>2. /\ one \in Seq(Nat) /\ one[q + 1] = p
            /\ Len(one) = (IF q + 1 <= Len(buf) THEN Len(buf) ELSE q + 1)
            /\ \A i \in 1..Len(buf) : i # q + 1 => one[i] = buf[i]
        BY <1>3, <3>3, <4>1, PutIs
      <4> QED BY <3>1, <3>2, <4>2
    <3>5. \A i \in 1..(q + 1) : one[i] = e + i
      BY <2>5, <3>1, <3>2, <3>4
    <3>6. Char(k, p) = HeadText[q + 1]
      <4>1. q + 1 \in 1..5 /\ p = e + (q + 1)
        BY <2>5, <3>1, <3>2
      <4> QED BY <2>4, <4>1, CharIs
    <3>7. CASE Char(k, p) # "n" /\ bufp' = bufp + 1 /\ buf' = one /\ pc' = "line"
      <4>1. q + 1 <= 2 /\ taken'[k] = e + (q + 1)
        BY <1>2, <2>5, <3>1, <3>2, <3>6, <3>7, HeadTexts
      <4>2. InHeadLine(j)'
        BY <1>2, <2>4, <2>6, <3>1, <3>4, <3>5, <3>7, <4>1 DEF InHeadLine, Runs
      <4> QED BY <1>2, <1>4, <1>5, <2>3, <3>7, <4>2 DEF Deep, PlaceInv
    <3>8. CASE pc' = "parse" /\ bufp' = 0 /\ buf' = Put(one, q + 2, Nul)
      <4>1. q + 1 \in 0..Len(one) /\ Nul \in Nat /\ q + 2 = (q + 1) + 1
        BY <3>2, <3>4 DEF Nul
      <4>2. /\ buf'[q + 2] = Nul /\ Len(buf') = q + 2
            /\ \A i \in 1..(q + 1) : i # q + 2 => buf'[i] = one[i]
        <5>1. q + 2 \in 1..(Len(one) + 1) /\ one \in Seq(Nat) /\ Nul \in Nat
          BY <3>1, <3>2, <3>4, <4>1
        <5>2. PICK two : two = buf'
          OBVIOUS
        <5>3. /\ two[q + 2] = Nul
              /\ Len(two) = (IF q + 2 <= Len(one) THEN Len(one) ELSE q + 2)
              /\ \A i \in 1..Len(one) : i # q + 2 => two[i] = one[i]
          BY <3>8, <5>1, <5>2, PutIs
        <5> QED BY <3>2, <3>4, <4>1, <5>2, <5>3
      <4>3. \A i \in 1..(q + 1) : buf'[i] = e + 0 + i
        <5>1. \A i \in 1..(q + 1) : i # q + 2 /\ i \in Nat
          BY <3>2
        <5>2. \A i \in 1..(q + 1) : buf'[i] = e + i
          BY <3>5, <4>2, <5>1
        <5> QED BY <2>5, <5>1, <5>2
      <4>4. q + 1 \in 0..3 /\ taken'[k] = e + 0 + (q + 1) /\ (q + 1) + 1 = q + 2
        BY <1>2, <2>5, <3>1, <3>2
      <4>5. AtLine(j, 0)'
        BY <1>2, <2>4, <3>1, <4>2, <4>3, <4>4 DEF AtLine
      <4> QED BY <1>2, <1>4, <1>5, <2>3, <3>8, <4>5 DEF Deep, PlaceInv
    <3> QED BY <1>2, <2>6, <3>3, <3>7, <3>8
  <2>b. CASE InBlankLine(j)
    <3>1. /\ Kept(j, 3)' /\ resp' = j /\ q <= 1 /\ Len(buf) = 4 /\ buf[4] = Nul
          /\ (\A i \in 1..3 : buf[i] # Nul) /\ (q = 1 => buf[1] = e + 4)
          /\ taken[k] = e + 3 + q
      BY <1>2, <2>b, <2>4, <2>6 DEF InBlankLine, Kept
    <3>2. q \in Nat /\ q \in 0..Len(buf) /\ p = e + 4 + q /\ q < Len(buf)
      BY <1>0, <1>1, <2>5, <2>6, <3>1 DEF BasicInv, Shape
    <3>3. PICK one : one = Put(buf, q + 1, p)
      OBVIOUS
    <3>4. /\ one \in Seq(Nat) /\ one[q + 1] = p /\ Len(one) = 4
          /\ \A i \in 1..4 : i # q + 1 => one[i] = buf[i]
      <4>1. q + 1 \in 1..(Len(buf) + 1) /\ p \in Nat
        BY <1>2, <3>1, <3>2
      <4>2. /\ one \in Seq(Nat) /\ one[q + 1] = p
            /\ Len(one) = (IF q + 1 <= Len(buf) THEN Len(buf) ELSE q + 1)
            /\ \A i \in 1..Len(buf) : i # q + 1 => one[i] = buf[i]
        BY <1>3, <3>3, <4>1, PutIs
      <4> QED BY <3>1, <3>2, <4>2
    <3>5. Char(k, p) = HeadText[4 + q]
      <4>1. 4 + q \in 1..5 /\ p = e + (4 + q)
        BY <2>5, <3>1, <3>2
      <4> QED BY <2>4, <4>1, CharIs
    <3>6. CASE Char(k, p) # "n" /\ bufp' = bufp + 1 /\ buf' = one /\ pc' = "line"
      <4>1. q = 0
        BY <3>1, <3>2, <3>5, <3>6, HeadTexts
      <4>2. /\ bufp' = 1 /\ buf'[1] = e + 4 /\ buf'[4] = Nul /\ Len(buf') = 4
            /\ (\A i \in 1..3 : buf'[i] # Nul) /\ taken'[k] = e + 3 + 1
        <5>1. p # Nul /\ p = e + 4
          BY <1>2, <2>5, <3>2, <4>1 DEF Nul
        <5>2. one[1] = p /\ one[2] = buf[2] /\ one[3] = buf[3] /\ one[4] = buf[4]
          BY <3>4, <4>1
        <5>3. \A i \in 1..3 : i = 1 \/ i = 2 \/ i = 3
          OBVIOUS
        <5>4. \A i \in 1..3 : one[i] # Nul
          BY <3>1, <5>1, <5>2, <5>3
        <5> QED BY <1>2, <2>5, <2>6, <3>1, <3>4, <3>6, <4>1, <5>1, <5>2, <5>4
      <4>3. InBlankLine(j)'
        BY <1>2, <2>4, <3>1, <4>2 DEF InBlankLine
      <4> QED BY <1>2, <1>4, <1>5, <2>3, <3>6, <4>3 DEF Deep, PlaceInv
    <3>7. CASE pc' = "parse" /\ bufp' = 0 /\ buf' = Put(one, q + 2, Nul)
      <4>1. q + 1 \in 0..Len(one) /\ Nul \in Nat /\ q + 2 = (q + 1) + 1 /\ q + 1 < Len(one)
        BY <3>1, <3>2, <3>4 DEF Nul
      <4>2. /\ buf'[q + 2] = Nul /\ Len(buf') = 4
            /\ \A i \in 1..4 : i # q + 2 => buf'[i] = one[i]
        <5>1. q + 2 \in 1..(Len(one) + 1) /\ one \in Seq(Nat) /\ Nul \in Nat
          BY <3>1, <3>2, <3>4, <4>1
        <5>2. PICK two : two = buf'
          OBVIOUS
        <5>3. /\ two[q + 2] = Nul
              /\ Len(two) = (IF q + 2 <= Len(one) THEN Len(one) ELSE q + 2)
              /\ \A i \in 1..Len(one) : i # q + 2 => two[i] = one[i]
          BY <3>7, <5>1, <5>2, PutIs
        <5> QED BY <3>2, <3>4, <4>1, <5>2, <5>3
      <4>3. \A i \in 1..(q + 1) : buf'[i] = e + 3 + i
        <5>1. \A i \in 1..(q + 1) : i \in 1..4 /\ i # q + 2
          BY <3>1, <3>2
        <5>2. one[q + 1] = e + 3 + (q + 1)
          BY <2>5, <3>2, <3>4
        <5>3. q = 1 => one[1] = e + 3 + 1
          BY <2>5, <3>1, <3>4
        <5>4. \A i \in 1..(q + 1) : i = q + 1 \/ (q = 1 /\ i = 1)
          BY <3>1, <3>2
        <5> QED BY <4>2, <5>1, <5>2, <5>3, <5>4
      <4>4. /\ q + 1 \in 0..2 /\ taken'[k] = e + 3 + (q + 1) /\ (q + 1) + 1 = q + 2
            /\ (q + 1) + 1 <= Len(buf')
        BY <1>2, <2>5, <3>1, <3>2, <4>2
      <4>5. AtLine(j, 3)'
        BY <1>2, <2>4, <3>1, <4>2, <4>3, <4>4 DEF AtLine
      <4> QED BY <1>2, <1>4, <1>5, <2>3, <3>7, <4>5 DEF Deep, PlaceInv
    <3> QED BY <1>2, <2>6, <3>3, <3>6, <3>7
  <2> QED BY <2>2, <2>a, <2>b
<1> QED BY <1>6, <1>7

LEMMA PollDeep ==
    ASSUME RelayInv, Poll, NEW k \in Conns, k = cur
    PROVE  Deep(k)'
<1>0. BasicInv /\ OutInv
  BY DEF RelayInv
<1>1. /\ pc = "line" /\ pc # "select" /\ ~Readable(k) /\ Still /\ cut' = cut
      /\ UNCHANGED <<cur, hdr_buf, resp, body, ubuf, alive>>
      /\ \/ pc' = "parse" /\ bufp' = 0 /\ buf' = Put(buf, bufp + 1, Nul)
         \/ UNCHANGED <<pc, buf, bufp>>
  BY DEF Poll, Still, Noticed, servVars, viewVars
<1>2. /\ fin'[k] = "no" <=> fin[k] = "no"
      /\ outq' = outq /\ got' = got /\ viewer' = viewer /\ taken' = taken
      /\ Passed(k)' = Passed(k)
  BY <1>0, <1>1, StillIs
<1>3. taken[k] \in Nat /\ buf \in Seq(Nat)
  BY <1>0, StreamIs DEF BasicInv, Shape
<1>4. Framed(k)' /\ OverrunOnlyWhenAhead'
  BY <1>1 DEF Framed, Idle, OverrunOnlyWhenAhead
<1>5. Relayed(k)'
  BY <1>0, <1>1, <1>2 DEF OutInv, Relayed, Idle
<1>6. CASE k \in cut'
  BY <1>1, <1>6, CutDeep
<1>7. CASE k \notin cut'
  <2>1. ~Ended(k)
    BY <1>1 DEF Ended, Readable
  <2>2. PICK j \in DOMAIN Responses[k] : /\ InHeadLine(j) \/ InBlankLine(j)
                                         /\ SentTo(End(k, j - 1))
    BY <1>1, <1>7, <2>1 DEF RelayInv, PlaceInv, AtEnd
  <2>3. SentTo(End(cur, j - 1))'
    BY <1>1, <1>2, <2>2 DEF SentTo
  <2>4. PICK e : e = End(k, j - 1)
    OBVIOUS
  <2>5. e \in Nat /\ j \in Nat \ {0}
    BY <2>4, EndStep
  <2>6. PICK q : q = bufp
    OBVIOUS
  <2>7. CASE UNCHANGED <<pc, buf, bufp>>
    <3>1. InHeadLine(j) \/ InBlankLine(j) => InHeadLine(j)' \/ InBlankLine(j)'
      BY <1>1, <1>2, <2>7 DEF InHeadLine, InBlankLine, Kept
    <3> QED BY <1>1, <1>4, <1>5, <2>2, <2>3, <2>7, <3>1 DEF Deep, PlaceInv
  <2>8. CASE pc' = "parse" /\ bufp' = 0 /\ buf' = Put(buf, bufp + 1, Nul)
    <3>1. PICK one : one = buf'
      OBVIOUS
    <3>2. q \in Nat /\ q + 1 \in 1..(Len(buf) + 1) /\ Nul \in Nat
      BY <1>0, <1>1, <2>6 DEF BasicInv, Shape, LoopInv, Nul
    <3>3. /\ one[q + 1] = Nul
          /\ Len(one) = (IF q + 1 <= Len(buf) THEN Len(buf) ELSE q + 1)
          /\ \A i \in 1..Len(buf) : i # q + 1 => one[i] = buf[i]
      BY <1>3, <2>6, <2>8, <3>1, <3>2, PutIs
    <3>a. CASE InHeadLine(j)
      <4>1. /\ Kept(j, 0)' /\ resp' = 0 /\ q <= 2 /\ Len(buf) = q
            /\ (\A i \in 1..q : buf[i] = e + i) /\ taken[k] = e + q
        BY <1>1, <3>a, <2>4, <2>6 DEF InHeadLine, Kept, Runs
      <4>2. /\ q \in 0..3 /\ taken'[k] = e + 0 + q /\ Len(one) = q + 1
            /\ \A i \in 1..q : one[i] = e + 0 + i
        BY <1>2, <2>5, <3>2, <3>3, <4>1
      <4>3. AtLine(j, 0)'
        BY <1>1, <2>4, <3>1, <3>3, <4>1, <4>2 DEF AtLine
      <4> QED BY <1>1, <1>4, <1>5, <2>3, <2>8, <4>3 DEF Deep, PlaceInv
    <3>b. CASE InBlankLine(j)
      <4>1. /\ Kept(j, 3)' /\ resp' = j /\ q <= 1 /\ Len(buf) = 4
            /\ (q = 1 => buf[1] = e + 4) /\ taken[k] = e + 3 + q
        BY <1>1, <3>b, <2>4, <2>6 DEF InBlankLine, Kept
      <4>2. /\ q \in 0..2 /\ taken'[k] = e + 3 + q /\ Len(one) = 4 /\ q + 1 <= Len(one)
            /\ \A i \in 1..q : one[i] = e + 3 + i
        BY <1>2, <2>5, <3>2, <3>3, <4>1
      <4>3. AtLine(j, 3)'
        BY <1>1, <2>4, <3>1, <3>3, <4>1, <4>2 DEF AtLine
      <4> QED BY <1>1, <1>4, <1>5, <2>3, <2>8, <4>3 DEF Deep, PlaceInv
    <3> QED BY <2>2, <3>a, <3>b
  <2> QED BY <1>1, <2>7, <2>8
<1> QED BY <1>6, <1>7

-----------------------------------------------------------------------------
(* The body. *)
LEMMA OverrunIsAhead ==
    ASSUME NEW k \in Conns, NEW r \in DOMAIN Responses[k], NEW a \in 0..Len(Responses[k]),
           End(k, r) < End(k, a)
    PROVE  a > r
<1>1. r \in Nat /\ a \in Nat /\ r \in 0..Len(Responses[k]) /\ r <= Len(Responses[k])
  BY EndStep
<1>2. End(k, r) \in Nat /\ End(k, a) \in Nat
  BY <1>1, EndNat
<1>3. ASSUME a <= r PROVE End(k, a) <= End(k, r)
  <2>1. r \in a..Len(Responses[k])
    BY <1>1, <1>3
  <2> QED BY <2>1, EndOrder
<1> QED BY <1>1, <1>2, <1>3

LEMMA RecvBodyDeep ==
    ASSUME RelayInv, RecvBody, BasicInv', NEW k \in Conns, k = cur
    PROVE  Deep(k)'
<1>0. BasicInv /\ OutInv /\ pc = "recv" /\ pc # "select" /\ resp # 0
  BY DEF RelayInv, RecvBody, BasicInv, LoopInv
<1>1. PICK L : L = Length(k, resp)
  OBVIOUS
<1>2. PICK m : m = Smaller(L, Avail(k))
  OBVIOUS
<1>3. PICK now : now = body \o Span(taken[k], m)
  OBVIOUS
<1>4. /\ m > 0 /\ Advance(m) /\ UNCHANGED <<n, buf, bufp, hdr_buf, resp>>
      /\ body' = now
      /\ \/ /\ Len(now) = L
            /\ pc' = IF Type(k, resp) = "xml" THEN "head" ELSE "body"
            /\ ubuf' = IF Type(k, resp) = "xml" THEN hdr_buf ELSE now
         \/ /\ Len(now) # L /\ pc' = IF Len(now) > L THEN "overrun" ELSE "recv"
  BY <1>0, <1>1, <1>2, <1>3 DEF RecvBody, BodyRead, Advance, servVars, viewVars
<1>5. /\ resp \in DOMAIN Responses[k] /\ Type(k, resp) \in {"xml", "f4f"}
      /\ L \in Nat \ {0} /\ End(k, resp - 1) \in Nat /\ End(k, resp) \in Nat
      /\ L = End(k, resp) - End(k, resp - 1) - 5
      /\ taken[k] \in Nat /\ arrived[k] \in Nat /\ body \in Seq(Int)
      /\ Passed(k) \in Nat
  BY <1>0, <1>1, RespIs, StreamIs, PassedIs DEF BasicInv, Shape
<1>6. m \in Nat /\ m <= Avail(k)
  <2>1. Avail(k) \in Nat
    BY <1>0, StreamIs DEF Avail
  <2> QED BY <1>2, <1>5, <2>1 DEF Smaller
<1>7. taken'[k] = taken[k] + m /\ taken[k] + m <= arrived[k]
  BY <1>0, <1>4, <1>6, AdvanceBasic
<1>8. pc' # "select" /\ cut' = cut /\ cur' = cur /\ alive' = alive
  BY <1>4 DEF Advance
<1>9. Framed(k)' /\ Relayed(k)'
  BY <1>0, <1>4, <1>5, <1>6, <1>8, AdvanceRelayed
<1>10. CASE k \in cut'
  BY <1>8, <1>10, CutDeep
<1>11. CASE k \notin cut'
  <2>1. PICK e : e = End(k, resp - 1)
    OBVIOUS
  <2>2. PICK b : b = Len(body)
    OBVIOUS
  <2>3. /\ Kept(resp, 5) /\ Runs(body, e + 5) /\ taken[k] = e + 5 + b
        /\ SentTo(e + (IF Type(k, resp) = "xml" THEN 0 ELSE 5))
    BY <1>0, <1>8, <1>11, <2>1, <2>2 DEF RelayInv, PlaceInv, BodyTo, HeadLen
  <2>4. b \in Nat /\ e \in Nat
    BY <1>5, <2>1, <2>2
  <2>5. /\ Span(taken[k], m) \in Seq(Int) /\ Len(Span(taken[k], m)) = m
        /\ \A i \in 1..m : Span(taken[k], m)[i] = taken[k] + i
    BY <1>5, <1>6, SpanIs
  <2>6. now \in Seq(Int) /\ Runs(now, e + 5) /\ Len(now) = b + m
    <3>1. PICK s : s = Span(taken[k], m)
      OBVIOUS
    <3>2. s \in Seq(Int) /\ Len(s) = m /\ now = body \o s
      BY <1>3, <2>5, <3>1
    <3>3. Runs(s, taken[k]) /\ taken[k] = (e + 5) + Len(body)
      BY <2>2, <2>3, <2>4, <2>5, <3>1 DEF Runs
    <3>4. Runs(s, (e + 5) + Len(body)) /\ e + 5 \in Int
      BY <2>4, <3>3
    <3>5. Runs(now, e + 5) /\ now \in Seq(Int) /\ Len(now) = Len(body) + Len(s)
      BY <1>5, <2>3, <3>2, <3>4, JoinRuns
    <3> QED BY <2>2, <3>2, <3>5
  <2>7. PICK c : c = Len(now)
    OBVIOUS
  <2>8. c = b + m /\ c \in Nat /\ taken'[k] = e + 5 + c
    BY <1>6, <1>7, <2>3, <2>4, <2>6, <2>7
  <2>9. BodyTo(c)'
    BY <1>4, <1>8, <2>1, <2>6, <2>7, <2>8 DEF BodyTo, HeadLen
  <2>10. Kept(resp, HeadLen)' /\ Type(cur, resp)' = Type(k, resp) /\ Length(cur, resp)' = L
    BY <1>1, <1>4, <1>8, <2>3 DEF Kept, HeadLen, Type, Length
  <2>11. fin' = fin /\ viewer' = viewer /\ Passed(k)' = Passed(k)
    BY <1>4 DEF Advance, Passed
  <2>a. CASE c = L /\ Type(k, resp) = "xml" /\ pc' = "head" /\ ubuf' = hdr_buf
    <3>1. Runs(hdr_buf, e) /\ Len(hdr_buf) = 5
      BY <2>1, <2>3 DEF Kept
    <3>2. fin[k] = "no" /\ viewer[k] # "gone" => Passed(k) = e
      BY <2>3, <2>4, <2>a DEF SentTo
    <3>3. Sending(End(cur, resp - 1) + HeadLen)'
      BY <1>4, <1>8, <2>1, <2>11, <2>a, <3>1, <3>2 DEF Sending, HeadLen
    <3>4. PlaceInv' /\ OverrunOnlyWhenAhead'
      BY <2>9, <2>10, <2>a, <3>3 DEF PlaceInv, OverrunOnlyWhenAhead
    <3> QED BY <1>9, <3>4 DEF Deep
  <2>b. CASE c = L /\ Type(k, resp) = "f4f" /\ pc' = "body" /\ ubuf' = now
    <3>1. fin[k] = "no" /\ viewer[k] # "gone" => Passed(k) = e + 5
      BY <2>3, <2>b DEF SentTo
    <3>2. taken'[k] = End(k, resp) /\ e + 5 + c = End(k, resp)
      BY <1>5, <2>1, <2>4, <2>8, <2>b
    <3>3. Sending(End(cur, resp))'
      BY <1>4, <1>8, <2>6, <2>7, <2>11, <2>b, <3>1, <3>2 DEF Sending
    <3>4. taken'[cur'] = End(cur, resp)'
      BY <1>4, <1>8, <3>2
    <3>5. PlaceInv' /\ OverrunOnlyWhenAhead'
      BY <2>b, <3>3, <3>4 DEF PlaceInv, OverrunOnlyWhenAhead
    <3> QED BY <1>9, <3>5 DEF Deep
  <2>c. CASE pc' = "recv"
    <3>1. SentTo(End(cur, resp - 1) + (IF Type(cur, resp) = "xml" THEN 0 ELSE HeadLen))'
      BY <1>4, <1>8, <2>1, <2>3, <2>10, <2>11 DEF SentTo, HeadLen
    <3>2. BodyTo(Len(body))'
      BY <1>4, <2>7, <2>9
    <3>3. PlaceInv' /\ OverrunOnlyWhenAhead'
      BY <2>10, <2>c, <3>1, <3>2 DEF PlaceInv, OverrunOnlyWhenAhead
    <3> QED BY <1>9, <3>3 DEF Deep
  <2>d. CASE pc' = "overrun" /\ c > L
    <3>1. /\ arrived[k] <= End(k, asked[k]) /\ asked[k] \in 0..Len(Responses[k])
          /\ End(k, asked[k]) \in Nat
      BY <1>0, StreamIs
    <3>2. End(k, resp) < End(k, asked[k])
      <4>1. L = End(k, resp) - e - 5 /\ L \in Nat /\ End(k, resp) \in Nat
        BY <1>5, <2>1
      <4>2. e + 5 + c <= arrived[k] /\ arrived[k] \in Nat
        BY <1>5, <1>7, <2>8
      <4>3. e + 5 + c > End(k, resp)
        BY <2>4, <2>8, <2>d, <4>1
      <4> QED BY <2>4, <2>8, <3>1, <4>1, <4>2, <4>3
    <3>3. asked[k] > resp
      BY <1>5, <3>1, <3>2, OverrunIsAhead
    <3>4. PlaceInv' /\ OverrunOnlyWhenAhead'
      BY <1>4, <1>8, <2>d, <3>3 DEF PlaceInv, OverrunOnlyWhenAhead, Advance
    <3> QED BY <1>9, <3>4 DEF Deep
  <2> QED BY <1>4, <1>5, <2>7, <2>a, <2>b, <2>c, <2>d
<1> QED BY <1>10, <1>11

LEMMA BodyEndedDeep ==
    ASSUME RelayInv, BodyEnded, NEW k \in Conns, k = cur
    PROVE  Deep(k)'
<1>1. pc # "select" /\ Still /\ Stop("stuck") /\ BasicInv /\ OutInv
  BY DEF BodyEnded, Still, Noticed, servVars, viewVars, RelayInv
<1> QED BY <1>1, StopDeep

LEMMA BodyBrokenDeep ==
    ASSUME RelayInv, BodyBroken, NEW k \in Conns, k = cur
    PROVE  Deep(k)'
<1>1. /\ pc # "select" /\ fin[k] = "rst" /\ Avail(k) = 0 /\ fin' = [fin EXCEPT ![k] = "eof"]
      /\ Still /\ BasicInv /\ OutInv /\ taken[k] \in Nat /\ arrived[k] \in Nat
      /\ fin \in [Conns -> {"no", "eof", "rst"}]
  BY StreamIs DEF BodyBroken, Still, Noticed, viewVars, RelayInv, BasicInv, Shape
<1>2. CASE Close
  BY <1>1, <1>2, CloseDeep
<1>3. CASE pc' = "body" /\ UNCHANGED <<cur, alive>>
  <2>1. fin'[k] # "no" /\ taken'[k] = arrived'[k]
    BY <1>1 DEF Avail, Still, Noticed
  <2>2. Ended(cur)'
    BY <1>3, <2>1 DEF Ended
  <2>3. PlaceInv' /\ OverrunOnlyWhenAhead'
    BY <1>3, <2>2 DEF PlaceInv, OverrunOnlyWhenAhead
  <2>4. Framed(k)' /\ Relayed(k)'
    BY <1>3, <2>1 DEF Framed, Relayed, Idle
  <2> QED BY <2>3, <2>4 DEF Deep
<1>4. Close \/ (pc' = "body" /\ UNCHANGED <<cur, alive>>)
  BY DEF BodyBroken, BodyRead
<1> QED BY <1>2, <1>3, <1>4

-----------------------------------------------------------------------------
(* Sending. *)
LEMMA SendDeep ==
    ASSUME RelayInv, Passes, NEW k \in Conns, k = cur
    PROVE  Deep(k)'
<1>0. BasicInv /\ OutInv /\ PlaceInv /\ pc # "select" /\ pc \in {"head", "body"} /\ resp # 0
      /\ viewer[k] # "gone"
  BY DEF RelayInv, Passes, BasicInv, LoopInv
<1>1. PICK r : r = Room
  OBVIOUS
<1>2. PICK u : u = ubuf
  OBVIOUS
<1>3. PICK q : q = outq[k]
  OBVIOUS
<1>4. PICK part : part = SubSeq(u, 1, r)
  OBVIOUS
<1>5. u \in Seq(Int) /\ q \in Seq(Int) /\ r \in 1..Len(u) /\ r \in 0..Len(u)
  <2>1. r \in 1..Len(u)
    BY <1>1, <1>2 DEF Passes
  <2>2. 0..Len(u) = {0} \cup 1..Len(u) /\ u \in Seq(Int) /\ q \in Seq(Int)
    BY <1>0, <1>2, <1>3, RoomIs
  <2> QED BY <2>1, <2>2
<1>6. /\ outq'[k] = q \o part /\ ubuf' = SubSeq(u, r + 1, Len(u))
      /\ UNCHANGED <<pc, todo, cur, n, buf, bufp, hdr_buf, resp, body, alive, taken,
                     arrived, fin, asked, got, viewer, cut>>
  BY <1>0, <1>1, <1>2, <1>3, <1>4 DEF Passes, BasicInv, Shape
<1>7. /\ part \in Seq(Int) /\ Len(part) = r /\ ubuf' \in Seq(Int)
      /\ Len(ubuf') = Len(u) - r
  BY <1>4, <1>5, <1>6, SplitAt
<1>8. Len(q \o part) = Len(q) + Len(part)
  BY <1>5, <1>7, JoinIs
<1>9. PICK g : g = Len(got[k])
  OBVIOUS
<1>10. /\ g \in Nat /\ Passed(k) \in Nat /\ Passed(k) = g + Len(q) /\ taken[k] \in Nat
       /\ r \in Nat /\ Len(u) \in Nat /\ r <= Len(u) /\ Len(q) \in Nat
  <2>1. Len(u) \in Nat
    BY <1>5
  <2>2. r \in Nat /\ r <= Len(u)
    BY <1>5, <2>1
  <2> QED BY <1>0, <1>3, <1>9, <2>1, <2>2, PassedIs, StreamIs DEF BasicInv, Shape
<1>11. Passed(k)' = Passed(k) + r
  <2>1. Passed(k)' = g + Len(q \o part)
    BY <1>6, <1>9 DEF Passed
  <2> QED BY <1>7, <1>8, <1>10, <2>1
<1>12. Framed(k)' /\ OverrunOnlyWhenAhead'
  BY <1>0, <1>6 DEF Framed, Idle, OverrunOnlyWhenAhead
<1>13. CASE k \in cut'
  BY <1>6, <1>13, CutDeep
<1>14. CASE k \notin cut'
  (* As long as the server has not closed, the part is what comes next. *)
  <2>1. ASSUME NEW s \in Nat, Sending(s), s <= taken[k], fin[k] = "no"
        PROVE  Relayed(k)'
    <3>1. Runs(u, Passed(k)) /\ Passed(k) + Len(u) = s
      BY <1>0, <1>2, <2>1 DEF Sending
    <3>2. Runs(part, Passed(k))
      BY <1>4, <1>5, <1>10, <3>1, SplitRuns
    <3>3. Runs(got[k], 0) /\ Runs(q, g)
      BY <1>0, <1>3, <1>6, <1>9, <1>14, <2>1 DEF OutInv, Relayed
    <3>4. Runs(part, g + Len(q))
      BY <1>10, <3>2
    <3>5. Runs(q \o part, g)
      <4>1. g \in Int /\ part \in Seq(Int) /\ q \in Seq(Int)
        BY <1>5, <1>7, <1>10
      <4> QED BY <3>3, <3>4, <4>1, JoinRuns
    <3>6. Passed(k)' <= taken'[k]
      BY <1>6, <1>10, <1>11, <2>1, <3>1
    <3> QED BY <1>0, <1>6, <1>9, <3>3, <3>5, <3>6 DEF Relayed, Idle
  <2>2. ASSUME NEW s, Sending(s) PROVE Sending(s)'
    <3> SUFFICES ASSUME fin[k] = "no" PROVE Runs(ubuf', Passed(k)') /\ Passed(k)' + Len(ubuf') = s
      BY <1>6 DEF Sending
    <3>1. Runs(u, Passed(k)) /\ Passed(k) + Len(u) = s
      BY <1>0, <1>2, <2>2 DEF Sending
    <3>2. Runs(SubSeq(u, r + 1, Len(u)), Passed(k) + r)
      <4>1. PICK x : x = Passed(k)
        OBVIOUS
      <4>2. x \in Int /\ Runs(u, x) /\ u \in Seq(Int) /\ r \in 0..Len(u)
        BY <1>5, <1>10, <3>1, <4>1
      <4>3. Runs(SubSeq(u, r + 1, Len(u)), x + r)
        BY <4>2, SplitRuns
      <4> QED BY <4>1, <4>3
    <3>3. Passed(k)' + Len(ubuf') = s
      BY <1>7, <1>10, <1>11, <3>1
    <3> QED BY <1>6, <1>11, <3>2, <3>3
  <2>3. fin[k] # "no" => Relayed(k)'
    BY <1>6 DEF Relayed
  <2>4. /\ resp \in DOMAIN Responses[k] /\ Length(k, resp) \in Nat
        /\ End(k, resp - 1) \in Nat /\ End(k, resp) \in Nat
    BY <1>0, RespIs
  <2>a. CASE pc = "head"
    <3>1. /\ Kept(resp, HeadLen) /\ Sending(End(k, resp - 1) + HeadLen)
          /\ BodyTo(IF Type(k, resp) = "xml" THEN Length(k, resp) ELSE 0)
      BY <1>0, <1>6, <1>14, <2>a DEF PlaceInv
    <3>2. End(k, resp - 1) + HeadLen \in Nat /\ End(k, resp - 1) + HeadLen <= taken[k]
      BY <2>4, <3>1 DEF BodyTo, HeadLen
    <3>3. Relayed(k)'
      BY <2>1, <2>3, <3>1, <3>2
    <3>4. Sending(End(k, resp - 1) + HeadLen)'
      <4>1. PICK s : s = End(k, resp - 1) + HeadLen
        OBVIOUS
      <4>2. Sending(s)'
        BY <2>2, <3>1, <4>1
      <4> QED BY <1>6, <4>1, <4>2 DEF Sending
    <3>5. /\ Kept(resp, HeadLen)' /\ Type(cur, resp)' = Type(k, resp)
          /\ Length(cur, resp)' = Length(k, resp)
          /\ BodyTo(IF Type(cur, resp) = "xml" THEN Length(cur, resp) ELSE 0)'
      BY <1>6, <3>1 DEF Kept, Type, Length, BodyTo
    <3>6. PlaceInv'
      BY <1>6, <2>a, <3>4, <3>5 DEF PlaceInv
    <3> QED BY <1>12, <3>3, <3>6 DEF Deep
  <2>b. CASE pc = "body"
    <3>1. Ended(k) \/ (taken[k] = End(k, resp) /\ Sending(End(k, resp)))
      BY <1>0, <1>6, <1>14, <2>b DEF PlaceInv
    <3>2. CASE Ended(k)
      <4>1. Ended(cur)'
        BY <1>6, <3>2 DEF Ended
      <4>2. PlaceInv' /\ Relayed(k)'
        BY <1>6, <2>3, <2>b, <3>2, <4>1 DEF PlaceInv, Ended
      <4> QED BY <1>12, <4>2 DEF Deep
    <3>3. CASE taken[k] = End(k, resp) /\ Sending(End(k, resp))
      <4>1. Relayed(k)'
        <5>1. End(k, resp) <= taken[k]
          BY <2>4, <3>3
        <5> QED BY <2>1, <2>3, <2>4, <3>3, <5>1
      <4>2. Sending(End(k, resp))'
        <5>1. PICK s : s = End(k, resp)
          OBVIOUS
        <5>2. Sending(s)'
          BY <2>2, <3>3, <5>1
        <5> QED BY <1>6, <5>1, <5>2 DEF Sending
      <4>3. PlaceInv'
        BY <1>6, <2>b, <3>3, <4>2 DEF PlaceInv
      <4> QED BY <1>12, <4>1, <4>3 DEF Deep
    <3> QED BY <3>1, <3>2, <3>3
  <2> QED BY <1>0, <2>a, <2>b
<1> QED BY <1>13, <1>14


LEMMA SendLostDeep ==
    ASSUME RelayInv, SendLost, NEW k \in Conns, k = cur
    PROVE  Deep(k)'
<1>1. /\ pc \in {"head", "body"} /\ pc # "select" /\ Still /\ cut' = cut
      /\ BasicInv /\ OutInv /\ PlaceInv
  BY DEF SendLost, Still, Noticed, servVars, viewVars, RelayInv
<1>2. CASE Close
  BY <1>1, <1>2, CloseDeep
<1>3. CASE /\ viewer[k] = "gone" /\ ubuf' = <<>>
           /\ UNCHANGED <<pc, cur, n, buf, bufp, hdr_buf, resp, body, alive>>
  <2>1. /\ fin'[k] = "no" <=> fin[k] = "no"
        /\ outq' = outq /\ got' = got /\ viewer' = viewer /\ taken' = taken
        /\ arrived' = arrived /\ Passed(k)' = Passed(k)
    BY <1>1, StillIs
  <2>2. Framed(k)' /\ Relayed(k)' /\ OverrunOnlyWhenAhead'
    BY <1>1, <1>3, <2>1 DEF Framed, Relayed, Idle, OutInv, OverrunOnlyWhenAhead
  <2>3. PlaceInv'
    <3>1. \A s : Sending(s)'
      BY <1>3, <2>1 DEF Sending
    <3>2. Ended(cur) => Ended(cur)'
      BY <1>3, <2>1 DEF Ended, Still, Noticed
    <3>3. /\ Kept(resp, HeadLen) => Kept(resp, HeadLen)'
          /\ Type(cur, resp)' = Type(cur, resp) /\ Length(cur, resp)' = Length(cur, resp)
          /\ \A m : BodyTo(m) => BodyTo(m)'
      BY <1>3, <2>1 DEF Kept, Type, Length, BodyTo
    <3>4. CASE pc = "head"
      BY <1>1, <1>3, <3>1, <3>3, <3>4 DEF PlaceInv
    <3>5. CASE pc = "body"
      BY <1>1, <1>3, <2>1, <3>1, <3>2, <3>5 DEF PlaceInv
    <3> QED BY <1>1, <3>4, <3>5
  <2> QED BY <2>2, <2>3 DEF Deep
<1> QED BY <1>2, <1>3 DEF SendLost

(* All is sent: a response that went out whole leaves the reading at its   *)
(* end.                                                                    *)
LEMMA FinishDeep ==
    ASSUME RelayInv, pc = "body", ubuf = <<>>, Finish, Still, cut' = cut,
           NEW k \in Conns, k = cur
    PROVE  Deep(k)'
<1>1. /\ pc # "select" /\ BasicInv /\ OutInv /\ PlaceInv /\ resp # 0
      /\ pc' = "select" /\ alive' = alive
  BY DEF Finish, Leave, LeaveWith, RelayInv, BasicInv, LoopInv
<1>2. /\ fin'[k] = "no" <=> fin[k] = "no"
      /\ outq' = outq /\ got' = got /\ viewer' = viewer /\ taken' = taken
      /\ arrived' = arrived /\ Passed(k)' = Passed(k)
  BY <1>1, StillIs
<1>3. PlaceInv' /\ OverrunOnlyWhenAhead'
  BY <1>1 DEF PlaceInv, OverrunOnlyWhenAhead
<1>4. CASE k \in cut'
  BY <1>1, <1>4, CutDeep
<1>5. CASE Ended(k)
  BY <1>2, <1>3, <1>5 DEF Deep, Framed, Relayed, Ended
<1>6. CASE k \notin cut /\ taken[k] = End(k, resp) /\ Sending(End(k, resp))
  <2>1. resp \in 0..Len(Responses[k])
    BY <1>1, RespIs, EndStep
  <2>2. Framed(k)'
    BY <1>2, <1>6, <2>1 DEF Framed, Boundary
  <2>3. fin[k] = "no" /\ viewer[k] # "gone" => Passed(k) = taken[k]
    <3>1. Len(ubuf) = 0 /\ Passed(k) \in Nat
      BY <1>1, PassedIs DEF BasicInv, Shape
    <3> QED BY <1>6, <3>1 DEF Sending
  <2>4. Relayed(k)'
    BY <1>1, <1>2, <1>6, <2>3 DEF Relayed, OutInv
  <2> QED BY <1>3, <2>2, <2>4 DEF Deep
<1> QED BY <1>1, <1>4, <1>5, <1>6 DEF PlaceInv

LEMMA SentDeep ==
    ASSUME RelayInv, Sent, NEW k \in Conns, k = cur
    PROVE  Deep(k)'
<1>1. /\ pc \in {"head", "body"} /\ pc # "select" /\ Still /\ cut' = cut /\ ubuf = <<>>
      /\ BasicInv /\ OutInv /\ PlaceInv /\ resp # 0
  BY DEF Sent, Still, Noticed, servVars, viewVars, RelayInv, BasicInv, LoopInv
<1>2. CASE pc = "body" /\ Finish
  BY <1>1, <1>2, FinishDeep
<1>3. CASE /\ pc = "head"
           /\ pc' = IF Type(k, resp) = "xml" THEN "body" ELSE "recv"
           /\ ubuf' = IF Type(k, resp) = "xml" THEN body ELSE <<>>
           /\ UNCHANGED <<cur, n, buf, bufp, hdr_buf, resp, body, alive>>
  <2>1. /\ fin'[k] = "no" <=> fin[k] = "no"
        /\ outq' = outq /\ got' = got /\ viewer' = viewer /\ taken' = taken
        /\ arrived' = arrived /\ Passed(k)' = Passed(k)
    BY <1>1, StillIs
  <2>2. Framed(k)' /\ Relayed(k)' /\ OverrunOnlyWhenAhead'
    BY <1>1, <1>3, <2>1 DEF Framed, Relayed, Idle, OutInv, OverrunOnlyWhenAhead
  <2>3. CASE k \in cut'
    BY <1>3, <2>3, CutDeep
  <2>4. CASE k \notin cut'
    <3>1. /\ Kept(resp, HeadLen) /\ Sending(End(k, resp - 1) + HeadLen)
          /\ BodyTo(IF Type(k, resp) = "xml" THEN Length(k, resp) ELSE 0)
      BY <1>1, <1>3, <2>4 DEF PlaceInv
    <3>2. /\ Type(k, resp) \in {"xml", "f4f"} /\ Length(k, resp) \in Nat \ {0}
          /\ resp \in DOMAIN Responses[k]
          /\ Length(k, resp) = End(k, resp) - End(k, resp - 1) - 5
          /\ End(k, resp) \in Nat /\ End(k, resp - 1) \in Nat
      BY <1>1, RespIs, EndStep
    <3>3. fin[k] = "no" /\ viewer[k] # "gone" => Passed(k) = End(k, resp - 1) + 5
      <4>1. Len(ubuf) = 0 /\ Passed(k) \in Nat
        BY <1>1, PassedIs DEF BasicInv, Shape
      <4> QED BY <3>1, <3>2, <4>1 DEF Sending, HeadLen
    <3>4. CASE Type(k, resp) = "xml"
      <4>1. BodyTo(Length(k, resp))
        BY <3>1, <3>4
      <4>2. taken'[cur'] = End(cur, resp)'
        BY <1>3, <2>1, <3>2, <4>1 DEF BodyTo, HeadLen
      <4>3. Sending(End(cur, resp))'
        <5>1. /\ Runs(body, End(k, resp - 1) + 5) /\ Len(body) = Length(k, resp)
              /\ End(k, resp - 1) + 5 + Length(k, resp) = End(k, resp)
          BY <3>2, <4>1 DEF BodyTo, HeadLen
        <5> QED BY <1>3, <2>1, <3>3, <3>4, <5>1 DEF Sending
      <4>4. PlaceInv'
        BY <1>3, <3>4, <4>2, <4>3 DEF PlaceInv
      <4> QED BY <2>2, <4>4 DEF Deep
    <3>5. CASE Type(k, resp) = "f4f"
      <4>1. BodyTo(0)
        BY <3>1, <3>5
      <4>2. BodyTo(Len(body))' /\ Kept(resp, HeadLen)'
        BY <1>3, <2>1, <3>1, <4>1 DEF BodyTo, Kept
      <4>3. SentTo(End(cur, resp - 1) + HeadLen)'
        BY <1>3, <2>1, <3>3 DEF SentTo, HeadLen
      <4>4. Type(cur, resp)' = "f4f" /\ pc' = "recv"
        BY <1>3, <3>5 DEF Type
      <4>5. PlaceInv'
        BY <4>2, <4>3, <4>4 DEF PlaceInv
      <4> QED BY <2>2, <4>5 DEF Deep
    <3> QED BY <3>2, <3>4, <3>5
  <2> QED BY <2>3, <2>4
<1> QED BY <1>2, <1>3 DEF Sent

-----------------------------------------------------------------------------
(* A new round, and the next connection of the round: its reading stands   *)
(* at the start of a head, or nothing will come any more.                  *)
LEMMA SelectDeep ==
    ASSUME RelayInv, Select
    PROVE  FrameInv' /\ OutInv' /\ PlaceInv' /\ OverrunOnlyWhenAhead'
BY DEF RelayInv, Select, localVars, servVars, viewVars, FrameInv, Framed, Idle, Boundary, Ended,
       OutInv, Relayed, Passed, PlaceInv, OverrunOnlyWhenAhead

LEMMA AtHead ==
    ASSUME RelayInv, pc = "select", NEW k \in Conns, k \in todo \ cut, ~Ended(k)
    PROVE  \E j \in DOMAIN Responses[k] : taken[k] = End(k, j - 1)
<1>1. /\ BasicInv /\ Readable(k) /\ Boundary(k)
  BY DEF RelayInv, BasicInv, RoundInv, FrameInv, Framed, Idle
<1>2. /\ taken[k] \in Nat /\ arrived[k] \in Nat /\ taken[k] <= arrived[k]
      /\ arrived[k] <= End(k, asked[k]) /\ asked[k] \in 0..Len(Responses[k])
      /\ Len(Responses[k]) \in Nat /\ End(k, asked[k]) \in Nat
  BY <1>1, StreamIs
<1>3. taken[k] < arrived[k]
  BY <1>1, <1>2 DEF Readable, Avail, Ended
<1>4. PICK i \in 0..Len(Responses[k]) : taken[k] = End(k, i)
  BY <1>1 DEF Boundary
<1>5. ~(asked[k] <= i)
  <2>1. ASSUME asked[k] <= i PROVE End(k, asked[k]) <= End(k, i)
    <3>1. i \in asked[k]..Len(Responses[k])
      BY <1>2, <2>1
    <3> QED BY <1>2, <3>1, EndOrder
  <2> QED BY <1>2, <1>3, <1>4, <2>1
<1>6. i + 1 \in 1..Len(Responses[k]) /\ (i + 1) - 1 = i
  BY <1>2, <1>5
<1>7. i + 1 \in DOMAIN Responses[k]
  BY <1>6, Scripts
<1>8. PICK j : j = i + 1
  OBVIOUS
<1>9. j \in DOMAIN Responses[k] /\ j - 1 = i
  BY <1>6, <1>7, <1>8
<1> QED BY <1>4, <1>9

LEMMA ServeDeep ==
    ASSUME RelayInv, NEW k \in Conns, Serve(k)
    PROVE  FrameInv' /\ OutInv' /\ PlaceInv' /\ OverrunOnlyWhenAhead'
<1>1. /\ pc = "select" /\ k \in todo /\ pc' = "line" /\ cur' = k
      /\ UNCHANGED <<buf, bufp, hdr_buf, resp, body, ubuf, alive, taken, arrived, fin,
                     asked, outq, got, viewer, cut>>
  BY DEF Serve, servVars, viewVars
<1>2. BasicInv /\ FrameInv /\ OutInv
  BY DEF RelayInv
<1>3. buf = <<>> /\ bufp = 0 /\ hdr_buf = <<>> /\ resp = 0 /\ todo \subseteq alive
  BY <1>1, <1>2 DEF BasicInv, RoundInv
<1>4. FrameInv' /\ OutInv'
  BY <1>1, <1>2 DEF FrameInv, Framed, Idle, Boundary, Ended, OutInv, Relayed, Passed
<1>5. OverrunOnlyWhenAhead'
  BY <1>1 DEF OverrunOnlyWhenAhead
<1>6. PlaceInv'
  <2>1. CASE k \in cut
    BY <1>1, <2>1 DEF PlaceInv
  <2>2. CASE Ended(k)
    <3>1. AtEnd'
      BY <1>1, <1>3, <2>2 DEF AtEnd, Ended
    <3> QED BY <1>1, <3>1 DEF PlaceInv
  <2>3. CASE k \notin cut /\ ~Ended(k)
    <3>1. PICK j \in DOMAIN Responses[k] : taken[k] = End(k, j - 1)
      BY <1>1, <2>3, AtHead
    <3>2. End(k, j - 1) \in Nat
      BY EndStep
    <3>3. Len(<<>>) = 0 /\ \A a : Runs(<<>>, a)
      <4>1. Len(<<>>) = 0
        OBVIOUS
      <4> QED BY <4>1 DEF Runs
    <3>4. taken'[k] = End(k, j - 1) + 0
      BY <1>1, <3>1, <3>2
    <3>5. InHeadLine(j)'
      BY <1>1, <1>3, <3>3, <3>4 DEF InHeadLine, Kept
    <3>6. SentTo(End(cur, j - 1))'
      BY <1>1, <1>2, <1>3, <2>3, <3>1 DEF OutInv, Relayed, Idle, SentTo, Passed
    <3> QED BY <1>1, <3>5, <3>6 DEF PlaceInv
  <2> QED BY <2>1, <2>2, <2>3
<1> QED BY <1>4, <1>5, <1>6

-----------------------------------------------------------------------------
(* What the handler does is done to its own connection. *)
Handler ==
    \/ RecvChar \/ Poll \/ LineEnded \/ ParseLine
    \/ RecvBody \/ BodyEnded \/ BodyBroken
    \/ Passes \/ SendLost \/ Sent

(* How its parts leave the table of connections. *)
Kin == /\ cut' = cut \/ cut' = cut \cup {cur}
       /\ alive' = alive \/ alive' = alive \ {cur}
       /\ cur' = cur \/ pc' = "select"

LEMMA TakeLineKin ==
    ASSUME NEW line, NEW stale, TakeLine(line, stale)
    PROVE  Kin
<1>1. ASSUME NEW h, HeadRead(h)
      PROVE  (alive' = alive \/ alive' = alive \ {cur}) /\ (cur' = cur \/ pc' = "select")
  BY <1>1 DEF HeadRead, Close, Leave, LeaveWith
<1>2. HeadCut => Kin
  BY <1>1 DEF HeadCut, Kin
<1> QED BY <1>1, <1>2 DEF TakeLine, Kin, Stop, localVars

LEMMA HandlerKin ==
    ASSUME Handler
    PROVE  Kin
<1> USE DEF Close, Finish, Leave, LeaveWith, Stop, localVars
<1>1. CASE RecvChar \/ Poll \/ Passes
  BY <1>1 DEF RecvChar, Poll, Passes, Kin
<1>2. CASE LineEnded
  <2>1. HeadCut => Kin
    <3>1. ASSUME NEW h, HeadRead(h)
          PROVE  (alive' = alive \/ alive' = alive \ {cur}) /\ (cur' = cur \/ pc' = "select")
      BY <3>1 DEF HeadRead
    <3> QED BY <3>1 DEF HeadCut, Kin
  <2> QED BY <1>2, <2>1, TakeLineKin DEF LineEnded, Kin
<1>3. CASE ParseLine
  BY <1>3, TakeLineKin DEF ParseLine
<1>4. CASE RecvBody \/ BodyEnded
  BY <1>4 DEF RecvBody, BodyRead, BodyEnded, Kin
<1>5. CASE BodyBroken
  BY <1>5 DEF BodyBroken, BodyRead, Kin
<1>6. CASE SendLost
  BY <1>6 DEF SendLost, Kin
<1>7. CASE Sent
  BY <1>7 DEF Sent, Kin
<1> QED BY <1>1, <1>2, <1>3, <1>4, <1>5, <1>6, <1>7 DEF Handler

LEMMA HandlerMine ==
    ASSUME BasicInv, Handler
    PROVE  Mine /\ pc # "select" /\ arrived' = arrived /\ got' = got
           /\ (\A i \in Conns : fin'[i] = "no" <=> fin[i] = "no")
<1> USE DEF servVars, viewVars
<1>1. /\ taken \in [Conns -> Nat] /\ fin \in [Conns -> {"no", "eof", "rst"}]
      /\ outq \in [Conns -> Seq(Int)]
  BY DEF BasicInv, Shape
<1>2. /\ pc # "select"
      /\ taken' = taken \/ \E m : taken' = [taken EXCEPT ![cur] = m]
      /\ fin' = fin \/ (fin' = [fin EXCEPT ![cur] = "eof"] /\ fin[cur] # "no")
      /\ outq' = outq \/ \E q : outq' = [outq EXCEPT ![cur] = q]
      /\ arrived' = arrived /\ got' = got /\ viewer' = viewer
  <2>1. CASE RecvChar \/ Poll \/ LineEnded \/ ParseLine
    BY <2>1 DEF RecvChar, Poll, LineEnded, ParseLine
  <2>2. CASE RecvBody \/ BodyEnded \/ BodyBroken
    BY <2>2 DEF RecvBody, BodyEnded, BodyBroken
  <2>3. CASE Passes \/ SendLost \/ Sent
    BY <2>3 DEF Passes, SendLost, Sent
  <2> QED BY <2>1, <2>2, <2>3 DEF Handler
<1>3. Kin
  BY HandlerKin
<1>4. \A i \in Conns \ {cur} : taken'[i] = taken[i] /\ fin'[i] = fin[i] /\ outq'[i] = outq[i]
  BY <1>1, <1>2
<1>5. \A i \in Conns : fin'[i] = "no" <=> fin[i] = "no"
  BY <1>1, <1>2
<1>6. Mine
  BY <1>2, <1>3, <1>4 DEF Mine, Kin
<1> QED BY <1>2, <1>5, <1>6

LEMMA HandlerDeep ==
    ASSUME RelayInv, Handler, BasicInv', NEW k \in Conns, k = cur
    PROVE  Deep(k)'
<1>1. Mine
  BY HandlerMine DEF RelayInv
<1> QED BY <1>1, RecvCharDeep, PollDeep, LineEndedDeep, ParseLineDeep, RecvBodyDeep,
           BodyEndedDeep, BodyBrokenDeep, SendDeep, SendLostDeep, SentDeep DEF Handler

LEMMA RelayStep == ASSUME RelayInv, [Next]_vars PROVE RelayInv'
<1>1. BasicInv /\ BasicInv'
  BY BasicStep DEF RelayInv
<1>2. CASE UNCHANGED vars
  <2>1. UNCHANGED <<pc, cur, buf, bufp, hdr_buf, resp, body, ubuf, alive, taken, arrived, fin,
                    asked, outq, got, viewer, cut>>
    BY <1>2 DEF vars, localVars, servVars, viewVars
  <2>2. FrameInv' /\ OutInv' /\ OverrunOnlyWhenAhead'
    BY <2>1 DEF RelayInv, FrameInv, Framed, Idle, Boundary, Ended, OutInv, Relayed, Passed,
                OverrunOnlyWhenAhead
  <2>3. PlaceInv'
    BY <2>1 DEF RelayInv, PlaceInv, AtEnd, Ended, InHeadLine, InBlankLine, AtLine, Kept, SentTo,
                Sending, BodyTo, Passed, Type, Length
  <2> QED BY <1>1, <2>2, <2>3 DEF RelayInv
<1>3. CASE Select \/ \E k \in Conns : Serve(k)
  BY <1>1, <1>3, SelectDeep, ServeDeep DEF RelayInv
<1>4. CASE Handler
  <2>1. Mine /\ pc # "select" /\ FrameInv /\ OutInv
    BY <1>1, <1>4, HandlerMine DEF RelayInv
  <2>2. PICK k : k = cur
    OBVIOUS
  <2>3. k \in Conns
    BY <1>1, <2>1, <2>2, Serving
  <2>4. Deep(k)'
    BY <1>1, <1>4, <2>2, <2>3, HandlerDeep
  <2>5. \A i \in Conns : Framed(i)' /\ Relayed(i)'
    BY <2>1, <2>2, <2>4, Elsewhere DEF Deep
  <2> QED BY <1>1, <2>4, <2>5 DEF Deep, RelayInv, FrameInv, OutInv
<1>5. CASE \E k \in Conns : Peer(k)
  BY <1>1, <1>5, PeerDeep DEF RelayInv
<1>6. Proxy => Handler \/ Select \/ \E k \in Conns : Serve(k)
  BY <1>1, SendIs DEF Proxy, Handler
<1> QED BY <1>2, <1>3, <1>4, <1>5, <1>6 DEF Next

-----------------------------------------------------------------------------
(* Between two handlers the reading of every connection whose stream is    *)
(* sound stands at the end of a response, and what was read was sent: the  *)
(* loops of io_recvline_block, io_recvn_block and io_sendn leave nothing   *)
(* of a head or a body behind.                                             *)
THEOREM Frames == Spec => []FramesKept
<1>1. Init => RelayInv
  BY RelayInit
<1>2. RelayInv /\ [Next]_vars => RelayInv'
  BY RelayStep
<1>3. RelayInv => FramesKept
  <2> SUFFICES ASSUME RelayInv, pc = "select", NEW k \in alive \ cut, fin[k] = "no"
               PROVE  /\ \E j \in 0..Len(Responses[k]) : taken[k] = End(k, j)
                      /\ viewer[k] # "gone" => Len(got[k]) + Len(outq[k]) = taken[k]
    BY DEF FramesKept
  <2>1. k \in Conns /\ k \in alive \ cut
    BY DEF RelayInv, BasicInv, RoundInv
  <2>2. Framed(k) /\ Relayed(k)
    BY <2>1 DEF RelayInv, FrameInv, OutInv
  <2> QED BY <2>1, <2>2 DEF Framed, Relayed, Idle, Boundary, Ended, Passed
<1> QED BY <1>1, <1>2, <1>3, PTL DEF Spec

(* io_recvn_block writes past its buffer only where the bytes behind the   *)
(* body had come in already, or the framing was lost before.               *)
THEOREM OverrunAhead == Spec => []OverrunOnlyWhenAhead
<1>1. Init => RelayInv
  BY RelayInit
<1>2. RelayInv /\ [Next]_vars => RelayInv'
  BY RelayStep
<1>3. RelayInv => OverrunOnlyWhenAhead
  BY DEF RelayInv
<1> QED BY <1>1, <1>2, <1>3, PTL DEF Spec

-----------------------------------------------------------------------------
(* The refinement.  A stream is sound until the server closes or a head is *)
(* cut short.                                                              *)
Sound(k) == fin[k] = "no" /\ k \notin cut

LEMMA InOrders ==
    ASSUME NEW s \in Seq(Int), Runs(s, 0)
    PROVE  P!InOrder(s)
BY DEF Runs, P!InOrder

LEMMA PipeStart == Init => P!PipeInit
BY DEF Init, P!PipeInit

(* A viewer that reads receives what was in its send buffer. *)
LEMMA ReadReceives ==
    ASSUME RelayInv, NEW k \in Conns, Read(k)
    PROVE  P!Receive(k)
<1>1. /\ viewer[k] = "reading" /\ outq[k] # <<>>
      /\ got' = [got EXCEPT ![k] = got[k] \o outq[k]]
      /\ UNCHANGED <<taken, arrived, fin, asked, cut>>
  BY DEF Read, servVars
<1>2. /\ BasicInv /\ got \in [Conns -> Seq(Int)] /\ outq \in [Conns -> Seq(Int)]
      /\ Relayed(k)
  BY DEF RelayInv, BasicInv, Shape, OutInv
<1>3. PICK g : g = got[k]
  OBVIOUS
<1>4. PICK q : q = outq[k]
  OBVIOUS
<1>5. PICK t : t = g \o q
  OBVIOUS
<1>6. /\ g \in Seq(Int) /\ q \in Seq(Int) /\ q # <<>>
      /\ got'[k] = t /\ \A j \in Conns \ {k} : got'[j] = got[j]
  BY <1>1, <1>2, <1>3, <1>4, <1>5
<1>7. /\ t \in Seq(Int) /\ Len(t) = Len(g) + Len(q)
      /\ \A i \in 1..Len(g) : t[i] = g[i]
  BY <1>5, <1>6, JoinIs
<1>8. Len(q) > 0 /\ Len(g) \in Nat /\ Len(q) \in Nat
  BY <1>6
<1>9. Len(t) > Len(g) /\ Len(g) <= Len(t)
  BY <1>7, <1>8
<1>10. SubSeq(t, 1, Len(g)) = g
  <2>1. Len(g) \in 0..Len(t) /\ t \in Seq(Int)
    BY <1>7, <1>8, <1>9
  <2>2. PICK u : u = SubSeq(t, 1, Len(g))
    OBVIOUS
  <2>3. PICK m : m = Len(g)
    OBVIOUS
  <2>4. m \in 0..Len(t) /\ u = SubSeq(t, 1, m)
    BY <2>1, <2>2, <2>3
  <2>5. u \in Seq(Int) /\ Len(u) = m /\ \A i \in 1..m : u[i] = t[i]
    BY <1>7, <2>4, SplitAt
  <2> QED BY <1>6, <1>7, <2>2, <2>3, <2>5, SeqEqual
<1>11. ASSUME Sound(k) PROVE P!InOrder(t) /\ Len(t) <= arrived[k]
  <2>1. Runs(g, 0) /\ Runs(q, Len(g)) /\ Passed(k) <= taken[k]
    BY <1>2, <1>3, <1>4, <1>11 DEF Relayed, Sound
  <2>2. Runs(t, 0)
    <3>1. 0 + Len(g) = Len(g)
      BY <1>8
    <3> QED BY <1>5, <1>6, <2>1, <3>1, JoinRuns
  <2>3. taken[k] <= arrived[k] /\ taken[k] \in Nat /\ arrived[k] \in Nat
    BY <1>2, StreamIs
  <2>4. Len(t) = Passed(k) /\ Passed(k) \in Nat
    BY <1>2, <1>3, <1>4, <1>7, PassedIs DEF Passed
  <2> QED BY <1>7, <2>1, <2>2, <2>3, <2>4, InOrders
<1> QED BY <1>1, <1>3, <1>6, <1>9, <1>10, <1>11 DEF P!Receive, Sound

(* Everything else leaves what a viewer received alone. *)
LEMMA PipeStep ==
    ASSUME RelayInv, [Next]_vars
    PROVE  [P!PipeNext]_(P!pipeVars)
<1> USE DEF P!PipeNext, P!pipeVars
<1>1. CASE UNCHANGED <<arrived, got>> /\ \A i \in Conns : Sound(i)' <=> Sound(i)
  BY <1>1 DEF Sound
<1>2. ASSUME NEW k \in Conns, UNCHANGED <<arrived, got>>, ~Sound(k)',
             \A i \in Conns \ {k} : Sound(i)' <=> Sound(i)
      PROVE  P!Break(k)
  BY <1>2 DEF Sound, P!Break
<1>3. CASE Handler
  <2>1. /\ Mine /\ pc # "select" /\ UNCHANGED <<arrived, got>>
        /\ (\A i \in Conns : fin'[i] = "no" <=> fin[i] = "no")
    BY <1>3, HandlerMine DEF RelayInv
  <2>2. PICK k : k = cur
    OBVIOUS
  <2>3. k \in Conns
    BY <2>1, <2>2, Serving DEF RelayInv
  <2>4. \A i \in Conns \ {k} : Sound(i)' <=> Sound(i)
    BY <2>1, <2>2 DEF Mine, Sound
  <2>5. (Sound(k)' <=> Sound(k)) \/ ~Sound(k)'
    BY <2>1, <2>2, <2>3 DEF Mine, Sound
  <2> QED BY <1>1, <1>2, <2>1, <2>3, <2>4, <2>5
<1>4. CASE Select \/ \E k \in Conns : Serve(k)
  BY <1>1, <1>4 DEF Select, Serve, servVars, viewVars, Sound
<1>5. ASSUME NEW k \in Conns, Peer(k) PROVE P!PipeNext \/ UNCHANGED P!pipeVars
  <2>1. CASE Ask(k) \/ Stall(k) \/ Gone(k)
    BY <1>1, <2>1 DEF Ask, Stall, Gone, servVars, viewVars, Sound
  <2>2. CASE Arrive(k)
    <3>1. PICK a \in (arrived[k] + 1)..End(k, asked[k]) : arrived' = [arrived EXCEPT ![k] = a]
      BY <2>2 DEF Arrive
    <3>2. arrived \in [Conns -> Nat] /\ arrived[k] \in Nat /\ End(k, asked[k]) \in Nat
      BY StreamIs DEF RelayInv, BasicInv, Shape
    <3>3. a > arrived[k]
      BY <3>1, <3>2
    <3>4. arrived'[k] > arrived[k] /\ \A i \in Conns \ {k} : arrived'[i] = arrived[i]
      BY <3>1, <3>2, <3>3
    <3>5. P!Write(k)
      BY <2>2, <3>4 DEF Arrive, viewVars, P!Write
    <3> QED BY <3>5
  <2>3. CASE Die(k)
    <3>1. PICK f \in {"eof", "rst"} : fin' = [fin EXCEPT ![k] = f]
      BY <2>3 DEF Die
    <3>2. fin \in [Conns -> {"no", "eof", "rst"}]
      BY DEF RelayInv, BasicInv, Shape
    <3>3. fin'[k] # "no" /\ \A i \in Conns \ {k} : fin'[i] = fin[i]
      BY <3>1, <3>2
    <3>4. P!Break(k)
      BY <1>2, <2>3, <3>3 DEF Die, viewVars, Sound
    <3> QED BY <3>4
  <2>4. CASE Read(k)
    BY <2>4, ReadReceives
  <2> QED BY <1>5, <2>1, <2>2, <2>3, <2>4 DEF Peer
<1>6. CASE UNCHANGED vars
  BY <1>1, <1>6 DEF vars, servVars, viewVars, Sound
<1>7. Proxy => Handler \/ Select \/ \E k \in Conns : Serve(k)
  BY SendIs DEF Proxy, Handler, RelayInv
<1> QED BY <1>3, <1>4, <1>5, <1>6, <1>7 DEF Next

(* The relaying of answers implements the pipe: each viewer receives its   *)
(* server's bytes once and in order, never more than had come in, and      *)
(* nothing of what it received is changed later.                           *)
THEOREM RelayImplementsPipe == Spec => ImplementsPipe
<1>1. Init => RelayInv
  BY RelayInit
<1>2. RelayInv /\ [Next]_vars => RelayInv'
  BY RelayStep
<1>3. Init => P!PipeInit
  BY PipeStart
<1>4. RelayInv /\ [Next]_vars => [P!PipeNext]_(P!pipeVars)
  BY PipeStep
<1> QED BY <1>1, <1>2, <1>3, <1>4, PTL DEF Spec, ImplementsPipe, P!PipeSpec
=============================================================================
