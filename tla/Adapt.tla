------------------------------- MODULE Adapt -------------------------------
(***************************************************************************)
(* Bitrate adaptation: the throughput table (connection.c), the estimate   *)
(* kept in it for every pair of a client and a server address, and the     *)
(* bitrate client2server puts into a video request (proxy.c).  The list of *)
(* bitrates is one global that every manifest replaces.                    *)
(*                                                                         *)
(* Throughput is real-valued in the code and an integer where it is        *)
(* stored: here it is an exact fraction until it is stored (the rounding   *)
(* of floats is not modelled).  Elapsed times are differences of           *)
(* gettimeofday: a clock that is set makes them zero or negative, a body   *)
(* that was there already makes them so short that no int holds the rate.  *)
(***************************************************************************)
EXTENDS Integers, Sequences, FiniteSets, SequencesExt

CONSTANTS Conns,         (* connections with a request outstanding or not   *)
          PairOf,        (* the addresses a connection joins                *)
          Films, Document, (* the children of each manifest's root element  *)
          NoFilm,        (* is none of the films                            *)
          Kilobits,      (* body sizes, as sum / 1000 * 8                   *)
          Milliseconds,  (* elapsed times                                   *)
          Num, Den,      (* alpha                                           *)
          FD_SETSIZE,    (* entries of the throughput table                 *)
          IntMax,        (* INT_MAX                                         *)
          Indefinite,    (* what the cast to int yields out of range        *)
          MaxSamples     (* bound on the bodies measured                    *)

Pairs == {PairOf[c] : c \in Conns}
Ints  == -(IntMax + 1)..IntMax

ASSUME AdaptAssumption ==
    /\ Document \in [Films -> Seq([name : {"media", "text"}, bitrate : Nat \cup {-1}])]
    /\ NoFilm \notin Films
    /\ Kilobits \subseteq Nat /\ Milliseconds \subseteq Int
    /\ Num \in Nat /\ Den \in Nat \ {0} /\ Num <= Den
    /\ FD_SETSIZE \in Nat \ {0}
    /\ IntMax \in Nat /\ Indefinite \in Ints
    /\ MaxSamples \in Nat

VARIABLES thru_l,    \* [pair, avg_put] in the order added; never removed
          bitrates,  \* the list in force
          latest,    \* history: the film whose manifest it came from
          rate,      \* cur_bitrate of the connection that asked last
          busy,      \* connections whose video body is awaited
          samples,   \* bodies measured so far, for the bound
          status     \* "serving", or "overrun": the table was indexed with -1

vars == <<thru_l, bitrates, latest, rate, busy, samples, status>>

-----------------------------------------------------------------------------
(* C's conversion of the fraction n/d to int, d > 0: towards zero, and     *)
(* Indefinite where no int is what that gives.                             *)
Trunc(n, d) == IF n >= 0 THEN n \div d ELSE -((-n) \div d)
Cast(n, d)  == IF Trunc(n, d) \in Ints THEN Trunc(n, d) ELSE Indefinite

(* Mutant: a rate that just fits is passed over. *)
MutStep(fit, acc, b) ==
    [chosen   |-> IF b > acc.chosen /\ b < fit THEN b ELSE acc.chosen,
     smallest |-> IF b < acc.smallest THEN b ELSE acc.smallest]

(* The client2server loop over the list: the largest bitrate so far that   *)
(* fits, and the smallest so far, which starts at 100.                     *)
Step(fit, acc, b) ==
    [chosen   |-> IF b > acc.chosen /\ b <= fit THEN b ELSE acc.chosen,
     smallest |-> IF b < acc.smallest THEN b ELSE acc.smallest]

Scan(fit) == FoldLeft(LAMBDA acc, b : Step(fit, acc, b),
                      [chosen |-> 0, smallest |-> 100], bitrates)

ChooseRate(avg) ==
    LET found == Scan(Trunc(2 * avg, 3))
    IN IF found.chosen <= 0 THEN found.smallest ELSE found.chosen

(* Mutant: the weights add up to more than one. *)
MutSmoothed(cur, kb, ms) ==
    LET d == IF ms < 0 THEN -ms ELSE ms
        n == IF ms < 0 THEN -(1000 * kb) ELSE 1000 * kb
    IN IF ms = 0 THEN Indefinite
       ELSE IF cur = 0 THEN Cast(n, d)
       ELSE Cast(Num * n + Den * cur * d, Den * d)

(* update_thruput: a sample of kb kilobits in ms milliseconds, smoothed    *)
(* into the estimate cur unless that is 0, its value before any sample.    *)
Smoothed(cur, kb, ms) ==
    LET d == IF ms < 0 THEN -ms ELSE ms
        n == IF ms < 0 THEN -(1000 * kb) ELSE 1000 * kb
    IN IF ms = 0 THEN Indefinite
       ELSE IF cur = 0 THEN Cast(n, d)
       ELSE Cast(Num * n + (Den - Num) * cur * d, Den * d)

IndexOf(p) == {i \in DOMAIN thru_l : thru_l[i].pair = p}

Init ==
    /\ thru_l = <<>> /\ bitrates = <<>> /\ latest = NoFilm
    /\ rate = 10
    /\ busy = {} /\ samples = 0
    /\ status = "serving"

(* Mutant: an element without a bitrate is not passed over. *)
MutKeep(list, e) == IF e.name = "media" THEN Append(list, e.bitrate) ELSE list

(* The bitrates of the media elements that have one, in document order;    *)
(* getBitrate is -1 for an element without.                                *)
Keep(list, e) ==
    IF e.name = "media" /\ e.bitrate # -1 THEN Append(list, e.bitrate) ELSE list

ParseXml(doc) == FoldLeft(Keep, <<>>, doc)

(* Mutant: only the first list is kept. *)
MutManifest(f) ==
    /\ status = "serving" /\ ParseXml(Document[f]) # <<>>
    /\ bitrates' = IF bitrates = <<>> THEN ParseXml(Document[f]) ELSE bitrates
    /\ latest' = f
    /\ UNCHANGED <<thru_l, rate, busy, samples, status>>

(* The manifest of film f arrives.  One without bitrates leaves the list   *)
(* in force, and is passed on instead.                                     *)
Manifest(f) ==
    /\ status = "serving" /\ ParseXml(Document[f]) # <<>>
    /\ bitrates' = ParseXml(Document[f])
    /\ latest' = f
    /\ UNCHANGED <<thru_l, rate, busy, samples, status>>

(* get_thru_by_addrs, or add_thru. *)
MutLookUp(p) == \* a new entry for every request
    /\ Len(thru_l) < FD_SETSIZE
    /\ thru_l' = Append(thru_l, [pair |-> p, avg_put |-> 0])

LookUp(p) ==
    \/ /\ IndexOf(p) # {}
       /\ UNCHANGED thru_l
    \/ /\ IndexOf(p) = {} /\ Len(thru_l) < FD_SETSIZE
       /\ thru_l' = Append(thru_l, [pair |-> p, avg_put |-> 0])

(* A request for a video: the bitrate is chosen and the clock started.     *)
Request(c) ==
    /\ status = "serving" /\ c \notin busy
    /\ LookUp(PairOf[c])
    /\ \E i \in DOMAIN thru_l' :
          /\ thru_l'[i].pair = PairOf[c]
          /\ rate' = ChooseRate(thru_l'[i].avg_put)
    /\ busy' = busy \cup {c}
    /\ UNCHANGED <<bitrates, latest, samples, status>>

(* Any other request takes its entry in the table as well. *)
RequestOther(c) ==
    /\ status = "serving" /\ c \notin busy
    /\ LookUp(PairOf[c])
    /\ UNCHANGED <<bitrates, latest, rate, busy, samples, status>>

(* The table is full: add_thru's -1 is used as an index. *)
RequestOverruns(c) ==
    /\ status = "serving" /\ c \notin busy
    /\ IndexOf(PairOf[c]) = {} /\ Len(thru_l) >= FD_SETSIZE
    /\ status' = "overrun"
    /\ UNCHANGED <<thru_l, bitrates, latest, rate, busy, samples>>

(* The body has come in: update_thruput on the entry of its pair. *)
Finish(c, kb, ms) ==
    /\ status = "serving" /\ c \in busy /\ samples < MaxSamples
    /\ samples' = samples + 1
    /\ \E i \in IndexOf(PairOf[c]) :
          thru_l' = [thru_l EXCEPT ![i].avg_put = Smoothed(@, kb, ms)]
    /\ busy' = busy \ {c}
    /\ UNCHANGED <<bitrates, latest, rate, status>>

Next == \/ \E f \in Films : Manifest(f)
        \/ \E c \in Conns : Request(c) \/ RequestOther(c) \/ RequestOverruns(c)
        \/ \E c \in Conns, kb \in Kilobits, ms \in Milliseconds : Finish(c, kb, ms)

Spec == Init /\ [][Next]_vars

-----------------------------------------------------------------------------
(* Type correctness. *)
TypeOK ==
    /\ thru_l \in Seq([pair : Pairs, avg_put : Ints])
    /\ bitrates \in Seq(Nat) /\ latest \in Films \cup {NoFilm}
    /\ rate \in Nat
    /\ busy \subseteq Conns /\ samples \in 0..MaxSamples
    /\ status \in {"serving", "overrun"}

(* The table has one entry for a pair however its requests interleave, and *)
(* one is there for every body awaited.                                    *)
OneEstimate ==
    /\ \A i, j \in DOMAIN thru_l : thru_l[i].pair = thru_l[j].pair => i = j
    /\ \A c \in busy : IndexOf(PairOf[c]) # {}

(* Reference: the best bitrate that two thirds of the estimate carry, else *)
(* the lowest offered, and never above the floor of 100.                   *)
Carried(offered, avg) == {b \in offered : 3 * b <= 2 * avg}

IsBestRate(r, offered, avg) ==
    IF Carried(offered, avg) # {}
    THEN r \in Carried(offered, avg) /\ \A b \in Carried(offered, avg) : b <= r
    ELSE r \in offered \cup {100} /\ \A b \in offered \cup {100} : r <= b

Estimate(p) == IF IndexOf(p) = {} THEN 0 ELSE thru_l[CHOOSE i \in IndexOf(p) : TRUE].avg_put

(* A manifest's bitrates, as a set; before any manifest there are none.    *)
Offered(f) == IF f = NoFilm THEN {}
              ELSE {e.bitrate : e \in {x \in ToSet(Document[f]) : x.name = "media"}} \ {-1}

(* Every video request asks for the best bitrate among those of the film   *)
(* whose manifest came in last with any, whatever order they are in there, *)
(* whatever manifests came before, and however bad the estimate: a viewer  *)
(* is asked for a rate that is not its film's only when another film's     *)
(* manifest was fetched since its own, or by the floor of 100.             *)
BestRateAsked ==
    [][\A c \in Conns :
          Request(c) => IsBestRate(rate', Offered(latest), Estimate(PairOf[c]))]_vars

(* A sample that an int holds pulls the estimate towards itself and never  *)
(* past itself: one outlier cannot throw it beyond what was measured.      *)
Between(x, a, b) == (a <= x /\ x <= b) \/ (b <= x /\ x <= a)

PulledTowardsSample ==
    [][\A c \in Conns, kb \in Kilobits, ms \in Milliseconds :
          LET p == PairOf[c]
              sample == Smoothed(0, kb, ms)
          IN Finish(c, kb, ms) /\ Estimate(p) # 0 /\ sample # Indefinite =>
                 Between(Estimate(p)', Estimate(p), sample)]_vars
=============================================================================
