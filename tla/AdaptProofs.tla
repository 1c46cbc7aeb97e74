---------------------------- MODULE AdaptProofs -----------------------------
(***************************************************************************)
(* Bitrate adaptation, for any connections, manifests and samples.  The    *)
(* throughput table keeps one entry for each pair of addresses and every   *)
(* body awaited finds its own, a sample pulls the estimate towards itself  *)
(* and not past itself, and each request asks for the best rate that two   *)
(* thirds of the estimate carry.  The two loops, over a document and over  *)
(* the list of rates, are folds whose turns are followed one by one.       *)
(***************************************************************************)
EXTENDS Adapt, BasicLemmas

Entry == [pair : Pairs, avg_put : Ints]

Inv == /\ thru_l \in Seq(Entry)
       /\ busy \subseteq Conns
       /\ OneEstimate

(* The ints are integers and zero is one. *)
LEMMA IntsAre == Ints \subseteq Int /\ 0 \in Ints
BY AdaptAssumption DEF Ints

(* A sample smoothed into an estimate is again an int. *)
LEMMA SmoothedInt ==
    ASSUME NEW cur, NEW kb, NEW ms
    PROVE  Smoothed(cur, kb, ms) \in Ints
<1>1. \A n, d : Cast(n, d) \in Ints
  BY AdaptAssumption DEF Cast
<1>2. Indefinite \in Ints
  BY AdaptAssumption
<1> QED BY <1>1, <1>2 DEF Smoothed

(* LookUp finds the pair or adds it, and disturbs no other entry. *)
LEMMA LookUpKeeps ==
    ASSUME Inv, NEW p \in Pairs, LookUp(p)
    PROVE  /\ thru_l' \in Seq(Entry)
           /\ \A i, j \in DOMAIN thru_l' : thru_l'[i].pair = thru_l'[j].pair => i = j
           /\ \A q \in Pairs : IndexOf(q) # {} => IndexOf(q)' # {}
           /\ IndexOf(p)' # {}
<1>1. CASE IndexOf(p) # {} /\ UNCHANGED thru_l
  BY <1>1 DEF Inv, OneEstimate, IndexOf
<1>2. CASE IndexOf(p) = {} /\ thru_l' = Append(thru_l, [pair |-> p, avg_put |-> 0])
  <2> DEFINE e == [pair |-> p, avg_put |-> 0]
             n == Len(thru_l)
  <2>1. e \in Entry /\ e.pair = p
    BY IntsAre DEF Entry
  <2> HIDE DEF e
  <2>2. thru_l \in Seq(Entry) /\ n \in Nat /\ DOMAIN thru_l = 1..n
    BY DEF Inv
  <2>3. /\ thru_l' \in Seq(Entry)
        /\ DOMAIN thru_l' = 1..(n + 1)
        /\ \A i \in 1..n : thru_l'[i] = thru_l[i]
        /\ thru_l'[n + 1] = e
    BY <1>2, <2>1, <2>2 DEF e
  <2>4. \A i \in 1..n : thru_l[i].pair # p
    BY <1>2, <2>2 DEF IndexOf
  <2>5. \A i, j \in DOMAIN thru_l' : thru_l'[i].pair = thru_l'[j].pair => i = j
    <3>1. \A i, j \in 1..n : thru_l[i].pair = thru_l[j].pair => i = j
      BY <2>2 DEF Inv, OneEstimate
    <3>2. \A i \in 1..(n + 1) : i \in 1..n \/ i = n + 1
      BY <2>2
    <3> QED BY <2>1, <2>3, <2>4, <3>1, <3>2
  <2>6. \A q \in Pairs : IndexOf(q) # {} => IndexOf(q)' # {}
    BY <2>2, <2>3 DEF IndexOf
  <2>7. IndexOf(p)' # {}
    BY <2>1, <2>2, <2>3 DEF IndexOf
  <2> QED BY <2>3, <2>5, <2>6, <2>7
<1> QED BY <1>1, <1>2 DEF LookUp

(* Every step keeps the table as it should be. *)
LEMMA StepInv == Inv /\ [Next]_vars => Inv'
<1> SUFFICES ASSUME Inv, [Next]_vars PROVE Inv'
  OBVIOUS
<1>0. \A c \in Conns : PairOf[c] \in Pairs
  BY DEF Pairs
<1>1. ASSUME NEW f \in Films, Manifest(f) PROVE Inv'
  BY <1>1 DEF Manifest, Inv, OneEstimate, IndexOf
<1>2. ASSUME NEW c \in Conns, Request(c) PROVE Inv'
  <2>1. LookUp(PairOf[c]) /\ busy' = busy \cup {c}
    BY <1>2 DEF Request
  <2>2. /\ thru_l' \in Seq(Entry)
        /\ \A i, j \in DOMAIN thru_l' : thru_l'[i].pair = thru_l'[j].pair => i = j
        /\ \A q \in Pairs : IndexOf(q) # {} => IndexOf(q)' # {}
        /\ IndexOf(PairOf[c])' # {}
    BY <1>0, <2>1, LookUpKeeps
  <2>3. \A k \in busy' : IndexOf(PairOf[k])' # {}
    BY <1>0, <2>1, <2>2 DEF Inv, OneEstimate
  <2>4. OneEstimate'
    BY <2>2, <2>3 DEF OneEstimate, IndexOf
  <2> QED BY <2>1, <2>2, <2>4 DEF Inv
<1>3. ASSUME NEW c \in Conns, RequestOther(c) PROVE Inv'
  <2>1. LookUp(PairOf[c]) /\ busy' = busy
    BY <1>3 DEF RequestOther
  <2>2. /\ thru_l' \in Seq(Entry)
        /\ \A i, j \in DOMAIN thru_l' : thru_l'[i].pair = thru_l'[j].pair => i = j
        /\ \A q \in Pairs : IndexOf(q) # {} => IndexOf(q)' # {}
    BY <1>0, <2>1, LookUpKeeps
  <2>3. OneEstimate'
    BY <1>0, <2>1, <2>2 DEF Inv, OneEstimate, IndexOf
  <2> QED BY <2>1, <2>2, <2>3 DEF Inv
<1>4. ASSUME NEW c \in Conns, RequestOverruns(c) PROVE Inv'
  BY <1>4 DEF RequestOverruns, Inv, OneEstimate, IndexOf
<1>5. ASSUME NEW c \in Conns, NEW kb \in Kilobits, NEW ms \in Milliseconds, Finish(c, kb, ms)
      PROVE  Inv'
  <2>1. PICK i \in IndexOf(PairOf[c]) :
            thru_l' = [thru_l EXCEPT ![i].avg_put = Smoothed(@, kb, ms)]
    BY <1>5 DEF Finish
  <2>2. thru_l \in Seq(Entry) /\ i \in DOMAIN thru_l /\ thru_l[i] \in Entry
    BY DEF Inv, IndexOf
  <2>4. Smoothed(thru_l[i].avg_put, kb, ms) \in Ints
    BY SmoothedInt
  <2> DEFINE s == Smoothed(thru_l[i].avg_put, kb, ms)
             e == [thru_l[i] EXCEPT !.avg_put = s]
  <2>5. thru_l' = [thru_l EXCEPT ![i] = e]
    BY <2>1
  <2>6. e \in Entry /\ e.pair = thru_l[i].pair
    <3> HIDE DEF s
    <3> QED BY <2>2, <2>4 DEF Entry, s
  <2> HIDE DEF e
  <2>7. /\ thru_l' \in Seq(Entry)
        /\ DOMAIN thru_l' = DOMAIN thru_l
        /\ \A j \in DOMAIN thru_l : thru_l'[j].pair = thru_l[j].pair
    BY <2>2, <2>5, <2>6
  <2>8. busy' \subseteq busy
    BY <1>5 DEF Finish
  <2>9. OneEstimate'
    BY <2>7, <2>8 DEF Inv, OneEstimate, IndexOf
  <2> QED BY <2>7, <2>8, <2>9 DEF Inv
<1>6. CASE UNCHANGED vars
  BY <1>6 DEF vars, Inv, OneEstimate, IndexOf
<1> QED BY <1>1, <1>2, <1>3, <1>4, <1>5, <1>6 DEF Next

(* The table never holds two estimates for one pair of addresses, and      *)
(* update_thruput always finds the entry of the body that came in.         *)
THEOREM AdaptOneEstimate == Spec => []OneEstimate
<1>1. Init => Inv
  BY DEF Init, Inv, OneEstimate, IndexOf
<1>2. Inv => OneEstimate
  BY DEF Inv
<1> QED BY <1>1, <1>2, StepInv, PTL DEF Spec


-----------------------------------------------------------------------------
(* Smoothing.  What truncation leaves of a fraction keeps its place among  *)
(* the integers and among the fractions over the same denominator.         *)
LEMMA Products ==
    ASSUME NEW a \in Int, NEW b \in Int, NEW k \in Nat
    PROVE  /\ a <= b => k * a <= k * b
           /\ k > 0 /\ k * a <= k * b => a <= b
           /\ k > 0 /\ k * a < k * b => a < b
<1>1. CASE a <= b
  <2>1. PICK r \in Nat : b = a + r
    <3>1. b - a \in Nat /\ b = a + (b - a)
      BY <1>1
    <3> QED BY <3>1
  <2>2. PICK s \in Nat : s = k * r
    OBVIOUS
  <2>3. k * b = k * a + s
    BY <2>1, <2>2
  <2>4. k > 0 /\ r > 0 => s > 0
    BY <2>2
  <2>5. k * a \in Int
    OBVIOUS
  <2> QED BY <2>1, <2>2, <2>3, <2>4, <2>5
<1>2. CASE b < a
  <2>1. PICK r \in Nat : a = b + r /\ r > 0
    <3>1. a - b \in Nat /\ a = b + (a - b) /\ a - b > 0
      BY <1>2
    <3> QED BY <3>1
  <2>2. PICK s \in Nat : s = k * r
    OBVIOUS
  <2>3. k * a = k * b + s
    BY <2>1, <2>2
  <2>4. k > 0 => s > 0
    BY <2>1, <2>2
  <2>5. k * b \in Int
    OBVIOUS
  <2> QED BY <1>2, <2>2, <2>3, <2>4, <2>5
<1> QED BY <1>1, <1>2

LEMMA DivIs ==
    ASSUME NEW a \in Nat, NEW q \in Nat, q > 0
    PROVE  a \div q \in Nat /\ q * (a \div q) <= a /\ a < q * ((a \div q) + 1)
BY Z3

LEMMA TruncBounds ==
    ASSUME NEW a \in Int, NEW q \in Nat, q > 0, NEW x \in Int
    PROVE  /\ Trunc(a, q) \in Int
           /\ q * x <= a => x <= Trunc(a, q)
           /\ a <= q * x => Trunc(a, q) <= x
<1>1. CASE a >= 0
  <2>1. PICK t : t = a \div q
    OBVIOUS
  <2>2. t \in Nat /\ q * t <= a /\ a < q * (t + 1) /\ Trunc(a, q) = t
    BY <1>1, <2>1, DivIs DEF Trunc
  <2>3. ASSUME q * x <= a PROVE x <= t
    <3>1. q * x < q * (t + 1)
      BY <2>2, <2>3
    <3>2. x < t + 1
      BY <2>2, <3>1, Products
    <3> QED BY <2>2, <3>2
  <2>4. ASSUME a <= q * x PROVE t <= x
    <3>1. q * t <= q * x
      BY <2>2, <2>4
    <3> QED BY <2>2, <3>1, Products
  <2> QED BY <2>2, <2>3, <2>4
<1>2. CASE a < 0
  <2>1. PICK t : t = (-a) \div q
    OBVIOUS
  <2>2. t \in Nat /\ q * t <= -a /\ -a < q * (t + 1) /\ Trunc(a, q) = -t
    BY <1>2, <2>1, DivIs DEF Trunc
  <2>3. PICK y \in Int : y = -x
    OBVIOUS
  <2>4. q * y = -(q * x)
    BY <2>3
  <2>5. ASSUME q * x <= a PROVE x <= -t
    <3>1. q * t <= q * y
      BY <2>2, <2>4, <2>5
    <3>2. t <= y
      BY <2>2, <3>1, Products
    <3> QED BY <2>2, <2>3, <3>2
  <2>6. ASSUME a <= q * x PROVE -t <= x
    <3>1. q * y < q * (t + 1)
      BY <2>2, <2>4, <2>6
    <3>2. y < t + 1
      BY <2>2, <3>1, Products
    <3> QED BY <2>2, <2>3, <3>2
  <2> QED BY <2>2, <2>5, <2>6
<1> QED BY <1>1, <1>2

LEMMA TruncOrder ==
    ASSUME NEW a \in Int, NEW b \in Int, a <= b, NEW q \in Nat, q > 0
    PROVE  Trunc(a, q) <= Trunc(b, q)
<1>1. CASE a >= 0
  <2>1. PICK t : t = a \div q
    OBVIOUS
  <2>2. t \in Nat /\ q * t <= a /\ Trunc(a, q) = t
    BY <1>1, <2>1, DivIs DEF Trunc
  <2>3. q * t <= b
    BY <2>2
  <2> QED BY <2>2, <2>3, TruncBounds
<1>2. CASE b < 0
  <2>1. PICK t : t = (-b) \div q
    OBVIOUS
  <2>2. t \in Nat /\ q * t <= -b /\ Trunc(b, q) = -t
    BY <1>2, <2>1, DivIs DEF Trunc
  <2>3. PICK y \in Int : y = -t
    BY <2>2
  <2>4. q * y = -(q * t)
    BY <2>2, <2>3
  <2>5. a <= q * y
    BY <2>2, <2>4
  <2>6. Trunc(a, q) <= y
    BY <2>5, TruncBounds
  <2> QED BY <2>2, <2>3, <2>6
<1>3. CASE a < 0 /\ b >= 0
  <2>1. a <= q * 0 /\ q * 0 <= b
    BY <1>3
  <2>2. Trunc(a, q) <= 0 /\ 0 <= Trunc(b, q)
    BY <2>1, TruncBounds
  <2>3. Trunc(a, q) \in Int /\ Trunc(b, q) \in Int
    BY TruncBounds
  <2> QED BY <2>2, <2>3
<1> QED BY <1>1, <1>2, <1>3

LEMMA DivScales ==
    ASSUME NEW a \in Nat, NEW q \in Nat, q > 0, NEW k \in Nat, k > 0
    PROVE  (k * a) \div (k * q) = a \div q
<1>1. PICK t : t = a \div q
  OBVIOUS
<1>2. t \in Nat /\ q * t <= a /\ a < q * (t + 1)
  BY <1>1, DivIs
<1>3. PICK r \in Nat : r = k * q
  OBVIOUS
<1>4. PICK b \in Nat : b = k * a
  OBVIOUS
<1>5. r > 0
  BY <1>3
<1>6. PICK u : u = b \div r
  OBVIOUS
<1>7. u \in Nat /\ r * u <= b /\ b < r * (u + 1)
  BY <1>5, <1>6, DivIs
<1>8. r * t <= b
  <2>1. PICK x \in Nat : x = q * t
    BY <1>2
  <2>2. r * t = k * x
    BY <1>2, <1>3, <2>1
  <2>3. k * x <= k * a
    BY <1>2, <2>1, Products
  <2> QED BY <1>4, <2>2, <2>3
<1>9. b < r * (t + 1)
  <2>1. PICK x \in Nat : x = q * (t + 1)
    BY <1>2
  <2>2. r * (t + 1) = k * x
    BY <1>2, <1>3, <2>1
  <2>3. k * x \in Nat /\ k * a \in Nat /\ ~(k * x <= k * a)
    <3>1. ~(x <= a)
      BY <1>2, <2>1
    <3> QED BY <2>1, <3>1, Products
  <2> QED BY <1>4, <2>2, <2>3
<1>10. r * t < r * (u + 1) /\ r * u < r * (t + 1)
  <2>1. r * t \in Int /\ r * u \in Int /\ r * (u + 1) \in Int /\ r * (t + 1) \in Int
    BY <1>2, <1>7
  <2> QED BY <1>7, <1>8, <1>9, <2>1
<1>11. t < u + 1 /\ u < t + 1
  <2>1. u + 1 \in Int /\ t + 1 \in Int
    BY <1>2, <1>7
  <2> QED BY <1>2, <1>5, <1>7, <1>10, <2>1, Products
<1>12. t = u
  BY <1>2, <1>7, <1>11
<1> QED BY <1>1, <1>3, <1>4, <1>6, <1>12

LEMMA TruncScales ==
    ASSUME NEW a \in Int, NEW q \in Nat, q > 0, NEW k \in Nat, k > 0
    PROVE  Trunc(k * a, k * q) = Trunc(a, q)
<1>1. CASE a >= 0
  <2>1. k * a >= 0
    BY <1>1
  <2>2. (k * a) \div (k * q) = a \div q
    BY <1>1, DivScales
  <2> QED BY <1>1, <2>1, <2>2 DEF Trunc
<1>2. CASE a < 0
  <2>1. k * a < 0
    BY <1>2
  <2>2. PICK b \in Nat : b = -a
    BY <1>2
  <2>3. -(k * a) = k * b
    BY <2>2
  <2>4. (k * b) \div (k * q) = b \div q
    BY DivScales
  <2> QED BY <1>2, <2>1, <2>2, <2>3, <2>4 DEF Trunc
<1> QED BY <1>1, <1>2


LEMMA SmoothedBetween ==
    ASSUME NEW cur \in Ints, cur # 0, NEW kb \in Kilobits,
           NEW ms \in Milliseconds, Smoothed(0, kb, ms) # Indefinite
    PROVE  Between(Smoothed(cur, kb, ms), cur, Smoothed(0, kb, ms))
<1>0. cur \in Int /\ ms # 0
  BY IntsAre DEF Smoothed
<1>1. ms \in Int /\ kb \in Nat /\ Num \in Nat /\ Den \in Nat /\ Den > 0 /\ Num <= Den
  BY AdaptAssumption
<1>2. PICK d \in Nat : d = (IF ms < 0 THEN -ms ELSE ms) /\ d > 0
  BY <1>0, <1>1
<1>3. PICK n \in Int : n = IF ms < 0 THEN -(1000 * kb) ELSE 1000 * kb
  BY <1>1
<1>4. PICK w \in Nat : w = Den - Num
  BY <1>1
<1>5. PICK c \in Int : c = cur * d
  BY <1>0
<1>6. PICK m \in Int : m = Num * n + w * c
  BY <1>1
<1>7. PICK q \in Nat : q = Den * d /\ q > 0
  <2>1. \A x, y \in Nat : x > 0 /\ y > 0 => x * y \in Nat /\ x * y > 0
    OBVIOUS
  <2> QED BY <1>1, <1>2, <2>1
<1>8. Num * n + (Den - Num) * cur * d = m
  BY <1>0, <1>1, <1>4, <1>5, <1>6
<1>9. Smoothed(0, kb, ms) = Cast(n, d) /\ Smoothed(cur, kb, ms) = Cast(m, q)
  BY <1>0, <1>2, <1>3, <1>7, <1>8 DEF Smoothed
<1>10. Trunc(Den * n, q) = Trunc(n, d)
  BY <1>1, <1>2, <1>7, TruncScales
<1>11. PICK f \in Int : f = Den * n
  BY <1>1
<1>12. PICK g \in Int : g = Num * n
  BY <1>1
<1>13. PICK h \in Int : h = Num * c
  BY <1>1
<1>14. f = g + w * n /\ Den * c = h + w * c /\ w * n \in Int /\ w * c \in Int /\ m = g + w * c
  BY <1>1, <1>4, <1>6, <1>11, <1>12, <1>13
<1>15. Den * c = q * cur
  BY <1>0, <1>1, <1>2, <1>5, <1>7
<1>16. Trunc(n, d) \in Int /\ Trunc(m, q) \in Int
  BY <1>2, <1>7, TruncBounds
<1>17. PICK x \in Int, y \in Int : x = Trunc(n, d) /\ y = Trunc(m, q)
  BY <1>16
<1>18. Smoothed(0, kb, ms) = x /\ x \in Ints
  BY <1>9, <1>17 DEF Cast
<1>19. Between(y, cur, x) => y \in Ints
  BY <1>0, <1>17, <1>18, AdaptAssumption DEF Between, Ints
<1>20. y \in Ints => Smoothed(cur, kb, ms) = y
  BY <1>9, <1>17 DEF Cast
<1>21. CASE n <= c
  <2>1. w * n <= w * c /\ g <= h
    BY <1>1, <1>12, <1>13, <1>21, Products
  <2>2. f <= m /\ m <= q * cur
    BY <1>14, <1>15, <2>1
  <2>3. Trunc(f, q) <= Trunc(m, q) /\ Trunc(m, q) <= cur
    BY <1>0, <1>7, <2>2, TruncOrder, TruncBounds
  <2>4. Between(y, cur, x)
    BY <1>10, <1>11, <1>17, <2>3 DEF Between
  <2> QED BY <1>18, <1>19, <1>20, <2>4
<1>22. CASE c <= n
  <2>1. w * c <= w * n /\ h <= g
    BY <1>1, <1>12, <1>13, <1>22, Products
  <2>2. m <= f /\ q * cur <= m
    BY <1>14, <1>15, <2>1
  <2>3. Trunc(m, q) <= Trunc(f, q) /\ cur <= Trunc(m, q)
    BY <1>0, <1>7, <2>2, TruncOrder, TruncBounds
  <2>4. Between(y, cur, x)
    BY <1>10, <1>11, <1>17, <2>3 DEF Between
  <2> QED BY <1>18, <1>19, <1>20, <2>4
<1>23. n <= c \/ c <= n
  OBVIOUS
<1> QED BY <1>21, <1>22, <1>23

(* The entry of a pair is its estimate. *)
LEMMA EstimateIs ==
    ASSUME Inv, NEW p, NEW i \in IndexOf(p)
    PROVE  Estimate(p) = thru_l[i].avg_put
<1>1. \A j, k \in IndexOf(p) : j = k
  BY DEF Inv, OneEstimate, IndexOf
<1>2. (CHOOSE j \in IndexOf(p) : TRUE) = i
  BY <1>1
<1> QED BY <1>2 DEF Estimate

(* No sample overshoots: after update_thruput the estimate of the pair is  *)
(* between what it was and what was measured, where an int holds that.     *)
THEOREM AdaptNoOvershoot == Spec => PulledTowardsSample
<1> DEFINE Pulled == \A c \in Conns, kb \in Kilobits, ms \in Milliseconds :
                       LET p == PairOf[c]
                           sample == Smoothed(0, kb, ms)
                       IN Finish(c, kb, ms) /\ Estimate(p) # 0 /\ sample # Indefinite =>
                            Between(Estimate(p)', Estimate(p), sample)
<1>1. Init => Inv
  BY DEF Init, Inv, OneEstimate, IndexOf
<1>2. Inv /\ Inv' => Pulled
  <2> SUFFICES ASSUME Inv, Inv', NEW c \in Conns, NEW kb \in Kilobits,
                      NEW ms \in Milliseconds, Finish(c, kb, ms),
                      Estimate(PairOf[c]) # 0, Smoothed(0, kb, ms) # Indefinite
               PROVE  Between(Estimate(PairOf[c])', Estimate(PairOf[c]), Smoothed(0, kb, ms))
    OBVIOUS
  <2>1. PICK i \in IndexOf(PairOf[c]) :
            thru_l' = [thru_l EXCEPT ![i].avg_put = Smoothed(@, kb, ms)]
    BY DEF Finish
  <2>2. thru_l \in Seq(Entry) /\ i \in DOMAIN thru_l /\ thru_l[i] \in Entry
    BY DEF Inv, IndexOf
  <2>3. PICK cur \in Ints : cur = thru_l[i].avg_put
    BY <2>2 DEF Entry
  <2>4. PICK s : s = Smoothed(cur, kb, ms)
    OBVIOUS
  <2>5. thru_l' = [thru_l EXCEPT ![i].avg_put = s]
    BY <2>1, <2>3, <2>4
  <2>6. thru_l'[i].avg_put = s /\ thru_l'[i].pair = thru_l[i].pair /\ i \in DOMAIN thru_l'
    BY <2>2, <2>5 DEF Entry
  <2>7. i \in IndexOf(PairOf[c])'
    BY <2>1, <2>6 DEF IndexOf
  <2>8. Estimate(PairOf[c]) = cur
    BY <2>3, EstimateIs
  <2>9. Estimate(PairOf[c])' = s
    <3>1. (CHOOSE j \in IndexOf(PairOf[c])' : TRUE) = i
      BY <2>7 DEF Inv, OneEstimate, IndexOf
    <3> QED BY <2>6, <2>7, <3>1 DEF Estimate, IndexOf
  <2>10. Between(s, cur, Smoothed(0, kb, ms))
    BY <2>4, <2>8, SmoothedBetween
  <2> QED BY <2>8, <2>9, <2>10
<1>3. Inv /\ Inv' => [Pulled]_vars
  BY <1>2
<1>4. ([][Pulled]_vars) => PulledTowardsSample
  BY DEF PulledTowardsSample
<1> HIDE DEF Pulled
<1> QED BY <1>1, <1>3, <1>4, StepInv, PTL DEF Spec


-----------------------------------------------------------------------------
(* The loops over lists.  What parse_xml has kept of the first elements of *)
(* a document.                                                             *)
Child == [name : {"media", "text"}, bitrate : Nat \cup {-1}]

Rates(S) == {e.bitrate : e \in {x \in S : x.name = "media"}} \ {-1}

LEMMA KeepIs ==
    ASSUME NEW s \in Seq(Nat), NEW e \in Child
    PROVE  /\ Keep(s, e) \in Seq(Nat)
           /\ ToSet(Keep(s, e)) = ToSet(s) \cup Rates({e})
<1>1. CASE e.name = "media" /\ e.bitrate # -1
  <2>1. PICK b \in Nat : b = e.bitrate
    BY <1>1 DEF Child
  <2>2. Keep(s, e) = Append(s, b)
    BY <1>1, <2>1 DEF Keep
  <2>3. Rates({e}) = {b}
    BY <1>1, <2>1 DEF Rates
  <2>4. Append(s, b) \in Seq(Nat) /\ ToSet(Append(s, b)) = ToSet(s) \cup {b}
    BY AppendedIs
  <2> QED BY <2>2, <2>3, <2>4
<1>2. CASE ~(e.name = "media" /\ e.bitrate # -1)
  <2>1. Rates({e}) = {}
    BY <1>2 DEF Rates
  <2> QED BY <1>2, <2>1 DEF Keep
<1> QED BY <1>1, <1>2

(* The lists after each child: the fold's turns, one by one. *)
LEMMA KeepTurns ==
    ASSUME NEW t \in Seq(Child)
    PROVE  \E L : /\ L[0] = <<>> /\ L[Len(t)] = ParseXml(t)
                  /\ \A i \in 1..Len(t) : L[i] = Keep(L[i - 1], t[i])
<1> DEFINE n == Len(t)
           F == [p \in (1..n) \X Seq(Nat) |-> Keep(p[2], t[p[1]])]
<1>1. n \in Nat /\ DOMAIN t = 1..n /\ \A i \in 1..n : t[i] \in Child
  OBVIOUS
<1> HIDE DEF n
<1>2. F \in [(1..n) \X Seq(Nat) -> Seq(Nat)]
  BY <1>1, KeepIs
<1>3. \A i \in 1..n, a \in Seq(Nat) : F[<<i, a>>] = Keep(a, t[i])
  OBVIOUS
<1>0. <<>> \in Seq(Nat)
  OBVIOUS
<1> HIDE DEF F
<1>4. PICK g \in [SUBSET (1..n) -> Seq(Nat)] :
        \A x \in SUBSET (1..n) :
            g[x] = IF x = {} THEN <<>> ELSE F[<<Max(x), g[x \ {Max(x)}]>>]
  <2>1. PICK V : V = Seq(Nat)
    OBVIOUS
  <2>2. <<>> \in V /\ Turns(F, n, V)
    BY <1>0, <1>2, <2>1 DEF Turns
  <2>3. \E g : FoldOf(g, F, <<>>, n, V)
    BY <1>1, <2>2, FoldExists
  <2> QED BY <2>1, <2>3 DEF FoldOf
<1>5. ASSUME NEW x \in SUBSET (1..n)
      PROVE  g[x] = IF x = {} THEN <<>> ELSE Keep(g[x \ {Max(x)}], t[Max(x)])
  <2>1. CASE x = {}
    BY <1>4, <2>1
  <2>2. CASE x # {}
    <3>1. Max(x) \in 1..n
      BY <1>1, <2>2, MaxIn
    <3>2. x \ {Max(x)} \in SUBSET (1..n) /\ g[x \ {Max(x)}] \in Seq(Nat)
      BY <1>4
    <3> QED BY <1>3, <1>4, <2>2, <3>1, <3>2
  <2> QED BY <2>1, <2>2
<1>6. g = [x \in SUBSET (1..n) |->
             IF x = {} THEN <<>> ELSE Keep(g[x \ {Max(x)}], t[Max(x)])]
  <2>1. DOMAIN g = SUBSET (1..n)
    BY <1>4
  <2> QED BY <1>5, <2>1
<1>7. PICK h : h = CHOOSE f : f = [x \in SUBSET (1..n) |->
          IF x = {} THEN <<>> ELSE Keep(f[x \ {Max(x)}], t[Max(x)])]
  OBVIOUS
<1>8. h = [x \in SUBSET (1..n) |->
             IF x = {} THEN <<>> ELSE Keep(h[x \ {Max(x)}], t[Max(x)])]
  BY <1>6, <1>7
<1>9. ParseXml(t) = h[1..n]
  BY <1>1, <1>7 DEF ParseXml, FoldLeft, MapThenFoldSet
<1> DEFINE L == [i \in 0..n |-> h[1..i]]
<1>10. L[0] = <<>> /\ L[n] = h[1..n]
  <2>1. 1..0 = {} /\ {} \in SUBSET (1..n) /\ 0 \in 0..n /\ n \in 0..n
    BY <1>1
  <2> QED BY <1>8, <2>1
<1>11. ASSUME NEW i \in 1..n PROVE L[i] = Keep(L[i - 1], t[i])
  <2>1. /\ 1..i \in SUBSET (1..n) /\ 1..i # {} /\ Max(1..i) = i
        /\ (1..i) \ {i} = 1..(i - 1)
    BY <1>1, IndexSets
  <2>2. h[1..i] = Keep(h[1..(i - 1)], t[i])
    BY <1>8, <2>1
  <2>3. i \in 0..n /\ i - 1 \in 0..n
    BY <1>1
  <2> QED BY <2>2, <2>3
<1> HIDE DEF L
<1>12. \A i \in 1..n : L[i] = Keep(L[i - 1], t[i])
  BY <1>11
<1>13. L[0] = <<>> /\ L[n] = ParseXml(t)
  BY <1>9, <1>10
<1> QED BY <1>12, <1>13 DEF n

LEMMA ParsedIs ==
    ASSUME NEW t \in Seq(Child)
    PROVE  ParseXml(t) \in Seq(Nat) /\ ToSet(ParseXml(t)) = Rates(ToSet(t))
<1>0. PICK n \in Nat : n = Len(t)
  OBVIOUS
<1>1. DOMAIN t = 1..n /\ \A i \in 1..n : t[i] \in Child
  BY <1>0
<1>2. PICK L : /\ L[0] = <<>> /\ L[n] = ParseXml(t)
               /\ \A i \in 1..n : L[i] = Keep(L[i - 1], t[i])
  BY <1>0, KeepTurns
<1> DEFINE First(i) == {t[m] : m \in 1..i}
           Good(a, i) == a \in Seq(Nat) /\ ToSet(a) = Rates(First(i))
           D == {i \in Nat : i <= n => Good(L[i], i)}
<1>3. 0 \in D
  <2>1. <<>> \in Seq(Nat) /\ ToSet(<<>>) = {}
    BY ShortQueues
  <2>2. First(0) = {}
    OBVIOUS
  <2>3. Rates({}) = {}
    BY DEF Rates
  <2> HIDE DEF First
  <2> QED BY <1>2, <2>1, <2>2, <2>3
<1>4. ASSUME NEW i \in Nat, i \in D PROVE i + 1 \in D
  <2> SUFFICES ASSUME i + 1 <= n PROVE Good(L[i + 1], i + 1)
    OBVIOUS
  <2>1. PICK m : m = i + 1
    OBVIOUS
  <2>2. m \in 1..n /\ m - 1 = i /\ t[m] \in Child
    BY <1>0, <1>1, <2>1
  <2>3. PICK a, e : a = L[i] /\ e = t[m]
    OBVIOUS
  <2>4. Good(a, i) /\ e \in Child
    BY <1>0, <1>4, <2>1, <2>2, <2>3
  <2>5. L[m] = Keep(a, e)
    BY <1>2, <2>2, <2>3
  <2>6. First(m) = First(i) \cup {e}
    <3>1. \A q : q \in 1..m <=> q \in 1..i \/ q = m
      BY <2>1
    <3> QED BY <2>3, <3>1
  <2> HIDE DEF First
  <2>7. Keep(a, e) \in Seq(Nat) /\ ToSet(Keep(a, e)) = ToSet(a) \cup Rates({e})
    BY <2>4, KeepIs
  <2>8. Rates(First(i) \cup {e}) = Rates(First(i)) \cup Rates({e})
    BY DEF Rates
  <2>9. Good(L[m], m)
    BY <2>4, <2>5, <2>6, <2>7, <2>8
  <2> QED BY <2>1, <2>9
<1> HIDE DEF D
<1>5. n \in D
  BY <1>3, <1>4, Induction
<1>6. First(n) = ToSet(t)
  BY <1>1 DEF ToSet
<1> HIDE DEF First
<1> QED BY <1>2, <1>5, <1>6 DEF D


-----------------------------------------------------------------------------
(* The choice of a rate.  What the loop over the list has found so far.    *)
Found == [chosen : Nat, smallest : Nat]

Nothing == [chosen |-> 0, smallest |-> 100]

(* What the loop has found among the rates S. *)
FoundIn(acc, S, fit) ==
    /\ acc.chosen \in S \cup {0}
    /\ acc.chosen > 0 => acc.chosen <= fit
    /\ \A b \in S : b <= fit => b <= acc.chosen
    /\ acc.smallest \in S \cup {100}
    /\ \A b \in S \cup {100} : acc.smallest <= b

LEMMA StepIs ==
    ASSUME NEW fit \in Int, NEW acc \in Found, NEW b \in Nat
    PROVE  /\ Step(fit, acc, b) \in Found
           /\ \A S \in SUBSET Nat : FoundIn(acc, S, fit) =>
                                    FoundIn(Step(fit, acc, b), S \cup {b}, fit)
<1>1. acc.chosen \in Nat /\ acc.smallest \in Nat
  BY DEF Found
<1>2. PICK r : r = Step(fit, acc, b)
  OBVIOUS
<1>3. /\ r.chosen = IF b > acc.chosen /\ b <= fit THEN b ELSE acc.chosen
      /\ r.smallest = IF b < acc.smallest THEN b ELSE acc.smallest
      /\ r \in Found
  BY <1>1, <1>2 DEF Step, Found
<1>4. ASSUME NEW S \in SUBSET Nat, FoundIn(acc, S, fit)
      PROVE  FoundIn(r, S \cup {b}, fit)
  <2>1. r.chosen \in S \cup {b} \cup {0} /\ (r.chosen > 0 => r.chosen <= fit)
    BY <1>1, <1>3, <1>4 DEF FoundIn
  <2>2. ASSUME NEW c \in S \cup {b}, c <= fit PROVE c <= r.chosen
    BY <1>1, <1>3, <1>4, <2>2 DEF FoundIn
  <2>3. r.smallest \in S \cup {b} \cup {100}
    BY <1>3, <1>4 DEF FoundIn
  <2>4. ASSUME NEW c \in S \cup {b} \cup {100} PROVE r.smallest <= c
    <3>1. c = b \/ (c \in Nat /\ acc.smallest <= c)
      BY <1>4, <2>4 DEF FoundIn
    <3> QED BY <1>1, <1>3, <3>1
  <2> QED BY <2>1, <2>2, <2>3, <2>4 DEF FoundIn
<1> QED BY <1>2, <1>3, <1>4

(* What is found after each rate: the fold's turns, one by one. *)
LEMMA ScanTurns ==
    ASSUME NEW t \in Seq(Nat), t = bitrates, NEW fit \in Int
    PROVE  \E L : /\ L[0] = Nothing /\ L[Len(t)] = Scan(fit)
                  /\ \A i \in 1..Len(t) : L[i] = Step(fit, L[i - 1], t[i])
<1> DEFINE n == Len(t)
           F == [p \in (1..n) \X Found |-> Step(fit, p[2], t[p[1]])]
<1>1. n \in Nat /\ DOMAIN t = 1..n /\ \A i \in 1..n : t[i] \in Nat
  OBVIOUS
<1> HIDE DEF n
<1>2. F \in [(1..n) \X Found -> Found]
  BY <1>1, StepIs
<1>3. \A i \in 1..n, a \in Found : F[<<i, a>>] = Step(fit, a, t[i])
  OBVIOUS
<1>0. Nothing \in Found
  BY DEF Nothing, Found
<1> HIDE DEF F
<1>4. PICK g \in [SUBSET (1..n) -> Found] :
        \A x \in SUBSET (1..n) :
            g[x] = IF x = {} THEN Nothing ELSE F[<<Max(x), g[x \ {Max(x)}]>>]
  <2>1. PICK V : V = Found
    OBVIOUS
  <2>2. Nothing \in V /\ Turns(F, n, V)
    BY <1>0, <1>2, <2>1 DEF Turns
  <2>3. \E g : FoldOf(g, F, Nothing, n, V)
    BY <1>1, <2>2, FoldExists
  <2> QED BY <2>1, <2>3 DEF FoldOf
<1>5. ASSUME NEW x \in SUBSET (1..n)
      PROVE  g[x] = IF x = {} THEN Nothing ELSE Step(fit, g[x \ {Max(x)}], t[Max(x)])
  <2>1. CASE x = {}
    BY <1>4, <2>1
  <2>2. CASE x # {}
    <3>1. Max(x) \in 1..n
      BY <1>1, <2>2, MaxIn
    <3>2. x \ {Max(x)} \in SUBSET (1..n) /\ g[x \ {Max(x)}] \in Found
      BY <1>4
    <3> QED BY <1>3, <1>4, <2>2, <3>1, <3>2
  <2> QED BY <2>1, <2>2
<1>6. g = [x \in SUBSET (1..n) |->
             IF x = {} THEN Nothing ELSE Step(fit, g[x \ {Max(x)}], t[Max(x)])]
  <2>1. DOMAIN g = SUBSET (1..n)
    BY <1>4
  <2> QED BY <1>5, <2>1
<1>7. PICK h : h = CHOOSE f : f = [x \in SUBSET (1..n) |->
          IF x = {} THEN Nothing ELSE Step(fit, f[x \ {Max(x)}], t[Max(x)])]
  OBVIOUS
<1>8. h = [x \in SUBSET (1..n) |->
             IF x = {} THEN Nothing ELSE Step(fit, h[x \ {Max(x)}], t[Max(x)])]
  BY <1>6, <1>7
<1>9. Scan(fit) = h[1..n]
  BY <1>1, <1>7 DEF Scan, Nothing, FoldLeft, MapThenFoldSet
<1> DEFINE L == [i \in 0..n |-> h[1..i]]
<1>10. L[0] = Nothing /\ L[n] = h[1..n]
  <2>1. 1..0 = {} /\ {} \in SUBSET (1..n) /\ 0 \in 0..n /\ n \in 0..n
    BY <1>1
  <2> QED BY <1>8, <2>1
<1>11. ASSUME NEW i \in 1..n PROVE L[i] = Step(fit, L[i - 1], t[i])
  <2>1. /\ 1..i \in SUBSET (1..n) /\ 1..i # {} /\ Max(1..i) = i
        /\ (1..i) \ {i} = 1..(i - 1)
    BY <1>1, IndexSets
  <2>2. h[1..i] = Step(fit, h[1..(i - 1)], t[i])
    BY <1>8, <2>1
  <2>3. i \in 0..n /\ i - 1 \in 0..n
    BY <1>1
  <2> QED BY <2>2, <2>3
<1> HIDE DEF L
<1>12. \A i \in 1..n : L[i] = Step(fit, L[i - 1], t[i])
  BY <1>11
<1>13. L[0] = Nothing /\ L[n] = Scan(fit)
  BY <1>9, <1>10
<1> QED BY <1>12, <1>13 DEF n

LEMMA ScanIs ==
    ASSUME bitrates \in Seq(Nat), NEW fit \in Int
    PROVE  Scan(fit) \in Found /\ FoundIn(Scan(fit), ToSet(bitrates), fit)
<1>0. PICK t \in Seq(Nat) : t = bitrates
  OBVIOUS
<1>1. PICK n \in Nat : n = Len(t)
  OBVIOUS
<1>2. DOMAIN t = 1..n /\ \A i \in 1..n : t[i] \in Nat
  BY <1>1
<1>3. PICK L : /\ L[0] = Nothing /\ L[n] = Scan(fit)
               /\ \A i \in 1..n : L[i] = Step(fit, L[i - 1], t[i])
  BY <1>0, <1>1, ScanTurns
<1> DEFINE First(i) == {t[m] : m \in 1..i}
           Good(a, i) == a \in Found /\ FoundIn(a, First(i), fit)
           D == {i \in Nat : i <= n => Good(L[i], i)}
<1>4. 0 \in D
  <2>1. First(0) = {}
    OBVIOUS
  <2> HIDE DEF First
  <2>2. Nothing \in Found /\ FoundIn(Nothing, {}, fit)
    BY DEF Nothing, Found, FoundIn
  <2> QED BY <1>3, <2>1, <2>2
<1>5. ASSUME NEW i \in Nat, i \in D PROVE i + 1 \in D
  <2> SUFFICES ASSUME i + 1 <= n PROVE Good(L[i + 1], i + 1)
    OBVIOUS
  <2>1. PICK m : m = i + 1
    OBVIOUS
  <2>2. m \in 1..n /\ m - 1 = i /\ t[m] \in Nat
    BY <1>1, <1>2, <2>1
  <2>3. PICK a, e : a = L[i] /\ e = t[m]
    OBVIOUS
  <2>4. Good(a, i) /\ e \in Nat
    BY <1>1, <1>5, <2>1, <2>2, <2>3
  <2>5. L[m] = Step(fit, a, e)
    BY <1>3, <2>2, <2>3
  <2>6. First(m) = First(i) \cup {e}
    <3>1. \A q : q \in 1..m <=> q \in 1..i \/ q = m
      BY <2>1
    <3> QED BY <2>3, <3>1
  <2>7. First(i) \in SUBSET Nat
    BY <1>1, <1>2
  <2> HIDE DEF First
  <2>8. Good(L[m], m)
    BY <2>4, <2>5, <2>6, <2>7, StepIs
  <2> QED BY <2>1, <2>8
<1> HIDE DEF D
<1>6. n \in D
  BY <1>4, <1>5, Induction
<1>7. First(n) = ToSet(bitrates)
  BY <1>0, <1>2 DEF ToSet
<1> HIDE DEF First
<1> QED BY <1>3, <1>6, <1>7 DEF D

(* Two thirds of an estimate, cut to an integer, carry what the fraction does. *)
LEMMA TwoThirds ==
    ASSUME NEW avg \in Int, NEW b \in Nat
    PROVE  /\ 3 * b <= 2 * avg => b <= Trunc(2 * avg, 3)
           /\ b > 0 /\ b <= Trunc(2 * avg, 3) => 3 * b <= 2 * avg
<1>1. PICK a \in Int : a = 2 * avg
  OBVIOUS
<1>2. 3 * b <= a => b <= Trunc(a, 3)
  BY TruncBounds
<1>3. CASE a >= 0
  <2>1. PICK t : t = a \div 3
    OBVIOUS
  <2>2. t \in Nat /\ 3 * t <= a /\ Trunc(a, 3) = t
    BY <1>3, <2>1, DivIs DEF Trunc
  <2> QED BY <1>1, <1>2, <2>2
<1>4. CASE a < 0
  <2>1. a <= 3 * 0
    BY <1>4
  <2>2. Trunc(a, 3) <= 0 /\ Trunc(a, 3) \in Int
    BY <2>1, TruncBounds
  <2> QED BY <1>1, <1>2, <2>2
<1> QED BY <1>3, <1>4

LEMMA ChoiceIs ==
    ASSUME bitrates \in Seq(Nat), NEW avg \in Int
    PROVE  /\ ChooseRate(avg) \in Nat
           /\ IsBestRate(ChooseRate(avg), ToSet(bitrates), avg)
<1>1. PICK fit \in Int : fit = Trunc(2 * avg, 3)
  <2>1. 2 * avg \in Int
    OBVIOUS
  <2> QED BY <2>1, TruncBounds
<1>2. PICK S \in SUBSET Nat : S = ToSet(bitrates)
  <2>1. \A i \in DOMAIN bitrates : bitrates[i] \in Nat
    OBVIOUS
  <2> QED BY <2>1 DEF ToSet
<1>3. PICK f \in Found : f = Scan(fit) /\ FoundIn(f, S, fit)
  BY <1>2, ScanIs
<1>4. f.chosen \in Nat /\ f.smallest \in Nat
  BY DEF Found
<1>5. PICK r \in Nat : r = ChooseRate(avg) /\ r = IF f.chosen <= 0 THEN f.smallest ELSE f.chosen
  BY <1>1, <1>3, <1>4 DEF ChooseRate
<1>6. \A b \in Nat : (3 * b <= 2 * avg => b <= fit) /\ (b > 0 /\ b <= fit => 3 * b <= 2 * avg)
  BY <1>1, TwoThirds
<1>7. CASE f.chosen > 0
  <2>1. r = f.chosen /\ r \in S /\ r <= fit
    BY <1>3, <1>4, <1>5, <1>7 DEF FoundIn
  <2>2. r \in Carried(S, avg)
    BY <1>4, <1>6, <1>7, <2>1 DEF Carried
  <2>3. \A b \in Carried(S, avg) : b <= r
    BY <1>3, <1>6, <2>1 DEF Carried, FoundIn
  <2> QED BY <1>2, <1>5, <2>2, <2>3 DEF IsBestRate
<1>8. CASE f.chosen = 0
  <2>1. r = f.smallest /\ r \in S \cup {100} /\ \A b \in S \cup {100} : r <= b
    BY <1>3, <1>5, <1>8 DEF FoundIn
  <2>2. \A b \in Carried(S, avg) : b \in S /\ b = 0 /\ 3 * b <= 2 * avg
    BY <1>3, <1>6, <1>8 DEF Carried, FoundIn
  <2>3. CASE Carried(S, avg) = {}
    BY <1>2, <1>5, <2>1, <2>3 DEF IsBestRate
  <2>4. CASE Carried(S, avg) # {}
    <3>1. 0 \in Carried(S, avg) /\ 0 \in S
      BY <2>2, <2>4
    <3>2. r = 0
      BY <2>1, <3>1
    <3>3. r \in Carried(S, avg) /\ \A b \in Carried(S, avg) : b <= r
      BY <2>2, <3>1, <3>2
    <3> QED BY <1>2, <1>5, <2>4, <3>3 DEF IsBestRate
  <2> QED BY <2>3, <2>4
<1> QED BY <1>4, <1>5, <1>7, <1>8


(* The list in force is that of the film latest names. *)
RateInv ==
    /\ bitrates \in Seq(Nat) /\ latest \in Films \cup {NoFilm}
    /\ rate \in Nat
    /\ samples \in 0..MaxSamples
    /\ status \in {"serving", "overrun"}
    /\ ToSet(bitrates) = Offered(latest)

LEMMA RateInit == Init => RateInv
<1>1. ToSet(<<>>) = {}
  BY ShortQueues
<1> QED BY <1>1, AdaptAssumption DEF Init, RateInv, Offered

LEMMA OfferedIs ==
    ASSUME NEW f \in Films
    PROVE  /\ ParseXml(Document[f]) \in Seq(Nat)
           /\ ToSet(ParseXml(Document[f])) = Offered(f)
<1>1. Document[f] \in Seq(Child) /\ f # NoFilm
  BY AdaptAssumption DEF Child
<1>2. /\ ParseXml(Document[f]) \in Seq(Nat)
      /\ ToSet(ParseXml(Document[f])) = Rates(ToSet(Document[f]))
  BY <1>1, ParsedIs
<1> QED BY <1>1, <1>2 DEF Offered, Rates

(* The estimate a request goes by is that of its pair: 0 when the entry is new. *)
LEMMA AsksBy ==
    ASSUME Inv, Inv', NEW c \in Conns, Request(c)
    PROVE  Estimate(PairOf[c]) \in Int /\ rate' = ChooseRate(Estimate(PairOf[c]))
<1>1. PICK p \in Pairs : p = PairOf[c]
  BY DEF Pairs
<1>2. PICK i \in DOMAIN thru_l' : /\ thru_l'[i].pair = p
                                  /\ rate' = ChooseRate(thru_l'[i].avg_put)
  BY <1>1 DEF Request
<1>3. thru_l \in Seq(Entry) /\ thru_l' \in Seq(Entry)
  BY DEF Inv
<1>4. thru_l'[i] \in Entry
  BY <1>3
<1>5. thru_l'[i].avg_put \in Int
  BY <1>4, IntsAre DEF Entry
<1>6. CASE IndexOf(p) # {} /\ UNCHANGED thru_l
  <2>1. i \in IndexOf(p)
    BY <1>2, <1>6 DEF IndexOf
  <2>2. Estimate(p) = thru_l[i].avg_put
    BY <2>1, EstimateIs
  <2> QED BY <1>1, <1>2, <1>5, <1>6, <2>2
<1>7. CASE IndexOf(p) = {} /\ thru_l' = Append(thru_l, [pair |-> p, avg_put |-> 0])
  <2>1. PICK e : e = [pair |-> p, avg_put |-> 0]
    OBVIOUS
  <2>2. e \in Entry /\ e.avg_put = 0
    BY <2>1, IntsAre DEF Entry
  <2>3. /\ DOMAIN thru_l' = 1..(Len(thru_l) + 1) /\ DOMAIN thru_l = 1..Len(thru_l)
        /\ Len(thru_l) \in Nat /\ thru_l'[Len(thru_l) + 1] = e
        /\ \A j \in 1..Len(thru_l) : thru_l'[j] = thru_l[j]
    BY <1>3, <1>7, <2>1, <2>2
  <2>4. i \notin 1..Len(thru_l)
    BY <1>2, <1>7, <2>3 DEF IndexOf
  <2>5. thru_l'[i] = e
    BY <2>3, <2>4
  <2>6. Estimate(p) = 0
    BY <1>7 DEF Estimate
  <2> QED BY <1>1, <1>2, <2>2, <2>5, <2>6
<1> QED BY <1>1, <1>6, <1>7 DEF Request, LookUp

LEMMA RateStep == Inv /\ Inv' /\ RateInv /\ [Next]_vars => RateInv'
<1> SUFFICES ASSUME Inv, Inv', RateInv, [Next]_vars PROVE RateInv'
  OBVIOUS
<1>1. ASSUME NEW f \in Films, Manifest(f) PROVE RateInv'
  <2>1. bitrates' \in Seq(Nat) /\ ToSet(bitrates') = Offered(latest')
    BY <1>1, OfferedIs DEF Manifest
  <2> QED BY <1>1, <2>1 DEF Manifest, RateInv, Offered
<1>2. ASSUME NEW c \in Conns, Request(c) PROVE RateInv'
  <2>1. rate' \in Nat
    BY <1>2, AsksBy, ChoiceIs DEF RateInv
  <2> QED BY <1>2, <2>1 DEF Request, RateInv, Offered
<1>3. ASSUME NEW c \in Conns, RequestOther(c) PROVE RateInv'
  BY <1>3 DEF RequestOther, RateInv, Offered
<1>4. ASSUME NEW c \in Conns, RequestOverruns(c) PROVE RateInv'
  BY <1>4 DEF RequestOverruns, RateInv, Offered
<1>5. ASSUME NEW c \in Conns, NEW kb \in Kilobits, NEW ms \in Milliseconds, Finish(c, kb, ms)
      PROVE  RateInv'
  <2>1. samples' \in 0..MaxSamples
    BY <1>5, AdaptAssumption DEF Finish, RateInv
  <2> QED BY <1>5, <2>1 DEF Finish, RateInv, Offered
<1>6. CASE UNCHANGED vars
  BY <1>6 DEF vars, RateInv, Offered
<1> QED BY <1>1, <1>2, <1>3, <1>4, <1>5, <1>6 DEF Next

LEMMA AdaptInit == Init => Inv /\ RateInv
BY RateInit DEF Init, Inv, OneEstimate, IndexOf

LEMMA AdaptStep == Inv /\ RateInv /\ [Next]_vars => (Inv /\ RateInv)'
BY StepInv, RateStep

(* The estimates stay integers and the rates asked for naturals, whatever  *)
(* the clock and the manifests do.                                         *)
THEOREM AdaptTypes == Spec => []TypeOK
<1>1. Inv /\ RateInv => TypeOK
  BY DEF Inv, RateInv, TypeOK, Entry
<1> QED BY <1>1, AdaptInit, AdaptStep, PTL DEF Spec

(* Every video request asks for the best rate its pair's estimate carries, *)
(* among those of the film whose manifest came in last with any.           *)
THEOREM AdaptAsksBest == Spec => BestRateAsked
<1> DEFINE Best == \A c \in Conns :
              Request(c) => IsBestRate(rate', Offered(latest), Estimate(PairOf[c]))
<1>1. Inv /\ Inv' /\ RateInv => Best
  BY AsksBy, ChoiceIs DEF RateInv
<1>2. ([][Best]_vars) => BestRateAsked
  BY DEF BestRateAsked
<1>3. Inv /\ Inv' /\ RateInv => [Best]_vars
  BY <1>1
<1> HIDE DEF Best
<1> QED BY <1>2, <1>3, AdaptInit, AdaptStep, PTL DEF Spec
=============================================================================
