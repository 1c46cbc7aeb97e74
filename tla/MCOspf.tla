------------------------------- MODULE MCOspf -------------------------------
(* Two clients, three routers in a ring, two servers; two rounds of        *)
(* announcements, the ring turned and one server moved in between.         *)
EXTENDS Ospf

CONSTANTS c1, c2, r1, r2, r3, s1, s2

OneServerLine  == <<s1>>
TwoServerLines == <<s1, s2>>

Lsa(n, k, list) == [name |-> n, seq |-> k, nbrs |-> list]

Rounds == {
    Lsa(c1, 0, <<r1>>),         Lsa(c1, 1, <<r2>>),
    Lsa(c2, 1, <<r2, r3>>),
    Lsa(r1, 0, <<c1, r2, r3>>), Lsa(r1, 1, <<r3, s2, r3>>),
    Lsa(r2, 0, <<r1, s2>>),     Lsa(r2, 1, <<r1, c1>>),
    Lsa(r3, 0, <<r1, s1>>),     Lsa(r3, 1, <<s1>>),
    Lsa(s1, 0, <<r3>>) }

(* One line of nodes, one round of its announcements; any may be lost.     *)
Line == { Lsa(c1, 0, <<r1>>), Lsa(r1, 0, <<c1, r2>>), Lsa(r2, 0, <<r1, s1>>),
          Lsa(s1, 0, <<r2>>) }
=============================================================================
