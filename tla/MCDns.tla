------------------------------- MODULE MCDns -------------------------------
(* Two proxies, one that may be missing from the LSA file, a host that asks *)
(* for another name, a router and two servers.                             *)
EXTENDS NameServer

CONSTANTS p1, p2, other, r1, s1, s2

TwoServers == <<s1, s2>>

Lsa(n, k, list) == [name |-> n, seq |-> k, nbrs |-> list]

Moved == { Lsa(p1, 0, <<r1>>), Lsa(r1, 0, <<p1, s1>>), Lsa(r1, 1, <<s2>>) }
=============================================================================
