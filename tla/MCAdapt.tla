------------------------------ MODULE MCAdapt ------------------------------
(* Four connections, two of them between the same addresses; manifests in  *)
(* no order, one with nothing as low as 100, one with no bitrate at all; a  *)
(* clock that may stand still, go back, or show so short a time that the    *)
(* rate is more than an int holds.                                          *)
EXTENDS Adapt, TLC

CONSTANTS k1, k2, k3, k4, a, b, c, f1, f2, f3

SharedPair  == (k1 :> a) @@ (k2 :> a) @@ (k3 :> b) @@ (k4 :> c)
Media(n)    == [name |-> "media", bitrate |-> n]
Text        == [name |-> "text", bitrate |-> -1]
Manifests   == (f1 :> <<Text, Media(500), Media(10), Media(-1), Media(1000), Media(100), Text>>)
               @@ (f2 :> <<Text, Media(300), Media(200)>>)
               @@ (f3 :> <<Text, Media(-1)>>)
ClockSteps  == {-2000, 0, 1, 1000}
MinusMany   == -2000
=============================================================================
