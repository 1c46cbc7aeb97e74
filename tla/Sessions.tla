------------------------------ MODULE Sessions ------------------------------
(***************************************************************************)
(* What the pool promises, without tables of records or reference counts:  *)
(* viewers come, each is given tunnels to video servers, a tunnel belongs  *)
(* to one viewer, and a viewer leaves in the very step that takes its last *)
(* tunnel down.                                                            *)
(***************************************************************************)
EXTENDS Naturals

CONSTANTS Viewers,  (* names a viewer may have              *)
          Servers   (* names a server end may have          *)

VARIABLES viewers,  \* the viewers present
          tunnels   \* pairs <<viewer, server>>

vars == <<viewers, tunnels>>

TunnelsOf(v) == {t \in tunnels : t[1] = v}

Init == viewers = {} /\ tunnels = {}

Join(v) == /\ v \notin viewers
           /\ viewers' = viewers \cup {v}
           /\ UNCHANGED tunnels

Dial(v, s) == /\ v \in viewers
              /\ \A t \in tunnels : t[2] # s
              /\ tunnels' = tunnels \cup {<<v, s>>}
              /\ UNCHANGED viewers

HangUp(v, s) == /\ <<v, s>> \in tunnels
                /\ tunnels' = tunnels \ {<<v, s>>}
                /\ viewers' = IF TunnelsOf(v) = {<<v, s>>} THEN viewers \ {v} ELSE viewers

Next == \/ \E v \in Viewers : Join(v)
        \/ \E v \in Viewers, s \in Servers : Dial(v, s) \/ HangUp(v, s)

Spec == Init /\ [][Next]_vars
=============================================================================
