-------------------------------- MODULE Pipe --------------------------------
(***************************************************************************)
(* What the relaying of answers promises each connection: the viewer gets  *)
(* the bytes the server sent, each once and in order, as long as the       *)
(* stream is sound.  Nothing is promised once the server has ended early   *)
(* or a head was cut short.  A byte is its position in the stream.         *)
(***************************************************************************)
EXTENDS Integers, Sequences

CONSTANT Conns

VARIABLES sent,   \* how many bytes of each stream the server's side holds
          seen,   \* the positions the viewer has received, in order
          sound   \* whether the promise still stands

pipeVars == <<sent, seen, sound>>

InOrder(s) == \A i \in DOMAIN s : s[i] = i

PipeInit ==
    /\ sent = [k \in Conns |-> 0]
    /\ seen = [k \in Conns |-> <<>>]
    /\ sound = [k \in Conns |-> TRUE]

Write(k) ==
    /\ sent'[k] > sent[k]
    /\ \A j \in Conns \ {k} : sent'[j] = sent[j]
    /\ UNCHANGED <<seen, sound>>

(* What was received before stays; what is new continues it.               *)
Receive(k) ==
    /\ Len(seen'[k]) > Len(seen[k])
    /\ SubSeq(seen'[k], 1, Len(seen[k])) = seen[k]
    /\ sound[k] => InOrder(seen'[k]) /\ Len(seen'[k]) <= sent[k]
    /\ \A j \in Conns \ {k} : seen'[j] = seen[j]
    /\ UNCHANGED <<sent, sound>>

Break(k) ==
    /\ sound' = [sound EXCEPT ![k] = FALSE]
    /\ UNCHANGED <<sent, seen>>

PipeNext == \E k \in Conns : Write(k) \/ Receive(k) \/ Break(k)

PipeSpec == PipeInit /\ [][PipeNext]_pipeVars
=============================================================================
