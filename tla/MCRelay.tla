------------------------------ MODULE MCRelay ------------------------------
(* An instance of Relay for TLC: a chunk of two bytes and a manifest of one *)
(* on one connection, a chunk of one byte on another.                      *)
EXTENDS Relay

Chunk(e)    == [type |-> "f4f", end |-> e]
Manifest(e) == [type |-> "xml", end |-> e]

Two == <<<<Chunk(7), Manifest(13)>>, <<Chunk(6)>>>>

AnyFault == {"parts", "ahead", "die", "stall", "leave"}
FaultyFirst == <<AnyFault, {}>>
=============================================================================
