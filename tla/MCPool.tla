------------------------------- MODULE MCPool -------------------------------
(* Instance of Pool for TLC: tables of three slots, one address, one       *)
(* descriptor fewer than three clients and their servers would need.       *)
EXTENDS Pool
=============================================================================
